------------------------------- MODULE Buffers -------------------------------
(***************************************************************************)
(* Producers and consumers (Practica 3, Ejercicios 4 and 13, ProductConsum *)
(* and Gatto's Ejercicio 6), and the two barriers of V2 Ejercicio 9 and    *)
(* Gatto's Ejercicio 10.  num is the number of elements in the buffer;     *)
(* where the code has no such variable it is add - rem.                    *)
(***************************************************************************)
EXTENDS Threads

CONSTANTS
  Size,  \* BUFFER_SIZE, SZ, N_SILLAS
  Each   \* the producers, and as many consumers

ASSUME SizeAssumption == Size \in Nat \ {0} /\ Each \in 1..Size

\* What may be in the buffer, when producers wait for num to be in full.
Buffer(productor, consumidor, each, most) == Program(
  [t \in 1..(2 * each) |-> IF t <= each THEN productor ELSE consumidor],
  [x \in {"num", "ocupados", "threadCount", "s", "h"} |-> 0] @@
  [x \in {"mutex", "x"} |-> 1] @@ "lugares" :> Size,
  {<<"producir", "producir">>, <<"producir", "consumir">>, <<"consumir", "consumir">>},
  [num |-> 0..most])

Produce == Do("producir") \o Add("num", 1)
Consume == Do("consumir") \o Add("num", -1)

\* Ej4_a.c: semaphores count the places and the elements.
BergeEj4_a == Buffer(
  Wait("lugares") \o Wait("mutex") \o Produce \o Post("mutex") \o Post("ocupados"),
  Wait("ocupados") \o Wait("mutex") \o Consume \o Post("mutex") \o Post("lugares"),
  Each, Size)
GattoEj4_a == BergeEj4_a
V2Ej4_a == BergeEj4_a

\* With two condition variables; producers wait while num is in full.
Condiciones(full, each, most) == Buffer(
  Lock("mutex") \o While("num", full, CondWait("no_full", "mutex")) \o Produce \o
    Signal("no_empty") \o Unlock("mutex"),
  Lock("mutex") \o While("num", {0}, CondWait("no_empty", "mutex")) \o Consume \o
    Signal("no_full") \o Unlock("mutex"),
  each, most)
Full == Size..(Size + 1)        \* num >= SZ
OverFull == {Size + 1}          \* num > BUFFER_SIZE

\* Mutant: V2Ej4_b with the comparison of the others.
V2Ej4_bMayor == Condiciones(OverFull, Each, Size)

V2Ej4_b == Condiciones(Full, Each, Size)
GattoEj6 == Condiciones(Full, 1, Size)   \* clients and barber

\* The comparison lets one element be written over another.
BergeEj4_b == Condiciones(OverFull, Each, Size + 1)
GattoEj4_b == BergeEj4_b
ProductConsum == Condiciones(OverFull, 1, Size + 1)

\* One condition variable for both kinds, made of semaphores.
DeSemaforos(full, Espera, Avisa, most) == Buffer(
  Wait("mutex") \o While("num", full, Espera) \o Produce \o Avisa \o Post("mutex"),
  Wait("mutex") \o While("num", {0}, Espera) \o Consume \o Avisa \o Post("mutex"),
  Each, most)

\* Mutant: wait forgets to say that it waits.
GattoWaitMudo == Post("mutex") \o Wait("s") \o Post("h") \o Wait("mutex")

\* Gatto's wait and signal: the thread that signals waits for the other's
\* answer (h).  Nothing calls brodcast.
GattoWait == Wait("x") \o Add("threadCount", 1) \o Post("x") \o Post("mutex") \o
  Wait("s") \o Post("h") \o Wait("mutex")
GattoSignal == Wait("x") \o
  If("threadCount", 1..(2 * Each), Add("threadCount", -1) \o Post("s") \o Wait("h")) \o
  Post("x")
GattoEj13 == DeSemaforos(Full, GattoWait, GattoSignal, Size)

\* Berge's and mainV2's wait puts a semaphore of its own in a queue, which
\* starts at 1: the wait on it passes at once, and its place in the queue and
\* the signal that one day takes it out again have no effect.  But Berge's
\* signal frees it, which its owner may have posted the mutex and not come to use
\* yet; whose turn in the queue it is is left open.
SinEsperar(pasa) == Wait("x") \o Post("x") \o Post("mutex") \o pasa \o Wait("mutex")
Desencolar(libera) == Wait("x") \o libera \o Post("x")
BergeEj13 == DeSemaforos(Full, SinEsperar(Own), Desencolar(Free), Size)
GattoEj13V2 == DeSemaforos(OverFull, SinEsperar(<<>>), Desencolar(<<>>), Size + 1)

-----------------------------------------------------------------------------
\* One round: nobody is behind the barrier while another is before it.
Hilos == 3
Ronda(barrera) == Program(
  [t \in 1..Hilos |-> Do("antes") \o barrera \o Do("despues") \o End],
  [mutex |-> 1, esperando |-> 0], {<<"antes", "despues">>}, [esperando |-> 0..(Hilos - 1)])

\* barreras.h: the last one to arrive wakes the others up.
V2Ej9 == Ronda(Lock("mutex") \o
  IfElse("esperando", {Hilos - 1}, Broadcast("cond"),
         Add("esperando", 1) \o CondWait("cond", "mutex")) \o Unlock("mutex"))

\* Gatto's barrier.h: the threads are counted, and none waits.
GattoEj10 == Ronda(Lock("mutex") \o
  IfElse("esperando", {Hilos - 1}, Set("esperando", 0), Add("esperando", 1)) \o
  Unlock("mutex"))
=============================================================================
