----------------------------- MODULE Philosophers -----------------------------
(***************************************************************************)
(* The dining philosophers of Practica 3, Ejercicio 3, and the two threads *)
(* of deadlock.c.  Fork i lies to the left of philosopher i.               *)
(***************************************************************************)
EXTENDS Threads

CONSTANT Filosofos  \* N_FILOSOFOS

Tenedor(i) == "tenedor" \o ToString(i)
Izq(i) == Tenedor(i)
Der(i) == Tenedor((i + 1) % Filosofos)
Comer(i) == "comer" \o ToString(i)
Sillas == 0..(Filosofos - 1)

\* One thread for each philosopher; neighbours share a fork.
Mesa(filosofo, extra) == Program(
  [t \in 1..Filosofos |-> filosofo[t - 1]],
  [i \in {Tenedor(k) : k \in Sillas} |-> 1] @@ extra,
  {<<Comer(i), Comer((i + 1) % Filosofos)>> : i \in Sillas}, <<>>)

Diestro(i) ==
  Lock(Der(i)) \o Lock(Izq(i)) \o Do(Comer(i)) \o Unlock(Der(i)) \o Unlock(Izq(i))
Zurdo(i) ==
  Lock(Izq(i)) \o Lock(Der(i)) \o Do(Comer(i)) \o Unlock(Izq(i)) \o Unlock(Der(i))

\* Mutant: nobody is left-handed.
TodosDiestros == Mesa([i \in Sillas |-> Diestro(i)], <<>>)

\* Ej3_b.c: philosopher 0 is left-handed.
BergeEj3_b == Mesa([i \in Sillas |-> IF i = 0 THEN Zurdo(i) ELSE Diestro(i)], <<>>)

\* Ej3_c.c: one fewer than all of them may try to eat.
BergeEj3_c == Mesa(
  [i \in Sillas |-> Wait("comiendo") \o Diestro(i) \o Post("comiendo")],
  "comiendo" :> Filosofos - 1)

\* Ej3_d.c: who does not get the left fork puts the right one down and tries
\* again.
BergeEj3_d == Mesa([i \in Sillas |->
  Lock(Der(i)) \o WhileNot(Izq(i), Unlock(Der(i)) \o Lock(Der(i))) \o
  Do(Comer(i)) \o Unlock(Der(i)) \o Unlock(Izq(i))], <<>>)

\* Gatto's Ej3_d.c: who does not get the left fork puts the right one down,
\* eats all the same, and puts both down.
GattoEj3_d == Mesa([i \in Sillas |->
  Lock(Der(i)) \o IfNot(Izq(i), Unlock(Der(i))) \o
  Do(Comer(i)) \o Unlock(Der(i)) \o Unlock(Izq(i))], <<>>)

\* The other copies differ in white space, in the place of pensar, and in names.
GattoEj3_b == BergeEj3_b
GattoEj3_c == BergeEj3_c
V2Ej3_b == BergeEj3_b
V2Ej3_c == BergeEj3_c
V2Ej3_d == BergeEj3_d

\* deadlock.c: thread A tries resource 2, gives resource 1 back if it is busy,
\* and then locks resource 2, which it may hold already; thread B goes into
\* its critical section in either case.  Both end.
Deadlock == Program(
  << Lock("uno") \o IfNot("dos", Unlock("uno")) \o Lock("dos") \o Do("A") \o
       Unlock("dos") \o Unlock("uno") \o End,
     Lock("dos") \o IfNot("uno", Unlock("dos")) \o Do("B") \o
       Unlock("uno") \o Unlock("dos") \o End >>,
  [i \in {"uno", "dos"} |-> 1], {<<"A", "B">>}, <<>>)
=============================================================================
