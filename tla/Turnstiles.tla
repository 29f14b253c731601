------------------------------ MODULE Turnstiles ------------------------------
(***************************************************************************)
(* The garden with two turnstiles (Practica 2, Ejercicios 5, 6, 8, 9 and   *)
(* 11, Clase Martes), two threads that add to one counter; and the other   *)
(* small programs of Practica 2 and of the slides.  The compiler is taken  *)
(* to leave the order of the statements alone.                             *)
(***************************************************************************)
EXTENDS Threads

CONSTANT Personas  \* N_PERSONAS, VISITANTES: the visitors at each turnstile

Otro(id) == 3 - id
Registro(id) == <<"r1", "r2">>[id]
Flag(id) == <<"flag1", "flag2">>[id]

Veces(n, body) == [k \in 1..(n * Len(body)) |-> body[((k - 1) % Len(body)) + 1]]

\* Two threads that do vuelta[id] for each visitor, between pairs of marks.
Jardin(vuelta) == EndsWith(Program(
    [id \in 1..2 |-> Veces(Personas, vuelta[id]) \o End],
    [x \in {"suma", "turno", "flag1", "flag2", "r1", "r2"} |-> 0] @@ "mutex" :> 1,
    {<<"rc", "rc">>}, <<>>),
  [suma |-> 2 * Personas])

Suma(id) == Do("rc") \o Increment("suma", Registro(id))

\* Peterson's algorithm.
Peterson(id, valla, rc) ==
  Write(Flag(id), 1) \o Write("turno", Otro(id)) \o valla \o
  If(Flag(Otro(id)), {1}, If("turno", {Otro(id)}, Instruction("jump", "", -2))) \o
  rc \o Write(Flag(id), 0)

\* peter.c, Ejercicio 5, V2's Peterson.c: with mfence.
ConValla == [id \in 1..2 |-> Peterson(id, Fence, Suma(id))]
\* Mutant: the two writes the other way round.
PetersonAlReves == Jardin([id \in 1..2 |->
  Write("turno", Otro(id)) \o Write(Flag(id), 1) \o Fence \o
  If(Flag(Otro(id)), {1}, If("turno", {Otro(id)}, Instruction("jump", "", -2))) \o
  Suma(id) \o Write(Flag(id), 0)])
BergePeter == Jardin(ConValla)
BergeEj5 == BergePeter
V2Peterson == BergePeter
V2Ej5 == BergePeter

\* V2's Ej6_c.c and the molinetes of the class: without.
SinValla == [id \in 1..2 |-> Peterson(id, <<>>, Suma(id))]
V2Ej6_c == Jardin(SinValla)
Molinetes == V2Ej6_c
Practica2 == V2Ej6_c

\* V2's Ej6_e.c: without, but the increment is one locked instruction.
Incl(id) == Do("rc") \o Add("suma", 1)
V2Ej6_e == Jardin([id \in 1..2 |-> Peterson(id, <<>>, Incl(id))])

\* Nothing but the increment.
BergeSinsinc == Jardin([id \in 1..2 |-> Increment("suma", Registro(id))])
V2Sinsinc == BergeSinsinc
V2Ej8 == BergeSinsinc
V2Ej6_cSinPeterson == BergeSinsinc
BergeIncl == Jardin([id \in 1..2 |-> Add("suma", 1)])
V2Incl == BergeIncl
V2Ej6_eSinPeterson == BergeIncl

\* With a mutex; Ejercicio 10 adds the elements of an array.
BergeMutex == Jardin([id \in 1..2 |-> Lock("mutex") \o Suma(id) \o Unlock("mutex")])
V2Mutex == BergeMutex
BergeEj10 == BergeMutex

\* V2's Ejercicio 11: compare and swap.
V2Ej11 == Jardin([id \in 1..2 |->
  Read(Registro(id), "suma") \o CompareAndSwap("suma", Registro(id))])

-----------------------------------------------------------------------------
\* V2's Ejercicio 10: "posicion < LIMITE" is read outside the lock, so that
\* one element too many is added.
V2Ej10 == LET
    hilo(id) == While("posicion", 0..1,
      Lock("mutex") \o Increment("total", Registro(id)) \o Increment("posicion", Registro(id)) \o
      Unlock("mutex")) \o End
  IN EndsWith(Program(<<hilo(1), hilo(2)>>,
       [mutex |-> 1, total |-> 0, posicion |-> 0, r1 |-> 0, r2 |-> 0], {},
       [posicion |-> 0..3]), [total |-> 2])

\* V2's Ejercicio 12: main locks a copy of the mutex, taken while foo may
\* have it.
V2Ej12 == Program(
  << Lock("a") \o Do("foo") \o Unlock("a") \o End,
     Read("b", "a") \o Lock("b") \o Do("bar") \o Unlock("b") \o End >>,
  [a |-> 1, b |-> 1], {<<"foo", "bar">>}, <<>>)

\* V2's Ejercicio 4: "assert(x == 123)" once y is 1.
V2Ej4 == EndsWith(Program(
  << Write("x", 123) \o Write("y", 1) \o End,
     While("y", {0}, <<>>) \o Read("r1", "x") \o End >>,
  [x |-> 0, y |-> 0, r1 |-> 0], {}, <<>>), [r1 |-> 123])

\* Ejemplo_6_1.c: two mutexes, taken in one order and in the other.
Ejemplo_6_1 == LET
    hilo(id, uno, dos) == Veces(Personas,
      Lock(uno) \o Lock(dos) \o Suma(id) \o Unlock(dos) \o Unlock(uno)) \o End
  IN EndsWith(Program(<<hilo(1, "mutex1", "mutex2"), hilo(2, "mutex2", "mutex1")>>,
       [mutex1 |-> 1, mutex2 |-> 1, suma |-> 0, r1 |-> 0, r2 |-> 0],
       {<<"rc", "rc">>}, <<>>), [suma |-> 2 * Personas])
=============================================================================
