------------------------------ MODULE Exercises ------------------------------
(***************************************************************************)
(* The programs of Practicas 2 and 3 that need no module of their own,     *)
(* each run on the machine of Threads.  A behaviour is an execution of one *)
(* of them.                                                                *)
(***************************************************************************)
EXTENDS Philosophers, ReadersWriters, Smokers, Buffers, Turnstiles

VARIABLES
  program,  \* its name
  calm      \* does pthread_cond_wait return only for a reason?

varsE == <<program, calm, threads>>

Exercise == [
  BergeEj3_b |-> BergeEj3_b, BergeEj3_c |-> BergeEj3_c, BergeEj3_d |-> BergeEj3_d,
  GattoEj3_d |-> GattoEj3_d, Deadlock |-> Deadlock,
  GattoLocks_a |-> GattoLocks_a, GattoLocks_b |-> GattoLocks_b, GattoLocks_c |-> GattoLocks_c,
  GattoSemaforos_a |-> GattoSemaforos_a, GattoSemaforos_b |-> GattoSemaforos_b,
  GattoSemaforos_c |-> GattoSemaforos_c, PrimerIntento_b |-> PrimerIntento_b,
  BergeEj7_c |-> BergeEj7_c, BergeEj7_d |-> BergeEj7_d, GattoEj7_b |-> GattoEj7_b,
  V2Ej7_c |-> V2Ej7_c, V2Ej7_d |-> V2Ej7_d, BergeEj6 |-> BergeEj6,
  V2Ej6_Libro |-> V2Ej6_Libro,
  BergeEj4_a |-> BergeEj4_a, BergeEj4_b |-> BergeEj4_b, V2Ej4_b |-> V2Ej4_b,
  ProductConsum |-> ProductConsum, GattoEj6 |-> GattoEj6, GattoEj13 |-> GattoEj13,
  BergeEj13 |-> BergeEj13, GattoEj13V2 |-> GattoEj13V2,
  V2Ej9 |-> V2Ej9, GattoEj10 |-> GattoEj10,
  BergePeter |-> BergePeter, V2Ej6_c |-> V2Ej6_c, V2Ej6_e |-> V2Ej6_e,
  BergeSinsinc |-> BergeSinsinc, BergeIncl |-> BergeIncl, BergeMutex |-> BergeMutex,
  V2Ej11 |-> V2Ej11, V2Ej10 |-> V2Ej10, V2Ej12 |-> V2Ej12, V2Ej4 |-> V2Ej4,
  Ejemplo_6_1 |-> Ejemplo_6_1 ]

Running == Exercise[program]
Uses(P, op) == \E t \in DOMAIN P.code : \E k \in DOMAIN P.code[t] : P.code[t][k].op = op

InitE ==
  /\ program \in DOMAIN Exercise /\ Load(Running)
  /\ calm \in BOOLEAN /\ (~Uses(Running, "sleep") => calm)

Turn(t) == t \in DOMAIN pc /\ Step(Running, t) /\ UNCHANGED <<program, calm>>
Stirs(t) == ~calm /\ WakesUp(Running, t) /\ UNCHANGED <<program, calm>>
Arrives(t) == t \in DOMAIN pc /\ Drains(t) /\ UNCHANGED <<program, calm>>
NextE == \E t \in DOMAIN pc : Turn(t) \/ Arrives(t) \/ Stirs(t)

\* POSIX schedules every thread that can run, and promises nothing about who
\* gets a mutex; writes reach memory.
SpecE == InitE /\ [][NextE]_varsE
  /\ \A t \in 1..4 : WF_varsE(Turn(t)) /\ WF_varsE(Arrives(t))

-----------------------------------------------------------------------------
\* The buffers hold no more than they have room for, or one more where the
\* code compares with ">", and nobody takes from an empty one; chairs, readers
\* and ingredients on the table are counted right.
WithinBounds == InRange(Running)

\* The files whose locking does not do what it is for: the philosopher who
\* eats without forks, thread B without locks, the reader who gives turno
\* back at once, the barrier where nobody waits, Peterson's algorithm without
\* a fence, the copy of a mutex; and V2's barrier, which tests nothing after
\* its wait, if a thread wakes up for no reason.
Unprotected == {"GattoEj3_d", "Deadlock", "PrimerIntento_b", "GattoEj10",
                "V2Ej6_c", "V2Ej6_e", "V2Ej12"}
Exclusion ==
  program \in Unprotected \/ (program = "V2Ej9" /\ ~calm) \/ KeptApart(Running)

\* The files that lose visitors, or add an element too many.  Ej6_e.c does
\* not: its increment needs no protection.
Losing == {"V2Ej6_c", "BergeSinsinc", "V2Ej10"}
NobodyIsLost == program \in Losing \/ EndsRight(Running)

\* The programs in which everybody can end up waiting.
Stopping == {"Deadlock", "GattoLocks_b", "GattoSemaforos_b", "PrimerIntento_b", "GattoEj7_b",
             "V2Ej12", "Ejemplo_6_1"}
OnlyTheseStop == Stuck(Running) => program \in Stopping

\* The programs in which somebody runs for ever and nothing is done: who
\* fails a trylock tries again at once; the smokers that find nothing, the
\* clients that find no chair and the threads of the condition variables
\* that do not wait take the mutex again before the one that needs it; and
\* in Berge's Ej6.c the client's first signal is lost if the barber does not
\* wait for it yet, while clients go on arriving.
Starving == {"BergeEj3_d", "BergeEj7_c", "V2Ej7_c", "V2Ej6_Libro", "BergeEj13",
             "GattoEj13V2", "BergeEj6"}

\* The others go on for ever or come to their end, whatever the scheduler
\* does, when wake-ups have a reason.
WorkGoesOn == calm /\ program \notin Stopping \cup Starving =>
  []<>(Finished(Running) \/ \E t \in DOMAIN pc : Working(Running, t))
=============================================================================
