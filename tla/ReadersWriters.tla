---------------------------- MODULE ReadersWriters ----------------------------
(***************************************************************************)
(* Gatto's readers and writers (Practica 3, Ejercicio 5) in their two      *)
(* versions, with mutexes and with semaphores: (a) readers come first,     *)
(* (b) writers come first, (c) whoever comes first.  All of them let the   *)
(* first reader take the turn of the writers and the last give it back.    *)
(* The copies in "primeros intentos" that differ only in a sleep or a      *)
(* comment have the same definition.                                       *)
(***************************************************************************)
EXTENDS Threads

\* Two threads of each kind.
LectoresEscritores(escritor, lector) == Program(
  <<escritor, escritor, lector, lector>>,
  [x \in {"turno", "lectores", "escritores", "starvation", "justo"} |-> 1] @@
  [x \in {"cantLectores", "cantEscritores"} |-> 0],
  {<<"escribir", "escribir">>, <<"escribir", "leer">>},
  [cantLectores |-> 0..2, cantEscritores |-> 0..2])

Entra == Add("cantLectores", 1) \o If("cantLectores", {1}, Wait("turno"))

\* What gives back a turn: pthread_mutex_unlock sets it, sem_post adds to it.
Mutexes == "set"
Semaforos == "add"
Libera(con, x) == Instruction(con, x, 1)

Sale(con) == Add("cantLectores", -1) \o If("cantLectores", {0}, Libera(con, "turno"))
Escribe(con) == Wait("turno") \o Do("escribir") \o Libera(con, "turno")
Lee(con) ==
  Do("leer") \o Wait("lectores") \o Sale(con) \o Libera(con, "lectores")
GattoLocks_a == LectoresEscritores(Escribe(Mutexes),
  Wait("lectores") \o Entra \o Unlock("lectores") \o
  Wait("lectores") \o Do("leer") \o Sale(Mutexes) \o Unlock("lectores"))

\* Mutant: the first reader does not take the turn.
SemaforosSinTurno == LectoresEscritores(Escribe(Semaforos),
  Wait("lectores") \o Add("cantLectores", 1) \o Post("lectores") \o Lee(Semaforos))

GattoSemaforos_a == LectoresEscritores(Escribe(Semaforos),
  Wait("lectores") \o Entra \o Post("lectores") \o Lee(Semaforos))

\* The first writer keeps the readers out.  The last one should let them in
\* again; it takes cierra instead.
EscritorPrimero(con, cierra) ==
  Wait("escritores") \o Add("cantEscritores", 1) \o
  If("cantEscritores", {1}, Wait("starvation")) \o Libera(con, "escritores") \o
  Escribe(con) \o
  Wait("escritores") \o Add("cantEscritores", -1) \o
  If("cantEscritores", {0}, Wait(cierra)) \o Libera(con, "escritores")

LectorDespues(con) ==
  Wait("starvation") \o Wait("lectores") \o Entra \o
  Libera(con, "lectores") \o Libera(con, "starvation") \o Lee(con)

GattoLocks_b == LectoresEscritores(EscritorPrimero(Mutexes, "turno"), LectorDespues(Mutexes))
GattoSemaforos_b ==
  LectoresEscritores(EscritorPrimero(Semaforos, "starvation"), LectorDespues(Semaforos))

\* The first attempt: readers pass by starvation, and give turno back at once.
PrimerIntento_b == LectoresEscritores(EscritorPrimero(Semaforos, "starvation"),
  Wait("lectores") \o Entra \o Post("lectores") \o Post("turno") \o Lee(Semaforos))

\* Both kinds queue for justo.
Justo(con) == LectoresEscritores(
  Wait("justo") \o Wait("turno") \o Libera(con, "justo") \o Do("escribir") \o Libera(con, "turno"),
  Wait("justo") \o Wait("lectores") \o Entra \o
    Libera(con, "justo") \o Libera(con, "lectores") \o Lee(con))

GattoLocks_c == Justo(Mutexes)
GattoSemaforos_c == Justo(Semaforos)

PrimerLocks_a == GattoLocks_a
PrimerLocks_b == GattoLocks_b
PrimerLocks_c == GattoLocks_c
PrimerSemaforos_a == GattoSemaforos_a
PrimerSemaforos_c == GattoSemaforos_c
ViejoLocks_a == GattoLocks_a
ViejoLocks_b == GattoLocks_b
ViejoLocks_c == GattoLocks_c
=============================================================================
