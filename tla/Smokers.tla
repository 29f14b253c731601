------------------------------- MODULE Smokers -------------------------------
(***************************************************************************)
(* The smokers (Practica 3, Ejercicio 7) and the barbers (Ejercicio 6).    *)
(***************************************************************************)
EXTENDS Threads

CONSTANT Chairs  \* N_SILLAS

Fumar == Do("fumar")
Fumadores(agente, fumador, apart, most) == Program(
  <<agente, fumador[1], fumador[2], fumador[3]>>,
  [x \in {"tabaco", "papel", "fosforos", "fumador1", "fumador2", "fumador3",
          "caso", "ambos", "dormidos"} |-> 0] @@
  [x \in {"otra_vez", "mutex"} |-> 1],
  apart, [x \in {"tabaco", "papel", "fosforos", "fumador1", "fumador2", "fumador3",
                  "otra_vez"} |-> 0..most])

Juntos == {<<"fumar", "fumar">>}
Usa == << <<"tabaco", "papel">>, <<"fosforos", "tabaco">>, <<"papel", "fosforos">> >>

\* The agent puts two of the three ingredients on the table.
Agente == Wait("otra_vez") \o Choose("caso", 0..2) \o
  If("caso", {1, 2}, Post("fosforos")) \o
  If("caso", {0, 2}, Post("papel")) \o
  If("caso", {0, 1}, Post("tabaco"))

\* Of the smokers that find nothing to smoke, the first sleeps and the second
\* wakes it up.
Dormir == Add("dormidos", 1) \o
  IfElse("dormidos", {0, 1}, CondWait("cond", "mutex"), Broadcast("cond") \o Set("dormidos", 0))
Despertar == Broadcast("cond") \o Post("otra_vez")

\* A smoker looks (sem_getvalue) before it takes; hay are the values that
\* count as "there is some".
Fumador(i, hay, fuma) ==
  Lock("mutex") \o Set("ambos", 0) \o
  If(Usa[i][1], hay, If(Usa[i][2], hay, Set("ambos", 1))) \o
  IfElse("ambos", {1}, Wait(Usa[i][1]) \o Wait(Usa[i][2]) \o fuma, Dormir) \o
  Unlock("mutex")

\* "t & p" looks at the last bit, "p && t" at the whole number.
BergeEj7_c == Fumadores(Agente, [i \in 1..3 |-> Fumador(i, {1, 3}, Despertar \o Fumar)], Juntos, 1)
V2Ej7_c == Fumadores(Agente, [i \in 1..3 |-> Fumador(i, 1..4, Fumar \o Despertar)], Juntos, 1)

\* The agent calls the smoker itself.
Llama == Wait("otra_vez") \o Choose("caso", 0..2) \o If("caso", {0}, Post("fumador1")) \o
  If("caso", {1}, Post("fumador2")) \o If("caso", {2}, Post("fumador3"))
Nombre == <<"fumador1", "fumador2", "fumador3">>

BergeEj7_d == Fumadores(Llama,
  [i \in 1..3 |-> Wait(Nombre[i]) \o Post("otra_vez") \o Fumar], {}, 1)
V2Ej7_d == Fumadores(Llama,
  [i \in 1..3 |-> Wait(Nombre[i]) \o Fumar \o Post("otra_vez")], Juntos, 1)

\* Each smoker asks for more before it takes anything.
GattoEj7_b == Fumadores(Agente,
  [i \in 1..3 |-> Post("otra_vez") \o Wait(Usa[i][1]) \o Wait(Usa[i][2]) \o Fumar], {}, 8)

-----------------------------------------------------------------------------
\* Ej6.c: clients only occupy chairs (barberia); one thread is the client
\* whose turn it is, and talks with the barber by signals that are lost when
\* nobody waits for them.
Responde(otro, yo) == Signal(otro) \o CondWait(yo, "trato")
BergeEj6 == Program(
  << Lock("silla") \o
       IfElse("ocupadas", {Chairs}, <<>>,
              Add("ocupadas", 1) \o If("ocupadas", {1}, Signal("no_vacio"))) \o
       Unlock("silla"),
     Lock("silla") \o While("ocupadas", {0}, CondWait("no_vacio", "silla")) \o Unlock("silla") \o
       Lock("trato") \o Responde("barbero", "cliente") \o
       Do("paga") \o Responde("barbero", "cliente") \o
       Lock("silla") \o Add("ocupadas", -1) \o Unlock("silla") \o Unlock("trato"),
     Lock("trato") \o CondWait("barbero", "trato") \o
       Loop(Do("corta") \o Responde("cliente", "barbero") \o
            Do("cobra") \o Responde("cliente", "barbero")) >>,
  [silla |-> 1, trato |-> 1, ocupadas |-> 0],
  {<<"corta", "paga">>, <<"cobra", "paga">>}, [ocupadas |-> 0..Chairs])

\* Ej6_Libro.c: every client is a thread, which leaves when all chairs are
\* taken; when it ends, the next of the TOTAL takes its place.
V2Ej6_Libro == LET
    cliente == Wait("mutex") \o IfElse("clientes", {Chairs}, Post("mutex"),
      Add("clientes", 1) \o Post("mutex") \o
      Post("cliente") \o Wait("barbero") \o Do("sentado") \o
      Post("clienteTermino") \o Wait("barberoTermino") \o
      Wait("mutex") \o Add("clientes", -1) \o Post("mutex"))
    barbero == Wait("cliente") \o Post("barbero") \o Do("corta") \o
      Wait("clienteTermino") \o Post("barberoTermino")
  IN Program(<<barbero, cliente, cliente, cliente>>,
       [x \in {"clientes", "cliente", "barbero", "clienteTermino", "barberoTermino"} |-> 0] @@
       "mutex" :> 1,
       {<<"sentado", "sentado">>},
       [clientes |-> 0..Chairs])
=============================================================================
