-------------------------------- MODULE RWLock --------------------------------
(***************************************************************************)
(* What a readers-writer lock promises to the threads of Ejercicio 5: a    *)
(* lector reads only while nobody writes, and an escritor writes alone.    *)
(***************************************************************************)
CONSTANT Threads

VARIABLE mode   \* where each thread is: "out", "reading" or "writing"

Init == mode = [t \in Threads |-> "out"]

BeginRead(t) ==
  /\ mode[t] = "out"
  /\ \A u \in Threads : mode[u] # "writing"
  /\ mode' = [mode EXCEPT ![t] = "reading"]

BeginWrite(t) ==
  /\ \A u \in Threads : mode[u] = "out"
  /\ mode' = [mode EXCEPT ![t] = "writing"]

End(t) ==
  /\ mode[t] # "out"
  /\ mode' = [mode EXCEPT ![t] = "out"]

Next == \E t \in Threads : BeginRead(t) \/ BeginWrite(t) \/ End(t)

Spec == Init /\ [][Next]_mode

\* lector prints "error de lectura" when arr changes under it: that needs a
\* writer beside it, or two writers.
Exclusion == \A t, u \in Threads :
  mode[t] = "writing" /\ t # u => mode[u] = "out"

=============================================================================
