------------------------------ MODULE SyncChannel ------------------------------
(***************************************************************************)
(* channel.h of Ejercicio 11: a channel of one value and two semaphores.   *)
(* Writes are numbered in the order in which they store their value, and   *)
(* the number stands for the value.                                        *)
(***************************************************************************)
EXTENDS Naturals, FiniteSets, Sequences

CONSTANTS
  Senders,     \* the threads that call chan_write
  Receivers,   \* the threads that call chan_read
  MaxWrites    \* bound: values written

VARIABLES
  pc,            \* what each thread does next
  read, write,   \* values of the semaphores
  v,             \* the value in the channel, 0 before the first
  taken          \* the values chan_read has returned, in order

vars == <<pc, read, write, v, taken>>

-----------------------------------------------------------------------------
\* channel_init
Init ==
  /\ pc = [t \in Senders \cup Receivers |-> "out"]
  /\ read = 0 /\ write = 0
  /\ v = 0
  /\ taken = <<>>

Go(t, from, to) == pc[t] = from /\ pc' = [pc EXCEPT ![t] = to]

\* chan_write: sem_wait on read, the store, sem_post on write.
AwaitReader(t) ==
  /\ Go(t, "out", "store")
  /\ read > 0 /\ read' = read - 1
  /\ UNCHANGED <<write, v, taken>>

Store(t) ==
  /\ Go(t, "store", "stored")
  /\ v < MaxWrites
  /\ v' = v + 1
  /\ UNCHANGED <<read, write, taken>>

\* Mutant: the reader is not told.
TellReaderNot(t) ==
  /\ Go(t, "stored", "out")
  /\ UNCHANGED <<read, write, v, taken>>

\* Mutant: the reader is told twice.
TellReaderTwice(t) ==
  /\ Go(t, "stored", "out")
  /\ write' = write + 2
  /\ UNCHANGED <<read, v, taken>>

TellReader(t) ==
  /\ Go(t, "stored", "out")
  /\ write' = write + 1
  /\ UNCHANGED <<read, v, taken>>

\* chan_read: sem_post on read, sem_wait on write, the load.
Ask(t) ==
  /\ Go(t, "out", "asked")
  /\ read' = read + 1
  /\ UNCHANGED <<write, v, taken>>

AwaitWriter(t) ==
  /\ Go(t, "asked", "load")
  /\ write > 0 /\ write' = write - 1
  /\ UNCHANGED <<read, v, taken>>

Load(t) ==
  /\ Go(t, "load", "out")
  /\ taken' = Append(taken, v)
  /\ UNCHANGED <<read, write, v>>

Write(t) == AwaitReader(t) \/ Store(t) \/ TellReader(t)
Read(t) == Ask(t) \/ AwaitWriter(t) \/ Load(t)

Next ==
  \/ \E t \in Senders : AwaitReader(t) \/ Store(t) \/ TellReader(t)
  \/ \E t \in Receivers : Ask(t) \/ AwaitWriter(t) \/ Load(t)

Spec == Init /\ [][Next]_vars

-----------------------------------------------------------------------------
\* The k-th read to return gives the k-th value or a later one, at most as much
\* later as there are other readers: each of those may have admitted a writer that
\* stores its value before this reader loads.  No read returns before a value of
\* its own is written.  With the one reader of main.c: every value, once, in order.
\* ("Canal sincrono, sirve para compartir el valor", prod-cons.c:12: of its five
\* readers two may read one value, and nobody another.)
ReadsFollowWrites ==
  \A k \in DOMAIN taken : taken[k] \in k..(k + Cardinality(Receivers) - 1)

\* For every value that is written one is read.
WritesAreRead == \A k \in 1..MaxWrites : v = k ~> Len(taken) >= k

=============================================================================
