---------------------------- MODULE Synchronisation ----------------------------
(* The queue lock, the two barriers and the synchronous channel side by    *)
(* side: a behaviour is one of a single one of them, and the variables of  *)
(* the rest keep their first values.                                       *)
EXTENDS Naturals, FiniteSets, Sequences

CONSTANTS
  Readers, Writers,              \* of the lock
  Parties, Nobody, Rounds,       \* of the barriers
  Senders, Receivers, MaxWrites  \* of the channel

ASSUME LockAssumption ==
  IsFiniteSet(Readers \cup Writers) /\ Readers \cap Writers = {}
ASSUME BarrierAssumption ==
  IsFiniteSet(Parties) /\ Nobody \notin Parties /\ Rounds \in Nat
ASSUME ChannelAssumption ==
  /\ IsFiniteSet(Senders) /\ IsFiniteSet(Receivers)
  /\ Senders \cap Receivers = {} /\ MaxWrites \in Nat

VARIABLES
  which,  \* the module in whose behaviour this state is
  pc, queue, asleep, waiting_writers, is_writing, active_readers,  \* RWLockFair
  spin, master, liberando, waiting_processes, arrived, left,       \* BarrierSpin
  inside, sleeping, esperando, came, went, woken,                  \* BarrierCond
  call, read, write, v, taken                                      \* SyncChannel

Fair == INSTANCE RWLockFair
Spin == INSTANCE BarrierSpin WITH pc <- spin, Threads <- Parties
Cond == INSTANCE BarrierCond WITH Threads <- Parties,
  asleep <- sleeping, waiting_processes <- esperando, arrived <- came, left <- went
Channel == INSTANCE SyncChannel WITH pc <- call

fair == <<pc, queue, asleep, waiting_writers, is_writing, active_readers>>
spins == <<spin, master, liberando, waiting_processes, arrived, left>>
conds == <<inside, sleeping, esperando, came, went, woken>>
channel == <<call, read, write, v, taken>>
varsY == <<which, fair, spins, conds, channel>>

InitY ==
  /\ which \in {"Fair", "Spin", "Cond", "Channel"}
  /\ Fair!Init /\ Spin!Init /\ Cond!Init /\ Channel!Init

NextY ==
  \/ which = "Fair" /\ Fair!Next /\ UNCHANGED <<which, spins, conds, channel>>
  \/ which = "Spin" /\ Spin!Next /\ UNCHANGED <<which, fair, conds, channel>>
  \/ which = "Cond" /\ Cond!Next /\ UNCHANGED <<which, fair, spins, channel>>
  \/ which = "Channel" /\ Channel!Next /\ UNCHANGED <<which, fair, spins, conds>>

\* The fairness of the FairSpec of each.
FairY ==
  /\ \A t \in Readers : WF_fair(which = "Fair" /\ Fair!RdLock(t))
  /\ \A t \in Writers : WF_fair(which = "Fair" /\ Fair!WrLock(t))
  /\ \A t \in Readers \cup Writers :
       /\ WF_fair(which = "Fair" /\ Fair!Pop(t))
       /\ WF_fair(which = "Fair" /\ Fair!Unlock(t))
  /\ \A t \in Parties :
       /\ WF_spins(which = "Spin" /\ Spin!Wait(t))
       /\ WF_spins(which = "Spin" /\ Spin!Call(t))
       /\ WF_conds(which = "Cond" /\ Cond!Run(t))
  /\ \A t \in Senders : WF_channel(which = "Channel" /\ Channel!Write(t))
  /\ \A t \in Receivers : WF_channel(which = "Channel" /\ Channel!Read(t))

SpecY == InitY /\ [][NextY]_varsY /\ FairY

-----------------------------------------------------------------------------
\* rw_lock_justo.c: "los threads van ingresando en orden de llegada" (line 6).
EntersInOrder == Fair!EntersInOrder

\* rw_lock_justo.c keeps what a readers-writer lock promises ...
ImplementsRWLock == Fair!ImplementsRWLock

\* ... and every thread that joins its queue gets in.
EveryoneGetsIn == Fair!EveryoneGetsIn

\* The release of Ejercicio 10's barrier is never closed on a thread still to
\* pass, although whether all have passed is asked earlier.
ReleaseEndsEmpty == Spin!ReleaseEndsEmpty

\* Nobody comes out of a round of Ejercicio 10's barrier that somebody has not
\* reached ...
ImplementsBarrier == Spin!ImplementsBarrier

\* ... nor out of one of Ejercicio 9's, while no wake-up was spurious.
NobodyLeavesEarly == Cond!NobodyLeavesEarly

\* Every thread gets through all its rounds of either barrier.
AllRoundsEnd ==
  /\ which = "Spin" => Spin!AllRoundsEnd
  /\ which = "Cond" => Cond!AllRoundsEnd

\* A chan_read gives a value that is written, and the values that its reader has
\* missed are at most as many as there are other readers ...
ReadsFollowWrites == Channel!ReadsFollowWrites

\* ... and for every value written one is read in the end.
WritesAreRead == Channel!WritesAreRead
=============================================================================
