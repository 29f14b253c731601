------------------------------- MODULE Threads -------------------------------
(***************************************************************************)
(* The machine the C exercises run on: POSIX threads that share mutexes,   *)
(* semaphores, condition variables and variables.  A program says what its *)
(* threads execute, an instruction at a time, and with what values the     *)
(* memory starts; a thread that comes to the end of its code starts again  *)
(* (while(1)) unless the code says otherwise (End).  Every instruction is  *)
(* atomic.  A mutex is a cell with 1 (free) or 0: glibc's default mutex,   *)
(* which any thread may unlock.  A variable that the program shares        *)
(* without a lock is read and written the way an x86 does it: a write goes *)
(* to the thread's store buffer first, its own reads look there, and only  *)
(* later does it reach memory; fences and locked instructions wait for it. *)
(***************************************************************************)
EXTENDS Integers, Sequences, FiniteSets, TLC

CONSTANT MaxCell  \* bound: nothing is added to a cell beyond this

VARIABLES
  pc,      \* the next instruction of each thread
  mem,     \* the cells
  asleep,  \* the condition variable each thread sleeps on, or "none"
  buffer   \* the writes of each thread that have not reached memory

threads == <<pc, mem, asleep, buffer>>

-----------------------------------------------------------------------------
(* The instructions; each is a sequence, to be joined with \o.             *)
Instruction(op, cell, arg) == <<[op |-> op, cell |-> cell, arg |-> arg]>>

Wait(s) == Instruction("wait", s, 0)           \* sem_wait
Lock(m) == Wait(m)                             \* pthread_mutex_lock
Add(x, d) == Instruction("add", x, d)          \* x += d
Post(s) == Add(s, 1)                           \* sem_post
Set(x, v) == Instruction("set", x, v)          \* x = v
Unlock(m) == Set(m, 1)                         \* pthread_mutex_unlock
Signal(c) == Instruction("signal", c, 0)       \* pthread_cond_signal
Broadcast(c) == Instruction("broadcast", c, 0) \* pthread_cond_broadcast
Do(what) == Instruction("do", what, 0)         \* what the locking is for
Choose(x, values) ==                           \* x = random()
  <<[op |-> "choose", cell |-> x, arg |-> 0, values |-> values]>>
End == Instruction("end", "", 0)               \* the thread returns
Read(r, x) == Instruction("read", r, x)        \* register r = x
Write(x, v) == Instruction("write", x, v)      \* x = v
Increment(x, r) ==                             \* x++, by way of register r
  Read(r, x) \o Instruction("next", x, r)
CompareAndSwap(x, r) == Instruction("cas", x, r)  \* repeated from the last instruction on
Fence == Instruction("fence", "", 0)           \* mfence
Own == Instruction("own", "", 0)               \* sem_wait on a semaphore of its own that is at 1
Free == Instruction("free", "", 0)             \* free of such a semaphore

\* pthread_cond_wait: unlock and sleep in one step, then lock again.
CondWait(c, m) == Instruction("sleep", c, m) \o Lock(m)

\* if (x is one of values) body
If(x, values, body) ==
  <<[op |-> "if", cell |-> x, arg |-> Len(body) + 1, values |-> values]>> \o body

\* if (x is one of values) body else other
IfElse(x, values, body, other) ==
  If(x, values, body \o Instruction("jump", "", Len(other) + 1)) \o other

\* while (x is one of values) body
While(x, values, body) ==
  If(x, values, body \o Instruction("jump", "", -(Len(body) + 1)))

\* while (1) body
Loop(body) == body \o Instruction("jump", "", -Len(body))

\* if (pthread_mutex_trylock(m)) body: m is locked, or the body executed.
IfNot(m, body) == Instruction("trylock", m, Len(body) + 1) \o body
WhileNot(m, body) == IfNot(m, body \o Instruction("jump", "", -(Len(body) + 1)))

\* A program: the code of its threads, the first values of its memory, the
\* pairs of places that must not be occupied together, for the cells that have
\* one the range they must stay in, and what they must hold in the end.
Program(code, cells, apart, range) ==
  [code |-> code, mem |-> cells, apart |-> apart, range |-> range, final |-> <<>>]
EndsWith(P, cells) == [P EXCEPT !.final = cells]

-----------------------------------------------------------------------------
(* The execution of program P.                                             *)
Here(P, t) == P.code[t][pc[t]]
After(P, t, by) == IF pc[t] + by > Len(P.code[t]) THEN 1 ELSE pc[t] + by

Load(P) ==
  /\ pc = [t \in DOMAIN P.code |-> 1]
  /\ mem = P.mem
  /\ asleep = [t \in DOMAIN P.code |-> "none"]
  /\ buffer = [t \in DOMAIN P.code |-> <<>>]

\* What thread t reads in cell x.
Seen(t, x) == LET own == {k \in DOMAIN buffer[t] : buffer[t][k][1] = x} IN
  IF own = {} THEN mem[x] ELSE buffer[t][CHOOSE k \in own : \A l \in own : l <= k][2]

Unlocked == {"if", "jump", "do", "read", "write", "next"}

CanRun(P, t) ==
  /\ asleep[t] = "none" /\ Here(P, t).op # "end"
  /\ Here(P, t).op \notin Unlocked => buffer[t] = <<>>
  /\ Here(P, t).op = "wait" => mem[Here(P, t).cell] > 0
  /\ Here(P, t).op = "add" => mem[Here(P, t).cell] + Here(P, t).arg <= MaxCell

Advance(P, t, by) == pc' = [pc EXCEPT ![t] = After(P, t, by)]
Is(P, t, op) == CanRun(P, t) /\ Here(P, t).op = op

Waits(P, t) == LET i == Here(P, t) IN
  /\ Is(P, t, "wait") /\ Advance(P, t, 1)
  /\ mem' = [mem EXCEPT ![i.cell] = @ - 1] /\ UNCHANGED asleep

Adds(P, t) == LET i == Here(P, t) IN
  /\ Is(P, t, "add") /\ Advance(P, t, 1)
  /\ mem' = [mem EXCEPT ![i.cell] = @ + i.arg] /\ UNCHANGED asleep

Sets(P, t) == LET i == Here(P, t) IN
  /\ Is(P, t, "set") /\ Advance(P, t, 1)
  /\ mem' = [mem EXCEPT ![i.cell] = i.arg] /\ UNCHANGED asleep

Chooses(P, t) == LET i == Here(P, t) IN
  /\ Is(P, t, "choose") /\ Advance(P, t, 1) /\ UNCHANGED asleep
  /\ \E v \in i.values : mem' = [mem EXCEPT ![i.cell] = v]

Branches(P, t) == LET i == Here(P, t) IN
  /\ Is(P, t, "if") /\ Advance(P, t, IF Seen(t, i.cell) \in i.values THEN 1 ELSE i.arg)
  /\ UNCHANGED <<mem, asleep>>

Jumps(P, t) == Is(P, t, "jump") /\ Advance(P, t, Here(P, t).arg) /\ UNCHANGED <<mem, asleep>>
Does(P, t) == Is(P, t, "do") /\ Advance(P, t, 1) /\ UNCHANGED <<mem, asleep>>

TriesLock(P, t) == LET i == Here(P, t) IN
  /\ Is(P, t, "trylock") /\ UNCHANGED asleep
  /\ IF mem[i.cell] = 1 THEN Advance(P, t, i.arg) /\ mem' = [mem EXCEPT ![i.cell] = 0]
                        ELSE Advance(P, t, 1) /\ UNCHANGED mem

Reads(P, t) == LET i == Here(P, t) IN
  /\ Is(P, t, "read") /\ Advance(P, t, 1)
  /\ mem' = [mem EXCEPT ![i.cell] = Seen(t, i.arg)] /\ UNCHANGED asleep

Writes(P, t) == LET i == Here(P, t) IN
  /\ Is(P, t, i.op) /\ i.op \in {"write", "next"} /\ Advance(P, t, 1)
  /\ buffer' = [buffer EXCEPT ![t] =
       Append(@, <<i.cell, IF i.op = "write" THEN i.arg ELSE mem[i.arg] + 1>>)]
  /\ UNCHANGED <<mem, asleep>>

Swaps(P, t) == LET i == Here(P, t) IN
  /\ Is(P, t, "cas") /\ UNCHANGED asleep
  /\ IF mem[i.cell] = mem[i.arg]
       THEN mem' = [mem EXCEPT ![i.cell] = @ + 1] /\ Advance(P, t, 1)
       ELSE UNCHANGED mem /\ Advance(P, t, -1)

Fences(P, t) == Is(P, t, "fence") /\ Advance(P, t, 1) /\ UNCHANGED <<mem, asleep>>

Owns(P, t) == Is(P, t, "own") /\ Advance(P, t, 1) /\ UNCHANGED <<mem, asleep>>

\* Of a thread that has not come to use its semaphore yet: what it then finds in
\* the freed memory lets it pass, or sleep for ever.
Frees(P, t) ==
  /\ Is(P, t, "free") /\ Advance(P, t, 1) /\ UNCHANGED mem
  /\ \/ UNCHANGED asleep
     \/ \E u \in DOMAIN asleep : Is(P, u, "own") /\ asleep' = [asleep EXCEPT ![u] = "freed"]

\* The oldest write reaches memory, whenever the processor likes.
Drains(t) ==
  /\ buffer[t] # <<>> /\ buffer' = [buffer EXCEPT ![t] = Tail(@)]
  /\ mem' = [mem EXCEPT ![Head(buffer[t])[1]] = Head(buffer[t])[2]]
  /\ UNCHANGED <<pc, asleep>>

Sleeps(P, t) == LET i == Here(P, t) IN
  /\ Is(P, t, "sleep") /\ Advance(P, t, 1)
  /\ mem' = [mem EXCEPT ![i.arg] = 1] /\ asleep' = [asleep EXCEPT ![t] = i.cell]

Sleepers(c) == {t \in DOMAIN asleep : asleep[t] = c}

Signals(P, t) == LET i == Here(P, t) IN
  /\ Is(P, t, "signal") /\ Advance(P, t, 1) /\ UNCHANGED mem
  /\ IF Sleepers(i.cell) = {} THEN UNCHANGED asleep
     ELSE \E u \in Sleepers(i.cell) : asleep' = [asleep EXCEPT ![u] = "none"]

Broadcasts(P, t) == LET i == Here(P, t) IN
  /\ Is(P, t, "broadcast") /\ Advance(P, t, 1) /\ UNCHANGED mem
  /\ asleep' = [u \in DOMAIN asleep |-> IF asleep[u] = i.cell THEN "none" ELSE asleep[u]]

\* POSIX lets pthread_cond_wait return for no reason.
WakesUp(P, t) ==
  asleep[t] # "none" /\ asleep' = [asleep EXCEPT ![t] = "none"] /\ UNCHANGED <<pc, mem, buffer>>

Step(P, t) ==
  \/ Writes(P, t)
  \/ /\ \/ Waits(P, t) \/ Adds(P, t) \/ Sets(P, t) \/ Chooses(P, t) \/ Branches(P, t)
        \/ Jumps(P, t) \/ Does(P, t) \/ TriesLock(P, t) \/ Sleeps(P, t)
        \/ Signals(P, t) \/ Broadcasts(P, t) \/ Reads(P, t) \/ Swaps(P, t) \/ Fences(P, t)
        \/ Owns(P, t) \/ Frees(P, t)
     /\ UNCHANGED buffer

-----------------------------------------------------------------------------
At(P, t, what) == Here(P, t).op = "do" /\ Here(P, t).cell = what
Working(P, t) == Here(P, t).op = "do"

\* No two threads are in places that must not be occupied at once.
KeptApart(P) == \A pair \in P.apart : \A t, u \in DOMAIN P.code :
  t # u => ~(At(P, t, pair[1]) /\ At(P, u, pair[2]))

InRange(P) == \A x \in DOMAIN P.range : mem[x] \in P.range[x]

Finished(P) == \A t \in DOMAIN P.code : Here(P, t).op = "end" /\ buffer[t] = <<>>

\* When all threads have returned, memory holds what it should.
EndsRight(P) == Finished(P) => \A x \in DOMAIN P.final : mem[x] = P.final[x]

\* Nobody can go on, although somebody has not ended.
Stuck(P) == /\ \A t \in DOMAIN P.code : ~CanRun(P, t) /\ buffer[t] = <<>>
            /\ \E t \in DOMAIN P.code : Here(P, t).op # "end"
=============================================================================
