# Specifications of the programs of *Sistemas Operativos I*

TLA+ models, TLC runs and TLAPS proofs for the concurrent programs of this
repository: the four P2P file-sharing nodes of the final project (Erlang), the
ticket and key-value servers of Practicas 1, 2 and 4 (C, Erlang) and the
synchronisation exercises of Practicas 2 and 3 (C, pthreads).  `PROJECT.json`
links every definition to the lines it translates and lists the runs, the
mutants that show each property can fail, the hazards and the theorems.

    tlc -config RWLockWrite.cfg RWLockWrite        # a run: PROJECT.json names
module and cfg     tlapm RWLockWriteProofs.tla                    # the proofs
of a module

The repository holds independent programs and no single system, so the
specifications come in families, and small programs that raise one question
share a run.  Paths are relative to `src/`; F is `Datos TP FInal/`, P is
`F/tp_so1-RESOLUCION2/src/`, C is `Berge-Gatoo2024/Practica 3/`.

## 1. Inventory

### The P2P node of RESOLUCION2, P

| part | state it keeps | operations | talks to |
|---|---|---|---|
| `registro/name_request` | the id asked for, its socket and mailbox | draw an id, broadcast NAME_REQUEST, wait 10 s for INVALID_NAME, retry or accept | every listener, by UDP; becomes `udp_listener` in the same process |
| `registro/udp_listener`, `hello_handler`, `invalid_name` | its mailbox, the request being served | HELLO: refresh the entry; NAME_REQUEST: ask for the list, answer INVALID_NAME | `node_registry` by messages, the asker by UDP |
| `registro/hello` | none | broadcast HELLO for ever | every listener |
| `utils/node_registry` | map name -> (IP, port) | add_node, remove_node, get_all_nodes | listener and command line |
| `CLI/cli`, `search_client`, `download_client` | the command in progress and its mailbox | nodos, buscar, descargar | `node_registry` with a timeout of 1 s; other nodes by TCP |
| `net/tcp_server`, `search_handler`, `download_handler` | one process per connection | answer SEARCH_REQUEST and DOWNLOAD_REQUEST | a client on another node |
| `share`, `download`, `utils/dir_utils`, menus | none | list and print files | the file system |

Hard: three processes of a node share two mailboxes whose messages are told
apart by shape only; nodes share nothing but datagrams that may be lost, and
silence means consent; timeouts race answers; the two ends of a transfer decide
separately where a file stops fitting in one block.  Correct when names are
unique (under conditions the code does not state), registries hold only names
that exist, a listener never hangs, a command works from a list of known age, a
search shows what is shared, a saved file is the shared file.

### The three other nodes

| node | how it differs | what can go wrong |
|---|---|---|
| `F/NodoP2P-Resolucion3` | a listener defends its own name and the ids it has heard asked for (`Requested`); downloads always in chunks; a process for each node of a search | two nodes alone; a second late refusal; a result that outlives its search |
| `F/SO1_TP2025-MARIO` | an ETS table with the time of each HELLO and a cleaner; chunks appended to the file as they come | a refusal that is not understood; a late refusal that ends the listener; the cleaner against a HELLO; files at the limit of 4 MB |
| `F/tpso2-RESOLUCION1` (`main2.erl`) | a process for each known node counts its silence; text messages without framing | a demand to delete against a new HELLO; what TCP hands over is not a message |

### Servers

Ticket servers (Practica 1, Ejercicio 11, a, b and d; Practica 4, Ejercicio 8,
passive and active): each `NUEVO` gets a number.  The state is the counter, in
each process, in shared memory or in a process of its own.  Key-value servers
(Practica 1, Ejercicio 12; Practica 2, Ejercicio 15, two versions): `PUT`,
`GET` and `DEL` on a list per process, per line, or on one table under a mutex,
served by `fork` or by threads around `epoll`.  Hard: lines that come in
pieces, clients that hang up on their answers (a reset or SIGPIPE ends the
process), threads that are all woken for one connection.

### Synchronisation exercises, C

| exercise | what it is | correct when |
|---|---|---|
| Practica 3, 5 | three readers-writer locks: writers first (`rw_lock_write.c`), queue (`rw_lock_justo.c`), semaphores (`rw_lock_read.c`) | nobody writes beside anybody; nobody sleeps through its turn; writers, or all, get in |
| 9, 10 | barriers with a condition variable and with spinlocks | nobody leaves a round that somebody has not reached; all rounds end |
| 11 | channel with two semaphores | no read before its write; with one reader every value once, in order |
| 3, 4, 6, 7, 13 | philosophers, bounded buffers, barber, smokers, condition variables made of semaphores | threads kept apart, counts within bounds, no deadlock, work goes on |
| Practica 2, 4 to 12 | turnstiles, Peterson's algorithm with and without fences, compare-and-swap, a copied mutex | nobody lost, nobody together |

## 2. Modules

| module | models |
|---|---|
| `NameRegistration` | P `registro/*`, and `node_registry` as the listener sees it.  `phase`, `id`, `mbox`, `query` per node for the process that is first `name_request` and then `udp_listener`; `registry`, `rmbox` for `node_registry`.  One action per receive clause and per send |
| `MCNameRegistration` | the networks its runs consider |
| `RegistryClient` | one node of P: `hello_handler`, `node_registry`, a command; numbers on commands are history |
| `FileTransfer` | `download_handler` and `download_client` of P: a stream of cells, one per field or byte; `Cut` breaks the connection after any byte |
| `OtherTransfers` | the downloads of the other three, on the same stream, and the second download of one file |
| `Search` | `buscar` of all four |
| `Resolucion3` | `init_srv:confirm_ID` and `discovery:loop_recv` |
| `MarioNames`, `MarioTable` | `name.erl` with `udp:receive_hello_loop`; the table, HELLOs and `borrar_nodos_viejos`, with time |
| `Resolucion1Table` | `main2.erl`: `loop_receiveUDP` and the processes `atentoHola` |
| `OtherNodes` | the last four side by side |
| `TicketServer`, `KeyValue` | the servers, one variable for which of them it is |
| `ClientsAndServers` | transfers, searches, registry and both kinds of server side by side |
| `RWLock`, `Barrier` | what `Ej5.c` needs of a lock and `thr` of a barrier (abstract) |
| `RWLockWrite`, `RWLockFair`, `RWLockRead` | the three locks: a thread's position, the counters or semaphores, who is asleep, the queue |
| `BarrierSpin`, `BarrierCond`, `SyncChannel` | Ejercicios 10, 9 and 11 |
| `Synchronisation` | queue lock, barriers and channel side by side |
| `Threads` | the machine of the other exercises: mutexes, semaphores, condition variables with spurious wake-ups, trylock, compare-and-swap, fences and the store buffers of an x86 |
| `Philosophers`, `ReadersWriters`, `Smokers`, `Buffers`, `Turnstiles` | programs for it |
| `Exercises` | forty of those programs, an execution of one at a time |
| `Lemmas` | what the proofs share: mailboxes as sets and as sequences, the order of arrival, the number of threads in a state |
| `NameRegistrationProofs`, `RWLockWriteProofs`, `SynchronisationProofs`, `ClientsAndServersProofs` with `TransferProofs`, `OtherNodesProofs` with `Resolucion3Proofs` | theorems |

**Side by side.**  `OtherNodes`, `ClientsAndServers` and `Synchronisation` have
a variable (`project`, `which`) that says whose behaviour this is; it never
changes, the variables of the rest keep their initial values, and each fairness
condition is guarded by it.  The composition adds no behaviour: it lets
programs with one question share one run.  Definitions such as
`NoNumberTwice == Tickets!NoNumberTwice` give the run a name for a property of
an instance.

**Granularity.**  Erlang: a step ends at each send and receive, because only
these are visible to others.  C with mutexes: code between taking and releasing
one is one step, split at `pthread_cond_wait`; semaphore calls are one step
each.  In `Threads` an instruction is one step, in the order of the source, as
a compiler without optimisation leaves it; a variable that is shared without a
lock is read and written in steps of its own, by way of a store buffer.
`BarrierSpin` reads and writes its counter in separate steps.

**Abstractions.**  A name, an address or a byte is a model value or a number;
parsing and printing are left out, except the line end that `name.erl` does not
trim.  A datagram arrives in the mailbox when it is sent or not at all: how late
a receiver looks at it is free, so a late answer is one that is looked at late.
`timer:sleep` and timeouts are steps that may happen whenever their guard holds
(an `after` clause needs an empty mailbox); only `MarioTable`, whose correctness
is a matter of intervals, counts time.

**Near copies.**  Many exercises exist in several copies that differ in names,
white space or a `sleep`.  A copy is a definition equal to that of the original
(`V2Peterson == BergePeter`); a copy that differs in what its threads do has a
program of its own (`GattoEj3_d`, `PrimerIntento_b`, `GattoEj13V2`).

## 3. Runs

| run | expects | shows |
|---|---|---|
| `NameRegistration` | pass | In a network that does everything wrong and in one that does nothing wrong: a refusal is always justified, every known name is owned, no listener waits for an answer that will not come, each request is finished; and names are unique when nothing is lost, nodes start one at a time, requests are served before their timeout and no HELLO crosses a request. |
| `NameRegistrationConcurrent` | violation | Dropping "one at a time" alone is enough for two nodes to keep one name. |
| `NameRegistrationStolen` | violation | Dropping "no HELLO crosses a request" alone is enough for a known name not to be refused. |
| `OtherNodes` | pass | Resolucion3: names are unique even among nodes that start at the same moment, if another node was up before and answers are prompt; a crash takes two listeners.  MARIO: a listener is deafened only by a late answer; one lost HELLO is survived; the table follows the nodes.  RESOLUCION1: exactly one watcher or one demand to delete for each entry; a node that left is forgotten. |
| `MarioConfirmed` | violation | A node of MARIO confirms a name although it has read the refusal in time. |
| `ClientsAndServers` | pass | What a download saves, that it ends, what a search shows, how old a list is and that a node heard is listed again, that no number is given twice where one process counts, what a GET finds, and who may be left without an answer. |
| `FileTransferEmpty` | violation | The download of an empty file in P never ends. |
| `MarioFourMB` | violation | A file of exactly four chunks is saved wrong by MARIO. |
| `RWLockWrite` | pass | The lock implements `RWLock`; counters are exact; no lost wake-up; writers progress. |
| `RWLockReadExclusion` | violation | The semaphore lock lets a writer in beside readers. |
| `Synchronisation` | pass | The queue lock implements `RWLock`, keeps the order of arrival and lets everyone in; the spinning barrier implements `Barrier` and closes its release only when empty; the other one holds as long as no wake-up is spurious; all rounds end; the reads of the channel follow its writes, one each, at most as many behind as there are other readers. |
| `Exercises` | pass | Which of forty programs keep their threads apart, stay within their bounds, lose nobody, cannot deadlock, and go on working. |

Each property of a passing run has a mutant of a mapped definition, next to it
in its module and marked `Mutant`, that TLC finds to break it.

**Exceptions.**  `Exercises` names its exceptions in four sets (`Unprotected`,
`Losing`, `Stopping`, `Starving`), each with what the file in it does wrong; the
properties hold of every other program and say nothing of these, and the hazards
that point at them name no property.  `WithinBounds` is likewise fitted to one
element more where the code compares with `>`.  `EveryRequestIsAnswered` names
who may wait: in `TicketServer` a client that has hung up, one that sends its
lines in pieces to a server in Erlang, any client of `Ej11_d` as long as another
stops in the middle of a line (`Held`), and for ever once a client that hung up
has ended the process (`Killed`); in `KeyValue` those behind a thread of the
hash version that waits for another client (`Stuck`), and everybody once SIGPIPE
has ended the process. `DownloadsEnd` leaves out RESOLUCION1, whose client only
reacts to what comes, and says that the empty file of P (`Hangs`, finding 3)
ends its download if the connection breaks; `FileTransferEmpty` shows that
otherwise it does not.

**Hanging up.**  The end of a connection is the last piece of a client's stream:
an end of file, or, of a client that closes with answers unread, a reset.  The
servers in C read -1 of a reset, and `quit` aborts the process; a write to a
client that has hung up may make the connection reset (`broken`), and the next
one is the SIGPIPE that ends it.  In `Ej11_a` and `Ej11_b` this is the client's
own process, in `Ej11_d` the only one.  In Erlang both are `{error, _}` or
`tcp_closed`, the end of one process.

**Bounds.**  *Registration*: two nodes and two names are what a collision takes
(and a retry with a free name); `MaxMailbox` 2 lets a HELLO and a request, or a
list and a HELLO, wait together in either order; `HelloUnread` bounds HELLOs to
one unread per node, since more repeat the same name.  *Other nodes*: three nodes
of Resolucion3, one of which may have been up before, are two that collide and a
witness; `MaxRefusals` 2 is the pair of answers that ends `check`. `HelloEvery`
2, `CleanEvery` 5 and `MaxAge` 5 keep the order of 17, 40 and 40 seconds and of
their multiples: two HELLOs fit into a life, three do not.  Three losses in a row
exceed what an entry survives.  Three watchers are one more than there are other
nodes.  *Transfers*: `MaxChunk` 2, `Whole` 2 and, for RESOLUCION1, `Limit` 3
(4000000 of 4194304) with sizes 0 to 9 cover empty files, less than a chunk, an
exact multiple, a rest, both sides of the limit and the limit itself, and, with
`SizeField` 8, sizes that wrap. *Searches*: two nodes, two matches and two
searches are a result that comes late, in another search.  *Registry*: three
commands give two timeouts followed by a stale answer.  *Servers*: two clients
with two requests each; two threads, two clients, two keys of one cell and three
lines.  *Locks*: three readers and two writers (two and two for the queue) make
every pair of kinds compete with a third thread behind it.  *Barriers*: three
threads and three rounds let a fast one be two calls ahead of what a slow one
has noticed.  *Channel*: three writers and three readers are a value that is
overwritten twice before it is loaded; `MaxWrites` 5 leaves two more for those
that come again.  *Exercises*: three philosophers are the shortest cycle that is
not a pair; buffers of two with two producers and two consumers; two visitors
per turnstile, since a lost update takes one from each; `MaxCell` 4 exceeds
every range that is checked.

**Fairness.**  A thread or process that can run does: weak fairness of the
steps inside a lock, barrier or channel call, of each thread of an exercise, of
store buffers (writes reach memory), and of Erlang processes with a message to
handle.  This stands for a scheduler; for the modelled locks and barriers also
for a mutex, spinlock or semaphore that does not pass the same waiter over for
ever, which `Exercises` does not assume.  A thread that holds a lock gives it
back, as `lector` and `escritor` do.  Timers expire in `MarioTable` and
`Resolucion1Table`.  Nobody is assumed to ask for a lock again, to type a
command, to connect, to send or finish a line, to leave, or to have a datagram
delivered.  Runs with `CHECK_DEADLOCK FALSE` are those whose programs end or may
block by design: downloads, searches, bounded rounds, writes, lines and
requests, nodes that have left.

## 4. Proofs

For all values of the constants that satisfy the modules' assumptions.  Where a
run checks several programs side by side, the theorems are about the
specification of that run: a step of one program leaves the variables of the
others alone (lemmas `StepsApart`, `StepsOfEach`), so each has an invariant of
its own and the conjunction of these is inductive.

*`NameRegistrationProofs`*, three invariants.

- `TypeOK` needs `HasDrawn` (a node past "begin" has a name), or a HELLO could
  carry `NoId`; `KnownNames` (`KnownNamesAreOwned`) rests on ownership being
  stable: a node that has registered never asks again, and each step only moves
  names that were already owned somewhere else.  `NeverStuck`
  (`AnswerIsComing`) is inductive on its own: the list or the call is removed
  only by the step that turns it into the other or ends the wait.
- `RefusedForAReason` (`RefusalIsJustified`).  The danger is a node refused for
  its own HELLO, since the list of names does not say whose they are.
  `RefusalInv`: a HELLO carries the name of a registered sender; no HELLO of a
  node is in a mailbox before a request of the same node (`Before`, with lemmas
  for append, tail and removal); and whenever a request waits for a list that
  may hold its name, another node has registered that name.
- `NamesAreUniqueWithCare` (`UniqueIdsWithCare`).  `CareInv`: one node at a time
  is between its first request and its listener (`OneBusy`), requests and
  refusals are those of a node that asks (`OnlyAskers`), a node that is not up
  has heard nothing but refusals (`DeafUntilUp`), and the owner of the name that
  is asked for has the request, has asked for the list, has the list with its
  name in it, or its refusal is in the mailbox of the asker (`OwnersObject`).
  So the asker cannot end its wait with a name that is taken.

*`RWLockWriteProofs`*: `Typing`, `ExactCounters`, `NoLostWakeup` and
`Refinement` (`ImplementsRWLock`).  The inductive invariant is the exactness of
the counters with the exclusion of the abstract lock; without exclusion
`rwlock_unlock` may take a writer for a reader, and without exact counters
exclusion cannot be kept.

*`SynchronisationProofs`*.

- The queue lock: `InOrderOfArrival` (`EntersInOrder`) and `QueueLockRefines`
  (`ImplementsRWLock`).  The queue holds those that wait, once each, and who has
  the mutex and is still in it is its first (`QueueInv`); the counters are exact
  and a writer is alone (`FairInv`).
- The spinning barrier: `SpinBarrierRefines` (`ImplementsBarrier`) and
  `ReleaseIsClean` (`ReleaseEndsEmpty`).  The barrier gathers threads, has all of
  them, or releases them (`SpinInv`): only in the last phase is the flag set, and
  then nobody comes in.  `SpinRounds` says how many rounds each thread has
  behind it in each phase, those that have left the loop late included.
- `CondBarrierHolds` (`NobodyLeavesEarly`): while no wake-up is spurious, k
  rounds are over, the sleepers, whose number is `esperando`, have come for the
  next one, and everybody else has come for k.
- `ReadsAreInTurn` (`ReadsFollowWrites`): the values written
  are those announced, by a writer about to post, by the semaphore or to a reader
  about to load, and those read (`Announced`); those and the writers still to be
  admitted are what the readers have asked for (`Admitted`).  A reader has one value
  asked for at a time (`OneValueEach`), so at most as many values as there are
  readers are written and not read.

*`ClientsAndServersProofs`*.

- `TimeoutsDelay` (`EveryTimeoutDelaysAnswers`): the answers in the mailbox of
  the command line, followed by the questions in that of `node_registry`, are
  those of consecutive commands, and the first of them is the oldest that no
  command has taken; how many were never taken is the number of timeouts.
- `NumbersAreGivenOnce` (`NoNumberTwice`): every number is in one place, a mailbox
  or the answers of a client, and below the counter.  The process with `select`
  is at one line at a time, so what it has read of the counter is still there
  when it writes (`OneAtATime`), also where the write or a read ends the process.
- `GetFindsIt` (`FindsWhatIsStored`): for each key the places of a list that hold
  it, in their order, hold the values of the history (`Represents`, the existence
  of an increasing enumeration of those places); it is kept by an append, by an
  insertion in front and by the removal of the first, and in the table no key
  has two values.
- `SearchesShow` (`SearchShowsWhatIsShared`): each line that a node has for a
  search is still to be sent, unread in a mailbox or a connection, among the
  results, or printed; and what is in these places was sent for this search or,
  where nothing tells a late result apart, for an earlier one.
- `DownloadsSave` (`WhatIsSaved`), of `TransferProofs`.  The stream is a set of
  pairs of a place and a cell (`Chunked`: the header, and chunk j from
  `Start(j)` on), the wire a `Segment` of it that begins where the reader is and,
  while the connection is open, ends where chunk `index` will (`OnTheWay`).
  Cutting, reading and sending keep this, so a reader that is at the beginning
  of a chunk reads that chunk, whole and with its index (`ChunkRead`).
  RESOLUCION2 and Resolucion3 then hold the chunks 0 to n - 1 (`Gathered`), and
  what they still wait for is the rest of the size: when it is zero all are
  there, and sorted or looked up by index they are the file
  (`AssembledChunks`, `RebuiltChunks`); the two inductions in this, over the
  chunks joined and over the places of a sorted list, take the least number at
  which the statement fails (`LeastNumber`).  MARIO appends: its file is the first
  bytes of what the first download and of what the second one has brought
  (`SavedUpTo`); when all is calm the last chunk is on the wire once the server
  has stopped (`AllSent`), so a second without a chunk finds everything read.
  RESOLUCION1 may begin to read anywhere, its process ending at what it cannot
  parse: of a file below `Limit` only the text at place 3 parses as one to write
  (`TextHears`); of a long file three cells that parse as a chunk's are one, since
  chunks come behind a byte or behind the header (`Headed`), and what is written
  is their third.  `Fits`, that the size field can carry the size, is a
  hypothesis of the property and needed: the rest of a longer file is never asked
  for.  `WidthAssumption` is used for indices, which then fit too (`IndexFits`).

*`OtherNodesProofs`*: `UniqueNames` (`UniqueBesideAWitness`), `CrashTakesTwo`
(`CrashTakesTwoAnswers`), `NobodyIsDeaf` (`DeafnessTakesALateAnswer`),
`TwoLossesAtLeast` (`OneLossIsSurvived`) and `EntriesAreWatched`
(`OneWatcherEach`).

- `Resolucion3Proofs`: while answers are prompt a witness grants a name once.
  `Granted` says who passed it (its request read, no refusal under way), `Grants`
  that the name is then in the list `requested` of the witness and is nobody
  else's, `Settled` that a named node leaves no request behind that could undo
  this.  For the crash: while one node listens, a node that asks has one request
  in a mailbox or one refusal, never both, and the refusal is of the name it
  asked for (`AnsweredOnce`); the mismatch that ends `init_srv` therefore needs
  a second listener.
- MARIO: a request in a mailbox is of a node that still waits
  (`AskersWait`), so a refusal goes to the socket that waits for it and never to
  the listener, which has no clause for it.  The age of an entry and the time to
  the next HELLO add up to at most one interval, or two after one loss
  (`AgeIsBounded`).  The cleaner takes what is older than `MaxAge`; two intervals
  are not (`LifeAssumption`: 2 * 17 s against 40 s in the code).
- `WatchersInv`, for the table of RESOLUCION1: processes that watch a name and
  demands to delete it are one together if the table has a process for the name,
  which is then in the list of nodes, and none if it has not.  (`Occurs` and
  `Count` of `Lemmas` count demands in a mailbox and processes.)

Only model-checked:

- liveness, outside the prover's reach: `RequestsAreFinished`, `WritersProgress`,
  `EveryoneGetsIn`, `AllRoundsEnd`, `WritesAreRead`, `HeardIsListedAgain`,
  `TableFollowsTheNodes`, `LeftIsForgotten`, `EveryDownloadEnds`,
  `EveryRequestIsAnswered`, `WorkGoesOn`;
- the four invariants of `Exercises`, each of whose programs is one finite
  program: the run is exhaustive and there is no constant to generalise.

## 5. Findings

1. P, two nodes that start together can keep the same name
   (`name_request.erl:79`): the listener that would object is bound only after
   registration.
2. P, `handle_request` takes any message for the list (`invalid_name.erl:63`),
   so a HELLO in the mailbox lets a taken name through.
3. P, an empty file is never received (`download_client.erl:86`): `recv` with
   length 0 waits for data.
4. MARIO never recognises a refusal (`name.erl:61`): the id it compares still
   has its line end.
5. MARIO, a file of exactly 4 MB is sent in chunks and read whole
   (`servidor.erl:89`).
6. `rw_lock_read.c:54`: the unlock of one reader lets writers in beside others.

Documented by properties that hold: commands after a timeout work from old
lists (`EveryTimeoutDelaysAnswers`); files of 2^32 bytes and more are saved
short (`WhatIsSaved` is about sizes that fit); MARIO keeps part of a file whose
connection breaks and appends the next download to it, and RESOLUCION1 saves no
byte of a long file (`WhatIsSaved`); MARIO shows one file of each node, and a
late result of Resolucion3 comes up in the next search
(`SearchShowsWhatIsShared`); `Requested` of Resolucion3 is never emptied, which
is also what keeps names unique (`UniqueBesideAWitness`); a client that stops in
the middle of a line stops a whole server (`EveryRequestIsAnswered`); a
channel with several readers, as in `prod-cons.c`, lets two of them read one value
and nobody another (`ReadsFollowWrites` says how far behind they may be).

What the model does as the code does and the properties except by name: the
barrier of Ejercicio 9 after a spurious wake-up (`barrier.h:33`); the numbers of
`Ej11_a` and `Ej11_b`, which repeat (`Ej11_b.c:80`); a client that hangs up on its
answers and so ends `Ej11_d` for everybody (`Ej11_d.c:66`, `:79`); Peterson's algorithm
without a fence (`molinetes-peterson.c:25`); the barber and the client of Berge's
`Ej6.c:97` whose signal is too early; and the other exceptions of `Exercises`.

## 6. Not modelled

- P: start-up, menus, directory listings and printing (no state of their own);
  the expiry of nodes (there is none); a refused connection, which is a badmatch
  in the command line process (`download_client.erl:48`): one line, no state.
- Resolucion3 and MARIO: menus, the file dictionary; two downloads of the same
  file at the same time in MARIO.
- RESOLUCION1: its name process, which asks nobody, and three files that are
  unfinished variants of `main2.erl`, one of which does not compile.
- Key-value servers: lines of sixteen bytes and more, whose unterminated buffer
  may show an earlier line; the processes Ejercicio 12 forks for nobody; SIGINT.
- The arrays computed between two barriers (Ejercicios 9 and 10).
- Berge's `cond.h`: `signal` frees a semaphore that its thread may be about to wait
  on.  The thread then passes or sleeps for ever (`Frees`); what its use of the
  freed memory does to the lists of `malloc` is not modelled.
- Practica 2, Ejercicio 16: each thread is joined right after it is created, so
  the bakery has nobody to keep out.
- `skel_server.c` (the ticket server before it is written), shell, pipes,
  signals and class examples: calls to the operating system in a row.
- Practica 4: OpenMP and MPI programs over data each thread has to itself, a
  tree of processes that add partial sums, a supervisor of one worker.
