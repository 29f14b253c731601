--------------------------- MODULE ClientsAndServers ---------------------------
(***************************************************************************)
(* What serves requests, side by side: the downloads and the searches of   *)
(* the P2P nodes, node_registry, and the servers of tickets and of keys.   *)
(* A behaviour is one of a single one of them, and the variables of the    *)
(* rest keep their first values.                                           *)
(***************************************************************************)
EXTENDS OtherTransfers

CONSTANTS
  Ids, Addrs, NoAddr, MaxCalls, MaxCommands,  \* of node_registry
  Clients, MaxRequests,                       \* of the ticket servers
  Users, Servers, Keys, MaxLines,             \* of the key-value servers
  Nodes, MaxMatches, MaxSearches              \* of the searches

ASSUME AddrAssumption == NoAddr \notin Addrs
ASSUME NobodyAssumption == "nobody" \notin Clients
ASSUME BoundAssumption == MaxCalls \in Nat \ {0} /\ {MaxCommands, MaxMatches, MaxSearches} \subseteq Nat

VARIABLES
  which,  \* the module in whose behaviour this state is
  registry, calls, refresh, cli, replies, asked, timeouts, shown, heard,             \* RegistryClient
  ticket, untidy, halves, left, stream, broken, at, busy, U, number, counting, mail, answers,  \* TicketServer
  program, status, line, lines, owner, todo, current, lists, stored, killed,         \* KeyValue
  searcher, punctual, matches, search, command, conn, due, coming, results, printed  \* Search

Registry == INSTANCE RegistryClient
Tickets == INSTANCE TicketServer WITH server <- ticket, asked <- counting
Store == INSTANCE KeyValue WITH sent <- lines
Searches == INSTANCE Search WITH project <- searcher, calm <- punctual,
  cli <- command, lines <- coming, shown <- printed

registryVars == <<registry, calls, refresh, cli, replies, asked, timeouts, shown, heard>>
ticketVars ==
  <<ticket, untidy, halves, left, stream, broken, at, busy, U, number, counting, mail, answers>>
storeVars == <<program, status, line, lines, owner, todo, current, lists, stored, killed>>
searchVars ==
  <<searcher, punctual, matches, search, command, conn, due, coming, results, printed>>
varsC == <<which, varsX, registryVars, ticketVars, storeVars, searchVars>>

InitC ==
  /\ which \in {"Transfers", "Registry", "Tickets", "Store", "Searches"}
  /\ InitX /\ (which # "Transfers" =>
                 project = "MARIO" /\ ~calm /\ shared = TRUE /\ size = CHOOSE s \in Sizes : TRUE)
  /\ Registry!Init
  /\ Tickets!InitS /\ (which # "Tickets" => ticket = "activa" /\ untidy = Tickets!Nobody)
  /\ Store!InitK /\ (which # "Store" => program = "hash")
  /\ Searches!InitF /\ (which # "Searches" =>
                          searcher = "MARIO" /\ ~punctual /\ \A n \in Nodes : matches[n] = 0)

NextC ==
  \/ /\ which = "Transfers" /\ NextX
     /\ UNCHANGED <<which, registryVars, ticketVars, storeVars, searchVars>>
  \/ /\ which = "Registry" /\ Registry!Next
     /\ UNCHANGED <<which, varsX, ticketVars, storeVars, searchVars>>
  \/ /\ which = "Tickets" /\ Tickets!NextS
     /\ UNCHANGED <<which, varsX, registryVars, storeVars, searchVars>>
  \/ /\ which = "Store" /\ Store!NextK
     /\ UNCHANGED <<which, varsX, registryVars, ticketVars, searchVars>>
  \/ /\ which = "Searches" /\ Searches!NextF
     /\ UNCHANGED <<which, varsX, registryVars, ticketVars, storeVars>>

\* The fairness of the specification of each.
FairC ==
  /\ WF_varsX(which = "Transfers" /\ ServeX)
  /\ WF_varsX(which = "Transfers" /\ ReceiveX)
  /\ WF_registryVars(which = "Registry" /\ Registry!Serve)
  /\ WF_registryVars(which = "Registry" /\ Registry!AddNew)
  /\ WF_ticketVars(which = "Tickets" /\ Tickets!Count)
  /\ \A c \in Clients : WF_ticketVars(which = "Tickets" /\ Tickets!Serves(c))
  /\ \A c \in Users : WF_storeVars(which = "Store" /\ (Store!Fork(c) \/ Store!Child(c)))
  /\ \A t \in Servers : WF_storeVars(which = "Store" /\ Store!Thread(t))

SpecC == InitC /\ [][NextC]_varsC /\ FairC

-----------------------------------------------------------------------------
\* Whoever downloads a file comes to an end.
EveryDownloadEnds == which = "Transfers" => DownloadsEnd

\* The list a command of RESOLUCION2 works from is one command older for each
\* timeout there has been ...
EveryTimeoutDelaysAnswers == Registry!EveryTimeoutDelaysAnswers

\* ... and a node whose HELLO is heard comes back in it.
HeardIsListedAgain == Registry!HeardIsListedAgain

\* No two requests get one number where one process counts.
NoNumberTwice == Tickets!NoNumberTwice

\* Every request for a number, and every line to a key-value server, is
\* answered, but for the clients TicketServer and KeyValue name.
EveryRequestIsAnswered ==
  /\ which = "Tickets" => Tickets!EveryRequestIsAnswered
  /\ which = "Store" => Store!LinesAreAnswered

\* A GET finds what the lines before it have left.
FindsWhatIsStored == Store!FindsWhatIsStored

\* A search shows what the nodes share, as far as each project does.
SearchShowsWhatIsShared == Searches!SearchShowsWhatIsShared

=============================================================================
