------------------------------ MODULE HostList ------------------------------
(***************************************************************************)
(* The list of Hosts of one process (src/mervbot/hostlist.cpp) and the     *)
(* main loop that gives each its turn: the bots may be told to close, to   *)
(* restart or to spawn others from inside their own turn, that is while    *)
(* hostList::doEvents() walks the list.  A single thread does everything.  *)
(*                                                                         *)
(* Of a Host only what these functions look at is kept: whether it is in   *)
(* the game, where players can give it commands (Session tells how it gets *)
(* there), and whether it is to be cleaned up.                             *)
(***************************************************************************)
EXTENDS Naturals, Sequences, SequencesExt

CONSTANTS Host,        \* names of bots
          NoHost,      \* NULL
          Commands,    \* what the bots are told: commands of operators, 00 07 by the server
          MaxSpawns,   \* limit on the bots of the process, from the INI file
          MaxStack     \* nested calls of massRestart() the thread's stack has room for

AllCommands == {"close", "remote close", "closeall", "restart", "spawn", "00 07"}

ASSUME HostListAssumption ==
    /\ NoHost \notin Host
    /\ Commands \subseteq AllCommands
    /\ MaxSpawns \in Nat /\ MaxStack \in Nat \ {0}

VARIABLES
    list,        \* the Hosts, in the order of hostList::list
    inGame,      \* Hosts that are logged in
    killMe,      \* Hosts that tell hostList to clean up
    cur,         \* the Host whose doEvents() runs
    next,        \* `parse` of hostList::doEvents(): the Host after it
    polled,      \* a packet was handled in this iteration
    calls,       \* the active calls of massRestart(): the Hosts each has left
    process,     \* "runs", "ended" or "crashed"
    toldBy       \* history: what told a Host to leave, or "nothing"

vars == <<list, inGame, killMe, cur, next, polled, calls, process, toldBy>>

InList == ToSet(list)

\* Mutant of After: one Host is skipped.
AfterNext(l, h) ==
    LET i == CHOOSE i \in 1..Len(l) : l[i] = h
    IN  IF i + 2 <= Len(l) THEN l[i + 2] ELSE NoHost

\* The Host after h in list l, or NoHost
After(l, h) ==
    IF h = Last(l) THEN NoHost
    ELSE l[1 + CHOOSE i \in 1..(Len(l) - 1) : l[i] = h]

Init ==
    /\ list \in {s \in UNION {[1..n -> Host] : n \in 1..MaxSpawns} : IsInjective(s)}
    /\ inGame = {} /\ killMe = {}
    /\ cur = Head(list) /\ next = After(list, cur) /\ polled = FALSE
    /\ calls = <<>> /\ process = "runs"
    /\ toldBy = [h \in Host |-> "nothing"]
-----------------------------------------------------------------------------
\* A packet is handled in the turn of Host cur

\* The loop of doEvents() polls on until a packet tells it to leave.
Polls ==
    /\ process = "runs" /\ calls = <<>>
    /\ polled => cur \notin killMe
    /\ polled' = TRUE
    /\ UNCHANGED <<cur, next>>

\* disconnect(true)
Disconnect(hosts, why) ==
    /\ killMe' = killMe \cup hosts
    /\ toldBy' = [h \in Host |-> IF h \in hosts THEN why ELSE toldBy[h]]

\* A packet that changes nothing here.
OtherPacket ==
    /\ Polls
    /\ ~polled
    /\ UNCHANGED <<list, inGame, killMe, calls, process, toldBy>>

LoggedIn ==
    /\ Polls
    /\ cur \notin inGame
    /\ inGame' = inGame \cup {cur}
    /\ UNCHANGED <<list, killMe, calls, process, toldBy>>

LoginRefused ==
    /\ Polls
    /\ cur \notin inGame
    /\ Disconnect({cur}, "refused")
    /\ UNCHANGED <<list, inGame, calls, process>>

Given(c) == Polls /\ c \in Commands /\ cur \in inGame

\* Mutant of Close: the bots are not counted.
CloseUncounted ==
    /\ Given("close")
    /\ Disconnect({cur}, "close")
    /\ UNCHANGED <<list, inGame, calls, process>>

\* !close, given in the arena: aborted if too few bots are connected
Close ==
    /\ Given("close")
    /\ Len(list) > 1
    /\ Disconnect({cur}, "close")
    /\ UNCHANGED <<list, inGame, calls, process>>

\* !close, given from another arena
RemoteClose ==
    /\ Given("remote close")
    /\ Disconnect({cur}, "remote close")
    /\ UNCHANGED <<list, inGame, calls, process>>

\* massDisconnect()
CloseAll ==
    /\ Given("closeall")
    /\ Disconnect(InList, "closeall")
    /\ UNCHANGED <<list, inGame, calls, process>>

\* Mutant of Spawn: no check that the name is free.
SpawnTwice(h) ==
    /\ Given("spawn")
    /\ Len(list) < MaxSpawns
    /\ list' = Append(list, h)
    /\ UNCHANGED <<inGame, killMe, toldBy, calls, process>>

\* connectHost(), by !spawn or by a plugin: a new Host with a name not in use
Spawn(h) ==
    /\ Given("spawn")
    /\ Len(list) < MaxSpawns
    /\ h \notin InList
    /\ list' = Append(list, h)
    /\ inGame' = inGame \ {h} /\ killMe' = killMe \ {h}
    /\ toldBy' = [toldBy EXCEPT ![h] = "nothing"]
    /\ UNCHANGED <<calls, process>>

\* massRestart(), called by !restart
CallRestart ==
    /\ Given("restart")
    /\ calls' = <<list>>
    /\ UNCHANGED <<list, inGame, killMe, process, toldBy>>

\* gotDisconnect(): resetSession(), connect(), and massRestart()
ServerDisconnects ==
    /\ Polls
    /\ "00 07" \in Commands
    /\ inGame' = inGame \ {cur} /\ killMe' = killMe \ {cur}
    /\ toldBy' = [toldBy EXCEPT ![cur] = "nothing"]
    /\ calls' = <<list>>
    /\ UNCHANGED <<list, process>>

\* One round of the loop of the innermost massRestart(): disconnect() and
\* gotDisconnect() of the next Host.  gotDisconnect() resets the session, which
\* clears killMe, and calls massRestart() in turn.
RestartStep ==
    /\ process = "runs" /\ calls # <<>>
    /\ LET left == Last(calls)
           outer == Front(calls)
       IN  IF left = <<>>
           THEN calls' = outer /\ UNCHANGED <<inGame, killMe, process, toldBy>>
           ELSE /\ inGame' = inGame \ {Head(left)}
                /\ killMe' = killMe \ {Head(left)}
                /\ toldBy' = [toldBy EXCEPT ![Head(left)] = "nothing"]
                /\ IF Len(calls) < MaxStack
                   THEN /\ calls' = outer \o <<Tail(left), list>>
                        /\ UNCHANGED process
                   ELSE process' = "crashed" /\ UNCHANGED calls
    /\ UNCHANGED <<list, cur, next, polled>>
-----------------------------------------------------------------------------
\* The end of a turn

\* hostList::doEvents(): a Host that is to be cleaned up leaves the list, and
\* the next one has its turn: the one `parse` was set to before this turn.
\* client.cpp: when none is left the process ends.
TurnEnds(told, playing) ==
    /\ process = "runs" /\ calls = <<>>
    /\ \/ cur \notin told /\ list' = list
       \/ cur \in told /\ \E i \in DOMAIN list : list[i] = cur /\ list' = RemoveAt(list, i)
    /\ killMe' = told \ {cur}
    /\ inGame' = playing \ (told \cap {cur})
    /\ polled' = FALSE
    /\ IF list' = <<>>
       THEN process' = "ended" /\ cur' = NoHost /\ next' = NoHost
       ELSE /\ cur' = IF next # NoHost THEN next ELSE Head(list')
            /\ next' = After(list', cur')
            /\ UNCHANGED process
    /\ UNCHANGED calls

\* doEvents() returns, right after a packet that tells it to leave or else
\* after everything that is due.
EndTurn ==
    /\ TurnEnds(killMe, inGame)
    /\ UNCHANGED toldBy

\* doEvents(), auto-reconnect: no packet came for too long.  resetSession()
\* clears killMe.
EndTurnSilent ==
    /\ ~polled
    /\ TurnEnds(killMe \ {cur}, inGame \ {cur})
    /\ toldBy' = [toldBy EXCEPT ![cur] = "nothing"]
-----------------------------------------------------------------------------
Next ==
    \/ OtherPacket \/ LoggedIn \/ LoginRefused
    \/ Close \/ RemoteClose \/ CloseAll \/ CallRestart \/ ServerDisconnects
    \/ \E h \in Host : Spawn(h)
    \/ RestartStep
    \/ EndTurn \/ EndTurnSilent

Spec == Init /\ [][Next]_vars

\* The thread runs: a call goes on, and a turn ends since the socket has only
\* so many packets.
Fairness == WF_vars(RestartStep) /\ WF_vars(EndTurn \/ EndTurnSilent)
FairSpec == Spec /\ Fairness
-----------------------------------------------------------------------------
\* Properties

TypeOK ==
    /\ list \in Seq(Host)
    /\ inGame \in SUBSET Host /\ killMe \in SUBSET Host
    /\ cur \in Host \cup {NoHost} /\ next \in Host \cup {NoHost}
    /\ polled \in BOOLEAN
    /\ calls \in Seq(Seq(Host))
    /\ process \in {"runs", "ended", "crashed"}
    /\ toldBy \in [Host -> AllCommands \cup {"nothing", "refused"}]

\* The walk over the list survives what the bots do to it: the Host whose turn
\* it is and the one `parse` points to are in the list, in this order, and no
\* name is in it twice.
WalkIsSound ==
    /\ IsInjective(list)
    /\ process = "runs" =>
          /\ cur \in InList
          /\ next # NoHost => \E i \in 2..Len(list) : list[i - 1] = cur /\ list[i] = next

\* !close counts the bots before it closes one, in the turn of that one: bots
\* that are told to close at the same time never all go.
CloseLeavesOne ==
    [][process = "runs" /\ process' = "ended" => toldBy[cur] # "close"]_vars

\* Every bot gets its turn again, whoever leaves or arrives in the turn of
\* another, unless bots are spawned for ever: new ones go to the end of the
\* list and have their turn first.
SpawningEnds == <>[][ToSet(list') \subseteq ToSet(list)]_list
EveryHostServed ==
    SpawningEnds =>
        \A h \in Host : (h \in InList) ~> (cur = h \/ h \notin InList \/ process # "runs")
-----------------------------------------------------------------------------
\* What the program says of itself, and does not keep.

\* "!restart (relogs all the bots that are currently in a zone)"
\* (command.cpp:162): massRestart() returns to the main loop some day.  It does
\* not: each call makes gotDisconnect() call it again before it moves on.
RestartReturns == (calls # <<>>) ~> (calls = <<>> /\ process = "runs")
=============================================================================
