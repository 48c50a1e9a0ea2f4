------------------------------ MODULE Session -------------------------------
(***************************************************************************)
(* How one Host gets into its zone and comes back after a silence          *)
(* (src/mervbot/host.cpp, the login answers in clientprot.cpp): connection *)
(* request and key exchange, password and answer, retries of the           *)
(* connection, the automatic reconnect.  The server is external, and the   *)
(* network loses, duplicates and reorders datagrams until it is `calm`.    *)
(*                                                                         *)
(* Encryption is on (the default).  Keys are random 32-bit numbers and do  *)
(* not collide: a key drawn by generateKey() is not in use anywhere.       *)
(* Reliable messages (password, answer) reach the other side unless their  *)
(* session ends, which ReliableOut and ReliableIn show.  Time passes in    *)
(* ticks; timers saturate at their limits.                                 *)
(***************************************************************************)
EXTENDS Naturals, FiniteSets

CONSTANTS Key,            \* keys of the clients
          NoKey,          \* a datagram without a key
          MaxTries,       \* MaxConnectionTries of the INI file
          RetryAfter,     \* syncPing << 4, in ticks
          SilenceLimit,   \* PACKET_SILENCE_LIMIT, in ticks
          MaxWire         \* bound on the datagrams the server has in flight

ASSUME SessionAssumption ==
    /\ NoKey \notin Key
    /\ MaxTries \in Nat \ {0}
    /\ RetryAfter \in Nat \ {0}
    /\ SilenceLimit \in Nat \ {0}
    /\ MaxWire \in Nat

VARIABLES
    sentKey,      \* key of the session, drawn by generateKey()
    phase,        \* routers installed: "bare", "login" or "game"
    connecting,   \* until we get an 00 02, send 00 01
    killMe,       \* tells hostList to clean up
    numTries,     \* number of tries remaining before he stops logging in
    silent,       \* ticks since lastRecv
    waited,       \* ticks since lastConnect
    alive,        \* FALSE once the process is lost in gotDisconnect()
    srv,          \* the server's session for this client
    toSrv, toBot, \* datagrams in flight
    calm,         \* the network has become timely
    seen,         \* history: what the server did with the key of this session
    refused       \* history: "try again" answers since the last login

botVars == <<sentKey, phase, connecting, killMe, numTries, silent, waited, alive>>
netVars == <<srv, toSrv, toBot, calm>>
vars == <<botVars, netVars, seen, refused>>

NoSession == [key |-> NoKey, stage |-> "none"]
SrvSession == [key : Key \cup {NoKey}, stage : {"none", "open", "in"}]

Conn(k) == [kind |-> "conn", key |-> k]               \* 00 01
Pwd(k) == [kind |-> "pwd", key |-> k]                 \* password, reliable
Disc == [kind |-> "disc", key |-> NoKey]              \* 00 07, never encrypted
Reply(k) == [kind |-> "reply", key |-> k]             \* 00 02
Answer(k, a) == [kind |-> a, key |-> k]               \* password response, reliable
Traffic == [kind |-> "traffic", key |-> NoKey]        \* anything else

Answers == {"accept", "again", "refuse"}
ToSrv == {Disc} \cup [kind : {"conn", "pwd"}, key : Key]
ToBot == {Disc, Traffic} \cup [kind : {"reply"} \cup Answers, key : Key]

Init ==
    /\ sentKey \in Key
    /\ phase = "bare" /\ connecting = TRUE /\ killMe = FALSE
    /\ numTries = MaxTries /\ silent = 0 /\ waited = 0 /\ alive = TRUE
    /\ srv = NoSession /\ toSrv = {Conn(sentKey)} /\ toBot = {} /\ calm = FALSE
    /\ seen = "nothing"
    /\ refused = 0

Running == alive /\ ~killMe

\* A datagram is taken off the wire; a copy may stay until the network is calm.
Took(wire, p) == IF calm THEN {wire \ {p}} ELSE {wire, wire \ {p}}
-----------------------------------------------------------------------------
\* Host: a new session

\* Mutant of Restart: resetSession() leaves the routers of the old session.
RestartWithRouters ==
    /\ \E k \in Key :
          /\ k # sentKey /\ k # srv.key
          /\ \A p \in toSrv \cup toBot : p.key # k
          /\ sentKey' = k
          /\ toSrv' = toSrv \cup {Conn(k)}
    /\ seen' = "nothing"
    /\ connecting' = TRUE /\ silent' = 0 /\ waited' = 0
    /\ UNCHANGED phase

\* resetSession(), resetArena(), connect(false)
Restart ==
    /\ \E k \in Key :
          /\ k # sentKey /\ k # srv.key
          /\ \A p \in toSrv \cup toBot : p.key # k
          /\ sentKey' = k
          /\ toSrv' = toSrv \cup {Conn(k)}
    /\ seen' = "nothing"
    /\ phase' = "bare" /\ connecting' = TRUE
    /\ silent' = 0 /\ waited' = 0

\* Mutant of Timeout: only a connection that was not answered times out.
TimeoutWhileConnecting ==
    /\ silent = SilenceLimit /\ connecting
    /\ Restart
    /\ UNCHANGED <<killMe, numTries, alive, srv, toBot, calm, refused>>

\* doEvents(): auto-reconnect
Timeout ==
    /\ silent = SilenceLimit
    /\ Restart
    /\ UNCHANGED <<killMe, numTries, alive, srv, toBot, calm, refused>>

\* doEvents(): connect(true)
Retry ==
    /\ silent < SilenceLimit
    /\ connecting /\ waited = RetryAfter
    /\ toSrv' = toSrv \cup {Disc, Conn(sentKey)}
    /\ waited' = 0
    /\ UNCHANGED <<sentKey, phase, connecting, killMe, numTries, silent, alive,
                   srv, toBot, calm, seen, refused>>

\* doEvents(): after an iteration that took too long nobody counts as silent.
SlowIteration ==
    /\ ~calm
    /\ silent > 0
    /\ silent' = 0
    /\ UNCHANGED <<sentKey, phase, connecting, killMe, numTries, waited, alive,
                   netVars, seen, refused>>
-----------------------------------------------------------------------------
\* Host: datagrams.  Each is a disjunct of GotPacket, which takes the datagram
\* off the wire and sets lastRecv.

\* gotEncryptResponse(): connecting ends even if validateSessionKey() fails.
GotEncryptResponse(p) ==
    /\ p.kind = "reply" /\ phase = "bare"
    /\ IF p.key = sentKey
       THEN phase' = "login" /\ toSrv' = toSrv \cup {Pwd(sentKey)}
       ELSE UNCHANGED <<phase, toSrv>>
    /\ connecting' = FALSE
    /\ UNCHANGED <<killMe, numTries, alive, sentKey, waited, seen, refused>>

\* What handlePasswordResponse() compares with 0: `--numTries`, and any
\* negative number is as good as 0.
TriesLeft == IF numTries > 0 THEN numTries - 1 ELSE 0

\* handlePasswordResponse(), case LOG_Continue and its like.  logLogin() gives
\* the tries back, unless it records logins and cannot open its file.
PasswordAccepted(p) ==
    /\ p = Answer(sentKey, "accept") /\ phase = "login"
    /\ phase' = "game"
    /\ numTries' \in {TriesLeft, MaxTries}
    /\ refused' = 0
    /\ UNCHANGED <<sentKey, connecting, killMe, waited, alive, toSrv, seen>>

\* Mutant of PasswordAgain: the try is not counted.
PasswordAgainUncounted(p) ==
    /\ p = Answer(sentKey, "again") /\ phase = "login"
    /\ refused' = refused + 1
    /\ IF TriesLeft = 0
       THEN killMe' = TRUE /\ toSrv' = toSrv \cup {Disc}
       ELSE killMe' = FALSE /\ toSrv' = toSrv \cup {Pwd(sentKey)}
    /\ UNCHANGED <<numTries, sentKey, phase, connecting, waited, alive, seen>>

\* handlePasswordResponse(), cases LOG_NewUser, LOG_FullArena,
\* LOG_NoNewConnections, LOG_BusyProcessing: the password is sent again while
\* tries are left.
PasswordAgain(p) ==
    /\ p = Answer(sentKey, "again") /\ phase = "login"
    /\ numTries' = TriesLeft
    /\ refused' = refused + 1
    /\ IF TriesLeft = 0
       THEN killMe' = TRUE /\ toSrv' = toSrv \cup {Disc}
       ELSE killMe' = FALSE /\ toSrv' = toSrv \cup {Pwd(sentKey)}
    /\ UNCHANGED <<sentKey, phase, connecting, waited, alive, seen>>

\* handlePasswordResponse(), all other cases: disconnect(true)
PasswordRefused(p) ==
    /\ p = Answer(sentKey, "refuse") /\ phase = "login"
    /\ numTries' = TriesLeft
    /\ killMe' = TRUE /\ toSrv' = toSrv \cup {Disc}
    /\ UNCHANGED <<sentKey, phase, connecting, waited, alive, seen, refused>>

\* gotDisconnect(): a session is set up, but the call of massRestart() that
\* follows does not return (HostList): the process is lost.
GotDisconnect(p) ==
    /\ p = Disc
    /\ alive' = FALSE
    /\ UNCHANGED <<sentKey, phase, connecting, killMe, numTries, waited, toSrv, seen, refused>>

\* Everything else has no handler, or is garbage under the key of the session.
Ignored(p) ==
    /\ p # Disc
    /\ p.kind = "reply" => phase # "bare"
    /\ p.kind \in Answers => p.key # sentKey \/ phase # "login"
    /\ UNCHANGED <<sentKey, phase, connecting, killMe, numTries, waited, alive,
                   toSrv, seen, refused>>

\* poll(), gotPacket()
GotPacket(p) ==
    /\ p \in toBot
    /\ toBot' \in Took(toBot, p)
    /\ silent' = 0
    /\ \/ GotEncryptResponse(p)
       \/ PasswordAccepted(p)
       \/ PasswordAgain(p)
       \/ PasswordRefused(p)
       \/ GotDisconnect(p)
       \/ Ignored(p)
    /\ UNCHANGED <<srv, calm>>
-----------------------------------------------------------------------------
\* The server

SrvSends(datagrams) ==
    /\ toBot' = toBot \cup datagrams
    /\ Cardinality(toBot') <= MaxWire

SrvGotConnect(k) ==
    /\ Conn(k) \in toSrv
    /\ calm => Disc \notin toSrv
    /\ toSrv' \in Took(toSrv, Conn(k))
    /\ srv' = [key |-> k, stage |-> "open"]
    /\ SrvSends({Reply(k)})
    /\ seen' = IF k = sentKey /\ seen = "nothing" THEN "opened" ELSE seen
    /\ UNCHANGED <<botVars, calm, refused>>

SrvGotDisconnect ==
    /\ Disc \in toSrv
    /\ toSrv' \in Took(toSrv, Disc)
    /\ srv' = NoSession
    /\ UNCHANGED <<botVars, toBot, calm, seen, refused>>

SrvAnswers(k, a) ==
    /\ Pwd(k) \in toSrv
    /\ srv = [key |-> k, stage |-> "open"]
    /\ toSrv' = toSrv \ {Pwd(k)}
    /\ SrvSends({Answer(k, a)})
    /\ IF a = "accept"
       THEN /\ srv' = [srv EXCEPT !.stage = "in"]
            /\ seen' = IF k = sentKey THEN "accepted" ELSE seen
       ELSE UNCHANGED <<srv, seen>>
    /\ UNCHANGED <<botVars, calm, refused>>

SrvTraffic ==
    /\ srv.stage = "in"
    /\ SrvSends({Traffic})
    /\ UNCHANGED <<botVars, srv, toSrv, calm, seen, refused>>

\* The server gives a session up, with or without an 00 07: always possible
\* until the network is calm, then only for a session the bot is not in.
SrvDrops ==
    /\ srv # NoSession
    /\ calm => srv.key # sentKey
    /\ srv' = NoSession
    /\ UNCHANGED toBot \/ SrvSends({Disc})
    /\ UNCHANGED <<botVars, toSrv, calm, seen, refused>>
-----------------------------------------------------------------------------
\* Network and time

\* A reliable message is repeated as long as its session lasts.
Lose ==
    /\ \/ /\ \E p \in toSrv : /\ ~calm \/ p.kind = "pwd"
                              /\ p.kind = "pwd" => p.key # sentKey
                              /\ toSrv' = toSrv \ {p}
          /\ UNCHANGED toBot
       \/ /\ ~calm
          /\ \E p \in toBot : /\ p.kind \in Answers => p.key # srv.key
                              /\ toBot' = toBot \ {p}
          /\ UNCHANGED toSrv
    /\ UNCHANGED <<botVars, srv, calm, seen, refused>>

BecomeCalm ==
    /\ ~calm /\ calm' = TRUE
    /\ UNCHANGED <<botVars, srv, toSrv, toBot, seen, refused>>

\* A timer that has run out fires before the next tick, and a calm network
\* delivers everything between two ticks.
Tick ==
    /\ silent < SilenceLimit
    /\ ~(connecting /\ waited = RetryAfter)
    /\ calm => /\ toBot = {}
               /\ \A p \in toSrv : p.kind = "pwd" /\ srv # [key |-> p.key, stage |-> "open"]
    /\ silent' = silent + 1
    /\ waited' = IF waited < RetryAfter THEN waited + 1 ELSE waited
    /\ UNCHANGED <<sentKey, phase, connecting, killMe, numTries, alive, netVars, seen, refused>>

HostStep ==
    \/ Timeout \/ Retry \/ SlowIteration
    \/ \E p \in toBot : GotPacket(p)

ServerStep ==
    \/ \E k \in Key : SrvGotConnect(k)
    \/ SrvGotDisconnect
    \/ \E k \in Key, a \in Answers : SrvAnswers(k, a)
    \/ SrvTraffic
    \/ SrvDrops

\* What happens after the Host is gone is of no interest.
Next == Running /\ (HostStep \/ ServerStep \/ Lose \/ BecomeCalm \/ Tick)

Spec == Init /\ [][Next]_vars

\* The main loop never stops (client.cpp), time passes, the network becomes
\* calm some day and delivers from then on, and the server answers.
Fairness ==
    /\ WF_vars(Running /\ Timeout) /\ WF_vars(Running /\ Retry) /\ WF_vars(Running /\ Tick)
    /\ \A kind \in {"disc", "reply", "traffic"} \cup Answers :
          WF_vars(Running /\ \E p \in toBot : p.kind = kind /\ GotPacket(p))
    /\ WF_vars(Running /\ \E k \in Key : SrvGotConnect(k))
    /\ WF_vars(Running /\ SrvGotDisconnect)
    /\ WF_vars(Running /\ \E k \in Key, a \in Answers : SrvAnswers(k, a))
    /\ WF_vars(Running /\ SrvDrops)
    /\ WF_vars(Running /\ Lose /\ calm)
    /\ WF_vars(Running /\ BecomeCalm)

FairSpec == Spec /\ Fairness
-----------------------------------------------------------------------------
\* Properties

TypeOK ==
    /\ sentKey \in Key /\ phase \in {"bare", "login", "game"}
    /\ connecting \in BOOLEAN /\ killMe \in BOOLEAN /\ alive \in BOOLEAN /\ calm \in BOOLEAN
    /\ numTries \in 0..MaxTries /\ refused \in Nat
    /\ silent \in 0..SilenceLimit /\ waited \in 0..RetryAfter
    /\ srv \in SrvSession
    /\ toSrv \in SUBSET ToSrv /\ toBot \in SUBSET ToBot
    /\ seen \in {"nothing", "opened", "accepted"}

\* Nothing an earlier session left on the wire takes the bot a step further in
\* this one: past the key exchange the server has opened a session under this
\* very key, and in the game it has accepted the password sent under it.
OwnSession ==
    /\ phase # "bare" => seen # "nothing"
    /\ phase = "game" => seen = "accepted"

\* The bot stops logging in: it never sees more than MaxTries answers that ask
\* it to try again without having been let in, however many sessions they are
\* spread over, and the one that uses up the tries closes it.
TriesRunOut ==
    /\ refused <= MaxTries
    /\ refused = MaxTries => killMe

\* Auto-reconnect: whatever was lost, late or refused, the bot that was not
\* told to leave is in the game again some day, in a session the server knows.
InGame == phase = "game" /\ srv = [key |-> sentKey, stage |-> "in"]
Reconnects == []<>(InGame \/ ~Running)
=============================================================================
