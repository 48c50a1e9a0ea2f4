------------------------------ MODULE Gateway -------------------------------
(***************************************************************************)
(* The gateway sessions of the Discord library (src/include/aegis): class  *)
(* shard_mgr keeps every shard connected, one attempt at a time and no two *)
(* identifies within five seconds.  Shards wait in _shards_to_connect;     *)
(* ws_status(), a timer, starts the attempt of the front one;              *)
(* _on_connect() takes the front off the queue and sends an identify or a  *)
(* resume; the READY or RESUMED handler, which runs in a thread pool, ends *)
(* the attempt; whatever closes a connection ends in _on_close(), which    *)
(* queues the shard again.                                                 *)
(*                                                                         *)
(* Time passes in ticks of six seconds and the timer, which runs every     *)
(* 100 ms, any number of times between two ticks.  The gateway is          *)
(* external: it answers when it likes and what it likes.                   *)
(*                                                                         *)
(* The code runs one attempt at a time and takes for granted that nothing  *)
(* of an earlier one is left.  `crossed` remembers where that is not so;   *)
(* the properties say what holds until then.                               *)
(***************************************************************************)
EXTENDS Integers, Sequences, FiniteSets

CONSTANTS Shards,          \* _shards
          NoShard,         \* nullptr
          ConnectLimit,    \* 20 s, the timeout of an attempt, in ticks
          BeatLimit,       \* 20 s, the timeout of a heartbeat, in ticks
          AuthDelay,       \* 5 to 7 s, the delay of an identify after an invalid session
          MaxResets,       \* bound on the resets of one shard that are posted at a time
          Start            \* _shards_to_connect as start() fills it

ASSUME GatewayAssumption ==
    /\ NoShard \notin Shards
    /\ ConnectLimit \in Nat \ {0} /\ BeatLimit \in Nat /\ AuthDelay \in Nat \ {0}
    /\ MaxResets \in Nat \ {0}
    /\ Start \in Seq(Shards)
    /\ \A s \in Shards : \E i \in 1..Len(Start) : Start[i] = s
    /\ \A i, j \in 1..Len(Start) : Start[i] = Start[j] => i = j

VARIABLES
    state,          \* connection_state
    conn,           \* _connection and its socket
    dropped,        \* shards that let go of a connection whose close handler is to come
    resets,         \* the resets do_reset() has posted that have not run
    outbox,         \* write_queue: the identify or resume in it
    auth,           \* delayedauth: ticks left, or Off
    waited,         \* ticks since an unanswered heartbeat, or Off
    beating,        \* keepalivetimer is running
    session,        \* shards with a session_id
    queue,          \* _shards_to_connect
    connecting,     \* _connecting_shard
    connectTime,    \* ticks since _connect_time, or Off
    identifyAge,    \* ticks since _last_identify
    asked,          \* gateway: what an open connection has asked for
    jobs,           \* READY and RESUMED handlers waiting in the thread pool
    gatewayAge,     \* gateway: ticks since it last received an identify
    crossed         \* history: how an attempt has met what is left of another

linkVars == <<conn, dropped, resets>>
socketVars == <<state, linkVars, outbox, auth, waited, beating>>
attemptVars == <<connecting, connectTime>>
gatewayVars == <<asked, jobs, gatewayAge>>
gwVars == <<socketVars, session, queue, attemptVars, identifyAge, gatewayVars, crossed>>

Off == -1
IdentifyGap == 1    \* ws_status: six seconds since _last_identify
\* "closing" is also what the code calls queued: nothing tells the two apart.
States == {"uninitialized", "connecting", "preready", "online", "closing"}
\* A connection is "leaving" once it is being closed and "closed" when its close
\* handler has run: its socket is open until the shard lets go of it.
Conns == {"none", "opening", "failed", "open", "leaving", "closed"}
Asks == {"nothing", "identify", "resume"}
Causes == {"session", "pending", "timeout", "reset"}

InQueue(s) == \E i \in 1..Len(queue) : queue[i] = s

\* is_connected().  The socket is open from the TCP connection on, before the
\* open handler has run.
IsConnected(s) ==
    conn[s] \in {"opening", "open", "leaving", "closed"} /\ state[s] \in {"preready", "online"}

\* is_online(), for a connection the gateway knows of.
IsOnline(s) == conn[s] = "open" /\ state[s] = "online"

\* The attempt under way is that of s.
Attempt(s) == connecting = s /\ connectTime # Off

GwInit ==
    /\ state = [s \in Shards |-> "uninitialized"]
    /\ conn = [s \in Shards |-> "none"]
    /\ dropped = {} /\ resets = [s \in Shards |-> 0]
    /\ outbox = [s \in Shards |-> "nothing"]
    /\ auth = [s \in Shards |-> Off]
    /\ waited = [s \in Shards |-> Off]
    /\ beating = {}
    /\ session = {}
    /\ queue = Start
    /\ connecting = NoShard /\ connectTime = Off
    /\ identifyAge = IdentifyGap
    /\ asked = [s \in Shards |-> "nothing"]
    /\ jobs = [s \in Shards |-> "nothing"] /\ gatewayAge = 1
    /\ crossed = {}
-----------------------------------------------------------------------------
\* shard_mgr: the timer

\* Mutant of Requeued: the shard is put in front.
RequeuedFirst(q, s) == IF \E i \in 1..Len(q) : q[i] = s THEN q ELSE <<s>> \o q

\* queue_reconnect()
Requeued(q, s) == IF \E i \in 1..Len(q) : q[i] = s THEN q ELSE Append(q, s)

\* The shards whose heartbeat has gone unanswered too long.
Silent == {s \in Shards : IsConnected(s) /\ waited[s] > BeatLimit}

\* close() on a connection whose socket is open.
Shut(c) == IF c = "open" THEN "leaving" ELSE c

\* ws_status(), its loop over the shards: close() and do_reset() of the silent
\* ones.  The reset is posted to the strand of the connection.
WsStatusDrop ==
    /\ Silent # {}
    /\ \A s \in Silent : resets[s] < MaxResets
    /\ state' = [s \in Shards |-> IF s \in Silent THEN "closing" ELSE state[s]]
    /\ conn' = [s \in Shards |-> IF s \in Silent THEN Shut(conn[s]) ELSE conn[s]]
    /\ resets' = [s \in Shards |-> IF s \in Silent THEN resets[s] + 1 ELSE resets[s]]
    /\ UNCHANGED <<dropped, outbox, auth, waited, beating, session, queue, attemptVars,
                   identifyAge, gatewayVars, crossed>>

\* _reset(): what waits to be sent and the timers are dropped, but for a
\* delayed identify whose handler is already due.
DropTimers(s) ==
    /\ state' = [state EXCEPT ![s] = "closing"]
    /\ outbox' = [outbox EXCEPT ![s] = "nothing"]
    /\ auth' = [auth EXCEPT ![s] = IF @ = 0 THEN 0 ELSE Off]
    /\ beating' = beating \ {s}

\* do_reset(): at once if there is no connection, or else posted to the strand
\* of the one there is.
DoReset(s) ==
    IF conn[s] = "none"
    THEN DropTimers(s) /\ UNCHANGED resets
    ELSE /\ resets[s] < MaxResets
         /\ resets' = [resets EXCEPT ![s] = @ + 1]
         /\ UNCHANGED <<state, outbox, auth, beating>>

\* The reset do_reset() posted: the shard lets go of whatever connection it
\* has by now, and closes it if it is open.
Reset(s) ==
    /\ resets[s] > 0
    /\ resets' = [resets EXCEPT ![s] = @ - 1]
    /\ conn' = [conn EXCEPT ![s] = "none"]
    /\ dropped' = IF conn[s] \in {"open", "leaving"} THEN dropped \cup {s} ELSE dropped
    /\ DropTimers(s)
    /\ UNCHANGED <<waited, session, queue, attemptVars, identifyAge, gatewayVars, crossed>>

\* Mutant of MayAttempt: attempts are not held back.
MayAttemptAnyTime == queue # <<>>

\* What ws_status() does with the queue waits six seconds for the last identify.
MayAttempt == queue # <<>> /\ identifyAge >= IdentifyGap

\* An attempt has taken too long: close() lets go of a connection whose socket
\* is not open, the front of the queue is taken off whoever it is, and s goes to
\* the back.
Abandon(s) ==
    /\ state' = [state EXCEPT ![s] = "closing"]
    /\ conn' = [conn EXCEPT ![s] = IF @ = "failed" THEN "none" ELSE Shut(@)]
    /\ queue' = Requeued(Tail(queue), s)
    /\ crossed' = IF conn[s] = "failed" THEN crossed ELSE crossed \cup {"timeout"}
    /\ connecting' = NoShard
    /\ UNCHANGED <<dropped, resets, outbox, auth, waited, beating, session, identifyAge,
                   gatewayVars>>

\* Mutant of WsStatusTimeout: the time of the attempt is not reset.
TimeoutKeepsTime ==
    /\ MayAttempt /\ connectTime >= ConnectLimit
    /\ connecting # NoShard
    /\ Silent = {}
    /\ Abandon(connecting)
    /\ UNCHANGED connectTime

\* ws_status(): the time-out of an attempt.
WsStatusTimeout ==
    /\ MayAttempt /\ connectTime >= ConnectLimit
    /\ connecting # NoShard
    /\ Silent = {}
    /\ Abandon(connecting)
    /\ connectTime' = Off

\* Nothing of an earlier connection waits in the thread pool.
PoolIdle == \A s \in Shards : jobs[s] = "nothing" /\ auth[s] # 0

\* ws_status(): the next attempt.  A front shard that is connected already
\* only leaves the queue.
WsStatusConnect ==
    /\ MayAttempt /\ connectTime = Off
    /\ Silent = {}
    /\ LET s == Head(queue) IN
       /\ IF IsConnected(s)
          THEN /\ queue' = Tail(queue)
               /\ UNCHANGED <<socketVars, attemptVars, asked>>
          ELSE /\ connecting' = s /\ connectTime' = 0
               /\ state' = [state EXCEPT ![s] = "connecting"]
               /\ conn' = [conn EXCEPT ![s] = "opening"]
               /\ dropped' = IF conn[s] \in {"open", "leaving"} THEN dropped \cup {s} ELSE dropped
               /\ waited' = [waited EXCEPT ![s] = IF @ = Off THEN Off ELSE 0]
               /\ asked' = [asked EXCEPT ![s] = "nothing"]
               /\ UNCHANGED <<resets, outbox, auth, beating, queue>>
       /\ crossed' = crossed \cup (IF resets[s] > 0 THEN {"reset"} ELSE {})
                             \cup (IF IsConnected(s) \/ PoolIdle THEN {} ELSE {"pending"})
    /\ UNCHANGED <<session, identifyAge, jobs, gatewayAge>>
-----------------------------------------------------------------------------
\* shard_mgr and core: the callbacks of a connection

\* core::on_connect(): a shard that has a session resumes it.
Identify(s) ==
    IF s \in session
    THEN /\ outbox' = [outbox EXCEPT ![s] = "resume"]
         /\ UNCHANGED identifyAge
    ELSE /\ outbox' = [outbox EXCEPT ![s] = "identify"]
         /\ identifyAge' = 0

\* _on_connect(): the front of the queue is taken off, and i_on_connect called.
OnConnect(s) ==
    /\ conn[s] = "opening"
    /\ conn' = [conn EXCEPT ![s] = "open"]
    /\ state' = [state EXCEPT ![s] = "preready"]
    /\ IF queue # <<>> /\ connecting = NoShard
       THEN UNCHANGED <<queue, outbox, identifyAge>>
       ELSE /\ queue' = IF queue = <<>> THEN queue ELSE Tail(queue)
            /\ Identify(s)
    /\ UNCHANGED <<dropped, resets, auth, waited, beating, session, attemptVars, gatewayVars,
                   crossed>>

\* The connection cannot be made.  The library sets no handler for this.
Fails(s) ==
    /\ conn[s] = "opening"
    /\ conn' = [conn EXCEPT ![s] = "failed"]
    /\ UNCHANGED <<state, dropped, resets, outbox, auth, waited, beating, session, queue,
                   attemptVars, identifyAge, gatewayVars, crossed>>

\* What s sends reaches the gateway unless the connection is being closed.
Received(s, what) ==
    /\ IF conn[s] = "open"
       THEN /\ asked' = [asked EXCEPT ![s] = what]
            /\ gatewayAge' = IF what = "identify" THEN 0 ELSE gatewayAge
       ELSE UNCHANGED <<asked, gatewayAge>>
    /\ UNCHANGED jobs

\* process_writes(): every 600 ms one message goes out.
MayWrite(s) ==
    conn[s] \in {"open", "leaving"} /\ state[s] \in {"preready", "online"} /\ outbox[s] # "nothing"
ProcessWrites(s) ==
    /\ MayWrite(s)
    /\ outbox' = [outbox EXCEPT ![s] = "nothing"]
    /\ Received(s, outbox[s])
    /\ UNCHANGED <<state, linkVars, auth, waited, beating, session, queue, attemptVars,
                   identifyAge, crossed>>

\* on_message(), op 10: hello, the heartbeats start.
Hello(s) ==
    /\ conn[s] = "open" /\ s \notin beating
    /\ beating' = beating \cup {s}
    /\ waited' = [waited EXCEPT ![s] = Off]
    /\ UNCHANGED <<state, linkVars, outbox, auth, session, queue, attemptVars, identifyAge,
                   gatewayVars, crossed>>

\* keep_alive()
KeepAlive(s) ==
    /\ s \in beating /\ IsConnected(s)
    /\ waited' = [waited EXCEPT ![s] = 0]
    /\ UNCHANGED <<state, linkVars, outbox, auth, beating, session, queue, attemptVars,
                   identifyAge, gatewayVars, crossed>>

\* on_message(), op 11: the heartbeat is answered.
HeartbeatAck(s) ==
    /\ conn[s] = "open" /\ waited[s] # Off
    /\ waited' = [waited EXCEPT ![s] = Off]
    /\ UNCHANGED <<state, linkVars, outbox, auth, beating, session, queue, attemptVars,
                   identifyAge, gatewayVars, crossed>>

\* The gateway, which says hello first, accepts: on_message() posts the handler
\* of READY or RESUMED.  One of a shard waits in the pool at a time.
Accept(s) ==
    /\ conn[s] = "open" /\ s \in beating /\ asked[s] # "nothing" /\ jobs[s] = "nothing"
    /\ jobs' = [jobs EXCEPT ![s] = asked[s]]
    /\ asked' = [asked EXCEPT ![s] = "nothing"]
    /\ UNCHANGED <<socketVars, session, queue, attemptVars, identifyAge, gatewayAge, crossed>>

\* expires_after() of delayedauth
Delay == AuthDelay

\* on_message(), op 9, whenever the gateway sends it: the session is gone,
\* identify later.
InvalidSession(s) ==
    /\ conn[s] = "open"
    /\ asked' = [asked EXCEPT ![s] = "nothing"]
    /\ session' = session \ {s}
    /\ auth' = [auth EXCEPT ![s] = Delay]
    /\ crossed' = IF Attempt(s) /\ asked[s] # "nothing" THEN crossed
                                                         ELSE crossed \cup {"session"}
    /\ UNCHANGED <<state, linkVars, outbox, waited, beating, queue, attemptVars,
                   identifyAge, jobs, gatewayAge>>

\* delayedauth: the identify after an invalid session, sent at once.  A timer
\* that was due when the connection was reset finds no connection.
DelayedAuth(s) ==
    /\ auth[s] = 0
    /\ IF conn[s] = "none"
       THEN /\ state' = [state EXCEPT ![s] = "closing"]
            /\ session' = session \ {s}
            /\ UNCHANGED <<identifyAge, gatewayVars>>
       ELSE /\ identifyAge' = 0
            /\ IF IsConnected(s) THEN Received(s, "identify") ELSE UNCHANGED gatewayVars
            /\ UNCHANGED <<state, session>>
    /\ auth' = [auth EXCEPT ![s] = Off]
    /\ UNCHANGED <<linkVars, outbox, waited, beating, queue, attemptVars, crossed>>

\* ws_ready() and process_ready() store the session_id.
WsReady(s) ==
    /\ jobs[s] = "identify"
    /\ session' = session \cup {s}
    /\ UNCHANGED beating

\* ws_resumed() starts the heartbeats once more.
WsResumed(s) ==
    /\ jobs[s] = "resume"
    /\ beating' = IF conn[s] = "none" THEN beating ELSE beating \cup {s}
    /\ UNCHANGED session

\* Either ends the attempt, in a thread of the pool, whichever shard's it is.
HandleReady(s) ==
    /\ WsReady(s) \/ WsResumed(s)
    /\ jobs' = [jobs EXCEPT ![s] = "nothing"]
    /\ state' = [state EXCEPT ![s] = "online"]
    /\ connecting' = NoShard /\ connectTime' = Off
    /\ UNCHANGED <<linkVars, outbox, auth, waited, queue, identifyAge, asked, gatewayAge,
                   crossed>>

\* The gateway closes a connection, or asks for it with op 7.
ServerCloses(s) ==
    /\ conn[s] = "open"
    /\ conn' = [conn EXCEPT ![s] = "leaving"]
    /\ state' \in {state, [state EXCEPT ![s] = "closing"]}
    /\ UNCHANGED <<dropped, resets, outbox, auth, waited, beating, session, queue, attemptVars,
                   identifyAge, gatewayVars, crossed>>

\* The close handler runs: that of the shard's connection, or that of one the
\* shard has let go of.
CloseHandled(s) ==
    \/ /\ conn[s] = "leaving"
       /\ conn' = [conn EXCEPT ![s] = "closed"]
       /\ UNCHANGED dropped
    \/ /\ s \in dropped
       /\ dropped' = dropped \ {s}
       /\ UNCHANGED conn

\* Mutant of OnClose: the shard is not queued.
OnCloseUnqueued(s) ==
    /\ CloseHandled(s)
    /\ connectTime' = IF connecting = s THEN Off ELSE connectTime
    /\ DoReset(s)
    /\ UNCHANGED <<waited, session, queue, connecting, identifyAge, gatewayVars, crossed>>

\* _on_close(): the shard is reset and queued.
OnClose(s) ==
    /\ CloseHandled(s)
    /\ connectTime' = IF connecting = s THEN Off ELSE connectTime
    /\ DoReset(s)
    /\ queue' = Requeued(queue, s)
    /\ UNCHANGED <<waited, session, connecting, identifyAge, gatewayVars, crossed>>
-----------------------------------------------------------------------------
\* Time passes.  What a timer owes happens first: a written message, a delayed
\* identify.  websocketpp gives each of the four steps of opening a connection
\* five seconds, so that it has opened or failed before ConnectLimit.
Tick ==
    LET aged(t, limit) == IF t = Off THEN Off ELSE IF t < limit THEN t + 1 ELSE t
    IN  /\ \A s \in Shards : auth[s] # 0 /\ ~MayWrite(s)
        /\ \A s \in Shards :
              connecting = s /\ connectTime = ConnectLimit - 1 => conn[s] # "opening"
        /\ auth' = [s \in Shards |-> IF auth[s] = Off THEN Off ELSE auth[s] - 1]
        /\ waited' = [s \in Shards |-> aged(waited[s], BeatLimit + 1)]
        /\ connectTime' = aged(connectTime, ConnectLimit)
        /\ identifyAge' = aged(identifyAge, IdentifyGap)
        /\ gatewayAge' = aged(gatewayAge, 1)
        /\ UNCHANGED <<state, linkVars, outbox, beating, session, queue, connecting, asked,
                       jobs, crossed>>

Callback(s) ==
    \/ OnConnect(s) \/ Fails(s) \/ ProcessWrites(s) \/ Hello(s) \/ KeepAlive(s)
    \/ HeartbeatAck(s) \/ Accept(s) \/ InvalidSession(s) \/ DelayedAuth(s)
    \/ HandleReady(s) \/ ServerCloses(s) \/ OnClose(s) \/ Reset(s)

WsStatus == WsStatusDrop \/ WsStatusTimeout \/ WsStatusConnect

GwNext == WsStatus \/ Tick \/ \E s \in Shards : Callback(s)

GwSpec == GwInit /\ [][GwNext]_gwVars

\* The timer and the callbacks run, and the gateway answers what it is asked
\* on a connection that stays open.
Fairness ==
    /\ WF_gwVars(Tick) /\ WF_gwVars(WsStatus)
    /\ \A s \in Shards :
          /\ WF_gwVars(OnClose(s)) /\ WF_gwVars(Reset(s))
          /\ WF_gwVars(DelayedAuth(s)) /\ WF_gwVars(HandleReady(s))
          /\ WF_gwVars(OnConnect(s) \/ Fails(s)) /\ WF_gwVars(Hello(s))
          /\ WF_gwVars(ProcessWrites(s)) /\ WF_gwVars(Accept(s))

GwFairSpec == GwSpec /\ Fairness
-----------------------------------------------------------------------------
\* Properties

GwTypeOK ==
    /\ state \in [Shards -> States]
    /\ conn \in [Shards -> Conns]
    /\ dropped \in SUBSET Shards /\ resets \in [Shards -> 0..MaxResets]
    /\ outbox \in [Shards -> Asks] /\ asked \in [Shards -> Asks]
    /\ auth \in [Shards -> Off..AuthDelay]
    /\ waited \in [Shards -> Off..(BeatLimit + 1)]
    /\ beating \in SUBSET Shards /\ session \in SUBSET Shards
    /\ queue \in Seq(Shards)
    /\ connecting \in Shards \cup {NoShard}
    /\ connectTime \in Off..ConnectLimit
    /\ identifyAge \in 0..IdentifyGap /\ gatewayAge \in 0..1
    /\ jobs \in [Shards -> Asks]
    /\ crossed \in SUBSET Causes

\* ws_status() reads _connecting_shard while the time of an attempt runs, and
\* both it and _on_connect() take the front off the queue, whoever that is: the
\* attempt is known, and its shard in front until its connection opens, through
\* invalid sessions, time-outs, closes and resets of any shard at any time, as
\* long as no attempt began while something of an earlier one waited in the pool.
AttemptIsFront ==
    "pending" \notin crossed /\ connectTime # Off =>
        /\ connecting # NoShard
        /\ conn[connecting] \in {"opening", "failed"} =>
              queue # <<>> /\ Head(queue) = connecting

\* A shard nothing will ever put into the queue or online again.
Lost(s) ==
    ~ (IsOnline(s) \/ InQueue(s) \/ conn[s] = "leaving" \/ s \in dropped \/ Attempt(s))

\* No shard is forgotten: one that is not online waits in the queue, is being
\* connected, or will be queued by its close handler.  Each of the four ways in
\* which attempts meet can lose one (NoneForgotten below); nothing else does.
NeverLost == crossed = {} => \A s \in Shards : ~Lost(s)

\* Discord allows one identify per five seconds over all shards: whatever the
\* order of attempts, refused resumes and identifies, closes, failures and
\* late handlers, the gateway does not receive two of them within one tick
\* until one attempt has met what is left of another.
IdentifySpaced ==
    [][\A s \in Shards : asked'[s] = "identify" /\ asked[s] # "identify"
                            => gatewayAge > 0 \/ crossed # {}]_gwVars

\* Trouble: a connection fails or is closed, a session is invalid, a heartbeat
\* is not answered.
Trouble ==
    \/ WsStatusDrop
    \/ \E s \in Shards : Fails(s) \/ ServerCloses(s) \/ InvalidSession(s)

\* Whatever has gone wrong before, once nothing does any more every shard gets
\* online and stays so, if the attempts have not met: none is left half-way, no
\* shard waits for ever.
BackOnline ==
    [](crossed = {}) /\ <>[][~Trouble]_gwVars => \A s \in Shards : <>[]IsOnline(s)
-----------------------------------------------------------------------------
\* What the code says of itself, and does not keep.

\* A comment in the loop of ws_status(), shard_mgr.cpp:318: a shard that is not
\* connected is found in the connection queue or added to it.
NoneForgotten == \A s \in Shards : ~Lost(s)

\* _on_connect(), shard_mgr.cpp:206, logs an error if the front of the queue is
\* not the shard that has connected.
FrontHasConnected ==
    [][\A s \in Shards : OnConnect(s) /\ queue # <<>> /\ connecting # NoShard
                            => Head(queue) = s]_gwVars
=============================================================================
