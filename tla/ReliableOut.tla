---------------------------- MODULE ReliableOut -----------------------------
(***************************************************************************)
(* The outbox of class Host (src/mervbot/host.cpp): reliable messages get  *)
(* consecutive ACK_IDs, at most MAX_RELIABLE_IN_TRANSIT of them are        *)
(* unacknowledged at a time, the others wait in `queued`, and whatever is  *)
(* not acknowledged is sent again.  The network loses, duplicates and      *)
(* reorders datagrams.  The server is external: it acknowledges every      *)
(* reliable message and hands them to its handlers in ACK_ID order, which  *)
(* is also how the bot's own inbox (ReliableIn) behaves.                   *)
(*                                                                         *)
(* One behaviour is one session, from resetSession to the next.            *)
(*                                                                         *)
(* A message is its body.  Long stands for the bodies of CHUNK_SIZE + 7 to *)
(* CHUNK_SIZE + 12 bytes: post() sends such a message whole, but with the  *)
(* six bytes of the reliable header it exceeds the limit post() compares   *)
(* with, so that posting the stored copy again takes the chunk path.       *)
(***************************************************************************)
EXTENDS Integers, Sequences, FiniteSets

CONSTANTS Data,               \* message bodies of the program
          Long,               \* those that exceed the limit once they are stamped
          Frag,               \* a fragment of a stamped message
          MaxInTransit,       \* MAX_RELIABLE_IN_TRANSIT
          MaxSteps,           \* bound on the number of ACK_IDs used
          MaxBurst            \* bound on the fragments of one long message

ASSUME OutAssumption ==
    /\ Long \subseteq Data
    /\ Frag \notin Data
    /\ MaxInTransit \in Nat \ {0}
    /\ MaxSteps \in Nat
    /\ MaxBurst \in Nat

VARIABLES
    posted,      \* bodies in the order queue() stamped them
    localStep,   \* next ACK_ID to be used
    localSent,   \* next ACK_ID to enter the window
    sent,        \* messages waiting for an acknowledgement
    queued,      \* messages waiting for a place in the window
    clustered,   \* datagrams waiting for endCluster
    dataWire,    \* reliable messages on their way to the server
    ackWire,     \* acknowledgements on their way to the bot
    peerStep,    \* server: next ACK_ID expected
    peerBuf,     \* server: messages that arrived early
    delivered    \* server: bodies handled, in order

hostVars == <<posted, localStep, localSent, sent, queued, clustered>>
peerVars == <<peerStep, peerBuf, delivered>>
vars == <<hostVars, dataWire, ackWire, peerVars>>

Body == Data \cup {Frag}
Msg == [id : Nat, body : Body]
IdsOf(S) == {m.id : m \in S}

Init ==
    /\ posted = <<>> /\ localStep = 0 /\ localSent = 0
    /\ sent = {} /\ queued = {} /\ clustered = {}
    /\ dataWire = {} /\ ackWire = {}
    /\ peerStep = 0 /\ peerBuf = {} /\ delivered = <<>>
-----------------------------------------------------------------------------
\* Host: sending

\* The fragments of one stamped long message, posted as messages of their own.
Chunked == <<Frag, Frag>>

\* Mutant of Stamped: the fragments of one message are stamped last to first.
StampedBackwards(base, bs, I) == {[id |-> base + Len(bs) - i, body |-> bs[i]] : i \in I}

\* The messages post() makes of those bodies bs[i] with i in I when they are
\* stamped one after the other from ACK_ID `base` on.
Stamped(base, bs, I) == {[id |-> base + i - 1, body |-> bs[i]] : i \in I}

\* queue() called for the bodies bs in order while `inWindow` is the window:
\* the first ones take the free places and go out, together with the
\* datagrams `also`; the others wait, and `left` keeps waiting.
PostAll(bs, inWindow, left, moved, also) ==
    LET free   == MaxInTransit - Cardinality(inWindow)
        direct == IF free >= Len(bs) THEN Len(bs) ELSE IF free > 0 THEN free ELSE 0
        first  == Stamped(localStep, bs, 1..direct)
        rest   == Stamped(localStep, bs, (direct + 1)..Len(bs))
    IN  /\ posted' = posted \o bs
        /\ localStep' = localStep + Len(bs)
        /\ localSent' = localSent + direct + Cardinality(moved)
        /\ sent' = inWindow \cup first \cup moved
        /\ queued' = left \cup rest
        /\ clustered' = clustered \cup first \cup also

\* What one call of post(msg, len, true) can hand to queue(): a message that
\* fits, or the fragments of one that does not (never Long themselves).
Messages == {<<d>> : d \in Data}
              \cup UNION {[1..n -> Data \ Long] : n \in 2..MaxBurst}

\* post(msg, len, true)
Post(bs) ==
    /\ localStep + Len(bs) <= MaxSteps
    /\ PostAll(bs, sent, queued, {}, {})
    /\ UNCHANGED <<dataWire, ackWire, peerVars>>

\* sendQueued(): whatever has waited for its acknowledgement longer than
\* syncPing + 10 is posted once more, unreliably.
Resend(due) ==
    LET long == {m \in due : m.body \in Long}
        bs   == [i \in 1..(2 * Cardinality(long)) |-> Frag]
    IN  /\ due # {}
        /\ localStep + Len(bs) <= MaxSteps
        /\ PostAll(bs, sent, queued, {}, due \ long)
        /\ UNCHANGED <<dataWire, ackWire, peerVars>>

\* endCluster(): every clustered datagram is sent.
EndCluster ==
    /\ clustered # {}
    /\ dataWire' = dataWire \cup clustered
    /\ clustered' = {}
    /\ UNCHANGED <<posted, localStep, localSent, sent, queued, ackWire, peerVars>>
-----------------------------------------------------------------------------
\* Host: acknowledgements

\* Mutant of SendNext: nothing is started.
SendNextNothing(window) == PostAll(<<>>, window, queued, {}, {})

\* sendNext() after m left the window: the queued message whose turn it is
\* enters the window.  A Long one is chunked by post() before it is appended
\* to `sent`, and its fragments take a place in the window and an ACK_ID first.
SendNext(window) ==
    LET next == {q \in queued : q.id = localSent}
    IN  IF \E q \in next : q.body \in Long
        THEN /\ localStep + Len(Chunked) <= MaxSteps
             /\ PostAll(Chunked, window, queued \ next, next, {})
        ELSE PostAll(<<>>, window, queued \ next, next, next)

\* Mutants of GotACK: an acknowledgement covers all earlier messages, the
\* latest message counts as not sent yet.
GotCumulativeACK(id) ==
    /\ id \in ackWire
    /\ ackWire' \in {ackWire, ackWire \ {id}}
    /\ SendNext({m \in sent : m.id > id})
    /\ UNCHANGED <<dataWire, peerVars>>
GotACKButLatest(id) ==
    /\ id \in ackWire
    /\ ackWire' \in {ackWire, ackWire \ {id}}
    /\ LET acked == {m \in sent : m.id = id}
       IN  IF id + 1 >= localSent \/ acked = {}
           THEN UNCHANGED hostVars
           ELSE SendNext(sent \ acked)
    /\ UNCHANGED <<dataWire, peerVars>>

\* gotACK(), checkSent()
GotACK(id) ==
    /\ id \in ackWire
    /\ ackWire' \in {ackWire, ackWire \ {id}}
    /\ LET acked == {m \in sent : m.id = id}
       IN  IF id > localSent \/ acked = {}
           THEN UNCHANGED hostVars
           ELSE SendNext(sent \ acked)
    /\ UNCHANGED <<dataWire, peerVars>>
-----------------------------------------------------------------------------
\* The network and the server

Lose ==
    /\ \/ /\ \E m \in dataWire : dataWire' = dataWire \ {m}
          /\ UNCHANGED ackWire
       \/ /\ \E id \in ackWire : ackWire' = ackWire \ {id}
          /\ UNCHANGED dataWire
    /\ UNCHANGED <<hostVars, peerVars>>

\* The server acknowledges every copy and keeps what it has not handled yet.
PeerReceives(m) ==
    /\ m \in dataWire
    /\ dataWire' \in {dataWire, dataWire \ {m}}
    /\ ackWire' = ackWire \cup {m.id}
    /\ peerBuf' = IF m.id >= peerStep THEN peerBuf \cup {m} ELSE peerBuf
    /\ UNCHANGED <<hostVars, peerStep, delivered>>

\* The server handles the message whose turn it is.
PeerHandles ==
    /\ \E m \in peerBuf :
          /\ m.id = peerStep
          /\ delivered' = Append(delivered, m.body)
          /\ peerBuf' = peerBuf \ {m}
    /\ peerStep' = peerStep + 1
    /\ UNCHANGED <<hostVars, dataWire, ackWire>>
-----------------------------------------------------------------------------
Next ==
    \/ \E bs \in Messages : Post(bs)
    \/ \E due \in SUBSET sent : Resend(due)
    \/ EndCluster
    \/ \E id \in ackWire : GotACK(id)
    \/ Lose
    \/ \E m \in dataWire : PeerReceives(m)
    \/ PeerHandles

Spec == Init /\ [][Next]_vars

\* doEvents() runs for ever: it polls the socket, re-sends what is due and
\* ends the cluster in every iteration.  A datagram that is sent again and
\* again gets through again and again, and the server handles what it has.
Fairness ==
    /\ WF_vars(EndCluster)
    /\ WF_vars(PeerHandles)
    /\ \A i \in 0..(MaxSteps - 1) :
          /\ WF_vars(\E due \in SUBSET sent : i \in IdsOf(due) /\ Resend(due))
          /\ SF_vars(\E m \in dataWire : m.id = i /\ PeerReceives(m))
          /\ SF_vars(GotACK(i))

FairSpec == Spec /\ Fairness
-----------------------------------------------------------------------------
\* Properties

TypeOK ==
    /\ posted \in Seq(Body) /\ delivered \in Seq(Body)
    /\ localStep \in Nat /\ localSent \in Nat /\ peerStep \in Nat
    /\ sent \in SUBSET Msg /\ queued \in SUBSET Msg /\ clustered \in SUBSET Msg
    /\ dataWire \in SUBSET Msg /\ peerBuf \in SUBSET Msg
    /\ ackWire \in SUBSET Nat

\* No stored copy has been fragmented when it was posted again.  Until then the
\* window is kept as the next three properties say, whatever has been posted.
Whole == \A i \in 1..Len(posted) : posted[i] # Frag

\* No more than MAX_RELIABLE_IN_TRANSIT messages are unacknowledged at a time:
\* queue() checks it, sendNext() relies on a place having been freed, and
\* posting a stored message again must not take one.
WindowRespected == Cardinality(sent) <= MaxInTransit

\* Messages enter the window in ACK_ID order and no place stays empty while
\* one waits: what waits is exactly localSent .. localStep - 1, so that the
\* next acknowledgement finds the message sendNext() looks for.
QueueDiscipline ==
    /\ IdsOf(queued) = localSent..(localStep - 1)
    /\ \A m \in sent : m.id < localSent
    /\ queued # {} => Cardinality(sent) = MaxInTransit

\* Whatever was handed to the network stays in `sent`, where sendQueued()
\* finds it, until the server has it: an acknowledgement never makes the bot
\* forget a message the server still misses.
NothingForgotten ==
    \A i \in 0..(localSent - 1) :
        i \in IdsOf(sent) \/ i < peerStep \/ i \in IdsOf(peerBuf)

\* The outbox, the network and the server together are a FIFO link that loses
\* nothing, duplicates nothing and keeps moving.
Link == INSTANCE FifoLink WITH posted <- posted, delivered <- delivered
LinkSpec == Link!Spec
LinkFairSpec == Link!FairSpec

\* Every message leaves the outbox: it is acknowledged some day, also when it
\* had to wait for the window and when its first acknowledgement was lost.
AllAcknowledged ==
    \A i \in 0..(MaxSteps - 1) :
        (localStep > i) ~> (localStep > i /\ i \notin IdsOf(sent \cup queued))
-----------------------------------------------------------------------------
\* What the code says of itself, and does not keep.

\* host.h:131 calls localSent the last ACK_ID to be sent: what waits has a later one.
WaitsUnsent == \A m \in queued : m.id >= localSent
=============================================================================
