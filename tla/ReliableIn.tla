----------------------------- MODULE ReliableIn -----------------------------
(***************************************************************************)
(* The inbox of class Host (src/mervbot/host.cpp): every reliable message  *)
(* that arrives is acknowledged first; it is handled if its turn has come, *)
(* together with the messages that were waiting for it, kept in `received` *)
(* if it is early, and ignored if it was handled before.  The network      *)
(* loses, duplicates and reorders datagrams.  The server is external: it   *)
(* repeats a reliable message until it sees its acknowledgement.           *)
(*                                                                         *)
(* One behaviour is one session, from resetSession to the next.            *)
(***************************************************************************)
EXTENDS Integers, Sequences, FiniteSets

CONSTANTS Data,        \* bodies of the messages of the server
          MaxSteps     \* bound on the number of messages the server posts

ASSUME InAssumption == MaxSteps \in Nat

VARIABLES
    posted,       \* server: bodies in the order of their ACK_IDs
    srvAcked,     \* server: ACK_IDs it has seen acknowledged
    dataWire,     \* reliable messages on their way to the bot
    ackWire,      \* acknowledgements on their way to the server
    clustered,    \* acknowledgements waiting for endCluster
    remoteStep,   \* next ACK_ID expected
    received,     \* messages waiting for a lost packet
    delivered     \* bodies given to gotMessage(), in order

srvVars == <<posted, srvAcked>>
inboxVars == <<remoteStep, received, delivered>>
vars == <<srvVars, dataWire, ackWire, clustered, inboxVars>>

Msg == [id : Nat, body : Data]
IdsOf(S) == {m.id : m \in S}

Init ==
    /\ posted = <<>> /\ srvAcked = {}
    /\ dataWire = {} /\ ackWire = {} /\ clustered = {}
    /\ remoteStep = 0 /\ received = {} /\ delivered = <<>>
-----------------------------------------------------------------------------
\* The server

SrvPost(d) ==
    /\ Len(posted) < MaxSteps
    /\ posted' = Append(posted, d)
    /\ UNCHANGED <<srvAcked, dataWire, ackWire, clustered, inboxVars>>

SrvSend(id) ==
    /\ id < Len(posted)
    /\ id \notin srvAcked
    /\ dataWire' = dataWire \cup {[id |-> id, body |-> posted[id + 1]]}
    /\ UNCHANGED <<srvVars, ackWire, clustered, inboxVars>>

SrvGotACK(id) ==
    /\ id \in ackWire
    /\ ackWire' \in {ackWire, ackWire \ {id}}
    /\ srvAcked' = srvAcked \cup {id}
    /\ UNCHANGED <<posted, dataWire, clustered, inboxVars>>
-----------------------------------------------------------------------------
\* The bot

\* Mutant of HandleInTurn: what was waiting is handled and kept.
HandleInTurnKeeping(m) ==
    /\ m.id = remoteStep
    /\ \E n \in 0..Cardinality(received) :
          /\ \A k \in 1..n : remoteStep + k \in IdsOf(received)
          /\ remoteStep + n + 1 \notin IdsOf(received)
          /\ delivered' = SubSeq(posted, 1, remoteStep + n + 1)
          /\ remoteStep' = remoteStep + n + 1
    /\ UNCHANGED received

\* checkReceived(): the messages that wait for m and follow it without a gap
\* are handled right after it, in ACK_ID order.
HandleInTurn(m) ==
    /\ m.id = remoteStep
    /\ \E n \in 0..Cardinality(received) :
          LET bodyOf(id) == (CHOOSE q \in received : q.id = id).body
          IN  /\ \A k \in 1..n : remoteStep + k \in IdsOf(received)
              /\ remoteStep + n + 1 \notin IdsOf(received)
              /\ delivered' = delivered \o
                   [k \in 1..(n + 1) |-> IF k = 1 THEN m.body ELSE bodyOf(remoteStep + k - 1)]
              /\ remoteStep' = remoteStep + n + 1
              /\ received' = {q \in received : q.id \notin (remoteStep + 1)..(remoteStep + n)}

\* Mutant of KeepEarly: an early message is left to be repeated.
DropEarly(m) == m.id > remoteStep /\ UNCHANGED inboxVars

\* checkReceived(): an early message is kept, once.
KeepEarly(m) ==
    /\ m.id > remoteStep
    /\ received' = IF m.id \in IdsOf(received) THEN received ELSE received \cup {m}
    /\ UNCHANGED <<remoteStep, delivered>>

\* Mutant of IgnoreOld: a duplicate is handled like the original.
HandleOld(m) ==
    /\ m.id < remoteStep
    /\ delivered' = Append(delivered, m.body)
    /\ UNCHANGED <<remoteStep, received>>

\* checkReceived(): a message that was handled before is ignored.
IgnoreOld(m) ==
    /\ m.id < remoteStep
    /\ UNCHANGED inboxVars

\* Mutant of GotReliable: a message that was handled before is not acknowledged
\* again.
GotReliableACKsOnce(m) ==
    /\ m \in dataWire
    /\ dataWire' \in {dataWire, dataWire \ {m}}
    /\ clustered' = IF m.id < remoteStep THEN clustered ELSE clustered \cup {m.id}
    /\ HandleInTurn(m) \/ KeepEarly(m) \/ IgnoreOld(m)
    /\ UNCHANGED <<srvVars, ackWire>>

\* gotReliable(): sendACK(), whatever becomes of the message, then checkReceived()
GotReliable(m) ==
    /\ m \in dataWire
    /\ dataWire' \in {dataWire, dataWire \ {m}}
    /\ clustered' = clustered \cup {m.id}
    /\ HandleInTurn(m) \/ KeepEarly(m) \/ IgnoreOld(m)
    /\ UNCHANGED <<srvVars, ackWire>>

\* endCluster()
EndCluster ==
    /\ clustered # {}
    /\ ackWire' = ackWire \cup clustered
    /\ clustered' = {}
    /\ UNCHANGED <<srvVars, dataWire, inboxVars>>
-----------------------------------------------------------------------------
Lose ==
    /\ \/ /\ \E m \in dataWire : dataWire' = dataWire \ {m}
          /\ UNCHANGED ackWire
       \/ /\ \E id \in ackWire : ackWire' = ackWire \ {id}
          /\ UNCHANGED dataWire
    /\ UNCHANGED <<srvVars, clustered, inboxVars>>

Next ==
    \/ \E d \in Data : SrvPost(d)
    \/ \E id \in 0..(MaxSteps - 1) : SrvSend(id)
    \/ \E id \in ackWire : SrvGotACK(id)
    \/ \E m \in dataWire : GotReliable(m)
    \/ EndCluster
    \/ Lose

Spec == Init /\ [][Next]_vars

\* The server repeats what is not acknowledged, doEvents() ends the cluster in
\* every iteration, and a datagram that is sent again and again gets through
\* again and again.
Fairness ==
    /\ WF_vars(EndCluster)
    /\ \A i \in 0..(MaxSteps - 1) :
          /\ WF_vars(SrvSend(i))
          /\ SF_vars(\E m \in dataWire : m.id = i /\ GotReliable(m))
          /\ SF_vars(SrvGotACK(i))

FairSpec == Spec /\ Fairness
-----------------------------------------------------------------------------
\* Properties

TypeOK ==
    /\ posted \in Seq(Data) /\ delivered \in Seq(Data)
    /\ srvAcked \in SUBSET Nat /\ ackWire \in SUBSET Nat /\ clustered \in SUBSET Nat
    /\ dataWire \in SUBSET Msg /\ received \in SUBSET Msg
    /\ remoteStep \in Nat

\* The acknowledgement is sent before the message is looked at, and the server
\* never repeats an acknowledged message: it must have been handled or kept.
AckedIsHeld ==
    \A id \in srvAcked \cup ackWire \cup clustered :
        id < remoteStep \/ id \in IdsOf(received)

\* `received` holds messages that wait for a lost packet and no others: none
\* whose turn has come, none that was handled, none twice.
WaitsForLost ==
    /\ \A m \in received : m.id > remoteStep
    /\ \A m, q \in received : m.id = q.id => m = q

\* The server, the network and the inbox together are a FIFO link, which keeps
\* moving.
Link == INSTANCE FifoLink WITH posted <- posted, delivered <- delivered
LinkSpec == Link!Spec
LinkFairSpec == Link!FairSpec

\* The server stops repeating: every message is known to be acknowledged some
\* day, also one whose acknowledgements were lost or that arrived twice.
AllAcknowledged ==
    \A i \in 0..(MaxSteps - 1) : (Len(posted) > i) ~> (i \in srvAcked)
=============================================================================
