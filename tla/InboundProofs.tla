--------------------------- MODULE InboundProofs ----------------------------
(***************************************************************************)
(* The safety of the inbox, for every number of messages and every set of  *)
(* bodies; and of the two buffers that put messages together, for messages *)
(* of every length, pieces of every length and any limits.                 *)
(***************************************************************************)
EXTENDS ReliableIn, Transfers, FiniteSetTheorems, SequenceTheorems, TLAPS

\* Nothing carries a body other than the one the server posted under its ACK_ID.
Authentic(S) == \A m \in S : m.id < Len(posted) /\ m.body = posted[m.id + 1]

\* The handlers have seen exactly the first remoteStep messages.
InOrder ==
    /\ remoteStep <= Len(posted)
    /\ Len(delivered) = remoteStep
    /\ \A i \in 1..remoteStep : delivered[i] = posted[i]

\* The inductive invariant.
IInv ==
    /\ TypeOK
    /\ IsFiniteSet(received)
    /\ Authentic(dataWire) /\ Authentic(received)
    /\ InOrder
    /\ WaitsForLost
    /\ AckedIsHeld
-----------------------------------------------------------------------------
LEMMA InitInv == Init => IInv
<1> SUFFICES ASSUME Init PROVE IInv
  OBVIOUS
<1>1. IsFiniteSet({})
  BY FS_EmptySet
<1> QED
  BY <1>1 DEF Init, IInv, TypeOK, Authentic, InOrder, WaitsForLost, AckedIsHeld

\* A message the server posts changes nothing about those before it.
LEMMA SrvPostStep == ASSUME IInv, NEW d \in Data, SrvPost(d) PROVE IInv'
<1>1. /\ posted' = Append(posted, d) /\ posted \in Seq(Data)
      /\ UNCHANGED <<srvAcked, dataWire, ackWire, clustered, inboxVars>>
  BY DEF SrvPost, IInv, TypeOK
<1>2. posted' \in Seq(Data) /\ Len(posted') = Len(posted) + 1 /\ Len(posted) \in Nat
      /\ \A i \in 1..Len(posted) : posted'[i] = posted[i]
  BY <1>1
<1>3. TypeOK'
  BY <1>1, <1>2 DEF IInv, TypeOK, inboxVars
<1>4. \A S \in {dataWire, received} :
         \A m \in S : m.id < Len(posted') /\ m.body = posted'[m.id + 1]
  <2>1. ASSUME NEW m \in dataWire \cup received
        PROVE  m.id < Len(posted') /\ m.body = posted'[m.id + 1]
    <3>1. m.id \in Nat /\ m.id < Len(posted) /\ m.body = posted[m.id + 1]
      BY DEF IInv, TypeOK, Msg, Authentic
    <3>2. m.id + 1 \in 1..Len(posted)
      BY <1>2, <3>1
    <3> QED
      BY <1>2, <3>1, <3>2
  <2> QED
    BY <2>1
<1>5. InOrder'
  BY <1>1, <1>2 DEF IInv, TypeOK, InOrder, inboxVars
<1> QED
  BY <1>1, <1>3, <1>4, <1>5
  DEF IInv, Authentic, WaitsForLost, AckedIsHeld, IdsOf, inboxVars

\* The server sends what it posted.
LEMMA SrvSendStep ==
    ASSUME IInv, NEW id \in 0..(MaxSteps - 1), SrvSend(id)
    PROVE  IInv'
<1> DEFINE m == [id |-> id, body |-> posted[id + 1]]
<1>1. id \in Nat /\ id < Len(posted) /\ posted \in Seq(Data)
  BY InAssumption DEF SrvSend, IInv, TypeOK
<1>2. posted[id + 1] \in Data
  BY <1>1, ElementOfSeq
<1>3. m \in Msg /\ m.id < Len(posted) /\ m.body = posted[m.id + 1]
  BY <1>1, <1>2 DEF Msg
<1>4. dataWire' = dataWire \cup {m} /\ UNCHANGED <<srvVars, ackWire, clustered, inboxVars>>
  BY DEF SrvSend
<1> HIDE DEF m
<1>5. TypeOK' /\ Authentic(dataWire)'
  BY <1>3, <1>4 DEF IInv, TypeOK, Authentic, srvVars, inboxVars
<1> QED
  BY <1>4, <1>5
  DEF IInv, Authentic, InOrder, WaitsForLost, AckedIsHeld, IdsOf, srvVars, inboxVars

LEMMA SrvGotACKStep == ASSUME IInv, NEW id \in ackWire, SrvGotACK(id) PROVE IInv'
<1>1. /\ ackWire' \in SUBSET ackWire /\ srvAcked' = srvAcked \cup {id}
      /\ UNCHANGED <<posted, dataWire, clustered, inboxVars>>
  BY DEF SrvGotACK
<1>2. TypeOK' /\ AckedIsHeld'
  BY <1>1 DEF IInv, TypeOK, AckedIsHeld, IdsOf, inboxVars
<1> QED
  BY <1>1, <1>2 DEF IInv, Authentic, InOrder, WaitsForLost, inboxVars

\* A message whose turn has come is handled with all those that waited for it.
LEMMA HandleInTurnStep ==
    ASSUME IInv, NEW m \in dataWire, GotReliable(m), HandleInTurn(m)
    PROVE  IInv'
<1> DEFINE bodyOf(id) == (CHOOSE q \in received : q.id = id).body
<1>1. PICK n \in 0..Cardinality(received) :
          /\ \A k \in 1..n : remoteStep + k \in IdsOf(received)
          /\ remoteStep + n + 1 \notin IdsOf(received)
          /\ delivered' = delivered \o
               [k \in 1..(n + 1) |-> IF k = 1 THEN m.body ELSE bodyOf(remoteStep + k - 1)]
          /\ remoteStep' = remoteStep + n + 1
          /\ received' = {q \in received : q.id \notin (remoteStep + 1)..(remoteStep + n)}
  BY DEF HandleInTurn
<1> DEFINE batch == [k \in 1..(n + 1) |->
                        IF k = 1 THEN m.body ELSE bodyOf(remoteStep + k - 1)]
<1>2. /\ n \in Nat /\ remoteStep \in Nat /\ posted \in Seq(Data) /\ delivered \in Seq(Data)
      /\ m.id = remoteStep /\ received \in SUBSET Msg /\ IsFiniteSet(received)
      /\ Len(posted) \in Nat /\ n + 1 \in 1..(n + 1)
  BY <1>1, FS_CardinalityType DEF HandleInTurn, IInv, TypeOK
<1>3. /\ dataWire' \in SUBSET dataWire /\ clustered' = clustered \cup {m.id}
      /\ UNCHANGED <<srvVars, ackWire>>
  BY DEF GotReliable
<1>4. \A id \in IdsOf(received) : id < Len(posted) /\ bodyOf(id) = posted[id + 1]
  BY DEF IInv, Authentic, IdsOf
<1> HIDE DEF bodyOf
<1>5. \A k \in 1..(n + 1) : /\ remoteStep + k - 1 < Len(posted)
                            /\ batch[k] = posted[remoteStep + k]
  <2> SUFFICES ASSUME NEW k \in 1..(n + 1)
               PROVE  /\ remoteStep + k - 1 < Len(posted)
                      /\ batch[k] = posted[remoteStep + k]
    OBVIOUS
  <2>1. CASE k = 1
    <3>1. m.id < Len(posted) /\ m.body = posted[m.id + 1]
      BY DEF IInv, Authentic
    <3> QED BY <1>2, <2>1, <3>1
  <2>2. CASE k # 1
    <3>1. k - 1 \in 1..n /\ remoteStep + (k - 1) = remoteStep + k - 1
          /\ (remoteStep + k - 1) + 1 = remoteStep + k
      BY <1>2, <2>2
    <3>2. remoteStep + k - 1 \in IdsOf(received)
      BY <1>1, <3>1
    <3> QED BY <1>4, <2>2, <3>1, <3>2
  <2> QED BY <2>1, <2>2
<1>6. batch \in Seq(Data) /\ Len(batch) = n + 1
  <2>1. ASSUME NEW k \in 1..(n + 1) PROVE posted[remoteStep + k] \in Data
    <3>0. k \in Nat /\ k >= 1
      BY <1>2
    <3>1. remoteStep + k - 1 < Len(posted)
      BY <1>5
    <3>2. remoteStep + k \in 1..Len(posted)
      BY <1>2, <3>0, <3>1
    <3> QED BY <1>2, <3>2, ElementOfSeq
  <2>2. batch \in [1..(n + 1) -> Data]
    BY <1>5, <2>1
  <2> HIDE DEF batch
  <2> QED BY <1>2, <2>2
<1>7. remoteStep' = remoteStep + n + 1 /\ delivered' = delivered \o batch
  BY <1>1
<1> HIDE DEF batch
<1>8. InOrder'
  <2>1. Len(delivered) = remoteStep /\ \A i \in 1..remoteStep : delivered[i] = posted[i]
    BY DEF IInv, InOrder
  <2>2. /\ Len(delivered') = remoteStep + n + 1
        /\ \A i \in 1..(remoteStep + n + 1) :
              delivered'[i] = IF i <= remoteStep THEN delivered[i] ELSE batch[i - remoteStep]
    <3>1. Len(delivered') = Len(delivered) + Len(batch)
          /\ \A i \in 1..(Len(delivered) + Len(batch)) :
                delivered'[i] = IF i <= Len(delivered) THEN delivered[i]
                                                       ELSE batch[i - Len(delivered)]
      BY <1>2, <1>6, <1>7, ConcatProperties
    <3>2. Len(delivered) + Len(batch) = remoteStep + n + 1
      BY <1>2, <1>6, <2>1
    <3> QED BY <2>1, <3>1, <3>2
  <2>3. ASSUME NEW i \in 1..(remoteStep + n + 1) PROVE delivered'[i] = posted[i]
    <3>1. CASE i <= remoteStep
      <4>1. i \in 1..remoteStep
        BY <1>2, <3>1
      <4> QED BY <2>1, <2>2, <3>1, <4>1
    <3>2. CASE i > remoteStep
      <4>1. i - remoteStep \in 1..(n + 1) /\ remoteStep + (i - remoteStep) = i
        BY <1>2, <3>2
      <4>2. batch[i - remoteStep] = posted[remoteStep + (i - remoteStep)]
        BY <1>5, <4>1
      <4>3. ~(i <= remoteStep)
        BY <1>2, <3>2
      <4> QED BY <2>2, <4>1, <4>2, <4>3
    <3> QED BY <1>2, <3>1, <3>2
  <2>4. remoteStep + n + 1 <= Len(posted)
    <3>1. remoteStep + (n + 1) - 1 < Len(posted)
      BY <1>2, <1>5
    <3> QED BY <1>2, <3>1
  <2> QED
    BY <1>3, <1>7, <2>2, <2>3, <2>4 DEF InOrder, srvVars
<1>9. TypeOK'
  <2>1. delivered' \in Seq(Data)
    BY <1>2, <1>6, <1>7, ConcatProperties
  <2> QED
    BY <1>1, <1>2, <1>3, <2>1 DEF IInv, TypeOK, srvVars
<1>10. IsFiniteSet(received')
  BY <1>1, <1>2, FS_Subset
<1>11. WaitsForLost'
  <2> SUFFICES ASSUME NEW q \in received' PROVE q.id > remoteStep'
    BY <1>1 DEF IInv, WaitsForLost
  <2>1. q \in received /\ q.id \notin (remoteStep + 1)..(remoteStep + n)
    BY <1>1
  <2>2. q.id \in Nat /\ q.id > remoteStep
    BY <1>2, <2>1 DEF IInv, WaitsForLost, Msg
  <2>3. q.id # remoteStep + n + 1
    BY <1>1, <2>1 DEF IdsOf
  <2>4. q.id \notin (remoteStep + 1)..(remoteStep + n)
    BY <2>1
  <2> DEFINE id == q.id
  <2>5. /\ id \in Nat /\ id > remoteStep /\ id # remoteStep + n + 1
        /\ id \notin (remoteStep + 1)..(remoteStep + n)
    BY <2>2, <2>3, <2>4
  <2> HIDE DEF id
  <2>6. id > remoteStep + n + 1
    BY <1>2, <2>5
  <2> QED BY <1>7, <2>6 DEF id
<1>12. AckedIsHeld'
  <2> SUFFICES ASSUME NEW id \in srvAcked \cup ackWire \cup clustered \cup {m.id}
               PROVE  id < remoteStep' \/ id \in IdsOf(received')
    BY <1>3 DEF AckedIsHeld, srvVars
  <2>1. id \in Nat
    BY <1>2 DEF IInv, TypeOK
  <2>2. id <= remoteStep \/ id \in IdsOf(received)
    BY <1>2, <2>1 DEF IInv, AckedIsHeld
  <2>3. id \in IdsOf(received) =>
            id \in (remoteStep + 1)..(remoteStep + n) \/ id \in IdsOf(received')
    BY <1>1 DEF IdsOf
  <2> QED
    BY <1>2, <1>7, <2>1, <2>2, <2>3
<1>13. Authentic(dataWire)' /\ Authentic(received)'
  BY <1>1, <1>3 DEF IInv, Authentic, srvVars
<1> QED
  BY <1>8, <1>9, <1>10, <1>11, <1>12, <1>13 DEF IInv

\* An early message is kept under its ACK_ID.
LEMMA KeepEarlyStep ==
    ASSUME IInv, NEW m \in dataWire, GotReliable(m), KeepEarly(m)
    PROVE  IInv'
<1>1. /\ dataWire' \in SUBSET dataWire /\ clustered' = clustered \cup {m.id}
      /\ UNCHANGED <<srvVars, ackWire, remoteStep, delivered>>
      /\ m.id > remoteStep
      /\ received' = IF m.id \in IdsOf(received) THEN received ELSE received \cup {m}
  BY DEF GotReliable, KeepEarly
<1>2. m \in Msg /\ m.id \in Nat /\ remoteStep \in Nat
      /\ m.id < Len(posted) /\ m.body = posted[m.id + 1]
  BY DEF IInv, TypeOK, Msg, Authentic
<1>3. TypeOK'
  BY <1>1, <1>2 DEF IInv, TypeOK, srvVars
<1>4. IsFiniteSet(received')
  BY <1>1, FS_AddElement DEF IInv
<1>5. Authentic(dataWire)' /\ Authentic(received)'
  BY <1>1, <1>2 DEF IInv, Authentic, srvVars
<1>6. WaitsForLost'
  BY <1>1, <1>2 DEF IInv, WaitsForLost, IdsOf
<1>7. AckedIsHeld'
  <2>1. m.id \in IdsOf(received') /\ IdsOf(received) \subseteq IdsOf(received')
    BY <1>1 DEF IdsOf
  <2> QED
    BY <1>1, <2>1 DEF IInv, AckedIsHeld, srvVars
<1> QED
  BY <1>1, <1>3, <1>4, <1>5, <1>6, <1>7 DEF IInv, InOrder, srvVars

LEMMA IgnoreOldStep ==
    ASSUME IInv, NEW m \in dataWire, GotReliable(m), IgnoreOld(m)
    PROVE  IInv'
<1>1. /\ dataWire' \in SUBSET dataWire /\ clustered' = clustered \cup {m.id}
      /\ UNCHANGED <<srvVars, ackWire, inboxVars>> /\ m.id < remoteStep /\ m.id \in Nat
  BY DEF GotReliable, IgnoreOld, IInv, TypeOK, Msg
<1>2. TypeOK' /\ AckedIsHeld'
  BY <1>1 DEF IInv, TypeOK, AckedIsHeld, IdsOf, srvVars, inboxVars
<1> QED
  BY <1>1, <1>2 DEF IInv, Authentic, InOrder, WaitsForLost, srvVars, inboxVars
-----------------------------------------------------------------------------
\* The inductive invariant holds in every state of every behaviour.
THEOREM Invariance == Spec => []IInv
<1>1. IInv /\ [Next]_vars => IInv'
  <2> SUFFICES ASSUME IInv, [Next]_vars PROVE IInv'
    OBVIOUS
  <2>1. ASSUME NEW d \in Data, SrvPost(d) PROVE IInv'
    BY <2>1, SrvPostStep
  <2>2. ASSUME NEW id \in 0..(MaxSteps - 1), SrvSend(id) PROVE IInv'
    BY <2>2, SrvSendStep
  <2>3. ASSUME NEW id \in ackWire, SrvGotACK(id) PROVE IInv'
    BY <2>3, SrvGotACKStep
  <2>4. ASSUME NEW m \in dataWire, GotReliable(m) PROVE IInv'
    BY <2>4, HandleInTurnStep, KeepEarlyStep, IgnoreOldStep DEF GotReliable
  <2>5. CASE EndCluster
    BY <2>5 DEF EndCluster, IInv, TypeOK, Authentic, InOrder, WaitsForLost, AckedIsHeld,
                IdsOf, srvVars, inboxVars
  <2>6. CASE Lose
    <3>1. /\ dataWire' \in SUBSET dataWire /\ ackWire' \in SUBSET ackWire
          /\ UNCHANGED <<srvVars, clustered, inboxVars>>
      BY <2>6 DEF Lose
    <3> QED
      BY <3>1 DEF IInv, TypeOK, Authentic, InOrder, WaitsForLost, AckedIsHeld,
                  IdsOf, srvVars, inboxVars
  <2>7. CASE UNCHANGED vars
    BY <2>7 DEF IInv, TypeOK, Authentic, InOrder, WaitsForLost, AckedIsHeld,
                IdsOf, vars, srvVars, inboxVars
  <2> QED
    BY <2>1, <2>2, <2>3, <2>4, <2>5, <2>6, <2>7 DEF Next
<1> QED
  BY InitInv, <1>1, PTL DEF Spec

\* Type correctness of the inbox.
THEOREM TypeCorrect == Spec => []TypeOK
BY Invariance, PTL DEF IInv

\* A message the server was told about is never lost.
THEOREM AckedStaysHeld == Spec => []AckedIsHeld
BY Invariance, PTL DEF IInv

\* Only messages that wait for a lost packet are kept.
THEOREM OnlyEarlyWait == Spec => []WaitsForLost
BY Invariance, PTL DEF IInv
-----------------------------------------------------------------------------
\* Handling a message, and those that waited for it, hands over the next part
\* of what the server posted.
LEMMA HandleMaps ==
    ASSUME IInv, IInv', NEW m \in dataWire, GotReliable(m), HandleInTurn(m)
    PROVE  Link!Deliver
<1>1. /\ posted' = posted /\ posted \in Seq(Data)
      /\ remoteStep \in Nat /\ remoteStep' \in Nat
      /\ Len(delivered) = remoteStep /\ Len(delivered') = remoteStep'
      /\ delivered' \in Seq(Data) /\ remoteStep' <= Len(posted)
      /\ \A i \in 1..remoteStep' : delivered'[i] = posted[i]
  BY DEF GotReliable, srvVars, IInv, TypeOK, InOrder
<1>2. remoteStep' >= remoteStep + 1
  <2>1. PICK n \in 0..Cardinality(received) : remoteStep' = remoteStep + n + 1
    BY DEF HandleInTurn
  <2>2. n \in Nat
    BY FS_CardinalityType DEF IInv
  <2> QED BY <1>1, <2>1, <2>2
<1>3. delivered' = SubSeq(posted, 1, remoteStep')
  <2>1. ASSUME NEW n \in Nat, n <= Len(posted)
        PROVE  /\ SubSeq(posted, 1, n) \in Seq(Data)
               /\ Len(SubSeq(posted, 1, n)) = n
               /\ \A i \in 1..n : SubSeq(posted, 1, n)[i] = posted[i]
    <3>1. \A i \in 1..n : posted[i] \in Data
      BY <1>1, <2>1, ElementOfSeq
    <3> QED BY <1>1, <2>1, <3>1
  <2>2. /\ SubSeq(posted, 1, remoteStep') \in Seq(Data)
        /\ Len(SubSeq(posted, 1, remoteStep')) = remoteStep'
        /\ \A i \in 1..remoteStep' : SubSeq(posted, 1, remoteStep')[i] = posted[i]
    BY <1>1, <2>1
  <2> QED BY <1>1, <2>2, SeqEqual
<1>4. remoteStep' \in (Len(delivered) + 1)..Len(posted)
  BY <1>1, <1>2
<1> QED
  BY <1>1, <1>3, <1>4 DEF Link!Deliver

\* The inbox implements the FIFO link.
THEOREM ImplementsLink == Spec => LinkSpec
<1>1. Init => Link!Init
  BY DEF Init, Link!Init
<1>2. IInv /\ IInv' /\ [Next]_vars => [Link!Next]_(Link!vars)
  <2> SUFFICES ASSUME IInv, IInv', [Next]_vars
               PROVE  Link!Next \/ UNCHANGED <<posted, delivered>>
    BY DEF Link!vars
  <2>1. ASSUME NEW d \in Data, SrvPost(d) PROVE Link!Next
    <3>1. posted' = Append(posted, d) /\ delivered' = delivered /\ posted \in Seq(Data)
      BY <2>1 DEF SrvPost, inboxVars, IInv, TypeOK
    <3>2. Len(posted') > Len(posted)
      BY <3>1
    <3>3. SubSeq(posted', 1, Len(posted)) = posted
      <4>1. \A i \in 1..Len(posted) : posted'[i] = posted[i] /\ posted'[i] \in Data
        BY <3>1, ElementOfSeq
      <4>2. /\ SubSeq(posted', 1, Len(posted)) \in Seq(Data)
            /\ Len(SubSeq(posted', 1, Len(posted))) = Len(posted)
            /\ \A i \in 1..Len(posted) : SubSeq(posted', 1, Len(posted))[i] = posted'[i]
        BY <3>1, <4>1
      <4> QED BY <3>1, <4>1, <4>2, SeqEqual
    <3> QED BY <3>1, <3>2, <3>3 DEF Link!Next, Link!Post
  <2>2. ASSUME NEW m \in dataWire, GotReliable(m), HandleInTurn(m) PROVE Link!Next
    BY <2>2, HandleMaps DEF Link!Next
  <2>3. ASSUME NEW m \in dataWire, GotReliable(m), ~HandleInTurn(m)
        PROVE  UNCHANGED <<posted, delivered>>
    BY <2>3 DEF GotReliable, KeepEarly, IgnoreOld, srvVars, inboxVars
  <2>4. CASE \/ \E id \in 0..(MaxSteps - 1) : SrvSend(id)
             \/ \E id \in ackWire : SrvGotACK(id)
             \/ EndCluster \/ Lose \/ UNCHANGED vars
    BY <2>4 DEF SrvSend, SrvGotACK, EndCluster, Lose, vars, srvVars, inboxVars
  <2> QED
    BY <2>1, <2>2, <2>3, <2>4 DEF Next
<1> QED
  BY Invariance, <1>1, <1>2, PTL DEF Spec, LinkSpec, Link!Spec
-----------------------------------------------------------------------------
\* Transfers: no buffer mixes two messages.

\* A cursor, with a message that is not begun told as none.
Norm(at) == IF at.pos = 0 THEN Idle ELSE at
Start(m, from) == IF from = 0 THEN Idle ELSE [msg |-> m, pos |-> from]
After(m, to) == IF to = Len1(m) THEN Idle ELSE [msg |-> m, pos |-> to]

\* What the server's cursor was before piece p, and what it was after it.
SmallStep(c, p, d) ==
    \E m \in 1..Len(sends), f \in Nat, n \in Nat \ {0} :
        /\ sends[m] \in Small /\ f + n <= Len1(m)
        /\ p.units = Units(m, f, n)
        /\ p.kind = IF f + n = Len1(m) THEN "tail" ELSE "body"
        /\ c = Start(m, f) /\ d = After(m, f + n)
FileStep(c, p, d) ==
    \E m \in 1..Len(sends), f \in Nat, n \in Nat \ {0} :
        /\ sends[m] \in Files /\ f + n <= Len1(m)
        /\ p.units = Units(m, f, n) /\ p.total = Len1(m)
        /\ c = Start(m, f) /\ d = After(m, f + n)
PieceStep(c, p, d) ==
    \/ p.kind \in {"body", "tail"} /\ SmallStep(c.small, p, d.small) /\ d.file = c.file
    \/ p.kind = "big" /\ FileStep(c.file, p, d.file) /\ d.small = c.small
    \/ p.kind = "cancel" /\ d.file = Idle /\ d.small = c.small

Cursor == [msg : Nat, pos : Nat]
Cursors == [small : Cursor, file : Cursor]

\* The pieces on their way continue one another, up to where the server is now.
Chain(at) ==
    /\ at \in [1..Len(link) + 1 -> Cursors]
    /\ \A i \in 1..Len(link) : PieceStep(at[i], link[i], at[i + 1])
    /\ at[Len(link) + 1] = [small |-> Norm(small), file |-> Norm(file)]

\* A buffer of a message that got as far as pos: whole, if the message fits.
Partial(b, m, pos) ==
    /\ \A i \in 1..Len(b) : b[i][1] = m /\ b[i][2] <= pos
    /\ \A i, j \in 1..Len(b) : i < j => b[i][2] < b[j][2]
    /\ Fits(m) => b = Units(m, 0, pos)

\* What the buffers hold when the next piece is the one that follows c.
Placed(c, names) ==
    c.pos > 0 => c.msg \in 1..Len(sends) /\ sends[c.msg] \in names /\ c.pos < Len1(c.msg)
LittleAt(c) ==
    /\ Placed(c, Small)
    /\ c.pos = 0 => little = <<>>
    /\ c.pos > 0 => Partial(little, c.msg, c.pos)
LargeAt(c) ==
    /\ Placed(c, Files)
    /\ c.pos = 0 => ftLength = 0 \/ ftLength > LargeLimit
    /\ c.pos > 0 => ftLength = Len1(c.msg)
    /\ c.pos > 0 /\ Fits(c.msg) => large = Units(c.msg, 0, c.pos)
    /\ ftLength = 0 => large = <<>>

InStep == \E at : Chain(at) /\ LittleAt(at[1].small) /\ LargeAt(at[1].file)

SendingAt(c, names) ==
    /\ c \in Cursor /\ c.msg \in 1..Len(sends)
    /\ sends[c.msg] \in names /\ c.pos < Len1(c.msg)
ServerOK ==
    /\ small = Idle \/ SendingAt(small, Small)
    /\ file = Idle \/ SendingAt(file, Files)

IsCancel(i) == link[i].kind = "cancel"
CancelOK ==
    /\ \A i, j \in 1..Len(link) : IsCancel(i) /\ IsCancel(j) => i = j
    /\ \A i \in 1..Len(link) : IsCancel(i) => awaiting /\ acks = 0
    /\ acks = 1 => awaiting
    /\ file # Idle => ~awaiting

SomePiece == [kind : {"body", "tail", "big", "cancel"}, total : Nat, units : Seq(Nat \X Nat)]
Shape ==
    /\ link \in Seq(SomePiece)
    /\ handled \in Seq(Seq(Unit))

TrIInv == TrTypeOK /\ Shape /\ ServerOK /\ CancelOK /\ InStep
            /\ \A i \in 1..Len(handled) : OneMessage(handled[i])
-----------------------------------------------------------------------------
\* Units and buffers.

LEMMA UnitsSeq ==
    ASSUME NEW m \in Nat, NEW f \in Nat, NEW n \in Nat
    PROVE  /\ Units(m, f, n) \in Seq(Nat \X Nat) /\ Len(Units(m, f, n)) = n
           /\ \A i \in 1..n : Units(m, f, n)[i] = <<m, f + i>>
<1>1. \A i \in 1..n : <<m, f + i>> \in Nat \X Nat
    OBVIOUS
<1>2. Units(m, f, n) = [i \in 1..n |-> <<m, f + i>>]
    BY DEF Units
<1> QED
    BY <1>1, <1>2

LEMMA FirstUnits ==
    ASSUME NEW m \in Nat, NEW n \in Nat
    PROVE  /\ Units(m, 0, n) \in Seq(Nat \X Nat) /\ Len(Units(m, 0, n)) = n
           /\ \A i \in 1..n : Units(m, 0, n)[i] = <<m, i>>
<1>1. \A i \in 1..n : 0 + i = i
    OBVIOUS
<1>2. \A i \in 1..n : Units(m, 0, n)[i] = <<m, 0 + i>>
    BY UnitsSeq
<1>3. Units(m, 0, n) \in Seq(Nat \X Nat) /\ Len(Units(m, 0, n)) = n
    BY UnitsSeq
<1> QED
    BY <1>1, <1>2, <1>3

LEMMA UnitsUnit ==
    ASSUME NEW m \in 1..Len(sends), NEW f \in Nat, NEW n \in Nat
    PROVE  Units(m, f, n) \in Seq(Unit)
<1>1. \A i \in 1..n : <<m, f + i>> \in Unit
    BY DEF Unit
<1>2. Units(m, f, n) = [i \in 1..n |-> <<m, f + i>>]
    BY DEF Units
<1>3. PICK S : S = Unit
    OBVIOUS
<1>4. \A i \in 1..n : <<m, f + i>> \in S
    BY <1>1, <1>3
<1>5. [i \in 1..n |-> <<m, f + i>>] \in [1..n -> S]
    BY <1>4
<1>6. [1..n -> S] \subseteq Seq(S)
    BY SeqDef
<1> QED
    BY <1>2, <1>3, <1>5, <1>6

LEMMA UnitsJoin ==
    ASSUME NEW m \in Nat, NEW f \in Nat, NEW n \in Nat
    PROVE  Units(m, 0, f) \o Units(m, f, n) = Units(m, 0, f + n)
<1>1. PICK a \in Seq(Nat \X Nat) :
        a = Units(m, 0, f) /\ Len(a) = f /\ \A i \in 1..f : a[i] = <<m, i>>
    BY FirstUnits
<1>2. PICK b \in Seq(Nat \X Nat) :
        b = Units(m, f, n) /\ Len(b) = n /\ \A i \in 1..n : b[i] = <<m, f + i>>
    BY UnitsSeq
<1>3. PICK c \in Seq(Nat \X Nat) :
        /\ c = Units(m, 0, f + n) /\ Len(c) = f + n
        /\ \A i \in 1..(f + n) : c[i] = <<m, i>>
    <2>1. f + n \in Nat
        OBVIOUS
    <2> QED
        BY <2>1, FirstUnits
<1>4. /\ a \o b \in Seq(Nat \X Nat) /\ Len(a \o b) = f + n
      /\ \A i \in 1..(f + n) : (a \o b)[i] = IF i <= f THEN a[i] ELSE b[i - f]
    <2>1. PICK S : S = Nat \X Nat
        OBVIOUS
    <2>2. a \in Seq(S) /\ b \in Seq(S) /\ Len(a) = f /\ Len(b) = n
        BY <1>1, <1>2, <2>1
    <2>3. /\ a \o b \in Seq(S) /\ Len(a \o b) = f + n
          /\ \A i \in 1..(f + n) : (a \o b)[i] = IF i <= f THEN a[i] ELSE b[i - f]
        BY <2>2, ConcatProperties
    <2> QED
        BY <2>1, <2>3
<1>5. ASSUME NEW i \in 1..(f + n) PROVE (a \o b)[i] = c[i]
    <2>1. CASE i <= f
        <3>1. i \in 1..f
            BY <2>1
        <3> QED
            BY <1>1, <1>3, <1>4, <2>1, <3>1
    <2>2. CASE ~(i <= f)
        <3>1. i - f \in 1..n /\ f + (i - f) = i
            BY <2>2
        <3> QED
            BY <1>2, <1>3, <1>4, <2>2, <3>1
    <2> QED
        BY <2>1, <2>2
<1> QED
    BY <1>1, <1>2, <1>3, <1>4, <1>5, SeqEqual

\* A piece that fits is added, another is not.
LEMMA AddMessageSeq ==
    ASSUME NEW S, NEW b \in Seq(S), NEW u \in Seq(S), NEW limit \in Nat
    PROVE  /\ AddMessage(b, u, limit) \in Seq(S)
           /\ AddMessage(b, u, limit) \in {b, b \o u}
           /\ Len(b) + Len(u) <= limit => AddMessage(b, u, limit) = b \o u
           /\ Len(b) <= limit => Len(AddMessage(b, u, limit)) <= limit
<1>1. /\ b \o u \in Seq(S) /\ Len(b \o u) = Len(b) + Len(u)
      /\ Len(b) \in Nat /\ Len(u) \in Nat
    BY ConcatProperties, LenProperties
<1> QED
    BY <1>1 DEF AddMessage

\* A buffer that holds what a message begins with is of one message.
LEMMA PartialOneMessage ==
    ASSUME NEW m \in 1..Len(sends), sends \in Seq(Small \cup Files), NEW k \in Nat,
           k <= Len1(m), NEW b \in Seq(Unit), Partial(b, m, k)
    PROVE  OneMessage(b)
<1> SUFFICES ASSUME b # <<>> PROVE OneMessage(b)
    BY DEF OneMessage
<1>1. Len(b) \in Nat /\ Len(b) > 0 /\ b[1][1] = m
    BY EmptySeq, LenProperties DEF Partial
<1>2. ASSUME Fits(m) PROVE b = SubSeq(Whole(m), 1, Len(b))
    <2>1. b = Units(m, 0, k) /\ m \in Nat
        BY <1>2, LenProperties DEF Partial
    <2>2. Len1(m) \in Nat
        BY TransfersAssumption, ElementOfSeq DEF Len1
    <2>3. /\ Len(b) = k /\ \A i \in 1..k : b[i] = <<m, i>>
          /\ Whole(m) \in Seq(Nat \X Nat) /\ Len(Whole(m)) = Len1(m)
          /\ \A i \in 1..Len1(m) : Whole(m)[i] = <<m, i>>
          /\ b \in Seq(Nat \X Nat)
        BY <2>1, <2>2, FirstUnits DEF Whole
    <2>4. PICK w \in Seq(Nat \X Nat) : w = SubSeq(Whole(m), 1, k) /\ Len(w) = k
                                       /\ \A i \in 1..k : w[i] = <<m, i>>
        <3>1. /\ SubSeq(Whole(m), 1, k) \in Seq(Nat \X Nat) /\ Len(SubSeq(Whole(m), 1, k)) = k
              /\ \A i \in 1..k : SubSeq(Whole(m), 1, k)[i] = Whole(m)[i]
            BY <2>2, <2>3, SubSeqProperties
        <3>2. \A i \in 1..k : i \in 1..Len1(m)
            BY <2>2
        <3> QED
            BY <2>3, <3>1, <3>2
    <2>5. PICK S : S = Nat \X Nat
        OBVIOUS
    <2>6. /\ b \in Seq(S) /\ w \in Seq(S) /\ Len(b) = Len(w)
          /\ \A i \in 1..Len(b) : b[i] = w[i]
        BY <2>3, <2>4, <2>5
    <2>7. b = w
        BY <2>6, SeqEqual
    <2> QED
        BY <2>3, <2>4, <2>7
<1> QED
    BY <1>1, <1>2 DEF OneMessage, Partial
-----------------------------------------------------------------------------
\* One piece is added to a buffer.

LEMMA MessageFacts ==
    ASSUME sends \in Seq(Small \cup Files)
    PROVE  /\ Len(sends) \in Nat
           /\ \A m \in 1..Len(sends) : m \in Nat /\ sends[m] \in Small \cup Files
                                       /\ Len1(m) \in Nat /\ Len1(m) > 0
           /\ \A m \in 1..Len(sends) : sends[m] \in Files => Limit(m) = LargeLimit
           /\ \A m \in 1..Len(sends) : sends[m] \in Small => Limit(m) = LittleLimit
           /\ LittleLimit \in Nat /\ LargeLimit \in Nat /\ PieceMax \in Nat
<1>1. Len(sends) \in Nat
    BY LenProperties
<1>2. \A m \in 1..Len(sends) : m \in Nat /\ sends[m] \in Small \cup Files
    BY <1>1, ElementOfSeq
<1>3. \A m \in 1..Len(sends) : Len1(m) \in Nat /\ Len1(m) > 0
    BY <1>2, TransfersAssumption DEF Len1
<1> QED
    BY <1>1, <1>2, <1>3, TransfersAssumption DEF Limit

\* The next piece of a message that got as far as f.
LEMMA PartialPiece ==
    ASSUME NEW b \in Seq(Unit), NEW m \in 1..Len(sends), NEW f \in Nat, NEW n \in Nat \ {0},
           sends \in Seq(Small \cup Files), Partial(b, m, f), f + n <= Len1(m)
    PROVE  LET buffer == AddMessage(b, Units(m, f, n), Limit(m))
           IN  buffer \in Seq(Unit) /\ Partial(buffer, m, f + n)
<1> DEFINE u == Units(m, f, n)
           buffer == AddMessage(b, u, Limit(m))
<1>1. /\ m \in Nat /\ Limit(m) \in Nat /\ n \in Nat
      /\ Len1(m) \in Nat
    BY MessageFacts DEF Limit
<1>2. /\ u \in Seq(Unit) /\ Len(u) = n
      /\ \A i \in 1..n : u[i] = <<m, f + i>>
    BY <1>1, UnitsSeq, UnitsUnit
<1> HIDE DEF u
<1>3. /\ buffer \in Seq(Unit) /\ buffer \in {b, b \o u}
      /\ Len(b) + Len(u) <= Limit(m) => buffer = b \o u
    BY <1>1, <1>2, AddMessageSeq
<1> HIDE DEF buffer
<1>4. /\ Len(b) \in Nat /\ b \o u \in Seq(Unit) /\ Len(b \o u) = Len(b) + n
      /\ \A i \in 1..Len(b) + n : (b \o u)[i] = IF i <= Len(b) THEN b[i] ELSE u[i - Len(b)]
    BY <1>2, ConcatProperties, LenProperties
<1>5. \A i \in 1..Len(b) : b[i] \in Unit /\ b[i][1] = m /\ b[i][2] <= f /\ b[i][2] \in Nat
    BY ElementOfSeq DEF Partial, Unit
<1>6. \A i \in 1..Len(b) + n : i > Len(b) =>
            /\ i - Len(b) \in 1..n
            /\ (b \o u)[i][1] = m /\ (b \o u)[i][2] = f + (i - Len(b))
    <2>1. ASSUME NEW i \in 1..Len(b) + n, i > Len(b)
          PROVE  i - Len(b) \in 1..n /\ (b \o u)[i] = u[i - Len(b)]
        BY <1>1, <1>4, <2>1
    <2>2. \A j \in 1..n : u[j][1] = m /\ u[j][2] = f + j
        BY <1>2
    <2> QED
        BY <2>1, <2>2
<1>7. \A i \in 1..Len(b) + n : i <= Len(b) => i \in 1..Len(b) /\ (b \o u)[i] = b[i]
    BY <1>4
<1>8. \A i \in 1..Len(buffer) : buffer[i][1] = m /\ buffer[i][2] <= f + n
    <2>1. CASE buffer = b
        BY <1>5, <1>1, <2>1
    <2>2. CASE buffer = b \o u
        <3>1. ASSUME NEW i \in 1..Len(b) + n
              PROVE  (b \o u)[i][1] = m /\ (b \o u)[i][2] <= f + n
            <4>1. CASE i <= Len(b)
                BY <1>1, <1>5, <1>7, <4>1
            <4>2. CASE i > Len(b)
                BY <1>1, <1>4, <1>6, <4>2
            <4> QED
                BY <1>4, <4>1, <4>2
        <3> QED
            BY <1>4, <2>2, <3>1
    <2> QED
        BY <1>3, <2>1, <2>2
<1>9. \A i, j \in 1..Len(buffer) : i < j => buffer[i][2] < buffer[j][2]
    <2>1. CASE buffer = b
        BY <2>1 DEF Partial
    <2>2. CASE buffer = b \o u
        <3>1. ASSUME NEW i \in 1..Len(b) + n, NEW j \in 1..Len(b) + n, i < j
              PROVE  (b \o u)[i][2] < (b \o u)[j][2]
            <4>1. CASE j <= Len(b)
                <5>1. i <= Len(b)
                    BY <1>4, <3>1, <4>1
                <5> QED
                    BY <1>7, <3>1, <4>1, <5>1 DEF Partial
            <4>2. CASE j > Len(b) /\ i <= Len(b)
                <5>1. (b \o u)[i][2] <= f /\ (b \o u)[i][2] \in Int
                    BY <1>5, <1>7, <4>2
                <5>2. (b \o u)[j][2] = f + (j - Len(b)) /\ j - Len(b) \in 1..n
                    BY <1>6, <4>2
                <5>3. f \in Int /\ (j - Len(b)) \in Int /\ j - Len(b) > 0
                    BY <5>2
                <5>4. \A x, y, k \in Int : x <= y /\ k > 0 => x < y + k
                    OBVIOUS
                <5>5. (b \o u)[i][2] < f + (j - Len(b))
                    BY <5>1, <5>3, <5>4
                <5> QED
                    BY <5>2, <5>5
            <4>3. CASE i > Len(b)
                <5>1. j > Len(b)
                    BY <1>4, <3>1, <4>3
                <5>2. (b \o u)[i][2] = f + (i - Len(b)) /\ (b \o u)[j][2] = f + (j - Len(b))
                    BY <1>6, <4>3, <5>1
                <5>3. f + (i - Len(b)) < f + (j - Len(b))
                    BY <1>1, <1>4, <3>1
                <5> QED
                    BY <5>2, <5>3
            <4>4. (j <= Len(b) \/ j > Len(b)) /\ (i <= Len(b) \/ i > Len(b))
                <5>1. Len(b) \in Int /\ i \in Int /\ j \in Int
                    BY <1>4
                <5> QED
                    BY <5>1
            <4> QED
                BY <4>1, <4>2, <4>3, <4>4
        <3> QED
            BY <1>4, <2>2, <3>1
    <2> QED
        BY <1>3, <2>1, <2>2
<1>10. ASSUME Fits(m) PROVE buffer = Units(m, 0, f + n)
    <2>1. b = Units(m, 0, f) /\ Len(b) = f
        BY <1>1, <1>10, FirstUnits DEF Partial
    <2>2. f + n <= Limit(m)
        BY <1>1, <1>10 DEF Fits
    <2>3. buffer = b \o u
        BY <1>2, <1>3, <2>1, <2>2
    <2> QED
        BY <1>1, <2>1, <2>3, UnitsJoin DEF u
<1> QED
    BY <1>3, <1>8, <1>9, <1>10 DEF Partial, buffer, u

LEMMA LittlePiece ==
    ASSUME sends \in Seq(Small \cup Files), little \in Seq(Unit), Len(little) <= LittleLimit,
           NEW c, NEW p, NEW d, LittleAt(c), SmallStep(c, p, d),
           NEW buffer, buffer = AddMessage(little, p.units, LittleLimit)
    PROVE  /\ buffer \in Seq(Unit) /\ Len(buffer) <= LittleLimit /\ OneMessage(buffer)
           /\ buffer # <<>> => MessageOf(buffer) = MessageOf(p.units)
           /\ p.kind = "body" => Placed(d, Small) /\ d.pos > 0 /\ Partial(buffer, d.msg, d.pos)
           /\ p.kind = "tail" => d = Idle
<1>1. PICK m \in 1..Len(sends), f \in Nat, n \in Nat \ {0} :
        /\ sends[m] \in Small /\ f + n <= Len1(m)
        /\ p.units = Units(m, f, n)
        /\ p.kind = IF f + n = Len1(m) THEN "tail" ELSE "body"
        /\ c = Start(m, f) /\ d = After(m, f + n)
    BY DEF SmallStep
<1>2. m \in Nat /\ n \in Nat /\ Limit(m) = LittleLimit /\ Len1(m) \in Nat /\ LittleLimit \in Nat
    BY <1>1, MessageFacts
<1>3. Partial(little, m, f)
    <2>1. CASE f = 0
        <3>1. little = <<>>
            BY <1>1, <2>1 DEF LittleAt, Start, Idle
        <3>2. Units(m, 0, 0) = <<>>
            BY <1>2, FirstUnits, EmptySeq
        <3> QED
            BY <2>1, <3>1, <3>2 DEF Partial
    <2>2. CASE f # 0
        BY <1>1, <2>2 DEF LittleAt, Start
    <2> QED
        BY <2>1, <2>2
<1>4. buffer \in Seq(Unit) /\ Partial(buffer, m, f + n)
    BY <1>1, <1>2, <1>3, PartialPiece
<1>5. Len(buffer) <= LittleLimit
    <2>1. p.units \in Seq(Unit)
        BY <1>1, <1>2, UnitsUnit
    <2> QED
        BY <1>2, <2>1, AddMessageSeq
<1>6. OneMessage(buffer)
    BY <1>1, <1>2, <1>4, PartialOneMessage
<1>7. buffer # <<>> => MessageOf(buffer) = MessageOf(p.units)
    <2>1. MessageOf(p.units) = m
        <3>1. 1 \in 1..n
            BY <1>2
        <3>2. \A i \in 1..n : Units(m, f, n)[i] = <<m, f + i>>
            BY <1>2, UnitsSeq
        <3>3. Units(m, f, n)[1] = <<m, f + 1>>
            BY <3>1, <3>2
        <3> QED
            BY <1>1, <3>3 DEF MessageOf
    <2>2. buffer # <<>> => 1 \in 1..Len(buffer)
        BY <1>4, EmptySeq, LenProperties
    <2> QED
        BY <1>4, <2>1, <2>2 DEF Partial, MessageOf
<1>8. CASE f + n = Len1(m)
    <2>1. d = Idle /\ p.kind = "tail"
        BY <1>1, <1>8 DEF After
    <2> QED
        BY <1>4, <1>5, <1>6, <1>7, <2>1
<1>9. CASE f + n # Len1(m)
    <2>1. d.msg = m /\ d.pos = f + n /\ p.kind = "body"
        BY <1>1, <1>9 DEF After
    <2>2. f + n \in Nat /\ f + n > 0 /\ f + n < Len1(m)
        <3>1. PICK k : k = Len1(m) /\ k \in Nat
            BY MessageFacts
        <3>2. f + n <= k /\ f + n # k
            BY <1>1, <1>9, <3>1
        <3> QED
            BY <1>1, <3>1, <3>2
    <2>3. Placed(d, Small)
        BY <1>1, <2>1, <2>2 DEF Placed
    <2> QED
        BY <1>4, <1>5, <1>6, <1>7, <2>1, <2>2, <2>3
<1> QED
    BY <1>8, <1>9

\* A piece of a file; rest is what GotBigChunk keeps of the buffer.
LEMMA LargePiece ==
    ASSUME sends \in Seq(Small \cup Files), large \in Seq(Unit), Len(large) <= LargeLimit,
           NEW c, NEW p, NEW d, LargeAt(c), FileStep(c, p, d),
           NEW rest, rest = (IF ftLength \in {0, p.total} THEN large ELSE <<>>),
           NEW buffer, buffer = AddMessage(rest, p.units, LargeLimit)
    PROVE  /\ buffer \in Seq(Unit) /\ Len(buffer) <= LargeLimit /\ Len(buffer) \in Nat
           /\ p.total \in Nat \ {0} /\ \E g \in Files : p.total = Size[g]
           /\ Len(buffer) = p.total => /\ OneMessage(buffer) /\ buffer # <<>>
                                       /\ MessageOf(buffer) = MessageOf(p.units)
                                       /\ p.units[Len(p.units)][2] = p.total
           /\ Len(buffer) >= p.total => d.pos = 0
           /\ Len(buffer) < p.total =>
                 /\ Placed(d, Files)
                 /\ d.pos = 0 => p.total > LargeLimit
                 /\ d.pos > 0 => p.total = Len1(d.msg)
                 /\ d.pos > 0 /\ Fits(d.msg) => buffer = Units(d.msg, 0, d.pos)
<1>1. PICK m \in 1..Len(sends), f \in Nat, n \in Nat \ {0} :
        /\ sends[m] \in Files /\ f + n <= Len1(m)
        /\ p.units = Units(m, f, n) /\ p.total = Len1(m)
        /\ c = Start(m, f) /\ d = After(m, f + n)
    BY DEF FileStep
<1>2. /\ m \in Nat /\ n \in Nat /\ Limit(m) = LargeLimit
      /\ Len1(m) \in Nat /\ Len1(m) > 0 /\ LargeLimit \in Nat
    BY <1>1, MessageFacts
<1>3. p.units \in Seq(Unit) /\ Len(p.units) = n /\ rest \in Seq(Unit) /\ Len(rest) <= LargeLimit
    BY <1>1, <1>2, UnitsUnit, UnitsSeq, EmptySeq
<1>4. /\ buffer \in Seq(Unit) /\ Len(buffer) <= LargeLimit /\ Len(buffer) \in Nat
      /\ Len(rest) + n <= LargeLimit => buffer = rest \o p.units
    BY <1>2, <1>3, AddMessageSeq, LenProperties
<1>5. ASSUME Fits(m) PROVE buffer = Units(m, 0, f + n) /\ Len(buffer) = f + n
    <2>1. Len1(m) <= LargeLimit
        BY <1>2, <1>5 DEF Fits
    <2>2. rest = Units(m, 0, f)
        <3>1. CASE f = 0
            <4>1. c.pos = 0
                BY <1>1, <3>1 DEF Start, Idle
            <4>2. rest = <<>>
                BY <1>1, <1>2, <2>1, <4>1 DEF LargeAt
            <4> QED
                BY <1>2, <3>1, <4>2, FirstUnits, EmptySeq
        <3>2. CASE f # 0
            BY <1>1, <1>5, <3>2 DEF LargeAt, Start
        <3> QED
            BY <3>1, <3>2
    <2>3. Len(rest) = f
        <3>1. Len(Units(m, 0, f)) = f
            BY <1>2, FirstUnits
        <3> QED
            BY <2>2, <3>1
    <2>4. buffer = rest \o p.units
        BY <1>1, <1>2, <1>4, <2>1, <2>3
    <2>5. f + n \in Nat /\ Len(Units(m, 0, f + n)) = f + n
        <3>1. f + n \in Nat
            BY <1>2
        <3> QED
            BY <1>2, <3>1, FirstUnits
    <2>6. Units(m, 0, f) \o Units(m, f, n) = Units(m, 0, f + n)
        BY <1>2, UnitsJoin
    <2> QED
        BY <1>1, <2>2, <2>4, <2>5, <2>6
<1>6. Fits(m) <=> Len1(m) <= LargeLimit
    BY <1>2 DEF Fits
<1>7. ASSUME Len(buffer) = p.total PROVE OneMessage(buffer) /\ buffer # <<>>
    <2>1. Fits(m) /\ buffer = Units(m, 0, f + n)
        BY <1>1, <1>4, <1>5, <1>6, <1>7
    <2>2. f + n \in Nat
        BY <1>2
    <2>3. Partial(buffer, m, f + n)
        <3>1. /\ Len(Units(m, 0, f + n)) = f + n
              /\ \A i \in 1..(f + n) : Units(m, 0, f + n)[i] = <<m, i>>
            BY <1>2, <2>2, FirstUnits
        <3>2. Len(buffer) = f + n /\ \A i \in 1..(f + n) : buffer[i] = <<m, i>>
            BY <2>1, <3>1
        <3>3. \A i \in 1..Len(buffer) : buffer[i][1] = m /\ buffer[i][2] = i /\ i <= f + n
            BY <2>2, <3>2
        <3>4. \A i, j \in 1..Len(buffer) : i < j => buffer[i][2] < buffer[j][2]
            BY <3>3
        <3> QED
            BY <2>1, <3>3, <3>4 DEF Partial
    <2> QED
        BY <1>1, <1>2, <1>4, <1>7, <2>2, <2>3, PartialOneMessage, EmptySeq
<1>8. Len(buffer) >= p.total => d.pos = 0
    BY <1>1, <1>2, <1>4, <1>5, <1>6 DEF After, Idle
<1>9. ASSUME Len(buffer) < p.total
      PROVE  /\ Placed(d, Files)
             /\ d.pos = 0 => p.total > LargeLimit
             /\ d.pos > 0 => p.total = Len1(d.msg)
             /\ d.pos > 0 /\ Fits(d.msg) => buffer = Units(d.msg, 0, d.pos)
    <2>1. CASE f + n = Len1(m)
        BY <1>1, <1>2, <1>5, <1>6, <1>9, <2>1 DEF After, Idle, Placed
    <2>2. CASE f + n # Len1(m)
        BY <1>1, <1>2, <1>5, <2>2 DEF After, Placed
    <2> QED
        BY <2>1, <2>2
<1>10. p.total \in Nat \ {0} /\ \E g \in Files : p.total = Size[g]
    BY <1>1, <1>2 DEF Len1
<1>11. ASSUME Len(buffer) = p.total
       PROVE  MessageOf(buffer) = MessageOf(p.units) /\ p.units[Len(p.units)][2] = p.total
    <2>1. buffer = Units(m, 0, f + n) /\ f + n = Len1(m)
        BY <1>1, <1>4, <1>5, <1>6, <1>11
    <2>2. 1 \in 1..(f + n) /\ 1 \in 1..n /\ n \in 1..n /\ f + n \in Nat
        BY <1>2
    <2>3. buffer[1] = <<m, 1>>
        <3>1. \A i \in 1..(f + n) : Units(m, 0, f + n)[i] = <<m, i>>
            BY <1>2, <2>2, FirstUnits
        <3> QED
            BY <2>1, <2>2, <3>1
    <2>4. p.units[1] = <<m, f + 1>> /\ p.units[n] = <<m, f + n>>
        <3>1. \A i \in 1..n : Units(m, f, n)[i] = <<m, f + i>>
            BY <1>2, UnitsSeq
        <3> QED
            BY <1>1, <2>2, <3>1
    <2> QED
        BY <1>1, <1>3, <2>1, <2>3, <2>4 DEF MessageOf
<1> QED
    BY <1>4, <1>7, <1>8, <1>9, <1>10, <1>11
-----------------------------------------------------------------------------
\* The pieces on their way.

\* What was said of the messages begun stays true of them when others begin.
Grows == /\ sends \in Seq(Small \cup Files) /\ sends' \in Seq(Small \cup Files)
         /\ Len(sends) <= Len(sends')
         /\ \A m \in 1..Len(sends) : sends'[m] = sends[m]

LEMMA GrowsFacts ==
    ASSUME Grows
    PROVE  /\ \A m \in 1..Len(sends) : m \in 1..Len(sends') /\ sends'[m] = sends[m]
                 /\ Len1(m)' = Len1(m) /\ (Fits(m)' <=> Fits(m)) /\ Whole(m)' = Whole(m)
           /\ \A b \in Seq(Unit) : b \in Seq(Unit')
<1>1. Len(sends) \in Nat /\ Len(sends') \in Nat /\ 1..Len(sends) \subseteq 1..Len(sends')
    BY LenProperties DEF Grows
<1>2. \A m \in 1..Len(sends) : sends'[m] = sends[m] /\ Len1(m)' = Len1(m)
    BY <1>1 DEF Grows, Len1
<1>3. Unit \subseteq Unit'
    BY <1>1 DEF Unit
<1> QED
    BY <1>1, <1>2, <1>3, SeqMonotonic DEF Fits, Limit, Whole

LEMMA OneMessageStays ==
    ASSUME Grows, NEW b \in Seq(Unit), OneMessage(b) PROVE OneMessage(b)'
<1> SUFFICES ASSUME b # <<>> PROVE OneMessage(b)'
    BY DEF OneMessage
<1>1. b[1] \in Unit
    BY EmptySeq, LenProperties, ElementOfSeq
<1>2. b[1][1] \in 1..Len(sends)
    BY <1>1 DEF Unit
<1>3. (Fits(b[1][1])' <=> Fits(b[1][1])) /\ Whole(b[1][1])' = Whole(b[1][1])
    BY <1>2, GrowsFacts
<1> QED
    BY <1>3 DEF OneMessage

LEMMA PieceStepStays ==
    ASSUME Grows, NEW c, NEW p, NEW d, PieceStep(c, p, d) PROVE PieceStep(c, p, d)'
<1>1. \A m \in 1..Len(sends) : m \in 1..Len(sends') /\ sends'[m] = sends[m] /\ Len1(m)' = Len1(m)
    BY GrowsFacts
<1>2. \A t : \A m \in 1..Len(sends) : After(m, t)' = After(m, t)
    BY <1>1 DEF After
<1>3. SmallStep(c.small, p, d.small) => SmallStep(c.small, p, d.small)'
    BY <1>1, <1>2 DEF SmallStep
<1>4. FileStep(c.file, p, d.file) => FileStep(c.file, p, d.file)'
    BY <1>1, <1>2 DEF FileStep
<1> QED
    BY <1>3, <1>4 DEF PieceStep

LEMMA BuffersStay ==
    ASSUME Grows, NEW c, UNCHANGED <<little, large, ftLength>>
    PROVE  (LittleAt(c) => LittleAt(c)') /\ (LargeAt(c) => LargeAt(c)')
<1>1. \A m \in 1..Len(sends) : m \in 1..Len(sends') /\ sends'[m] = sends[m]
                 /\ Len1(m)' = Len1(m) /\ (Fits(m)' <=> Fits(m))
    BY GrowsFacts
<1>2. ASSUME LittleAt(c) PROVE LittleAt(c)'
    <2>1. CASE c.pos > 0
        <3>1. c.msg \in 1..Len(sends) /\ sends[c.msg] \in Small /\ c.pos < Len1(c.msg)
            BY <1>2, <2>1 DEF LittleAt, Placed
        <3> QED
            BY <1>1, <1>2, <2>1, <3>1 DEF LittleAt, Placed, Partial
    <2>2. CASE ~(c.pos > 0)
        BY <1>2, <2>2 DEF LittleAt, Placed
    <2> QED
        BY <2>1, <2>2
<1>3. ASSUME LargeAt(c) PROVE LargeAt(c)'
    <2>1. CASE c.pos > 0
        <3>1. c.msg \in 1..Len(sends) /\ sends[c.msg] \in Files /\ c.pos < Len1(c.msg)
            BY <1>3, <2>1 DEF LargeAt, Placed
        <3> QED
            BY <1>1, <1>3, <2>1, <3>1 DEF LargeAt, Placed
    <2>2. CASE ~(c.pos > 0)
        BY <1>3, <2>2 DEF LargeAt, Placed
    <2> QED
        BY <2>1, <2>2
<1> QED
    BY <1>2, <1>3

\* A piece is sent, from where the server was to where it is now.
LEMMA ChainSent ==
    ASSUME Shape, InStep, Grows, sends' = sends, UNCHANGED trBotVars,
           NEW p \in SomePiece, link' = Append(link, p),
           PieceStep([small |-> Norm(small), file |-> Norm(file)], p,
                     [small |-> Norm(small)', file |-> Norm(file)']),
           [small |-> Norm(small)', file |-> Norm(file)'] \in Cursors
    PROVE  InStep'
<1> DEFINE now == [small |-> Norm(small)', file |-> Norm(file)']
<1>1. PICK at : Chain(at) /\ LittleAt(at[1].small) /\ LargeAt(at[1].file)
    BY DEF InStep
<1>2. /\ Len(link) \in Nat /\ Len(link') = Len(link) + 1 /\ link'[Len(link) + 1] = p
      /\ \A i \in 1..Len(link) : link'[i] = link[i]
    BY LenProperties, AppendProperties DEF Shape
<1>3. PICK new : new = [i \in 1..Len(link) + 2 |-> IF i = Len(link) + 2 THEN now ELSE at[i]]
    OBVIOUS
<1>4. /\ new[1] = at[1]
      /\ \A i \in 1..Len(link) : new[i] = at[i] /\ new[i + 1] = at[i + 1]
      /\ new[Len(link) + 1] = [small |-> Norm(small), file |-> Norm(file)]
      /\ new[Len(link) + 2] = now
    BY <1>1, <1>2, <1>3 DEF Chain
<1>5. new \in [1..Len(link') + 1 -> Cursors]
    <2>1. 1..Len(link') + 1 = 1..Len(link) + 2
        BY <1>2
    <2>2. \A i \in 1..Len(link) + 2 : i = Len(link) + 2 \/ i \in 1..Len(link) + 1
        BY <1>2
    <2> QED
        BY <1>1, <1>3, <2>1, <2>2 DEF Chain
<1>6. ASSUME NEW i \in 1..Len(link') PROVE PieceStep(new[i], link[i], new[i + 1])'
    <2>1. PICK q : q = link'[i]
        OBVIOUS
    <2>2. PieceStep(new[i], q, new[i + 1])
        <3>1. CASE i \in 1..Len(link)
            BY <1>1, <1>2, <1>4, <2>1, <3>1 DEF Chain
        <3>2. CASE i = Len(link) + 1
            <4>1. i + 1 = Len(link) + 2
                BY <1>2, <3>2
            <4> QED
                BY <1>2, <1>4, <2>1, <3>2, <4>1
        <3> QED
            BY <1>2, <3>1, <3>2
    <2>3. PieceStep(new[i], q, new[i + 1])'
        BY <2>2, PieceStepStays
    <2> QED
        BY <2>1, <2>3 DEF PieceStep, SmallStep, FileStep
<1>7. Chain(new)'
    <2>1. Len(link') + 1 = Len(link) + 2
        BY <1>2
    <2> QED
        BY <1>4, <1>5, <1>6, <2>1 DEF Chain
<1>8. LittleAt(at[1].small)' /\ LargeAt(at[1].file)'
    BY <1>1, BuffersStay DEF trBotVars
<1> QED
    BY <1>4, <1>7, <1>8 DEF InStep

\* The first piece on its way is taken.
LEMMA ChainTaken ==
    ASSUME Shape, NEW at, Chain(at), link # <<>>, link' = Tail(link),
           sends \in Seq(Small \cup Files), UNCHANGED trSrvVars
    PROVE  /\ PieceStep(at[1], Head(link), at[2]) /\ at[2] \in Cursors
           /\ \E new : Chain(new)' /\ new[1] = at[2]
<1>1. /\ Len(link) \in Nat /\ Len(link) > 0 /\ Len(link') = Len(link) - 1
      /\ Head(link) = link[1]
      /\ \A i \in 1..Len(link') : link'[i] = link[i + 1]
    BY LenProperties, EmptySeq, HeadTailProperties DEF Shape
<1>2. PieceStep(at[1], Head(link), at[2]) /\ at[2] \in Cursors
    <2>1. 1 \in 1..Len(link) /\ 2 \in 1..Len(link) + 1 /\ 1 + 1 = 2
        BY <1>1
    <2> QED
        BY <1>1, <2>1 DEF Chain
<1>3. PICK new : new = [i \in 1..Len(link) |-> at[i + 1]]
    OBVIOUS
<1>4. new \in [1..Len(link') + 1 -> Cursors] /\ new[1] = at[2]
    <2>1. 1..Len(link') + 1 = 1..Len(link) /\ 1 \in 1..Len(link) /\ 1 + 1 = 2
        BY <1>1
    <2>2. \A i \in 1..Len(link) : i + 1 \in 1..Len(link) + 1
        BY <1>1
    <2> QED
        BY <1>3, <2>1, <2>2 DEF Chain
<1>5. Grows
    BY LenProperties DEF Grows, trSrvVars
<1>6. ASSUME NEW i \in 1..Len(link') PROVE PieceStep(new[i], link[i], new[i + 1])'
    <2>1. PICK q : q = link'[i]
        OBVIOUS
    <2>2. PieceStep(new[i], q, new[i + 1])
        <3>1. i \in 1..Len(link) /\ i + 1 \in 1..Len(link)
            BY <1>1
        <3>2. PieceStep(at[i + 1], link[i + 1], at[i + 1 + 1])
            BY <3>1 DEF Chain
        <3> QED
            BY <1>1, <1>3, <2>1, <3>1, <3>2
    <2>3. PieceStep(new[i], q, new[i + 1])'
        BY <1>5, <2>2, PieceStepStays
    <2> QED
        BY <2>1, <2>3 DEF PieceStep, SmallStep, FileStep
<1>7. new[Len(link') + 1] = [small |-> Norm(small'), file |-> Norm(file')]
    <2>1. Len(link') + 1 = Len(link) /\ Len(link) \in 1..Len(link)
        BY <1>1
    <2> QED
        BY <1>3, <2>1 DEF Chain, trSrvVars
<1>8. Chain(new)'
    BY <1>4, <1>6, <1>7 DEF Chain, Norm
<1> QED
    BY <1>2, <1>4, <1>8
-----------------------------------------------------------------------------
\* The server's steps.

LEMMA TrInitIInv == TrInit => TrIInv
<1> SUFFICES ASSUME TrInit PROVE TrIInv
    OBVIOUS
<1>1. Len(link) = 0 /\ Len(handled) = 0 /\ Len(sends) = 0 /\ Len(little) = 0 /\ Len(large) = 0
    BY EmptySeq DEF TrInit
<1>2. TrTypeOK
    <2>1. sends \in Seq(Small \cup Files) /\ little \in Seq(Unit) /\ large \in Seq(Unit)
        BY EmptySeq DEF TrInit
    <2>2. small.msg = 0 /\ file.msg = 0 /\ session = 1 /\ acks = 0 /\ awaiting = FALSE
        BY DEF TrInit, Idle
    <2>3. LittleLimit \in Nat /\ LargeLimit \in Nat /\ Window \in Nat /\ session \in 1..MaxSessions
        BY <2>2, TransfersAssumption
    <2>4. awaiting \in BOOLEAN
        BY <2>2
    <2>5. Len(link) <= Window /\ Len(little) <= LittleLimit /\ Len(large) <= LargeLimit
        BY <1>1, <2>3
    <2>6. {small.msg, file.msg} \subseteq 0..Len(sends) /\ ftLength = 0 /\ acks \in 0..1
        BY <1>1, <2>2 DEF TrInit
    <2>7. \A i \in 1..Len(handled) : handled[i] \in Seq(Unit) /\ handled[i] # <<>>
        BY <1>1
    <2> QED
        BY <2>1, <2>3, <2>4, <2>5, <2>6, <2>7 DEF TrTypeOK
<1>3. Shape /\ ServerOK /\ CancelOK
    <2>1. link \in Seq(SomePiece) /\ handled \in Seq(Seq(Unit))
        BY EmptySeq DEF TrInit
    <2>2. CancelOK
        BY <1>1 DEF TrInit, CancelOK
    <2>3. ServerOK
        BY DEF TrInit, ServerOK
    <2> QED
        BY <2>1, <2>2, <2>3 DEF Shape
<1>4. InStep
    <2>1. PICK at : at = [i \in 1..1 |-> [small |-> Idle, file |-> Idle]]
        OBVIOUS
    <2>2. Chain(at)
        BY <1>1, <2>1 DEF TrInit, Chain, Cursors, Cursor, Idle, Norm
    <2>3. LittleAt(Idle) /\ LargeAt(Idle)
        BY DEF TrInit, LittleAt, LargeAt, Placed, Idle
    <2> QED
        BY <2>1, <2>2, <2>3 DEF InStep
<1> QED
    BY <1>1, <1>2, <1>3, <1>4 DEF TrIInv

LEMMA SameSendsGrow ==
    ASSUME sends \in Seq(Small \cup Files), sends' = sends PROVE Grows
BY LenProperties DEF Grows

LEMMA BeginStep ==
    ASSUME TrIInv, NEW name \in Small \cup Files, Begin(name)
    PROVE  TrIInv'
<1>1. sends \in Seq(Small \cup Files) /\ Len(sends) \in Nat
    BY LenProperties DEF TrIInv, TrTypeOK
<1>2. /\ sends' = Append(sends, name) /\ sends' \in Seq(Small \cup Files)
      /\ Len(sends') = Len(sends) + 1 /\ sends'[Len(sends) + 1] = name
      /\ \A m \in 1..Len(sends) : sends'[m] = sends[m]
    BY <1>1, AppendProperties DEF Begin
<1>3. Grows
    BY <1>1, <1>2 DEF Grows
<1>4. /\ UNCHANGED <<awaiting, session, link, acks, little, large, ftLength, handled>>
      /\ (file' = file \/ ~awaiting)
    BY DEF Begin, trBotVars
<1>5. PICK new : new = [msg |-> Len(sends) + 1, pos |-> 0]
    OBVIOUS
<1>6. \/ name \in Small /\ small = Idle /\ small' = new /\ UNCHANGED file
      \/ name \in Files /\ file = Idle /\ file' = new /\ UNCHANGED small
    BY <1>5 DEF Begin
<1>7. /\ new \in Cursor /\ new.msg \in 1..Len(sends') /\ sends'[new.msg] = name
      /\ new.pos = 0 /\ Len1(new.msg)' > 0
    <2>1. new \in Cursor /\ new.msg = Len(sends) + 1 /\ new.pos = 0
        BY <1>1, <1>5 DEF Cursor
    <2>2. Len1(new.msg)' = Size[name]
        BY <1>2, <2>1 DEF Len1
    <2> QED
        BY <1>1, <1>2, <2>1, <2>2, TransfersAssumption
<1>8. ServerOK'
    <2>1. \A m \in 1..Len(sends) : m \in 1..Len(sends') /\ sends'[m] = sends[m]
        BY <1>1, <1>2
    <2>2. new.pos < Size[name]
        BY <1>7, <1>2, TransfersAssumption
    <2>3. CASE small = Idle /\ small' = new /\ file' = file /\ name \in Small
        BY <1>7, <2>1, <2>2, <2>3 DEF TrIInv, ServerOK, SendingAt, Len1
    <2>4. CASE file = Idle /\ file' = new /\ small' = small /\ name \in Files
        BY <1>7, <2>1, <2>2, <2>4 DEF TrIInv, ServerOK, SendingAt, Len1
    <2> QED
        BY <1>6, <2>3, <2>4
<1>9. CancelOK'
    BY <1>4 DEF TrIInv, CancelOK, IsCancel
<1>10. Norm(small') = Norm(small) /\ Norm(file') = Norm(file)
    BY <1>6, <1>7 DEF Norm, Idle
<1>11. InStep'
    <2>1. PICK at : Chain(at) /\ LittleAt(at[1].small) /\ LargeAt(at[1].file)
        BY DEF TrIInv, InStep
    <2>2. ASSUME NEW i \in 1..Len(link) PROVE PieceStep(at[i], link[i], at[i + 1])'
        <3>1. PICK q : q = link[i]
            OBVIOUS
        <3>2. PieceStep(at[i], q, at[i + 1])'
            BY <1>3, <2>1, <3>1, PieceStepStays DEF Chain
        <3> QED
            BY <1>4, <3>1, <3>2 DEF PieceStep, SmallStep, FileStep
    <2>3. Chain(at)'
        <3>1. at[Len(link') + 1] = [small |-> Norm(small'), file |-> Norm(file')]
            BY <1>4, <1>10, <2>1 DEF Chain
        <3> QED
            BY <1>4, <2>1, <2>2, <3>1 DEF Chain, Norm
    <2>4. LittleAt(at[1].small)' /\ LargeAt(at[1].file)'
        BY <1>3, <1>4, <2>1, BuffersStay
    <2> QED
        BY <2>3, <2>4 DEF InStep
<1>12. \A i \in 1..Len(handled) : handled[i] \in Seq(Unit)
    BY DEF TrIInv, TrTypeOK
<1>13. \A i \in 1..Len(handled') : OneMessage(handled[i])'
    <2>1. ASSUME NEW i \in 1..Len(handled) PROVE OneMessage(handled[i])'
        <3>1. PICK b \in Seq(Unit) : b = handled[i] /\ OneMessage(b)
            BY <1>12 DEF TrIInv
        <3>2. OneMessage(b)'
            BY <1>3, <3>1, OneMessageStays
        <3> QED
            BY <1>4, <3>1, <3>2 DEF OneMessage
    <2> QED
        BY <1>4, <2>1
<1>14. Seq(Unit) \subseteq Seq(Unit')
    BY <1>3, GrowsFacts
<1>15. Shape'
    <2>1. Seq(Seq(Unit)) \subseteq Seq(Seq(Unit'))
        BY <1>14, SeqMonotonic
    <2> QED
        BY <1>4, <2>1 DEF TrIInv, Shape
<1>16. TrTypeOK'
    <2>1. {small'.msg, file'.msg} \subseteq 0..Len(sends')
        BY <1>1, <1>2, <1>5, <1>6 DEF TrIInv, TrTypeOK
    <2>2. /\ little' \in Seq(Unit') /\ large' \in Seq(Unit')
          /\ \A i \in 1..Len(handled') : handled'[i] \in Seq(Unit') /\ handled'[i] # <<>>
        BY <1>4, <1>14 DEF TrIInv, TrTypeOK
    <2> QED
        BY <1>2, <1>4, <2>1, <2>2 DEF TrIInv, TrTypeOK
<1> QED
    BY <1>8, <1>9, <1>11, <1>13, <1>15, <1>16 DEF TrIInv

\* What the bot holds is left alone by the server.
LEMMA BotKept ==
    ASSUME TrIInv, sends' = sends, UNCHANGED trBotVars, UNCHANGED session,
           awaiting' \in BOOLEAN, acks' \in 0..1, Len(link') <= Window, link' \in Seq(SomePiece),
           ServerOK', {small'.msg, file'.msg} \subseteq 0..Len(sends)
    PROVE  TrTypeOK' /\ Shape' /\ \A i \in 1..Len(handled') : OneMessage(handled[i])'
<1>1. /\ Unit' = Unit
      /\ UNCHANGED <<little, large, ftLength, handled>>
    BY DEF Unit, trBotVars
<1>2. TrTypeOK'
    <2>1. /\ sends' \in Seq(Small \cup Files)
          /\ {small'.msg, file'.msg} \subseteq 0..Len(sends')
          /\ session' \in 1..MaxSessions
        BY DEF TrIInv, TrTypeOK
    <2>2. /\ little' \in Seq(Unit') /\ Len(little') <= LittleLimit
          /\ large' \in Seq(Unit') /\ Len(large') <= LargeLimit
          /\ ftLength' \in {0} \cup {Size[f] : f \in Files}
          /\ \A i \in 1..Len(handled') : handled'[i] \in Seq(Unit') /\ handled'[i] # <<>>
        BY <1>1 DEF TrIInv, TrTypeOK
    <2> QED
        BY <2>1, <2>2 DEF TrTypeOK
<1>3. Shape'
    BY <1>1 DEF TrIInv, Shape
<1>4. \A i \in 1..Len(handled') : OneMessage(handled[i])'
    BY <1>1 DEF TrIInv, OneMessage, Fits, Limit, Whole, Len1
<1> QED
    BY <1>2, <1>3, <1>4

\* A piece of the message at `at` moves the cursor on.
LEMMA CursorMoves ==
    ASSUME sends \in Seq(Small \cup Files), NEW names, NEW c, SendingAt(c, names),
           NEW n \in 1..PieceMax, n <= Len1(c.msg) - c.pos
    PROVE  /\ c.msg \in 1..Len(sends) /\ sends[c.msg] \in names
           /\ c.pos \in Nat /\ n \in Nat \ {0} /\ c.pos + n <= Len1(c.msg)
           /\ c.msg \in Nat /\ Len1(c.msg) \in Nat
           /\ Norm(c) = Start(c.msg, c.pos)
           /\ Advance(c, n) = After(c.msg, c.pos + n)
           /\ Norm(Advance(c, n)) = Advance(c, n) /\ Advance(c, n) \in Cursor
           /\ Advance(c, n) = Idle <=> c.pos + n = Len1(c.msg)
           /\ Advance(c, n) = Idle \/ SendingAt(Advance(c, n), names)
           /\ Advance(c, n).msg \in 0..Len(sends)
<1>1. /\ c.msg \in 1..Len(sends) /\ sends[c.msg] \in names /\ c \in Cursor
      /\ c.pos < Len1(c.msg)
    BY DEF SendingAt
<1>2. /\ c.pos \in Nat /\ n \in Nat \ {0} /\ c.msg \in Nat /\ Len1(c.msg) \in Nat
      /\ Len(sends) \in Nat
    BY <1>1, MessageFacts DEF Cursor
<1>3. c.pos + n <= Len1(c.msg) /\ c.pos + n \in Nat /\ c.pos + n # 0
    BY <1>2
<1>4. c = [msg |-> c.msg, pos |-> c.pos]
    BY <1>1 DEF Cursor
<1>5. Norm(c) = Start(c.msg, c.pos)
    BY <1>4 DEF Norm, Start
<1>6. CASE c.pos + n = Len1(c.msg)
    <2>1. Advance(c, n) = Idle /\ After(c.msg, c.pos + n) = Idle
        BY <1>6 DEF Advance, After
    <2> QED
        BY <1>1, <1>2, <1>3, <1>5, <1>6, <2>1 DEF Norm, Idle, Cursor
<1>7. CASE c.pos + n # Len1(c.msg)
    <2>1. /\ Advance(c, n) = [msg |-> c.msg, pos |-> c.pos + n]
          /\ After(c.msg, c.pos + n) = [msg |-> c.msg, pos |-> c.pos + n]
        <3>1. Advance(c, n) = [c EXCEPT !.pos = c.pos + n]
            BY <1>7 DEF Advance
        <3>2. [c EXCEPT !.pos = c.pos + n] = [msg |-> c.msg, pos |-> c.pos + n]
            BY <1>1 DEF Cursor
        <3> QED
            BY <1>7, <3>1, <3>2 DEF After
    <2>2. Advance(c, n) \in Cursor /\ Advance(c, n) # Idle /\ SendingAt(Advance(c, n), names)
        BY <1>1, <1>2, <1>3, <1>7, <2>1 DEF Cursor, Idle, SendingAt
    <2> QED
        BY <1>1, <1>2, <1>3, <1>5, <1>7, <2>1, <2>2 DEF Norm
<1> QED
    BY <1>6, <1>7

\* Whatever is appended that is no cancel leaves CancelOK as it was.
LEMMA CancelKept ==
    ASSUME TrIInv, NEW p \in SomePiece, p.kind # "cancel", link' = Append(link, p),
           UNCHANGED <<awaiting, acks>>, file' # Idle => ~awaiting
    PROVE  CancelOK'
<1>1. /\ Len(link) \in Nat /\ Len(link') = Len(link) + 1 /\ link'[Len(link) + 1] = p
      /\ \A i \in 1..Len(link) : link'[i] = link[i]
    BY LenProperties, AppendProperties DEF TrIInv, Shape
<1>2. \A i \in 1..Len(link') : link'[i].kind = "cancel" =>
            i \in 1..Len(link) /\ link[i].kind = "cancel"
    BY <1>1
<1> QED
    BY <1>2 DEF TrIInv, CancelOK, IsCancel

LEMMA SendChunkStep ==
    ASSUME TrIInv, NEW n \in 1..PieceMax, SendChunk(n)
    PROVE  TrIInv'
<1>1. /\ sends \in Seq(Small \cup Files) /\ Len(link) \in Nat /\ Window \in Nat
      /\ link \in Seq(SomePiece)
    BY LenProperties, TransfersAssumption DEF TrIInv, TrTypeOK, Shape
<1>2. /\ SendingAt(small, Small) /\ n <= Len1(small.msg) - small.pos /\ Len(link) < Window
      /\ small' = Advance(small, n)
      /\ UNCHANGED <<sends, file, awaiting, session, acks>> /\ UNCHANGED trBotVars
    BY DEF SendChunk, TrIInv, ServerOK
<1>3. PICK m, f : m = small.msg /\ f = small.pos
    OBVIOUS
<1>4. /\ m \in 1..Len(sends) /\ sends[m] \in Small /\ f \in Nat /\ n \in Nat \ {0}
      /\ f + n <= Len1(m) /\ m \in Nat /\ Len1(m) \in Nat
      /\ Norm(small) = Start(m, f) /\ small' = After(m, f + n)
      /\ Norm(small') = small' /\ small' \in Cursor
      /\ (small' = Idle <=> f + n = Len1(m))
      /\ (small' = Idle \/ SendingAt(small', Small)) /\ small'.msg \in 0..Len(sends)
    BY <1>1, <1>2, <1>3, CursorMoves
<1>5. PICK p : p = Piece(IF small' = Idle THEN "tail" ELSE "body", small, n)
    OBVIOUS
<1>6. /\ p.kind = IF f + n = Len1(m) THEN "tail" ELSE "body"
      /\ p.units = Units(m, f, n) /\ p.total = Len1(m)
    BY <1>3, <1>4, <1>5 DEF Piece
<1>7. p \in SomePiece
    BY <1>3, <1>4, <1>5, UnitsSeq DEF Piece, SomePiece
<1>8. link' = Append(link, p)
    BY <1>5 DEF SendChunk
<1>9. link' \in Seq(SomePiece) /\ Len(link') <= Window
    BY <1>1, <1>2, <1>7, <1>8, AppendProperties
<1>10. ServerOK'
    BY <1>2, <1>4 DEF TrIInv, ServerOK, SendingAt, Len1
<1>11. CancelOK'
    <2>1. file' # Idle => ~awaiting
        BY <1>2 DEF TrIInv, CancelOK
    <2>2. p.kind # "cancel"
        BY <1>6
    <2> QED
        BY <1>2, <1>7, <1>8, <2>1, <2>2, CancelKept
<1>12. Norm(file) \in Cursor
    BY DEF TrIInv, ServerOK, SendingAt, Norm, Idle, Cursor
<1>13. PICK old, new : /\ old = [small |-> Norm(small), file |-> Norm(file)]
                       /\ new = [small |-> Norm(small'), file |-> Norm(file')]
    OBVIOUS
<1>14. PieceStep(old, p, new) /\ new \in Cursors
    <2>1. SmallStep(old.small, p, new.small)
        BY <1>4, <1>6, <1>13 DEF SmallStep
    <2>2. new.file = old.file /\ p.kind \in {"body", "tail"} /\ new \in Cursors
        BY <1>2, <1>4, <1>6, <1>12, <1>13 DEF Cursors
    <2> QED
        BY <2>1, <2>2 DEF PieceStep
<1>15. InStep'
    <2>1. Shape /\ InStep /\ Grows
        BY <1>1, <1>2, SameSendsGrow DEF TrIInv
    <2>2. [small |-> Norm(small)', file |-> Norm(file)'] = new
        BY <1>13 DEF Norm
    <2> QED
        BY <1>2, <1>7, <1>8, <1>13, <1>14, <2>1, <2>2, ChainSent
<1>16. TrTypeOK' /\ Shape' /\ \A i \in 1..Len(handled') : OneMessage(handled[i])'
    <2>1. awaiting' \in BOOLEAN
        BY <1>2 DEF TrIInv, TrTypeOK
    <2>2. acks' \in 0..1 /\ {small'.msg, file'.msg} \subseteq 0..Len(sends)
        BY <1>2, <1>4 DEF TrIInv, TrTypeOK
    <2> QED
        BY <1>2, <1>9, <1>10, <2>1, <2>2, BotKept
<1> QED
    BY <1>10, <1>11, <1>15, <1>16 DEF TrIInv

LEMMA SendBigChunkStep ==
    ASSUME TrIInv, NEW n \in 1..PieceMax, SendBigChunk(n)
    PROVE  TrIInv'
<1>1. /\ sends \in Seq(Small \cup Files) /\ Len(link) \in Nat /\ Window \in Nat
      /\ link \in Seq(SomePiece)
    BY LenProperties, TransfersAssumption DEF TrIInv, TrTypeOK, Shape
<1>2. /\ SendingAt(file, Files) /\ n <= Len1(file.msg) - file.pos /\ Len(link) < Window
      /\ file' = Advance(file, n) /\ file # Idle
      /\ UNCHANGED <<sends, small, awaiting, session, acks>> /\ UNCHANGED trBotVars
    BY DEF SendBigChunk, TrIInv, ServerOK
<1>3. PICK m, f : m = file.msg /\ f = file.pos
    OBVIOUS
<1>4. /\ m \in 1..Len(sends) /\ sends[m] \in Files /\ f \in Nat /\ n \in Nat \ {0}
      /\ f + n <= Len1(m) /\ m \in Nat /\ Len1(m) \in Nat
      /\ Norm(file) = Start(m, f) /\ file' = After(m, f + n)
      /\ Norm(file') = file' /\ file' \in Cursor
      /\ (file' = Idle \/ SendingAt(file', Files)) /\ file'.msg \in 0..Len(sends)
    BY <1>1, <1>2, <1>3, CursorMoves
<1>5. PICK p : p = Piece("big", file, n)
    OBVIOUS
<1>6. p.kind = "big" /\ p.units = Units(m, f, n) /\ p.total = Len1(m)
    BY <1>3, <1>5 DEF Piece
<1>7. p \in SomePiece
    BY <1>3, <1>4, <1>5, UnitsSeq DEF Piece, SomePiece
<1>8. link' = Append(link, p)
    BY <1>5 DEF SendBigChunk
<1>9. link' \in Seq(SomePiece) /\ Len(link') <= Window
    BY <1>1, <1>2, <1>7, <1>8, AppendProperties
<1>10. ServerOK'
    BY <1>2, <1>4 DEF TrIInv, ServerOK, SendingAt, Len1
<1>11. CancelOK'
    <2>1. file' # Idle => ~awaiting
        BY <1>2 DEF TrIInv, CancelOK
    <2>2. p.kind # "cancel"
        BY <1>6
    <2> QED
        BY <1>2, <1>7, <1>8, <2>1, <2>2, CancelKept
<1>12. Norm(small) \in Cursor
    BY DEF TrIInv, ServerOK, SendingAt, Norm, Idle, Cursor
<1>13. PICK old, new : /\ old = [small |-> Norm(small), file |-> Norm(file)]
                       /\ new = [small |-> Norm(small'), file |-> Norm(file')]
    OBVIOUS
<1>14. PieceStep(old, p, new) /\ new \in Cursors
    <2>1. FileStep(old.file, p, new.file)
        BY <1>4, <1>6, <1>13 DEF FileStep
    <2>2. new.small = old.small /\ new \in Cursors
        BY <1>2, <1>4, <1>12, <1>13 DEF Cursors
    <2> QED
        BY <1>6, <2>1, <2>2 DEF PieceStep
<1>15. InStep'
    <2>1. Shape /\ InStep /\ Grows
        BY <1>1, <1>2, SameSendsGrow DEF TrIInv
    <2>2. [small |-> Norm(small)', file |-> Norm(file)'] = new
        BY <1>13 DEF Norm
    <2> QED
        BY <1>2, <1>7, <1>8, <1>13, <1>14, <2>1, <2>2, ChainSent
<1>16. TrTypeOK' /\ Shape' /\ \A i \in 1..Len(handled') : OneMessage(handled[i])'
    <2>1. awaiting' \in BOOLEAN
        BY <1>2 DEF TrIInv, TrTypeOK
    <2>2. acks' \in 0..1 /\ {small'.msg, file'.msg} \subseteq 0..Len(sends)
        BY <1>2, <1>4 DEF TrIInv, TrTypeOK
    <2> QED
        BY <1>2, <1>9, <1>10, <2>1, <2>2, BotKept
<1> QED
    BY <1>10, <1>11, <1>15, <1>16 DEF TrIInv

\* A download is cancelled once, and the next one waits for the answer.
LEMMA CancelDownloadStep ==
    ASSUME TrIInv, CancelDownload
    PROVE  TrIInv'
<1>1. /\ sends \in Seq(Small \cup Files) /\ Len(link) \in Nat /\ Window \in Nat
      /\ link \in Seq(SomePiece) /\ Len(sends) \in Nat
    BY LenProperties, TransfersAssumption DEF TrIInv, TrTypeOK, Shape
<1>2. PICK p : p = [kind |-> "cancel", total |-> 0, units |-> <<>>]
    OBVIOUS
<1>3. p \in SomePiece /\ p.kind = "cancel"
    BY <1>2, EmptySeq DEF SomePiece
<1>4. /\ file # Idle /\ Len(link) < Window /\ file' = Idle /\ awaiting' = TRUE
      /\ link' = Append(link, p)
      /\ UNCHANGED <<sends, small, session, acks>> /\ UNCHANGED trBotVars
    BY <1>2 DEF CancelDownload
<1>5. /\ link' \in Seq(SomePiece) /\ Len(link') = Len(link) + 1 /\ Len(link') <= Window
      /\ link'[Len(link) + 1] = p /\ \A i \in 1..Len(link) : link'[i] = link[i]
    BY <1>1, <1>3, <1>4, AppendProperties
<1>6. ~awaiting
    BY <1>4 DEF TrIInv, CancelOK
<1>7. acks = 0 /\ \A i \in 1..Len(link) : link[i].kind # "cancel"
    BY <1>6 DEF TrIInv, TrTypeOK, CancelOK, IsCancel
<1>8. CancelOK'
    <2>1. ASSUME NEW i \in 1..Len(link'), link'[i].kind = "cancel"
          PROVE  i = Len(link) + 1
        <3>1. i \in 1..Len(link) \/ i = Len(link) + 1
            BY <1>1, <1>5
        <3>2. i \notin 1..Len(link)
            BY <1>5, <1>7, <2>1
        <3> QED
            BY <3>1, <3>2
    <2>2. acks' = 0 /\ awaiting' /\ file' = Idle
        BY <1>4, <1>7
    <2> QED
        BY <2>1, <2>2 DEF CancelOK, IsCancel
<1>9. ServerOK'
    BY <1>4 DEF TrIInv, ServerOK, SendingAt, Len1
<1>10. Norm(small) \in Cursor /\ Norm(file') = Idle /\ Idle \in Cursor
    BY <1>4 DEF TrIInv, ServerOK, SendingAt, Norm, Idle, Cursor
<1>11. PICK old, new : /\ old = [small |-> Norm(small), file |-> Norm(file)]
                       /\ new = [small |-> Norm(small'), file |-> Norm(file')]
    OBVIOUS
<1>12. PieceStep(old, p, new) /\ new \in Cursors
    BY <1>3, <1>4, <1>10, <1>11 DEF PieceStep, Cursors
<1>13. InStep'
    <2>1. Shape /\ InStep /\ Grows
        BY <1>1, <1>4, SameSendsGrow DEF TrIInv
    <2>2. [small |-> Norm(small)', file |-> Norm(file)'] = new
        BY <1>11 DEF Norm
    <2> QED
        BY <1>3, <1>4, <1>11, <1>12, <2>1, <2>2, ChainSent
<1>14. TrTypeOK' /\ Shape' /\ \A i \in 1..Len(handled') : OneMessage(handled[i])'
    <2>1. awaiting' \in BOOLEAN
        BY <1>4
    <2>2. {small'.msg, file'.msg} \subseteq 0..Len(sends)
        BY <1>1, <1>4 DEF TrIInv, TrTypeOK, Idle
    <2>3. acks' \in 0..1
        BY <1>4, <1>7
    <2> QED
        BY <1>4, <1>5, <1>9, <2>1, <2>2, <2>3, BotKept
<1> QED
    BY <1>8, <1>9, <1>13, <1>14 DEF TrIInv

LEMMA CancelAckedStep ==
    ASSUME TrIInv, CancelAcked
    PROVE  TrIInv'
<1>1. /\ acks = 1 /\ acks' = 0 /\ awaiting' = FALSE
      /\ UNCHANGED <<sends, small, file, session, link>> /\ UNCHANGED trBotVars
    BY DEF CancelAcked, TrIInv, TrTypeOK
<1>2. \A i \in 1..Len(link) : link[i].kind # "cancel"
    BY <1>1 DEF TrIInv, CancelOK, IsCancel
<1>3. CancelOK'
    <2>1. \A i \in 1..Len(link') : link'[i].kind # "cancel"
        BY <1>1, <1>2
    <2>2. acks' = 0 /\ ~awaiting'
        BY <1>1
    <2> QED
        BY <2>1, <2>2 DEF CancelOK, IsCancel
<1>4. ServerOK'
    BY <1>1 DEF TrIInv, ServerOK, SendingAt, Len1
<1>5. InStep'
    <2>1. PICK at : Chain(at) /\ LittleAt(at[1].small) /\ LargeAt(at[1].file)
        BY DEF TrIInv, InStep
    <2>2. Grows
        BY <1>1, SameSendsGrow DEF TrIInv, TrTypeOK
    <2>3. Chain(at)'
        <3>1. ASSUME NEW i \in 1..Len(link) PROVE PieceStep(at[i], link[i], at[i + 1])'
            <4>1. PICK q : q = link[i]
                OBVIOUS
            <4>2. PieceStep(at[i], q, at[i + 1])'
                BY <2>1, <2>2, <4>1, PieceStepStays DEF Chain
            <4> QED
                BY <1>1, <4>1, <4>2 DEF PieceStep, SmallStep, FileStep
        <3>2. at[Len(link') + 1] = [small |-> Norm(small'), file |-> Norm(file')]
            BY <1>1, <2>1 DEF Chain
        <3> QED
            BY <1>1, <2>1, <3>1, <3>2 DEF Chain, Norm
    <2>4. LittleAt(at[1].small)' /\ LargeAt(at[1].file)'
        BY <1>1, <2>1, <2>2, BuffersStay DEF trBotVars
    <2> QED
        BY <2>3, <2>4 DEF InStep
<1>6. TrTypeOK' /\ Shape' /\ \A i \in 1..Len(handled') : OneMessage(handled[i])'
    <2>1. awaiting' \in BOOLEAN
        BY <1>1
    <2>2. /\ {small'.msg, file'.msg} \subseteq 0..Len(sends) /\ acks' \in 0..1
          /\ Len(link') <= Window /\ link' \in Seq(SomePiece)
        BY <1>1 DEF TrIInv, TrTypeOK, Shape
    <2> QED
        BY <1>1, <1>4, <2>1, <2>2, BotKept
<1> QED
    BY <1>3, <1>4, <1>5, <1>6 DEF TrIInv

LEMMA ResetStep ==
    ASSUME TrIInv, ResetSession
    PROVE  TrIInv'
<1>1. /\ session < MaxSessions /\ session' = session + 1
      /\ small' = Idle /\ file' = Idle /\ awaiting' = FALSE /\ link' = <<>> /\ acks' = 0
      /\ little' = <<>> /\ large' = <<>> /\ ftLength' = 0
      /\ UNCHANGED <<sends, handled>>
    BY DEF ResetSession
<1>2. Len(link') = 0 /\ Len(little') = 0 /\ Len(large') = 0 /\ Len(sends) \in Nat
    BY <1>1, EmptySeq, LenProperties DEF TrIInv, TrTypeOK
<1>3. Unit' = Unit
    BY <1>1 DEF Unit
<1>4. TrTypeOK'
    <2>1. /\ sends' \in Seq(Small \cup Files) /\ little' \in Seq(Unit') /\ large' \in Seq(Unit')
          /\ \A i \in 1..Len(handled') : handled'[i] \in Seq(Unit') /\ handled'[i] # <<>>
        BY <1>1, <1>3, EmptySeq DEF TrIInv, TrTypeOK
    <2>2. /\ {small'.msg, file'.msg} \subseteq 0..Len(sends')
          /\ session' \in 1..MaxSessions /\ acks' \in 0..1
        BY <1>1, <1>2, TransfersAssumption DEF TrIInv, TrTypeOK, Idle
    <2>3. Len(link') <= Window /\ Len(little') <= LittleLimit /\ Len(large') <= LargeLimit
        BY <1>2, TransfersAssumption
    <2>4. awaiting' \in BOOLEAN
        BY <1>1
    <2> QED
        BY <1>1, <2>1, <2>2, <2>3, <2>4 DEF TrTypeOK
<1>5. Shape'
    BY <1>1, <1>3, EmptySeq DEF TrIInv, Shape
<1>6. ServerOK'
    BY <1>1 DEF ServerOK
<1>7. CancelOK'
    <2>1. ~awaiting' /\ acks' = 0 /\ file' = Idle
        BY <1>1
    <2>2. \A i \in 1..Len(link') : FALSE
        BY <1>2
    <2> QED
        BY <2>1, <2>2 DEF CancelOK
<1>8. InStep'
    <2>1. PICK at : at = [i \in 1..1 |-> [small |-> Idle, file |-> Idle]]
        OBVIOUS
    <2>2. Chain(at)'
        BY <1>1, <1>2, <2>1 DEF Chain, Cursors, Cursor, Idle, Norm
    <2>3. LittleAt(Idle)' /\ LargeAt(Idle)'
        BY <1>1 DEF LittleAt, LargeAt, Placed, Idle
    <2>4. at[1].small = Idle /\ at[1].file = Idle
        BY <2>1
    <2>5. LittleAt(at[1].small)' /\ LargeAt(at[1].file)'
        BY <2>3, <2>4
    <2> QED
        BY <2>2, <2>5 DEF InStep
<1>9. \A i \in 1..Len(handled') : OneMessage(handled[i])'
    BY <1>1 DEF TrIInv, OneMessage, Fits, Limit, Whole, Len1
<1> QED
    BY <1>4, <1>5, <1>6, <1>7, <1>8, <1>9 DEF TrIInv
-----------------------------------------------------------------------------
\* The bot's step.

\* A buffer is given to gotMessage.
LEMMA Handled ==
    ASSUME TrIInv, NEW b \in Seq(Unit), OneMessage(b), b # <<>>, sends' = sends,
           handled' \in {handled, Append(handled, b)}
    PROVE  /\ handled' \in Seq(Seq(Unit')) /\ Unit' = Unit
           /\ \A i \in 1..Len(handled') : handled'[i] \in Seq(Unit') /\ handled'[i] # <<>>
           /\ \A i \in 1..Len(handled') : OneMessage(handled[i])'
<1>1. /\ handled \in Seq(Seq(Unit)) /\ Unit' = Unit
      /\ \A i \in 1..Len(handled) :
            handled[i] \in Seq(Unit) /\ handled[i] # <<>> /\ OneMessage(handled[i])
    BY DEF TrIInv, Shape, TrTypeOK, Unit
<1>2. ASSUME NEW S, S = Seq(Unit)
      PROVE  /\ handled' \in Seq(S)
             /\ \A i \in 1..Len(handled') : handled'[i] = b \/ \E j \in 1..Len(handled) : handled'[i] = handled[j]
    <2>1. /\ handled \in Seq(S) /\ b \in S /\ Len(handled) \in Nat
        BY <1>1, <1>2, LenProperties
    <2>2. CASE handled' = handled
        BY <2>1, <2>2
    <2>3. CASE handled' = Append(handled, b)
        <3>1. /\ handled' \in Seq(S) /\ Len(handled') = Len(handled) + 1
              /\ handled'[Len(handled) + 1] = b
              /\ \A i \in 1..Len(handled) : handled'[i] = handled[i]
            BY <2>1, <2>3, AppendProperties
        <3>2. \A i \in 1..Len(handled') : i \in 1..Len(handled) \/ i = Len(handled) + 1
            BY <2>1, <3>1
        <3> QED
            BY <3>1, <3>2
    <2> QED
        BY <2>2, <2>3
<1>3. \A i \in 1..Len(handled') : handled'[i] \in Seq(Unit) /\ handled'[i] # <<>>
    BY <1>1, <1>2
<1>4. ASSUME NEW i \in 1..Len(handled') PROVE OneMessage(handled[i])'
    <2>1. PICK x : x = handled'[i] /\ OneMessage(x)
        BY <1>1, <1>2
    <2>2. OneMessage(x)'
        BY <2>1 DEF OneMessage, Fits, Limit, Whole, Len1
    <2> QED
        BY <2>1, <2>2 DEF OneMessage
<1> QED
    BY <1>1, <1>2, <1>3, <1>4

LEMMA GotMessageServer ==
    ASSUME TrIInv, GotMessage
    PROVE  /\ link' \in Seq(SomePiece) /\ Len(link') <= Window /\ ServerOK'
           /\ CancelOK' /\ acks' \in 0..1
<1>1. /\ link \in Seq(SomePiece) /\ link # <<>> /\ link' = Tail(link)
      /\ UNCHANGED <<sends, small, file, awaiting, session>>
      /\ Len(link) <= Window /\ acks \in 0..1 /\ Window \in Nat
    BY TransfersAssumption DEF TrIInv, TrTypeOK, Shape, GotMessage, trSrvVars
<1>2. /\ Len(link) \in Nat /\ Len(link) > 0 /\ Len(link') = Len(link) - 1
      /\ link' \in Seq(SomePiece) /\ Head(link) = link[1]
      /\ \A i \in 1..Len(link') : link'[i] = link[i + 1]
    BY <1>1, LenProperties, EmptySeq, HeadTailProperties
<1>3. \A i \in 1..Len(link') : i \in 1..Len(link) /\ i + 1 \in 1..Len(link) /\ i + 1 # 1
                               /\ i \in Int
    BY <1>2
<1>4. 1 \in 1..Len(link)
    BY <1>2
<1>5. ServerOK'
    BY <1>1 DEF TrIInv, ServerOK, SendingAt, Len1
<1>6. CASE link[1].kind = "cancel"
    <2>1. acks' = 1 /\ awaiting
        BY <1>2, <1>4, <1>6 DEF TrIInv, CancelOK, IsCancel, GotMessage, GotChunkBody,
             GotChunkTail, GotBigChunk, GotCancelDownload
    <2>2. \A i \in 1..Len(link') : link'[i].kind # "cancel"
        BY <1>2, <1>3, <1>4, <1>6 DEF TrIInv, CancelOK, IsCancel
    <2>3. awaiting' /\ (file' # Idle => ~awaiting')
        BY <1>1, <2>1 DEF TrIInv, CancelOK
    <2>4. CancelOK'
        BY <2>2, <2>3 DEF CancelOK, IsCancel
    <2> QED
        BY <1>1, <1>2, <1>5, <2>1, <2>4
<1>7. CASE link[1].kind # "cancel"
    <2>1. acks' = acks
        BY <1>2, <1>7 DEF GotMessage, GotChunkBody, GotChunkTail, GotBigChunk,
             GotCancelDownload
    <2>2. ASSUME NEW i \in 1..Len(link'), IsCancel(i)'
          PROVE  awaiting' /\ acks' = 0
        <3>1. i + 1 \in 1..Len(link) /\ link[i + 1].kind = "cancel"
            BY <1>2, <1>3, <2>2 DEF IsCancel
        <3> QED
            BY <1>1, <2>1, <3>1 DEF TrIInv, CancelOK, IsCancel
    <2>3. ASSUME NEW i \in 1..Len(link'), NEW j \in 1..Len(link'), IsCancel(i)', IsCancel(j)'
          PROVE  i = j
        <3>1. /\ i + 1 \in 1..Len(link) /\ link[i + 1].kind = "cancel"
              /\ j + 1 \in 1..Len(link) /\ link[j + 1].kind = "cancel"
            BY <1>2, <1>3, <2>3 DEF IsCancel
        <3>2. i + 1 = j + 1
            BY <3>1 DEF TrIInv, CancelOK, IsCancel
        <3> QED
            BY <1>3, <3>2
    <2>4. (acks' = 1 => awaiting') /\ (file' # Idle => ~awaiting')
        BY <1>1, <2>1 DEF TrIInv, CancelOK
    <2> QED
        BY <1>1, <1>2, <1>5, <2>1, <2>2, <2>3, <2>4 DEF CancelOK
<1> QED
    BY <1>6, <1>7

LEMMA GotMessageStep ==
    ASSUME TrIInv, GotMessage
    PROVE  TrIInv'
<1>1. /\ sends \in Seq(Small \cup Files) /\ little \in Seq(Unit) /\ Len(little) <= LittleLimit
      /\ large \in Seq(Unit) /\ Len(large) <= LargeLimit /\ Shape
      /\ LittleLimit \in Nat /\ LargeLimit \in Nat
      /\ ftLength \in {0} \cup {Size[f] : f \in Files}
    BY TransfersAssumption DEF TrIInv, TrTypeOK
<1>2. link # <<>> /\ link' = Tail(link) /\ UNCHANGED trSrvVars /\ sends' = sends
    BY DEF GotMessage, trSrvVars
<1>3. PICK at : Chain(at) /\ LittleAt(at[1].small) /\ LargeAt(at[1].file)
    BY DEF TrIInv, InStep
<1>4. /\ PieceStep(at[1], Head(link), at[2]) /\ at[2] \in Cursors
      /\ \E new : Chain(new)' /\ new[1] = at[2]
    BY <1>1, <1>2, <1>3, ChainTaken
<1>5. PICK p, c, d : p = Head(link) /\ c = at[1] /\ d = at[2]
    OBVIOUS
<1>6. PieceStep(c, p, d) /\ LittleAt(c.small) /\ LargeAt(c.file) /\ d \in Cursors
    BY <1>3, <1>4, <1>5
<1>7. GotChunkBody(p) \/ GotChunkTail(p) \/ GotBigChunk(p) \/ GotCancelDownload(p)
    BY <1>5 DEF GotMessage
<1>8. Grows
    BY <1>1, <1>2, SameSendsGrow
<1>9. Unit' = Unit
    BY <1>2 DEF Unit
\* What the pieces do to the buffers; d is where the message got to.
<1> DEFINE LittleGoal == /\ little' \in Seq(Unit) /\ Len(little') <= LittleLimit
                         /\ LittleAt(d.small)'
           LargeGoal  == /\ large' \in Seq(Unit) /\ Len(large') <= LargeLimit
                         /\ ftLength' \in {0} \cup {Size[f] : f \in Files}
                         /\ LargeAt(d.file)'
           HandledGoal == handled' = handled \/ \E b \in Seq(Unit) :
                             b # <<>> /\ OneMessage(b) /\ handled' = Append(handled, b)
<1>10. LittleGoal /\ LargeGoal /\ HandledGoal
    <2>1. ASSUME p.kind \notin {"body", "tail"} PROVE d.small = c.small
        BY <1>6, <2>1 DEF PieceStep
    <2>2. ASSUME p.kind \notin {"big", "cancel"} PROVE d.file = c.file
        BY <1>6, <2>2 DEF PieceStep
    <2>3. ASSUME d.small = c.small, little' = little PROVE LittleGoal
        BY <1>1, <1>2, <1>6, <2>3 DEF LittleAt, Placed, Partial, Fits, Limit, Len1
    <2>4. ASSUME d.file = c.file, UNCHANGED <<large, ftLength>> PROVE LargeGoal
        <3>1. LargeAt(d.file)'
            BY <1>1, <1>2, <1>6, <2>4 DEF LargeAt, Placed, Fits, Limit, Len1
        <3> QED
            BY <1>1, <2>4, <3>1
    <2>5. CASE GotChunkBody(p)
        <3>1. p.kind = "body" /\ UNCHANGED <<large, ftLength, handled>>
            BY <2>5 DEF GotChunkBody
        <3>2. PICK buffer : buffer = AddMessage(little, p.units, LittleLimit) /\ little' = buffer
            BY <2>5 DEF GotChunkBody
        <3>3. SmallStep(c.small, p, d.small)
            BY <1>6, <3>1 DEF PieceStep
        <3>4. /\ buffer \in Seq(Unit) /\ Len(buffer) <= LittleLimit
              /\ Placed(d.small, Small) /\ d.small.pos > 0
              /\ Partial(buffer, d.small.msg, d.small.pos)
            BY <1>1, <1>6, <3>1, <3>2, <3>3, LittlePiece
        <3>5. LittleAt(d.small)'
            <4>1. d.small.pos \in Nat
                BY <1>6 DEF Cursors, Cursor
            <4>2. Placed(d.small, Small)' /\ Partial(little, d.small.msg, d.small.pos)'
                BY <1>2, <3>2, <3>4 DEF Placed, Partial, Fits, Limit, Len1
            <4> QED
                BY <3>4, <4>1, <4>2 DEF LittleAt
        <3> QED
            BY <2>2, <2>4, <3>1, <3>2, <3>4, <3>5
    <2>6. CASE GotChunkTail(p)
        <3>1. p.kind = "tail" /\ UNCHANGED <<large, ftLength>> /\ little' = <<>>
            BY <2>6 DEF GotChunkTail
        <3>2. PICK buffer : /\ buffer = AddMessage(little, p.units, LittleLimit)
                            /\ handled' = IF buffer = <<>> THEN handled ELSE Append(handled, buffer)
            BY <2>6 DEF GotChunkTail
        <3>3. SmallStep(c.small, p, d.small)
            BY <1>6, <3>1 DEF PieceStep
        <3>4. buffer \in Seq(Unit) /\ OneMessage(buffer) /\ d.small = Idle
            BY <1>1, <1>6, <3>1, <3>2, <3>3, LittlePiece
        <3>5. LittleGoal
            <4>1. little' \in Seq(Unit) /\ Len(little') = 0
                BY <3>1, EmptySeq
            <4>2. LittleAt(d.small)'
                BY <3>1, <3>4 DEF LittleAt, Placed, Idle
            <4> QED
                BY <1>1, <4>1, <4>2
        <3>6. HandledGoal
            BY <3>2, <3>4
        <3> QED
            BY <2>2, <2>4, <3>1, <3>5, <3>6
    <2>7. CASE GotBigChunk(p)
        <3>1. p.kind = "big" /\ UNCHANGED little
            BY <2>7 DEF GotBigChunk
        <3>2. PICK rest : rest = IF ftLength \in {0, p.total} THEN large ELSE <<>>
            OBVIOUS
        <3>3. PICK buffer : buffer = AddMessage(rest, p.units, LargeLimit)
            OBVIOUS
        <3>4. /\ handled' = IF Len(buffer) = p.total THEN Append(handled, buffer) ELSE handled
              /\ IF Len(buffer) >= p.total
                 THEN large' = <<>> /\ ftLength' = 0
                 ELSE large' = buffer /\ ftLength' = p.total
            BY <2>7, <3>2, <3>3 DEF GotBigChunk
        <3>5. FileStep(c.file, p, d.file)
            BY <1>6, <3>1 DEF PieceStep
        <3>6. /\ buffer \in Seq(Unit) /\ Len(buffer) <= LargeLimit /\ Len(buffer) \in Nat
              /\ p.total \in Nat \ {0} /\ \E g \in Files : p.total = Size[g]
              /\ Len(buffer) = p.total => OneMessage(buffer) /\ buffer # <<>>
              /\ Len(buffer) >= p.total => d.file.pos = 0
              /\ Len(buffer) < p.total =>
                    /\ Placed(d.file, Files)
                    /\ d.file.pos = 0 => p.total > LargeLimit
                    /\ d.file.pos > 0 => p.total = Len1(d.file.msg)
                    /\ d.file.pos > 0 /\ Fits(d.file.msg) =>
                          buffer = Units(d.file.msg, 0, d.file.pos)
            BY <1>1, <1>6, <3>2, <3>3, <3>5, LargePiece
        <3>7. LargeGoal
            <4>1. CASE Len(buffer) >= p.total
                <5>1. large' = <<>> /\ ftLength' = 0 /\ d.file.pos = 0
                    BY <3>4, <3>6, <4>1
                <5>2. LargeAt(d.file)'
                    BY <5>1 DEF LargeAt, Placed
                <5> QED
                    BY <1>1, <5>1, <5>2, EmptySeq
            <4>2. CASE Len(buffer) < p.total
                <5>1. large' = buffer /\ ftLength' = p.total
                    BY <3>4, <3>6, <4>2
                <5>2. LargeAt(d.file)'
                    BY <1>2, <3>6, <4>2, <5>1 DEF LargeAt, Placed, Fits, Limit, Len1
                <5> QED
                    BY <3>6, <5>1, <5>2
            <4> QED
                BY <3>6, <4>1, <4>2
        <3>8. HandledGoal
            BY <3>4, <3>6
        <3> QED
            BY <2>1, <2>3, <3>1, <3>7, <3>8
    <2>8. CASE GotCancelDownload(p)
        <3>1. /\ p.kind = "cancel" /\ large' = <<>> /\ ftLength' = 0
              /\ UNCHANGED <<little, handled>>
            BY <2>8 DEF GotCancelDownload
        <3>2. d.file = Idle
            BY <1>6, <3>1 DEF PieceStep
        <3>3. LargeAt(d.file)'
            BY <3>1, <3>2 DEF LargeAt, Placed, Idle
        <3> QED
            BY <1>1, <2>1, <2>3, <3>1, <3>3, EmptySeq
    <2> QED
        BY <1>7, <2>5, <2>6, <2>7, <2>8
<1>11. InStep'
    <2>1. PICK new : Chain(new)' /\ new[1] = d
        BY <1>4, <1>5
    <2> QED
        BY <1>10, <2>1 DEF InStep
<1>12. /\ handled' \in Seq(Seq(Unit'))
       /\ \A i \in 1..Len(handled') : handled'[i] \in Seq(Unit') /\ handled'[i] # <<>>
       /\ \A i \in 1..Len(handled') : OneMessage(handled[i])'
    <2>1. CASE handled' = handled
        <3>1. \A i \in 1..Len(handled') : OneMessage(handled[i])'
            BY <1>2, <2>1 DEF TrIInv, OneMessage, Fits, Limit, Whole, Len1
        <3> QED
            BY <1>9, <2>1, <3>1 DEF TrIInv, TrTypeOK, Shape
    <2>2. CASE handled' # handled
        <3>1. PICK b \in Seq(Unit) : b # <<>> /\ OneMessage(b) /\ handled' = Append(handled, b)
            BY <1>10, <2>2
        <3> QED
            BY <1>2, <3>1, Handled
    <2> QED
        BY <2>1, <2>2
<1>13. TrTypeOK'
    <2>1. awaiting' \in BOOLEAN
        BY <1>2 DEF TrIInv, TrTypeOK, trSrvVars
    <2>2. sends' \in Seq(Small \cup Files) /\ {small'.msg, file'.msg} \subseteq 0..Len(sends')
          /\ session' \in 1..MaxSessions
        BY <1>2 DEF TrIInv, TrTypeOK, trSrvVars
    <2>3. Len(link') <= Window /\ acks' \in 0..1
        BY GotMessageServer
    <2> QED
        BY <1>9, <1>10, <1>12, <2>1, <2>2, <2>3 DEF TrTypeOK
<1>14. Shape'
    BY <1>12, GotMessageServer DEF Shape
<1> QED
    BY <1>11, <1>12, <1>13, <1>14, GotMessageServer DEF TrIInv
-----------------------------------------------------------------------------
LEMMA TrStep ==
    ASSUME TrIInv, [TrNext]_trVars
    PROVE  TrIInv'
<1>1. CASE UNCHANGED trVars
    <2>1. /\ UNCHANGED <<sends, small, file, awaiting, session, link, acks>>
          /\ UNCHANGED <<little, large, ftLength, handled>>
        BY <1>1 DEF trVars, trSrvVars, trBotVars
    <2>2. ServerOK' /\ CancelOK'
        BY <2>1 DEF TrIInv, ServerOK, SendingAt, CancelOK, IsCancel, Len1
    <2>3. awaiting' \in BOOLEAN
        BY <2>1 DEF TrIInv, TrTypeOK
    <2>4. acks' \in 0..1 /\ {small'.msg, file'.msg} \subseteq 0..Len(sends)
          /\ Len(link') <= Window /\ link' \in Seq(SomePiece)
        BY <2>1 DEF TrIInv, TrTypeOK, Shape
    <2>5. TrTypeOK' /\ Shape' /\ \A i \in 1..Len(handled') : OneMessage(handled[i])'
        BY <2>1, <2>2, <2>3, <2>4, BotKept DEF trBotVars
    <2>6. InStep'
        <3>1. PICK at : Chain(at) /\ LittleAt(at[1].small) /\ LargeAt(at[1].file)
            BY DEF TrIInv, InStep
        <3>2. Grows
            BY <2>1, SameSendsGrow DEF TrIInv, TrTypeOK
        <3>3. ASSUME NEW i \in 1..Len(link) PROVE PieceStep(at[i], link[i], at[i + 1])'
            <4>1. PICK q : q = link[i]
                OBVIOUS
            <4>2. PieceStep(at[i], q, at[i + 1])'
                BY <3>1, <3>2, <4>1, PieceStepStays DEF Chain
            <4> QED
                BY <2>1, <4>1, <4>2 DEF PieceStep, SmallStep, FileStep
        <3>4. at[Len(link') + 1] = [small |-> Norm(small'), file |-> Norm(file')]
            BY <2>1, <3>1 DEF Chain
        <3>5. Chain(at)'
            BY <2>1, <3>1, <3>3, <3>4 DEF Chain, Norm
        <3>6. LittleAt(at[1].small)' /\ LargeAt(at[1].file)'
            BY <2>1, <3>1, <3>2, BuffersStay
        <3> QED
            BY <3>5, <3>6 DEF InStep
    <2> QED
        BY <2>2, <2>5, <2>6 DEF TrIInv
<1> QED
    BY <1>1, BeginStep, SendChunkStep, SendBigChunkStep, CancelDownloadStep, CancelAckedStep,
       GotMessageStep, ResetStep DEF TrNext

\* The inductive invariant: the pieces on their way continue one another, and
\* the buffers hold what came before the first of them.
THEOREM TrInvariance == TrSpec => []TrIInv
BY TrInitIInv, TrStep, PTL DEF TrSpec

\* Type correctness: the buffers stay within their limits, and at most one
\* cancelled download is to be acknowledged.
THEOREM TrTypeCorrect == TrSpec => []TrTypeOK
BY TrInvariance, PTL DEF TrIInv

\* No buffer of Host, and nothing that it gives to gotMessage, mixes two
\* messages or repeats a part of one, whatever is cancelled, refused or lost.
THEOREM BuffersNeverMixed == TrSpec => []NeverMixed
<1>1. ASSUME TrIInv PROVE NeverMixed
    <2>1. PICK at : Chain(at) /\ LittleAt(at[1].small) /\ LargeAt(at[1].file)
        BY <1>1 DEF TrIInv, InStep
    <2>2. sends \in Seq(Small \cup Files) /\ little \in Seq(Unit) /\ large \in Seq(Unit)
          /\ Len(link) \in Nat
        BY <1>1, LenProperties DEF TrIInv, TrTypeOK, Shape
    <2>3. at[1] \in Cursors
        <3>1. 1 \in 1..Len(link) + 1
            BY <2>2
        <3> QED
            BY <2>1, <3>1 DEF Chain
    <2>4. PICK c, e : c = at[1].small /\ e = at[1].file /\ c.pos \in Nat /\ e.pos \in Nat
        BY <2>3 DEF Cursors, Cursor
    <2>5. OneMessage(little)
        <3>1. CASE c.pos = 0
            BY <2>1, <2>4, <3>1 DEF LittleAt, OneMessage
        <3>2. CASE c.pos > 0
            <4>1. c.msg \in 1..Len(sends) /\ c.pos < Len1(c.msg) /\ Partial(little, c.msg, c.pos)
                BY <2>1, <2>4, <3>2 DEF LittleAt, Placed
            <4>2. c.pos <= Len1(c.msg)
                <5>1. Len1(c.msg) \in Nat
                    BY <2>2, <4>1, MessageFacts
                <5> QED
                    BY <2>4, <4>1, <5>1
            <4> QED
                BY <2>2, <2>4, <4>1, <4>2, PartialOneMessage
        <3> QED
            BY <2>4, <3>1, <3>2
    <2>6. ASSUME ftLength <= LargeLimit PROVE OneMessage(large)
        <3>1. LargeLimit \in Nat /\ ftLength \in Nat
            BY <1>1, TransfersAssumption DEF TrIInv, TrTypeOK
        <3>2. CASE ftLength = 0
            BY <2>1, <3>2 DEF LargeAt, OneMessage
        <3>3. CASE ftLength # 0
            <4>1. e.pos > 0
                BY <2>1, <2>4, <2>6, <3>1, <3>3 DEF LargeAt
            <4>2. /\ e.msg \in 1..Len(sends) /\ sends[e.msg] \in Files /\ e.pos < Len1(e.msg)
                  /\ ftLength = Len1(e.msg)
                BY <2>1, <2>4, <4>1 DEF LargeAt, Placed
            <4>3. Limit(e.msg) = LargeLimit /\ e.msg \in Nat /\ Len1(e.msg) \in Nat
                BY <2>2, <4>2, MessageFacts
            <4>4. Fits(e.msg)
                BY <2>6, <4>2, <4>3 DEF Fits
            <4>5. large = Units(e.msg, 0, e.pos)
                BY <2>1, <2>4, <4>1, <4>4 DEF LargeAt
            <4>6. Len(large) = e.pos /\ \A i \in 1..e.pos : large[i] = <<e.msg, i>>
                <5>1. PICK m, n : m = e.msg /\ n = e.pos /\ m \in Nat /\ n \in Nat
                    BY <2>4, <4>3
                <5>2. Len(Units(m, 0, n)) = n /\ \A i \in 1..n : Units(m, 0, n)[i] = <<m, i>>
                    BY <5>1, FirstUnits
                <5> QED
                    BY <4>5, <5>1, <5>2
            <4>7. Partial(large, e.msg, e.pos)
                BY <2>4, <4>5, <4>6 DEF Partial
            <4>8. e.pos <= Len1(e.msg)
                BY <2>4, <4>2, <4>3
            <4> QED
                BY <2>2, <2>4, <4>2, <4>7, <4>8, PartialOneMessage
        <3> QED
            BY <3>2, <3>3
    <2> QED
        BY <1>1, <2>5, <2>6 DEF TrIInv, NeverMixed
<1> QED
    BY <1>1, TrInvariance, PTL
-----------------------------------------------------------------------------
\* Transfers: nothing is handled twice.

\* A piece that ends its message, and one after which message m may follow.
IsLast(p) == p.kind = "tail" \/ (p.kind = "big" /\ p.units[Len(p.units)][2] = p.total)
Before(p, m) == MessageOf(p.units) < m \/ (MessageOf(p.units) = m /\ ~IsLast(p))

\* Small messages and files take turns on the link, each kind in its own order.
Carries(p, names) == p.kind # "cancel" /\ sends[MessageOf(p.units)] \in names
Of(b, names) == sends[MessageOf(b)] \in names

\* Of one kind: what is handled, what is on its way and what the server has half
\* way follow one another, without one message twice.
Ordered(names, c) ==
    /\ \A h, g \in 1..Len(handled) :
          h < g /\ Of(handled[h], names) /\ Of(handled[g], names) =>
              MessageOf(handled[h]) < MessageOf(handled[g])
    /\ \A h \in 1..Len(handled), i \in 1..Len(link) :
          Of(handled[h], names) /\ Carries(link[i], names) =>
              MessageOf(handled[h]) < MessageOf(link[i].units)
    /\ \A i, j \in 1..Len(link) :
          i < j /\ Carries(link[i], names) /\ Carries(link[j], names) =>
              Before(link[i], MessageOf(link[j].units))
    /\ c # Idle =>
          /\ \A h \in 1..Len(handled) : Of(handled[h], names) => MessageOf(handled[h]) < c.msg
          /\ \A i \in 1..Len(link) : Carries(link[i], names) => Before(link[i], c.msg)
Order == Ordered(Small, small) /\ Ordered(Files, file)

LEMMA PieceMessage ==
    ASSUME NEW c, NEW p, NEW d, PieceStep(c, p, d), p.kind # "cancel"
    PROVE  /\ MessageOf(p.units) \in 1..Len(sends)
           /\ p.kind \in {"body", "tail"} => sends[MessageOf(p.units)] \in Small
           /\ p.kind = "big" => sends[MessageOf(p.units)] \in Files
<1>1. ASSUME NEW m \in 1..Len(sends), NEW f \in Nat, NEW n \in Nat \ {0}, p.units = Units(m, f, n)
      PROVE  MessageOf(p.units) = m
    <2>1. 1 \in 1..n
        OBVIOUS
    <2>2. Units(m, f, n)[1] = <<m, f + 1>>
        BY <2>1 DEF Units
    <2> QED
        BY <1>1, <2>2 DEF MessageOf
<1>2. CASE p.kind \in {"body", "tail"}
    <2>1. PICK m \in 1..Len(sends), f \in Nat, n \in Nat \ {0} : sends[m] \in Small /\ p.units = Units(m, f, n)
        BY <1>2 DEF PieceStep, SmallStep
    <2> QED
        BY <1>1, <1>2, <2>1
<1>3. CASE p.kind = "big"
    <2>1. PICK m \in 1..Len(sends), f \in Nat, n \in Nat \ {0} : sends[m] \in Files /\ p.units = Units(m, f, n)
        BY <1>3 DEF PieceStep, FileStep
    <2> QED
        BY <1>1, <1>3, <2>1
<1> QED
    BY <1>2, <1>3 DEF PieceStep

LEMMA Begun ==
    ASSUME TrIInv
    PROVE  /\ Len(sends) \in Nat /\ Len(link) \in Nat /\ Len(handled) \in Nat
           /\ \A h \in 1..Len(handled) : MessageOf(handled[h]) \in 1..Len(sends)
           /\ \A i \in 1..Len(link) :
                 link[i].kind # "cancel" => MessageOf(link[i].units) \in 1..Len(sends)
<1>1. Len(sends) \in Nat /\ Len(link) \in Nat /\ Len(handled) \in Nat
    BY LenProperties DEF TrIInv, TrTypeOK, Shape
<1>2. ASSUME NEW h \in 1..Len(handled) PROVE MessageOf(handled[h]) \in 1..Len(sends)
    <2>1. PICK b \in Seq(Unit) : b = handled[h] /\ b # <<>>
        BY DEF TrIInv, TrTypeOK
    <2>2. b[1] \in Unit
        BY <2>1, EmptySeq, LenProperties, ElementOfSeq
    <2> QED
        BY <2>1, <2>2 DEF Unit, MessageOf
<1>3. ASSUME NEW i \in 1..Len(link), link[i].kind # "cancel"
      PROVE  MessageOf(link[i].units) \in 1..Len(sends)
    <2>1. PICK at : Chain(at)
        BY DEF TrIInv, InStep
    <2> QED
        BY <1>3, <2>1, PieceMessage DEF Chain
<1> QED
    BY <1>1, <1>2, <1>3

\* Nothing sent, nothing handled: a message is begun, or given up.
LEMMA OrderKept ==
    ASSUME TrIInv, Grows, UNCHANGED <<link, handled>>,
           NEW names, NEW c, NEW d, Ordered(names, c),
           d \in {c, Idle} \/ (d.msg \in Nat /\ d.msg > Len(sends))
    PROVE  Ordered(names, d)'
<1>1. \A h \in 1..Len(handled) : Of(handled[h], names)' <=> Of(handled[h], names)
    BY Begun, GrowsFacts DEF Of
<1>2. \A i \in 1..Len(link) : Carries(link[i], names)' <=> Carries(link[i], names)
    BY Begun, GrowsFacts DEF Carries
<1>3. ASSUME d # Idle
      PROVE  /\ \A h \in 1..Len(handled) : Of(handled[h], names) => MessageOf(handled[h]) < d.msg
             /\ \A i \in 1..Len(link) : Carries(link[i], names) => Before(link[i], d.msg)
    <2>1. CASE d = c
        BY <1>3, <2>1 DEF Ordered
    <2>2. CASE d.msg \in Nat /\ d.msg > Len(sends)
        BY <2>2, Begun DEF Carries, Before
    <2> QED
        BY <1>3, <2>1, <2>2
<1> QED
    BY <1>1, <1>2, <1>3 DEF Ordered

\* The next piece of the message at c is sent, or one of the other kind.
LEMMA OrderSent ==
    ASSUME TrIInv, UNCHANGED <<sends, handled>>,
           NEW p \in SomePiece, link' = Append(link, p),
           NEW names, NEW c, NEW d, Ordered(names, c),
           \/ ~Carries(p, names) /\ d \in {c, Idle}
           \/ /\ c # Idle /\ p.kind # "cancel" /\ MessageOf(p.units) = c.msg
              /\ d = Idle \/ (d.msg = c.msg /\ ~IsLast(p))
    PROVE  Ordered(names, d)'
<1>1. /\ Len(link) \in Nat /\ Len(link') = Len(link) + 1 /\ link'[Len(link) + 1] = p
      /\ \A i \in 1..Len(link) : link'[i] = link[i]
    BY LenProperties, AppendProperties DEF TrIInv, Shape
<1>2. \A i \in 1..Len(link') : i \in 1..Len(link) \/ i = Len(link) + 1
    BY <1>1
<1>3. PICK l : l = link'
    OBVIOUS
<1>4. \A b : Of(b, names)' <=> Of(b, names)
    BY DEF Of
<1>5. \A q : Carries(q, names)' <=> Carries(q, names)
    BY DEF Carries
<1>6. ASSUME Carries(p, names)
      PROVE  /\ \A h \in 1..Len(handled) : Of(handled[h], names) => MessageOf(handled[h]) < MessageOf(p.units)
             /\ \A i \in 1..Len(link) : Carries(link[i], names) => Before(link[i], MessageOf(p.units))
    BY <1>6 DEF Ordered
<1>7. ASSUME d # Idle
      PROVE  /\ \A h \in 1..Len(handled) : Of(handled[h], names) => MessageOf(handled[h]) < d.msg
             /\ \A i \in 1..Len(link) : Carries(link[i], names) => Before(link[i], d.msg)
             /\ Carries(p, names) => Before(p, d.msg)
    BY <1>7 DEF Ordered, Before
<1>8. \A h \in 1..Len(handled), i \in 1..Len(l) :
          Of(handled[h], names) /\ Carries(l[i], names) => MessageOf(handled[h]) < MessageOf(l[i].units)
    BY <1>1, <1>2, <1>3, <1>6 DEF Ordered
<1>9. ASSUME NEW i \in 1..Len(l), NEW j \in 1..Len(l), i < j, Carries(l[i], names), Carries(l[j], names)
      PROVE  Before(l[i], MessageOf(l[j].units))
    <2>1. i \in 1..Len(link)
        BY <1>1, <1>2, <1>3, <1>9
    <2>2. CASE j \in 1..Len(link)
        BY <1>1, <1>3, <1>9, <2>1, <2>2 DEF Ordered
    <2>3. CASE j = Len(link) + 1
        BY <1>1, <1>3, <1>6, <1>9, <2>1, <2>3
    <2> QED
        BY <1>2, <1>3, <2>2, <2>3
<1>10. d # Idle => \A i \in 1..Len(l) : Carries(l[i], names) => Before(l[i], d.msg)
    BY <1>1, <1>2, <1>3, <1>7
<1> QED
    BY <1>3, <1>4, <1>5, <1>7, <1>8, <1>9, <1>10 DEF Ordered

\* A buffer is given to gotMessage with the last piece of its message.
LEMMA HandledLast ==
    ASSUME TrIInv, GotMessage
    PROVE  \/ handled' = handled
           \/ \E b \in Seq(Unit) :
                 /\ handled' = Append(handled, b) /\ b # <<>>
                 /\ link[1].kind # "cancel" /\ IsLast(link[1])
                 /\ MessageOf(b) = MessageOf(link[1].units)
<1>1. /\ sends \in Seq(Small \cup Files) /\ little \in Seq(Unit) /\ Len(little) <= LittleLimit
      /\ large \in Seq(Unit) /\ Len(large) <= LargeLimit /\ Shape /\ link # <<>>
      /\ link' = Tail(link) /\ UNCHANGED trSrvVars
    BY DEF TrIInv, TrTypeOK, GotMessage
<1>2. PICK at : Chain(at) /\ LittleAt(at[1].small) /\ LargeAt(at[1].file)
    BY DEF TrIInv, InStep
<1>3. Head(link) = link[1]
    BY <1>1, HeadTailProperties DEF Shape
<1>4. PICK p, c, d : /\ p = link[1] /\ PieceStep(c, p, d)
                     /\ LittleAt(c.small) /\ LargeAt(c.file)
    BY <1>1, <1>2, <1>3, ChainTaken
<1>5. CASE GotChunkTail(p)
    <2>1. p.kind = "tail"
        BY <1>5 DEF GotChunkTail
    <2>2. PICK buffer : /\ buffer = AddMessage(little, p.units, LittleLimit)
                        /\ handled' = IF buffer = <<>> THEN handled ELSE Append(handled, buffer)
        BY <1>5 DEF GotChunkTail
    <2>3. SmallStep(c.small, p, d.small)
        BY <1>4, <2>1 DEF PieceStep
    <2>4. buffer \in Seq(Unit) /\ (buffer # <<>> => MessageOf(buffer) = MessageOf(p.units))
        BY <1>1, <1>4, <2>2, <2>3, LittlePiece
    <2> QED
        BY <1>4, <2>1, <2>2, <2>4 DEF IsLast
<1>6. CASE GotBigChunk(p)
    <2>1. p.kind = "big"
        BY <1>6 DEF GotBigChunk
    <2>2. PICK rest : rest = IF ftLength \in {0, p.total} THEN large ELSE <<>>
        OBVIOUS
    <2>3. PICK buffer : buffer = AddMessage(rest, p.units, LargeLimit)
        OBVIOUS
    <2>4. handled' = IF Len(buffer) = p.total THEN Append(handled, buffer) ELSE handled
        BY <1>6, <2>2, <2>3 DEF GotBigChunk
    <2>5. FileStep(c.file, p, d.file)
        BY <1>4, <2>1 DEF PieceStep
    <2>6. /\ buffer \in Seq(Unit)
          /\ Len(buffer) = p.total => /\ buffer # <<>> /\ MessageOf(buffer) = MessageOf(p.units)
                                      /\ p.units[Len(p.units)][2] = p.total
        <3>1. PICK x, y : x = c.file /\ y = d.file /\ LargeAt(x) /\ FileStep(x, p, y)
            BY <1>4, <2>5
        <3> QED
            BY <1>1, <2>2, <2>3, <3>1, LargePiece
    <2> QED
        BY <1>4, <2>1, <2>4, <2>6 DEF IsLast
<1> QED
    BY <1>3, <1>4, <1>5, <1>6 DEF GotMessage, GotChunkBody, GotCancelDownload

\* The first piece is taken, and its message handled if that was the last one.
LEMMA OrderTaken ==
    ASSUME TrIInv, GotMessage, NEW names, NEW c, Ordered(names, c)
    PROVE  Ordered(names, c)'
<1>1. /\ link \in Seq(SomePiece) /\ link # <<>> /\ link' = Tail(link)
      /\ sends' = sends
    BY DEF TrIInv, Shape, GotMessage, trSrvVars
<1>2. /\ Len(link) \in Nat /\ Len(link) > 0 /\ Len(link') = Len(link) - 1
      /\ \A i \in 1..Len(link') : link'[i] = link[i + 1]
    BY <1>1, LenProperties, EmptySeq, HeadTailProperties
<1>3. /\ 1 \in 1..Len(link)
      /\ \A i \in 1..Len(link') : i + 1 \in 1..Len(link) /\ 1 < i + 1 /\ i \in Nat
    BY <1>2
<1>4. PICK l, hs : l = link' /\ hs = handled'
    OBVIOUS
<1>5. \A b : Of(b, names)' <=> Of(b, names)
    BY <1>1 DEF Of
<1>6. \A q : Carries(q, names)' <=> Carries(q, names)
    BY <1>1 DEF Carries
<1>7. /\ \A i, j \in 1..Len(l) :
            i < j /\ Carries(l[i], names) /\ Carries(l[j], names) =>
              Before(l[i], MessageOf(l[j].units))
      /\ c # Idle => \A i \in 1..Len(l) : Carries(l[i], names) => Before(l[i], c.msg)
      /\ \A h \in 1..Len(handled), i \in 1..Len(l) :
            Of(handled[h], names) /\ Carries(l[i], names) =>
              MessageOf(handled[h]) < MessageOf(l[i].units)
    <2>1. \A i \in 1..Len(l) : i + 1 \in 1..Len(link) /\ l[i] = link[i + 1] /\ i \in Nat
        BY <1>2, <1>3, <1>4
    <2>2. ASSUME NEW i \in 1..Len(l), NEW j \in 1..Len(l), i < j, Carries(l[i], names), Carries(l[j], names)
          PROVE  Before(l[i], MessageOf(l[j].units))
        <3>1. i + 1 < j + 1
            BY <2>1, <2>2
        <3> QED
            BY <2>1, <2>2, <3>1 DEF Ordered
    <2>3. c # Idle => \A i \in 1..Len(l) : Carries(l[i], names) => Before(l[i], c.msg)
        BY <2>1 DEF Ordered
    <2>4. \A h \in 1..Len(handled), i \in 1..Len(l) :
             Of(handled[h], names) /\ Carries(l[i], names) =>
               MessageOf(handled[h]) < MessageOf(l[i].units)
        BY <2>1 DEF Ordered
    <2> QED
        BY <2>2, <2>3, <2>4
<1>8. CASE handled' = handled
    BY <1>4, <1>5, <1>6, <1>7, <1>8 DEF Ordered
<1>9. CASE handled' # handled
    <2>1. PICK b \in Seq(Unit) :
            /\ handled' = Append(handled, b)
            /\ link[1].kind # "cancel" /\ IsLast(link[1])
            /\ MessageOf(b) = MessageOf(link[1].units)
        BY <1>9, HandledLast
    <2>2. /\ Len(handled) \in Nat /\ Len(hs) = Len(handled) + 1 /\ hs[Len(handled) + 1] = b
          /\ \A h \in 1..Len(handled) : hs[h] = handled[h]
        <3>1. PICK S : S = Seq(Unit)
            OBVIOUS
        <3>2. handled \in Seq(S) /\ b \in S
            BY <2>1, <3>1 DEF TrIInv, Shape
        <3> QED
            BY <1>4, <2>1, <3>2, LenProperties, AppendProperties
    <2>3. \A h \in 1..Len(hs) : h \in 1..Len(handled) \/ h = Len(handled) + 1
        BY <2>2
    <2>4. Of(b, names) => Carries(link[1], names)
        BY <2>1 DEF Of, Carries
    <2>5. ASSUME Of(b, names)
          PROVE  /\ \A h \in 1..Len(handled) : Of(handled[h], names) => MessageOf(handled[h]) < MessageOf(b)
                 /\ \A i \in 1..Len(l) : Carries(l[i], names) => MessageOf(b) < MessageOf(l[i].units)
                 /\ c # Idle => MessageOf(b) < c.msg
        <3>1. \A h \in 1..Len(handled) : Of(handled[h], names) => MessageOf(handled[h]) < MessageOf(b)
            BY <1>3, <2>1, <2>4, <2>5 DEF Ordered
        <3>2. ASSUME NEW i \in 1..Len(l), Carries(l[i], names) PROVE MessageOf(b) < MessageOf(l[i].units)
            <4>1. i + 1 \in 1..Len(link) /\ 1 < i + 1 /\ l[i] = link[i + 1]
                BY <1>2, <1>3, <1>4
            <4>2. Before(link[1], MessageOf(link[i + 1].units))
                BY <1>3, <2>4, <2>5, <3>2, <4>1 DEF Ordered
            <4> QED
                BY <2>1, <4>1, <4>2 DEF Before
        <3>3. c # Idle => MessageOf(b) < c.msg
            BY <1>3, <2>1, <2>4, <2>5 DEF Ordered, Before
        <3> QED
            BY <3>1, <3>2, <3>3
    <2>6. ASSUME NEW h \in 1..Len(hs), NEW g \in 1..Len(hs), h < g, Of(hs[h], names), Of(hs[g], names)
          PROVE  MessageOf(hs[h]) < MessageOf(hs[g])
        <3>1. h \in 1..Len(handled)
            BY <2>2, <2>3, <2>6
        <3>2. CASE g \in 1..Len(handled)
            BY <2>2, <2>6, <3>1, <3>2 DEF Ordered
        <3>3. CASE g = Len(handled) + 1
            BY <2>2, <2>5, <2>6, <3>1, <3>3
        <3> QED
            BY <2>3, <3>2, <3>3
    <2>7. \A h \in 1..Len(hs), i \in 1..Len(l) :
             Of(hs[h], names) /\ Carries(l[i], names) => MessageOf(hs[h]) < MessageOf(l[i].units)
        BY <1>7, <2>2, <2>3, <2>5
    <2>8. c # Idle => \A h \in 1..Len(hs) : Of(hs[h], names) => MessageOf(hs[h]) < c.msg
        BY <2>2, <2>3, <2>5 DEF Ordered
    <2> QED
        BY <1>4, <1>5, <1>6, <1>7, <2>6, <2>7, <2>8 DEF Ordered
<1> QED
    BY <1>8, <1>9

\* The order is that of the cursors after the step.
LEMMA OrderNow ==
    ASSUME NEW c, NEW d, c = small', d = file', Ordered(Small, c)', Ordered(Files, d)'
    PROVE  Order'
BY DEF Order, Ordered

LEMMA OrderBegin ==
    ASSUME TrIInv, Order, NEW name \in Small \cup Files, Begin(name)
    PROVE  Order'
<1>1. sends \in Seq(Small \cup Files) /\ Len(sends) \in Nat
    BY LenProperties DEF TrIInv, TrTypeOK
<1>2. Grows
    BY <1>1, AppendProperties DEF Begin, Grows
<1>3. PICK c, d, e, f : c = small /\ d = file /\ e = small' /\ f = file'
    OBVIOUS
<1>4. UNCHANGED <<link, handled>> /\ Ordered(Small, c) /\ Ordered(Files, d)
    BY <1>3 DEF Begin, trBotVars, Order, Ordered
<1>5. (e = c \/ e.msg = Len(sends) + 1) /\ (f = d \/ f.msg = Len(sends) + 1)
    BY <1>3 DEF Begin
<1>6. Ordered(Small, e)' /\ Ordered(Files, f)'
    BY <1>1, <1>2, <1>4, <1>5, OrderKept
<1> QED
    BY <1>3, <1>6, OrderNow

\* A piece of the message the server has half way, and the cursor after it.
LEMMA Sent ==
    ASSUME TrIInv, NEW names, NEW at, SendingAt(at, names), NEW n \in 1..PieceMax,
           n <= Len1(at.msg) - at.pos, NEW kind, kind \in {"body", "tail", "big"},
           kind = "body" => Advance(at, n) # Idle,
           kind = "tail" => Advance(at, n) = Idle,
           NEW p, p = Piece(kind, at, n)
    PROVE  /\ p \in SomePiece /\ p.kind = kind
           /\ MessageOf(p.units) = at.msg /\ sends[at.msg] \in names
           /\ Advance(at, n) = Idle \/ (Advance(at, n).msg = at.msg /\ ~IsLast(p))
<1>1. sends \in Seq(Small \cup Files)
    BY DEF TrIInv, TrTypeOK
<1>2. /\ at.msg \in 1..Len(sends) /\ sends[at.msg] \in names
      /\ at.pos \in Nat /\ n \in Nat \ {0} /\ at.pos + n <= Len1(at.msg)
      /\ at.msg \in Nat /\ Len1(at.msg) \in Nat
      /\ Advance(at, n) = After(at.msg, at.pos + n)
      /\ Advance(at, n) = Idle <=> at.pos + n = Len1(at.msg)
    BY <1>1, CursorMoves
<1>3. p.kind = kind /\ p.total = Len1(at.msg) /\ p.units = Units(at.msg, at.pos, n)
    BY DEF Piece
<1>4. /\ p.units \in Seq(Nat \X Nat) /\ Len(p.units) = n
      /\ \A i \in 1..n : p.units[i] = <<at.msg, at.pos + i>>
    <2>1. PICK m, f : m = at.msg /\ f = at.pos /\ m \in Nat /\ f \in Nat /\ n \in Nat
        BY <1>2
    <2>2. \A k, g, j \in Nat : Units(k, g, j) \in Seq(Nat \X Nat) /\ Len(Units(k, g, j)) = j
        BY UnitsSeq
    <2>3. PICK u : u = Units(m, f, n)
        OBVIOUS
    <2>4. u \in Seq(Nat \X Nat) /\ Len(u) = n
        BY <2>1, <2>2, <2>3
    <2>5. \A i \in 1..n : u[i] = <<m, f + i>>
        BY <2>3 DEF Units
    <2>6. u = p.units
        BY <1>3, <2>1, <2>3
    <2> QED
        BY <2>1, <2>4, <2>5, <2>6
<1>5. 1 \in 1..n /\ n \in 1..n
    BY <1>2
<1>6. MessageOf(p.units) = at.msg /\ p.units[Len(p.units)][2] = at.pos + n
    BY <1>4, <1>5 DEF MessageOf
<1>7. p \in SomePiece
    BY <1>2, <1>3, <1>4 DEF Piece, SomePiece
<1>8. ASSUME Advance(at, n) # Idle PROVE Advance(at, n).msg = at.msg /\ ~IsLast(p)
    <2>1. Advance(at, n).msg = at.msg
        BY <1>2, <1>8 DEF After
    <2>2. ~IsLast(p)
        BY <1>2, <1>3, <1>6, <1>8 DEF IsLast
    <2> QED
        BY <2>1, <2>2
<1> QED
    BY <1>2, <1>3, <1>6, <1>7, <1>8

LEMMA OrderSendChunk ==
    ASSUME TrIInv, Order, NEW n \in 1..PieceMax, SendChunk(n)
    PROVE  Order'
<1>1. /\ SendingAt(small, Small) /\ n <= Len1(small.msg) - small.pos /\ small # Idle
      /\ small' = Advance(small, n) /\ UNCHANGED <<sends, file, handled>>
    BY DEF SendChunk, TrIInv, ServerOK, trBotVars
<1>2. PICK kind : kind = IF small' = Idle THEN "tail" ELSE "body"
    OBVIOUS
<1>3. PICK p : p = Piece(kind, small, n) /\ link' = Append(link, p)
    BY <1>2 DEF SendChunk
<1>4. /\ p \in SomePiece /\ p.kind # "cancel"
      /\ MessageOf(p.units) = small.msg /\ sends[small.msg] \in Small
      /\ small' = Idle \/ (small'.msg = small.msg /\ ~IsLast(p))
    BY <1>1, <1>2, <1>3, Sent
<1>5. PICK c, d, e : c = small /\ d = file /\ e = small'
    OBVIOUS
<1>6. Ordered(Small, c) /\ Ordered(Files, d)
    BY <1>5 DEF Order, Ordered
<1>7. Ordered(Small, e)'
    BY <1>1, <1>3, <1>4, <1>5, <1>6, OrderSent
<1>8. ~Carries(p, Files)
    BY <1>4, TransfersAssumption DEF Carries
<1>9. Ordered(Files, d)'
    BY <1>1, <1>3, <1>4, <1>6, <1>8, OrderSent
<1> QED
    BY <1>1, <1>5, <1>7, <1>9, OrderNow

LEMMA OrderSendBigChunk ==
    ASSUME TrIInv, Order, NEW n \in 1..PieceMax, SendBigChunk(n)
    PROVE  Order'
<1>1. /\ SendingAt(file, Files) /\ n <= Len1(file.msg) - file.pos /\ file # Idle
      /\ file' = Advance(file, n) /\ UNCHANGED <<sends, small, handled>>
    BY DEF SendBigChunk, TrIInv, ServerOK, trBotVars
<1>2. PICK p : p = Piece("big", file, n) /\ link' = Append(link, p)
    BY DEF SendBigChunk
<1>3. /\ p \in SomePiece /\ p.kind # "cancel"
      /\ MessageOf(p.units) = file.msg /\ sends[file.msg] \in Files
      /\ file' = Idle \/ (file'.msg = file.msg /\ ~IsLast(p))
    BY <1>1, <1>2, Sent
<1>4. PICK c, d, f : c = small /\ d = file /\ f = file'
    OBVIOUS
<1>5. Ordered(Small, c) /\ Ordered(Files, d)
    BY <1>4 DEF Order, Ordered
<1>6. Ordered(Files, f)'
    BY <1>1, <1>2, <1>3, <1>4, <1>5, OrderSent
<1>7. ~Carries(p, Small)
    BY <1>3, TransfersAssumption DEF Carries
<1>8. Ordered(Small, c)'
    BY <1>1, <1>2, <1>3, <1>5, <1>7, OrderSent
<1> QED
    BY <1>1, <1>4, <1>6, <1>8, OrderNow

LEMMA OrderCancel ==
    ASSUME TrIInv, Order, CancelDownload
    PROVE  Order'
<1>1. PICK p : p = [kind |-> "cancel", total |-> 0, units |-> <<>>] /\ link' = Append(link, p)
    BY DEF CancelDownload
<1>2. p \in SomePiece
    <2>1. <<>> \in Seq(Nat \X Nat)
        BY EmptySeq
    <2> QED
        BY <1>1, <2>1 DEF SomePiece
<1>3. ~Carries(p, Small) /\ ~Carries(p, Files)
    BY <1>1 DEF Carries
<1>4. UNCHANGED <<sends, small, handled>> /\ file' = Idle
    BY DEF CancelDownload, trBotVars
<1>5. PICK c, d : c = small /\ d = file /\ Ordered(Small, c) /\ Ordered(Files, d)
    BY DEF Order
<1>6. PICK f : f = file' /\ f = Idle
    BY <1>4
<1>7. Ordered(Small, c)' /\ Ordered(Files, f)'
    BY <1>1, <1>2, <1>3, <1>4, <1>5, <1>6, OrderSent
<1> QED
    BY <1>4, <1>5, <1>6, <1>7, OrderNow

LEMMA OrderStep ==
    ASSUME TrIInv, Order, [TrNext]_trVars
    PROVE  Order'
<1>1. PICK c, d : c = small /\ d = file /\ Ordered(Small, c) /\ Ordered(Files, d)
    BY DEF Order
<1>2. CASE CancelAcked \/ UNCHANGED trVars
    <2>1. UNCHANGED <<sends, small, file, link, handled>>
        BY <1>2 DEF CancelAcked, trVars, trSrvVars, trBotVars
    <2> QED
        BY <2>1 DEF Order, Ordered, Carries, Of
<1>3. CASE GotMessage
    <2>1. small' = small /\ file' = file
        BY <1>3 DEF GotMessage, trSrvVars
    <2>2. Ordered(Small, c)' /\ Ordered(Files, d)'
        BY <1>1, <1>3, OrderTaken
    <2> QED
        BY <1>1, <2>1, <2>2, OrderNow
<1>4. CASE ResetSession
    <2>1. /\ UNCHANGED <<sends, handled>> /\ small' = Idle /\ file' = Idle
          /\ link' = <<>> /\ Len(link') = 0
        BY <1>4, EmptySeq DEF ResetSession
    <2> QED
        BY <2>1 DEF Order, Ordered, Of
<1> QED
    BY <1>2, <1>3, <1>4, OrderBegin, OrderSendChunk, OrderSendBigChunk, OrderCancel DEF TrNext

\* Nothing is given to gotMessage twice, nor before something of its kind that
\* was begun earlier (gotChunkTail, gotBigChunk), whatever is cancelled or lost.
THEOREM NothingHandledTwice == TrSpec => []HandledOnce
<1>1. TrInit => Order
    <2> SUFFICES ASSUME TrInit PROVE Order
        OBVIOUS
    <2>1. Len(link) = 0 /\ Len(handled) = 0 /\ small = Idle /\ file = Idle
        BY EmptySeq DEF TrInit
    <2> QED
        BY <2>1 DEF Order, Ordered
<1>2. TrIInv /\ Order /\ [TrNext]_trVars => Order'
    BY OrderStep
<1>3. ASSUME TrIInv, Order PROVE HandledOnce
    <2>1. \A h \in 1..Len(handled) : Of(handled[h], Small) \/ Of(handled[h], Files)
        <3>1. \A m \in 1..Len(sends) : sends[m] \in Small \cup Files
            BY <1>3, MessageFacts DEF TrIInv, TrTypeOK
        <3> QED
            BY <1>3, <3>1, Begun DEF Of
    <2>2. \A h \in 1..Len(handled) : ~(Of(handled[h], Small) /\ Of(handled[h], Files))
        BY TransfersAssumption DEF Of
    <2>3. \A h, g \in 1..Len(handled) :
             h < g /\ (Of(handled[h], Small) <=> Of(handled[g], Small)) =>
                 MessageOf(handled[h]) < MessageOf(handled[g])
        BY <1>3, <2>1, <2>2 DEF Order, Ordered
    <2> QED
        BY <2>3 DEF HandledOnce, Of
<1> QED
    BY <1>1, <1>2, <1>3, TrInvariance, PTL DEF TrSpec
=============================================================================
