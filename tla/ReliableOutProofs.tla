------------------------- MODULE ReliableOutProofs --------------------------
(***************************************************************************)
(* The safety of the outbox, for every window size, every number of        *)
(* messages and every set of bodies.  That it is a FIFO link holds of all  *)
(* bodies, Long ones too; the discipline of window and queue holds until a *)
(* stored copy is fragmented (Whole).                                      *)
(***************************************************************************)
EXTENDS ReliableOut, FiniteSetTheorems, SequenceTheorems, TLAPS

\* Nothing carries a body other than the one that was posted under its ACK_ID.
Authentic(S) == \A m \in S : m.id < localStep /\ m.body = posted[m.id + 1]

\* The messages of S have entered the window at some time.
Started(S) == \A m \in S : m.id < localSent

\* The server has handled exactly the first peerStep messages.
InOrder ==
    /\ peerStep <= localSent
    /\ Len(delivered) = peerStep
    /\ \A i \in 1..peerStep : delivered[i] = posted[i]

\* What the server gets is authentic and in order, whatever is fragmented.
LinkInv ==
    /\ TypeOK
    /\ IsFiniteSet(sent)
    /\ localStep = Len(posted)
    /\ Authentic(sent) /\ Authentic(queued) /\ Authentic(clustered)
    /\ Authentic(dataWire) /\ Authentic(peerBuf)
    /\ peerStep <= localStep
    /\ Len(delivered) = peerStep
    /\ \A i \in 1..peerStep : delivered[i] = posted[i]

\* The window and the queue while no stored copy has been fragmented.
IInv ==
    /\ TypeOK
    /\ IsFiniteSet(sent)
    /\ localStep = Len(posted)
    /\ localSent <= localStep
    /\ Authentic(sent) /\ Authentic(queued) /\ Authentic(clustered)
    /\ Authentic(dataWire) /\ Authentic(peerBuf)
    /\ Started(clustered) /\ Started(dataWire) /\ Started(peerBuf)
    /\ WindowRespected
    /\ QueueDiscipline
    /\ InOrder
    /\ \A id \in ackWire : id < peerStep \/ id \in IdsOf(peerBuf)
    /\ NothingForgotten

\* The inductive invariant.
OutInv == LinkInv /\ (Whole => IInv)
-----------------------------------------------------------------------------
\* queue() called for no message only moves messages between the lists.
LEMMA PostNothing ==
    ASSUME TypeOK, NEW W, IsFiniteSet(W), NEW L, NEW Mv, NEW A,
           PostAll(<<>>, W, L, Mv, A)
    PROVE  /\ posted' = posted /\ localStep' = localStep
           /\ localSent' = localSent + Cardinality(Mv)
           /\ sent' = W \cup Mv /\ queued' = L /\ clustered' = clustered \cup A
<1>1. posted \o <<>> = posted
  BY ConcatEmptySeq DEF TypeOK
<1>2. Cardinality(W) \in Nat
  BY FS_CardinalityType
<1>3. Len(<<>>) = 0 /\ 1..0 = {} /\ (0 + 1)..0 = {}
  OBVIOUS
<1>4. (IF MaxInTransit - Cardinality(W) >= 0 THEN 0
       ELSE IF MaxInTransit - Cardinality(W) > 0 THEN MaxInTransit - Cardinality(W)
       ELSE 0) = 0
  BY <1>2, OutAssumption
<1>5. Stamped(localStep, <<>>, {}) = {}
  BY DEF Stamped
<1>6. localStep + 0 = localStep /\ localSent + 0 = localSent
  BY DEF TypeOK
<1>7. PostAll(<<>>, W, L, Mv, A) =
        /\ posted' = posted \o <<>>
        /\ localStep' = localStep + 0
        /\ localSent' = localSent + 0 + Cardinality(Mv)
        /\ sent' = W \cup {} \cup Mv
        /\ queued' = L \cup {}
        /\ clustered' = clustered \cup {} \cup A
  BY <1>3, <1>4, <1>5 DEF PostAll
<1> QED
  BY <1>1, <1>6, <1>7

\* n messages that are stamped one after the other are n messages.
LEMMA StampedCardinality ==
    ASSUME NEW n \in Nat, NEW base \in Nat, NEW bs
    PROVE  /\ IsFiniteSet(Stamped(base, bs, 1..n))
           /\ Cardinality(Stamped(base, bs, 1..n)) = n
<1> DEFINE S == Stamped(base, bs, 1..n)
           f == [i \in 1..n |-> [id |-> base + i - 1, body |-> bs[i]]]
<1>1. f \in Bijection(1..n, S)
  <2>1. f \in [1..n -> S]
    BY DEF Stamped
  <2>2. ASSUME NEW i \in 1..n, NEW j \in 1..n, f[i] = f[j]
        PROVE  i = j
    <3>1. f[i].id = f[j].id
      BY <2>2
    <3> QED BY <3>1
  <2>3. \A s \in S : \E i \in 1..n : f[i] = s
    BY DEF Stamped
  <2> QED
    BY <2>1, <2>2, <2>3 DEF Bijection, Injection, Surjection, IsInjective
<1>2. ExistsBijection(1..n, S)
  BY <1>1 DEF ExistsBijection
<1> QED
  BY <1>2, FS_CountingElements, FS_NatBijection

\* Their ACK_IDs are consecutive.
LEMMA StampedIds ==
    ASSUME NEW a \in Nat, NEW b \in Nat, NEW base \in Nat, NEW bs
    PROVE  IdsOf(Stamped(base, bs, a..b)) = (base + a - 1)..(base + b - 1)
<1>1. ASSUME NEW k \in IdsOf(Stamped(base, bs, a..b))
      PROVE  k \in (base + a - 1)..(base + b - 1)
  <2>1. PICK m \in Stamped(base, bs, a..b) : k = m.id
    BY <1>1 DEF IdsOf
  <2>2. PICK i \in a..b : m = [id |-> base + i - 1, body |-> bs[i]]
    BY <2>1 DEF Stamped
  <2> QED
    BY <2>1, <2>2
<1>2. ASSUME NEW k \in (base + a - 1)..(base + b - 1)
      PROVE  k \in IdsOf(Stamped(base, bs, a..b))
  <2> DEFINE i == k - base + 1
             m == [id |-> base + i - 1, body |-> bs[i]]
  <2>1. i \in a..b /\ m.id = k
    BY <1>2
  <2>2. m \in Stamped(base, bs, a..b)
    BY <2>1 DEF Stamped
  <2> HIDE DEF m
  <2> QED
    BY <2>1, <2>2 DEF IdsOf
<1> QED
  BY <1>1, <1>2

\* What post() hands to queue() are bodies.
LEMMA MessagesType ==
    ASSUME NEW bs \in Messages
    PROVE  bs \in Seq(Body) /\ Len(bs) \in Nat \ {0}
<1>1. CASE bs \in {<<d>> : d \in Data}
  BY <1>1 DEF Body
<1>2. CASE \E n \in 2..MaxBurst : bs \in [1..n -> Data \ Long]
  <2>1. PICK n \in 2..MaxBurst : bs \in [1..n -> Data \ Long]
    BY <1>2
  <2>2. n \in Nat /\ n >= 2
    BY OutAssumption
  <2> QED
    BY <2>1, <2>2 DEF Body
<1> QED
  BY <1>1, <1>2 DEF Messages
-----------------------------------------------------------------------------
LEMMA InitInv == Init => IInv
<1> SUFFICES ASSUME Init PROVE IInv
  OBVIOUS
<1>1. IsFiniteSet({}) /\ Cardinality({}) = 0
  BY FS_EmptySet
<1>2. TypeOK
  BY DEF Init, TypeOK
<1>3. IdsOf({}) = 0..(0 - 1)
  BY DEF IdsOf
<1> QED
  BY <1>1, <1>2, <1>3, OutAssumption
  DEF Init, IInv, Authentic, Started, InOrder, WindowRespected, QueueDiscipline,
      NothingForgotten

\* A larger sequence of stamped bodies leaves what was stamped before as it is.
LEMMA AuthenticStays ==
    ASSUME TypeOK, localStep = Len(posted), NEW bs \in Seq(Body),
           posted' = posted \o bs, localStep' = localStep + Len(bs),
           NEW S \in SUBSET Msg, Authentic(S)
    PROVE  \A m \in S : m.id < localStep' /\ m.body = posted'[m.id + 1]
<1> SUFFICES ASSUME NEW m \in S
             PROVE  m.id < localStep' /\ m.body = posted'[m.id + 1]
  OBVIOUS
<1>1. m.id \in Nat /\ m.id < localStep /\ m.body = posted[m.id + 1]
  BY DEF Authentic, Msg
<1>2. Len(bs) \in Nat /\ Len(posted) \in Nat /\ posted \in Seq(Body)
  BY LenProperties DEF TypeOK
<1>3. (posted \o bs)[m.id + 1] = posted[m.id + 1]
  BY <1>1, <1>2, ConcatProperties
<1> QED
  BY <1>1, <1>2, <1>3

\* Posting a message, or the fragments of one, keeps the invariant.
LEMMA PostStep ==
    ASSUME IInv, NEW bs \in Messages, Post(bs)
    PROVE  IInv'
<1> DEFINE n == Len(bs)
           free == MaxInTransit - Cardinality(sent)
           direct == IF free >= n THEN n ELSE IF free > 0 THEN free ELSE 0
           first == Stamped(localStep, bs, 1..direct)
           rest == Stamped(localStep, bs, (direct + 1)..n)
<1>1. bs \in Seq(Body) /\ n \in Nat \ {0} /\ \A i \in 1..n : bs[i] \in Body
  BY MessagesType, ElementOfSeq
<1>2. TypeOK /\ IsFiniteSet(sent) /\ localStep = Len(posted) /\ localSent <= localStep
  BY DEF IInv
<1>3. Cardinality(sent) \in Nat /\ Cardinality(sent) <= MaxInTransit
  BY <1>2, FS_CardinalityType DEF IInv, WindowRespected
<1>4. /\ direct \in 0..n
      /\ Cardinality(sent) + direct <= MaxInTransit
      /\ direct < n => Cardinality(sent) + direct = MaxInTransit
  BY <1>1, <1>3, OutAssumption
<1>5. /\ posted' = posted \o bs
      /\ localStep' = localStep + n
      /\ localSent' = localSent + direct
      /\ sent' = sent \cup first
      /\ queued' = queued \cup rest
      /\ clustered' = clustered \cup first
      /\ UNCHANGED <<dataWire, ackWire, peerVars>>
  <2>1. Cardinality({}) = 0 /\ localSent + direct + 0 = localSent + direct
    BY <1>2, <1>4, FS_EmptySet DEF TypeOK
  <2> QED
    BY <2>1 DEF Post, PostAll
<1> HIDE DEF direct, free
<1>6. localStep \in Nat /\ localSent \in Nat /\ peerStep \in Nat
  BY <1>2 DEF TypeOK
<1>7. first \in SUBSET Msg /\ rest \in SUBSET Msg
  <2> SUFFICES ASSUME NEW i \in 1..n
               PROVE  [id |-> localStep + i - 1, body |-> bs[i]] \in Msg
    BY <1>1, <1>4 DEF Stamped
  <2> QED
    BY <1>1, <1>6 DEF Msg
<1>8. TypeOK'
  <2>1. posted' \in Seq(Body)
    BY <1>1, <1>2, <1>5, ConcatProperties DEF TypeOK
  <2> QED
    BY <1>1, <1>2, <1>4, <1>5, <1>6, <1>7, <2>1 DEF TypeOK, peerVars
<1>9. localStep' = Len(posted')
  BY <1>1, <1>2, <1>5, ConcatProperties DEF TypeOK
<1>10. IsFiniteSet(first) /\ Cardinality(first) = direct
  <2>1. direct \in Nat
    BY <1>1, <1>4
  <2> HIDE DEF n
  <2> QED
    BY <2>1, <1>6, StampedCardinality
<1>11. \A m \in first \cup rest : m.id >= localStep /\ m.id < localStep'
                                    /\ m.body = posted'[m.id + 1]
  <2> SUFFICES ASSUME NEW i \in 1..n
               PROVE  /\ localStep + i - 1 >= localStep
                      /\ localStep + i - 1 < localStep'
                      /\ bs[i] = posted'[(localStep + i - 1) + 1]
    BY <1>1, <1>4 DEF Stamped
  <2>1. (posted \o bs)[localStep + i] = bs[i]
    BY <1>1, <1>2, <1>6, ConcatProperties DEF TypeOK
  <2>2. (localStep + i - 1) + 1 = localStep + i
    BY <1>1, <1>6
  <2>3. posted'[(localStep + i - 1) + 1] = bs[i]
    BY <1>5, <2>1, <2>2
  <2> HIDE DEF n
  <2>4. localStep + i - 1 >= localStep /\ localStep + i - 1 < localStep'
    BY <1>1, <1>5, <1>6
  <2> QED
    BY <2>3, <2>4
<1>12. \A m \in sent : m.id < localSent
  BY DEF IInv, QueueDiscipline
<1>13. IsFiniteSet(sent') /\ Cardinality(sent') = Cardinality(sent) + direct
  <2>1. \A m \in sent \cap first : FALSE
    BY <1>2, <1>6, <1>7, <1>11, <1>12 DEF TypeOK, Msg
  <2>2. sent \cap first = {}
    BY <2>1
  <2>3. Cardinality(sent \cap first) = 0
    BY <2>2, FS_EmptySet
  <2>4. direct \in Nat
    BY <1>1, <1>4
  <2>5. /\ IsFiniteSet(sent \cup first)
        /\ Cardinality(sent \cup first) =
             Cardinality(sent) + Cardinality(first) - Cardinality(sent \cap first)
    BY <1>2, <1>10, FS_Union
  <2> HIDE DEF first
  <2> QED
    BY <1>3, <1>5, <1>10, <2>3, <2>4, <2>5
<1>14. WindowRespected'
  BY <1>4, <1>13 DEF WindowRespected
<1>15. queued # {} => direct = 0
  BY <1>1, <1>3, <1>4, OutAssumption DEF IInv, QueueDiscipline
<1>16. queued = {} => localSent = localStep
  <2> SUFFICES ASSUME queued = {}, localSent # localStep PROVE FALSE
    OBVIOUS
  <2>1. localSent \in localSent..(localStep - 1)
    BY <1>2, <1>6
  <2>2. IdsOf(queued) = localSent..(localStep - 1)
    BY DEF IInv, QueueDiscipline
  <2> QED
    BY <2>1, <2>2 DEF IdsOf
<1>17. localSent' <= localStep'
  BY <1>1, <1>2, <1>4, <1>5, <1>6, <1>15, <1>16
<1>18. QueueDiscipline'
  <2>1. IdsOf(rest) = (localStep + direct)..(localStep + n - 1)
    <3>1. direct + 1 \in Nat /\ localStep + (direct + 1) - 1 = localStep + direct
      BY <1>1, <1>4, <1>6
    <3> QED
      BY <1>1, <1>6, <3>1, StampedIds
  <2>2. IdsOf(queued') = IdsOf(queued) \cup IdsOf(rest)
    BY <1>5 DEF IdsOf
  <2>3. IdsOf(queued) = localSent..(localStep - 1)
    BY DEF IInv, QueueDiscipline
  <2>4. IdsOf(queued') = localSent'..(localStep' - 1)
    <3>1. CASE queued = {}
      <4>1. localSent = localStep /\ IdsOf(queued) = {}
        BY <1>16, <3>1 DEF IdsOf
      <4>2. localSent' = localStep + direct /\ localStep' - 1 = localStep + n - 1
        BY <1>1, <1>5, <1>6, <4>1
      <4> QED
        BY <2>1, <2>2, <4>1, <4>2
    <3>2. CASE queued # {}
      <4> HIDE DEF n, rest
      <4>1. direct = 0 /\ localSent' = localSent /\ localStep' = localStep + n
        BY <1>5, <1>6, <1>15, <3>2
      <4>2. IdsOf(queued') = (localSent..(localStep - 1)) \cup (localStep..(localStep + n - 1))
        BY <1>6, <2>1, <2>2, <2>3, <4>1
      <4> QED
        BY <1>1, <1>2, <1>6, <4>1, <4>2
    <3> QED BY <3>1, <3>2
  <2>5. \A m \in sent' : m.id < localSent'
    <3>1. ASSUME NEW m \in sent PROVE m.id < localSent'
      BY <1>2, <1>4, <1>5, <1>6, <1>12 DEF TypeOK, Msg
    <3>2. ASSUME NEW i \in 1..direct PROVE localStep + i - 1 < localSent'
      BY <1>4, <1>5, <1>6, <1>15, <1>16
    <3> QED BY <1>5, <3>1, <3>2 DEF Stamped
  <2>6. queued' # {} => Cardinality(sent') = MaxInTransit
    <3>1. CASE queued # {}
      BY <1>3, <1>13, <1>15, <3>1 DEF IInv, QueueDiscipline
    <3>2. CASE queued = {} /\ rest # {}
      BY <1>1, <1>4, <1>13, <3>2 DEF Stamped
    <3> QED BY <1>5, <3>1, <3>2
  <2> QED
    BY <2>4, <2>5, <2>6 DEF QueueDiscipline, IdsOf
<1>19. /\ Authentic(sent)' /\ Authentic(queued)' /\ Authentic(clustered)'
       /\ Authentic(dataWire)' /\ Authentic(peerBuf)'
  <2>1. \A S \in {sent, queued, clustered, dataWire, peerBuf} :
           \A m \in S : m.id < localStep' /\ m.body = posted'[m.id + 1]
    BY <1>1, <1>2, <1>5, AuthenticStays DEF IInv, TypeOK
  <2> QED
    BY <1>5, <1>11, <2>1 DEF Authentic, peerVars
<1>20. Started(clustered)' /\ Started(dataWire)' /\ Started(peerBuf)'
  <2>1. \A m \in first : m.id < localSent'
    BY <1>5, <1>18 DEF QueueDiscipline
  <2>2. \A S \in {clustered, dataWire, peerBuf} : \A m \in S : m.id < localSent'
    BY <1>2, <1>4, <1>5, <1>6 DEF IInv, TypeOK, Msg, Started
  <2> QED
    BY <1>5, <2>1, <2>2 DEF Started, peerVars
<1>21. InOrder'
  <2>1. ASSUME NEW i \in 1..peerStep PROVE posted'[i] = posted[i]
    BY <1>1, <1>2, <1>5, <1>6, ConcatProperties DEF IInv, InOrder, TypeOK
  <2> QED
    BY <1>4, <1>5, <1>6, <2>1 DEF IInv, InOrder, peerVars
<1>22. (\A id \in ackWire : id < peerStep \/ id \in IdsOf(peerBuf))'
  BY <1>5 DEF IInv, peerVars, IdsOf
<1>23. NothingForgotten'
  <2> SUFFICES ASSUME NEW i \in 0..(localSent' - 1)
               PROVE  i \in IdsOf(sent') \/ i < peerStep \/ i \in IdsOf(peerBuf)
    BY <1>5 DEF NothingForgotten, peerVars, IdsOf
  <2>1. CASE i < localSent
    <3>1. i \in 0..(localSent - 1)
      BY <1>6, <2>1
    <3>2. IdsOf(sent) \subseteq IdsOf(sent')
      BY <1>5 DEF IdsOf
    <3> QED
      BY <3>1, <3>2 DEF IInv, NothingForgotten
  <2>2. CASE i >= localSent
    <3>1. localSent = localStep /\ i \in (localStep + 1 - 1)..(localStep + direct - 1)
      BY <1>1, <1>4, <1>5, <1>6, <1>15, <1>16, <2>2
    <3>2. direct \in Nat
      BY <1>1, <1>4
    <3>3. i \in IdsOf(first)
      BY <1>6, <3>1, <3>2, StampedIds
    <3> QED
      BY <1>5, <3>3 DEF IdsOf
  <2> QED
    BY <1>6, <2>1, <2>2
<1> QED
  BY <1>8, <1>9, <1>13, <1>14, <1>17, <1>18, <1>19, <1>20, <1>21, <1>22, <1>23 DEF IInv

-----------------------------------------------------------------------------
\* Two messages of one list with the same ACK_ID are the same message.
LEMMA UniqueIds ==
    ASSUME NEW S \in SUBSET Msg, Authentic(S), NEW m \in S, NEW q \in S, m.id = q.id
    PROVE  m = q
BY DEF Authentic, Msg

\* No Long message, no fragments.
LEMMA NoFragments == [i \in 1..(2 * Cardinality({})) |-> Frag] = <<>>
<1>1. Cardinality({}) = 0
  BY FS_EmptySet
<1>2. 1..(2 * Cardinality({})) = 1..0
  BY <1>1
<1>3. [i \in 1..0 |-> Frag] \in Seq({Frag}) /\ Len([i \in 1..0 |-> Frag]) = 0
  OBVIOUS
<1>4. [i \in 1..0 |-> Frag] = <<>>
  BY <1>3, EmptySeq
<1> QED BY <1>2, <1>4

\* A list with no Long message is sent again as it is.
LEMMA ResendStep ==
    ASSUME IInv, NEW due \in SUBSET sent, Resend(due), \A m \in due : m.body \notin Long
    PROVE  IInv'
<1> DEFINE long == {m \in due : m.body \in Long}
           bs == [i \in 1..(2 * Cardinality(long)) |-> Frag]
<1>1. TypeOK /\ IsFiniteSet(sent)
  BY DEF IInv
<1>2. long = {} /\ due \ long = due
  OBVIOUS
<1>3. bs = <<>>
  BY <1>2, NoFragments
<1>4. /\ PostAll(<<>>, sent, queued, {}, due)
      /\ UNCHANGED <<dataWire, ackWire, peerVars>>
  BY <1>2, <1>3 DEF Resend
<1>5. /\ posted' = posted /\ localStep' = localStep
      /\ localSent' = localSent
      /\ sent' = sent /\ queued' = queued /\ clustered' = clustered \cup due
  <2>1. localSent + Cardinality({}) = localSent
    BY <1>1, FS_EmptySet DEF TypeOK
  <2>2. /\ posted' = posted /\ localStep' = localStep
        /\ localSent' = localSent + Cardinality({})
        /\ sent' = sent \cup {} /\ queued' = queued /\ clustered' = clustered \cup due
    BY <1>1, <1>4, PostNothing
  <2> QED
    BY <2>1, <2>2
<1>6. TypeOK'
  BY <1>1, <1>4, <1>5 DEF TypeOK, peerVars
<1>7. Authentic(clustered)' /\ Started(clustered)'
  BY <1>5 DEF IInv, Authentic, Started, QueueDiscipline
<1> QED
  BY <1>4, <1>5, <1>6, <1>7
  DEF IInv, Authentic, Started, InOrder, WindowRespected, QueueDiscipline,
      NothingForgotten, IdsOf, peerVars

\* Sending what is clustered only moves it to the network.
LEMMA EndClusterStep == ASSUME IInv, EndCluster PROVE IInv'
BY DEF IInv, TypeOK, Authentic, Started, InOrder, WindowRespected, QueueDiscipline,
       NothingForgotten, IdsOf, EndCluster, peerVars

\* An acknowledgement frees a place only for a message the server has, and
\* the place is taken at once by the message whose turn it is.
LEMMA GotACKStep ==
    ASSUME IInv, NEW id \in ackWire, GotACK(id),
           \/ UNCHANGED hostVars
           \/ \A q \in queued : q.id = localSent => q.body \notin Long
    PROVE  IInv'
<1> DEFINE acked == {m \in sent : m.id = id}
           window == sent \ acked
           next == {q \in queued : q.id = localSent}
<1>1. /\ TypeOK /\ IsFiniteSet(sent) /\ Cardinality(sent) \in Nat
      /\ localSent \in Nat /\ localStep \in Nat /\ id \in Nat
  BY FS_CardinalityType DEF IInv, TypeOK
<1>2. ackWire' \in SUBSET ackWire /\ dataWire' = dataWire /\ UNCHANGED peerVars
  BY DEF GotACK
<1>3. CASE UNCHANGED hostVars
  <2>1. TypeOK'
    BY <1>1, <1>2, <1>3 DEF TypeOK, peerVars, hostVars
  <2> QED
    BY <1>2, <1>3, <2>1
    DEF IInv, Authentic, Started, InOrder, WindowRespected, QueueDiscipline,
        NothingForgotten, IdsOf, peerVars, hostVars
<1>4. CASE ~UNCHANGED hostVars /\ acked # {} /\ SendNext(window)
  <2>1. PostAll(<<>>, window, queued \ next, next, next)
    BY <1>4 DEF SendNext
  <2>2. PICK m \in sent : acked = {m}
    <3>1. PICK m \in sent : m.id = id
      BY <1>4
    <3>2. \A q \in acked : q = m
      BY <3>1, UniqueIds DEF IInv, TypeOK
    <3> QED BY <3>1, <3>2
  <2>3. IsFiniteSet(window) /\ Cardinality(window) = Cardinality(sent) - 1
    BY <1>1, <2>2, FS_RemoveElement
  <2> HIDE DEF window
  <2>4. /\ posted' = posted /\ localStep' = localStep
        /\ localSent' = localSent + Cardinality(next)
        /\ sent' = window \cup next /\ queued' = queued \ next
        /\ clustered' = clustered \cup next
    BY <1>1, <2>1, <2>3, PostNothing
  <2>5. TypeOK' /\ IsFiniteSet(sent') /\ localSent' <= localStep'
        /\ WindowRespected' /\ QueueDiscipline' /\ Started(clustered)'
    <3>1. CASE queued = {}
      <4>1. next = {} /\ Cardinality(next) = 0
        BY <3>1, FS_EmptySet
      <4>2. localSent' = localSent /\ sent' = window /\ queued' = queued
            /\ clustered' = clustered
        BY <1>1, <2>4, <4>1
      <4>3. TypeOK'
        BY <1>1, <1>2, <2>4, <4>2 DEF TypeOK, window, peerVars
      <4>4. QueueDiscipline'
        BY <2>4, <3>1, <4>2 DEF IInv, QueueDiscipline, IdsOf, window
      <4>5. IsFiniteSet(sent') /\ WindowRespected'
        BY <1>1, <2>3, <4>2, OutAssumption DEF IInv, WindowRespected
      <4>6. localSent' <= localStep' /\ Started(clustered)'
        BY <2>4, <4>2 DEF IInv, Started
      <4> QED
        BY <4>3, <4>4, <4>5, <4>6
    <3>2. CASE queued # {}
      <4>1. localSent < localStep /\ localSent \in IdsOf(queued)
        <5>1. IdsOf(queued) = localSent..(localStep - 1)
          BY DEF IInv, QueueDiscipline
        <5>2. PICK p \in queued : TRUE
          BY <3>2
        <5>3. p.id \in localSent..(localStep - 1)
          BY <5>1 DEF IdsOf
        <5> QED BY <1>1, <5>1, <5>3
      <4>2. PICK q \in queued : q.id = localSent
        BY <4>1 DEF IdsOf
      <4>3. next = {q}
        <5>1. \A p \in next : p = q
          BY <4>2, UniqueIds DEF IInv, TypeOK
        <5> QED BY <4>2, <5>1
      <4>4. Cardinality(next) = 1
        BY <4>3, FS_Singleton
      <4>5. localSent' = localSent + 1
        BY <2>4, <4>4
      <4>6. q \notin window
        BY <4>2, <1>1 DEF IInv, QueueDiscipline, window
      <4>7. IsFiniteSet(sent') /\ Cardinality(sent') = Cardinality(sent)
        <5>1. IsFiniteSet(window \cup {q}) /\ Cardinality(window \cup {q}) = Cardinality(window) + 1
          BY <2>3, <4>6, FS_AddElement
        <5>2. sent' = window \cup {q}
          BY <2>4, <4>3
        <5> QED
          BY <1>1, <2>3, <5>1, <5>2
      <4>8. TypeOK'
        BY <1>1, <1>2, <2>4, <4>3, <4>5 DEF TypeOK, window, peerVars
      <4>9. QueueDiscipline'
        <5>1. IdsOf(queued') = (localSent + 1)..(localStep - 1)
          <6>1. ASSUME NEW k \in IdsOf(queued') PROVE k \in (localSent + 1)..(localStep - 1)
            <7>1. PICK p \in queued : p.id = k /\ p \notin next
              BY <2>4 DEF IdsOf
            <7>2. k \in localSent..(localStep - 1) /\ k # localSent
              BY <7>1 DEF IInv, QueueDiscipline, IdsOf
            <7> QED BY <1>1, <7>2
          <6>2. ASSUME NEW k \in (localSent + 1)..(localStep - 1) PROVE k \in IdsOf(queued')
            <7>1. k \in IdsOf(queued) /\ k # localSent
              BY <1>1 DEF IInv, QueueDiscipline
            <7>2. PICK p \in queued : p.id = k
              BY <7>1 DEF IdsOf
            <7> QED BY <2>4, <7>1, <7>2 DEF IdsOf
          <6> QED BY <6>1, <6>2
        <5>2. \A p \in sent' : p.id < localSent'
          BY <1>1, <2>4, <4>2, <4>3, <4>5 DEF IInv, TypeOK, Msg, QueueDiscipline, window
        <5>3. Cardinality(sent') = MaxInTransit
          BY <3>2, <4>7 DEF IInv, QueueDiscipline
        <5> QED
          BY <2>4, <4>5, <5>1, <5>2, <5>3 DEF QueueDiscipline, IdsOf
      <4>10. Started(clustered)'
        BY <1>1, <2>4, <4>2, <4>3, <4>5 DEF IInv, Started, TypeOK, Msg
      <4> QED
        BY <1>1, <2>4, <4>1, <4>5, <4>7, <4>8, <4>9, <4>10 DEF IInv, WindowRespected
    <3> QED BY <3>1, <3>2
  <2>6. localSent' >= localSent /\ localSent' \in Nat
    <3>1. next = {} \/ \E q \in next : next = {q}
      BY UniqueIds DEF IInv, TypeOK
    <3>2. Cardinality(next) \in {0, 1}
      BY <3>1, FS_EmptySet, FS_Singleton
    <3> QED BY <1>1, <2>4, <3>2
  <2>7. NothingForgotten'
    <3> SUFFICES ASSUME NEW i \in 0..(localSent' - 1)
                 PROVE  i \in IdsOf(sent') \/ i < peerStep \/ i \in IdsOf(peerBuf)
      BY <1>2 DEF NothingForgotten, peerVars, IdsOf
    <3>1. CASE i >= localSent
      <4>1. next # {}
        <5> SUFFICES ASSUME next = {} PROVE FALSE
          OBVIOUS
        <5>1. Cardinality(next) = 0
          BY FS_EmptySet
        <5>2. localSent' = localSent + 0
          BY <2>4, <5>1
        <5> QED BY <1>1, <3>1, <5>2
      <4>2. PICK q \in next : TRUE
        BY <4>1
      <4>3. \A p \in next : p = q
        BY <4>2, UniqueIds DEF IInv, TypeOK
      <4>4. next = {q}
        BY <4>2, <4>3
      <4>5. localSent' = localSent + 1
        BY <2>4, <4>4, FS_Singleton
      <4>6. i = q.id
        BY <1>1, <3>1, <4>2, <4>5
      <4> QED BY <2>4, <4>2, <4>6 DEF IdsOf
    <3>2. CASE i < localSent
      <4>1. i \in IdsOf(sent) \/ i < peerStep \/ i \in IdsOf(peerBuf)
        BY <1>1, <3>2 DEF IInv, NothingForgotten
      <4>2. id < peerStep \/ id \in IdsOf(peerBuf)
        BY DEF IInv
      <4>3. i \in IdsOf(sent) => i = id \/ i \in IdsOf(window)
        BY DEF IdsOf, window
      <4> QED BY <2>4, <4>1, <4>2, <4>3 DEF IdsOf
    <3> QED BY <1>1, <2>6, <3>1, <3>2
  <2>8. /\ Authentic(sent)' /\ Authentic(queued)' /\ Authentic(clustered)'
        /\ Authentic(dataWire)' /\ Authentic(peerBuf)'
    BY <1>2, <2>4 DEF IInv, Authentic, peerVars, window
  <2>9. Started(dataWire)' /\ Started(peerBuf)'
    BY <1>1, <1>2, <2>6 DEF IInv, TypeOK, Msg, Started, peerVars
  <2>10. InOrder'
    BY <1>1, <1>2, <2>4, <2>6 DEF IInv, TypeOK, InOrder, peerVars
  <2>11. (\A k \in ackWire : k < peerStep \/ k \in IdsOf(peerBuf))'
    BY <1>2 DEF IInv, peerVars, IdsOf
  <2> QED
    BY <2>4, <2>5, <2>7, <2>8, <2>9, <2>10, <2>11 DEF IInv
<1> QED
  BY <1>3, <1>4 DEF GotACK

-----------------------------------------------------------------------------
\* Whatever the network loses, the outbox still has.
LEMMA LoseStep == ASSUME IInv, Lose PROVE IInv'
<1>1. /\ dataWire' \in SUBSET dataWire /\ ackWire' \in SUBSET ackWire
      /\ UNCHANGED <<hostVars, peerVars>>
  BY DEF Lose
<1>2. TypeOK'
  BY <1>1 DEF IInv, TypeOK, hostVars, peerVars
<1> QED
  BY <1>1, <1>2
  DEF IInv, Authentic, Started, InOrder, WindowRespected, QueueDiscipline,
      NothingForgotten, IdsOf, hostVars, peerVars

\* The server acknowledges only what it has.
LEMMA PeerReceivesStep ==
    ASSUME IInv, NEW m \in dataWire, PeerReceives(m)
    PROVE  IInv'
<1>1. /\ dataWire' \in SUBSET dataWire
      /\ ackWire' = ackWire \cup {m.id}
      /\ peerBuf' = IF m.id >= peerStep THEN peerBuf \cup {m} ELSE peerBuf
      /\ UNCHANGED <<hostVars, peerStep, delivered>>
  BY DEF PeerReceives
<1>2. m \in Msg /\ m.id \in Nat /\ peerStep \in Nat /\ m.id < localSent
      /\ m.id < localStep /\ m.body = posted[m.id + 1]
  BY DEF IInv, TypeOK, Msg, Started, Authentic
<1>3. TypeOK'
  BY <1>1, <1>2 DEF IInv, TypeOK, hostVars
<1>4. Authentic(peerBuf)' /\ Started(peerBuf)' /\ Authentic(dataWire)' /\ Started(dataWire)'
  BY <1>1, <1>2 DEF IInv, Authentic, Started, hostVars
<1>5. (\A id \in ackWire : id < peerStep \/ id \in IdsOf(peerBuf))'
  <2>1. IdsOf(peerBuf) \subseteq IdsOf(peerBuf')
    BY <1>1 DEF IdsOf
  <2>2. m.id < peerStep \/ m.id \in IdsOf(peerBuf')
    BY <1>1, <1>2 DEF IdsOf
  <2>3. \A id \in ackWire : id < peerStep \/ id \in IdsOf(peerBuf)
    BY DEF IInv
  <2> QED
    BY <1>1, <2>1, <2>2, <2>3
<1>6. NothingForgotten'
  BY <1>1 DEF IInv, NothingForgotten, IdsOf, hostVars
<1> QED
  BY <1>1, <1>3, <1>4, <1>5, <1>6
  DEF IInv, Authentic, Started, InOrder, WindowRespected, QueueDiscipline, IdsOf, hostVars

\* The server handles the message that was posted under the next ACK_ID.
LEMMA PeerHandlesStep == ASSUME IInv, PeerHandles PROVE IInv'
<1>1. PICK m \in peerBuf : /\ m.id = peerStep
                           /\ delivered' = Append(delivered, m.body)
                           /\ peerBuf' = peerBuf \ {m}
                           /\ peerStep' = peerStep + 1
                           /\ UNCHANGED <<hostVars, dataWire, ackWire>>
  BY DEF PeerHandles
<1>2. m \in Msg /\ peerStep \in Nat /\ m.id < localSent /\ localSent \in Nat
      /\ m.body = posted[peerStep + 1] /\ m.body \in Body /\ delivered \in Seq(Body)
  BY <1>1 DEF IInv, TypeOK, Msg, Started, Authentic
<1>3. TypeOK'
  BY <1>1, <1>2 DEF IInv, TypeOK, hostVars
<1>4. InOrder'
  <2>1. Len(delivered') = peerStep + 1
    BY <1>1, <1>2 DEF IInv, InOrder
  <2>2. \A i \in 1..(peerStep + 1) : delivered'[i] = posted[i]
    BY <1>1, <1>2 DEF IInv, InOrder
  <2> QED
    BY <1>1, <1>2, <2>1, <2>2 DEF InOrder, hostVars
<1>5. (\A id \in ackWire : id < peerStep \/ id \in IdsOf(peerBuf))'
  <2> SUFFICES ASSUME NEW id \in ackWire
               PROVE  id < peerStep' \/ id \in IdsOf(peerBuf')
    BY <1>1
  <2>1. id \in Nat /\ (id < peerStep \/ id \in IdsOf(peerBuf))
    BY DEF IInv, TypeOK
  <2>2. id \in IdsOf(peerBuf) => id = peerStep \/ id \in IdsOf(peerBuf')
    BY <1>1 DEF IdsOf
  <2> QED
    BY <1>1, <1>2, <2>1, <2>2
<1>6. NothingForgotten'
  <2> SUFFICES ASSUME NEW i \in 0..(localSent - 1)
               PROVE  i \in IdsOf(sent) \/ i < peerStep' \/ i \in IdsOf(peerBuf')
    BY <1>1 DEF NothingForgotten, IdsOf, hostVars
  <2>1. i \in IdsOf(sent) \/ i < peerStep \/ i \in IdsOf(peerBuf)
    BY DEF IInv, NothingForgotten
  <2>2. i \in IdsOf(peerBuf) => i = peerStep \/ i \in IdsOf(peerBuf')
    BY <1>1 DEF IdsOf
  <2> QED
    BY <1>1, <1>2, <2>1, <2>2
<1>7. Authentic(peerBuf)' /\ Started(peerBuf)' /\ Authentic(dataWire)' /\ Started(dataWire)'
  BY <1>1 DEF IInv, Authentic, Started, hostVars
<1> QED
  BY <1>1, <1>3, <1>4, <1>5, <1>6, <1>7
  DEF IInv, Authentic, Started, WindowRespected, QueueDiscipline, IdsOf, hostVars

\* Appending to what was posted is a step of the link, if anything is appended.
LEMMA PostMaps ==
    ASSUME LinkInv, NEW bs \in Seq(Body), posted' = posted \o bs, delivered' = delivered
    PROVE  Link!Post \/ UNCHANGED <<posted, delivered>>
<1>1. Len(bs) \in Nat /\ posted \in Seq(Body) /\ Len(posted) \in Nat
  BY LenProperties DEF LinkInv, TypeOK
<1>2. CASE Len(bs) = 0
  BY <1>1, <1>2, EmptySeq, ConcatEmptySeq
<1>3. CASE Len(bs) > 0
  <2>1. Len(posted') = Len(posted) + Len(bs) /\ posted' \in Seq(Body)
    BY <1>1, ConcatProperties
  <2>2. \A i \in 1..Len(posted) : posted'[i] = posted[i] /\ posted'[i] \in Body
    BY <1>1, ConcatProperties, ElementOfSeq
  <2>3. /\ SubSeq(posted', 1, Len(posted)) \in Seq(Body)
        /\ Len(SubSeq(posted', 1, Len(posted))) = Len(posted)
        /\ \A i \in 1..Len(posted) : SubSeq(posted', 1, Len(posted))[i] = posted'[i]
    BY <1>1, <2>1, <2>2
  <2>4. SubSeq(posted', 1, Len(posted)) = posted
    BY <1>1, <2>2, <2>3, SeqEqual
  <2>5. Len(posted') > Len(posted)
    BY <1>1, <1>3, <2>1
  <2> QED
    BY <2>4, <2>5, Zenon DEF Link!Post
<1> QED
  BY <1>1, <1>2, <1>3

\* Steps that leave the outbox alone keep what was posted whole.
LEMMA QuietWhole == ASSUME UNCHANGED posted, Whole' PROVE Whole
BY DEF Whole
-----------------------------------------------------------------------------
\* Authentic lists stay so when more is posted.
LEMMA PostedStays ==
    ASSUME LinkInv, NEW bs \in Seq(Body),
           posted' = posted \o bs, localStep' = localStep + Len(bs)
    PROVE  /\ posted' \in Seq(Body) /\ localStep' = Len(posted') /\ localStep' >= localStep
           /\ localStep' \in Nat
           /\ \A S \in SUBSET Msg : Authentic(S) =>
                 \A m \in S : m.id < localStep' /\ m.body = posted'[m.id + 1]
           /\ \A i \in 1..peerStep : posted'[i] = posted[i]
<1>1. TypeOK /\ localStep = Len(posted) /\ peerStep <= localStep
  BY DEF LinkInv
<1>2. /\ posted \in Seq(Body) /\ Len(bs) \in Nat /\ Len(posted) \in Nat
      /\ localStep \in Nat /\ peerStep \in Nat
  BY <1>1, LenProperties DEF TypeOK
<1>3. /\ posted' \in Seq(Body) /\ Len(posted') = Len(posted) + Len(bs)
      /\ \A i \in 1..Len(posted) : posted'[i] = posted[i]
  BY <1>2, ConcatProperties
<1>4. \A S \in SUBSET Msg : Authentic(S) =>
        \A m \in S : m.id < localStep' /\ m.body = posted'[m.id + 1]
  BY <1>1, AuthenticStays
<1>5. localStep' = Len(posted') /\ localStep' >= localStep /\ localStep' \in Nat
  BY <1>1, <1>2, <1>3
<1>6. \A i \in 1..peerStep : posted'[i] = posted[i]
  BY <1>1, <1>2, <1>3
<1> QED
  BY <1>3, <1>4, <1>5, <1>6, Zenon

\* Posting bodies while messages move between the lists is a step of the link,
\* whatever room there is in the window.
LEMMA PostAllStep ==
    ASSUME LinkInv, NEW bs \in Seq(Body), NEW W \in SUBSET sent, NEW L \in SUBSET queued,
           NEW Mv \in SUBSET queued, IsFiniteSet(Mv), NEW A \in SUBSET (sent \cup queued),
           PostAll(bs, W, L, Mv, A),
           dataWire' = dataWire, ackWire' \in SUBSET ackWire, UNCHANGED peerVars
    PROVE  LinkInv' /\ (Link!Post \/ UNCHANGED <<posted, delivered>>)
<1> DEFINE n == Len(bs)
           free == MaxInTransit - Cardinality(W)
           direct == IF free >= n THEN n ELSE IF free > 0 THEN free ELSE 0
           first == Stamped(localStep, bs, 1..direct)
           rest == Stamped(localStep, bs, (direct + 1)..n)
<1>1. /\ n \in Nat /\ \A i \in 1..n : bs[i] \in Body
      /\ TypeOK /\ localStep \in Nat /\ localSent \in Nat /\ peerStep \in Nat
  BY LenProperties, ElementOfSeq DEF LinkInv, TypeOK
<1>2. IsFiniteSet(W) /\ Cardinality(W) \in Nat /\ Cardinality(Mv) \in Nat
  BY FS_Subset, FS_CardinalityType DEF LinkInv
<1>3. direct \in Nat /\ direct <= n
  BY <1>1, <1>2, OutAssumption
<1>4. /\ posted' = posted \o bs
      /\ localStep' = localStep + n
      /\ localSent' = localSent + direct + Cardinality(Mv)
      /\ sent' = W \cup first \cup Mv
      /\ queued' = L \cup rest
      /\ clustered' = clustered \cup first \cup A
  BY DEF PostAll
<1> HIDE DEF direct, free
<1>5. /\ posted' \in Seq(Body) /\ localStep' = Len(posted') /\ localStep' >= localStep
      /\ \A S \in SUBSET Msg : Authentic(S) =>
            \A m \in S : m.id < localStep' /\ m.body = posted'[m.id + 1]
      /\ \A i \in 1..peerStep : posted'[i] = posted[i]
  BY <1>4, PostedStays
<1>6. first \in SUBSET Msg /\ rest \in SUBSET Msg
  <2> SUFFICES ASSUME NEW i \in 1..n
               PROVE  [id |-> localStep + i - 1, body |-> bs[i]] \in Msg
    BY <1>1, <1>3 DEF Stamped
  <2> QED
    BY <1>1 DEF Msg
<1>7. \A m \in first \cup rest : m.id < localStep' /\ m.body = posted'[m.id + 1]
  <2> SUFFICES ASSUME NEW i \in 1..n
               PROVE  /\ localStep + i - 1 < localStep'
                      /\ bs[i] = posted'[(localStep + i - 1) + 1]
    BY <1>1, <1>3 DEF Stamped
  <2>1. (posted \o bs)[localStep + i] = bs[i]
    BY <1>1, ConcatProperties DEF LinkInv, TypeOK
  <2>2. (localStep + i - 1) + 1 = localStep + i
    BY <1>1
  <2>3. posted'[(localStep + i - 1) + 1] = bs[i]
    BY <1>4, <2>1, <2>2
  <2> HIDE DEF n
  <2>4. localStep + i - 1 < localStep'
    BY <1>1, <1>4
  <2> QED
    BY <2>3, <2>4
<1>8. /\ sent \in SUBSET Msg /\ queued \in SUBSET Msg /\ clustered \in SUBSET Msg
      /\ dataWire \in SUBSET Msg /\ peerBuf \in SUBSET Msg
      /\ Authentic(sent) /\ Authentic(queued) /\ Authentic(clustered)
      /\ Authentic(dataWire) /\ Authentic(peerBuf)
  BY DEF LinkInv, TypeOK
<1>9. \A m \in sent \cup queued \cup clustered \cup dataWire \cup peerBuf :
          m.id < localStep' /\ m.body = posted'[m.id + 1]
  BY <1>5, <1>8
<1>10. /\ sent' \subseteq sent \cup queued \cup first /\ queued' \subseteq queued \cup rest
       /\ clustered' \subseteq clustered \cup first \cup sent \cup queued
  BY <1>4
<1>11. /\ Authentic(sent)' /\ Authentic(queued)' /\ Authentic(clustered)'
       /\ Authentic(dataWire)' /\ Authentic(peerBuf)'
  <2> HIDE DEF first, rest
  <2> QED
    BY <1>7, <1>9, <1>10 DEF Authentic, peerVars
<1>12. TypeOK'
  <2> HIDE DEF first, rest
  <2>1. sent' \in SUBSET Msg /\ queued' \in SUBSET Msg /\ clustered' \in SUBSET Msg
    BY <1>6, <1>8, <1>10
  <2>2. localSent' \in Nat /\ localStep' \in Nat
    BY <1>1, <1>2, <1>3, <1>4
  <2> QED
    BY <1>1, <1>5, <2>1, <2>2 DEF TypeOK, peerVars
<1>13. IsFiniteSet(sent')
  <2>1. IsFiniteSet(first)
    BY <1>1, <1>3, StampedCardinality
  <2> HIDE DEF first
  <2> QED
    BY <1>2, <1>4, <2>1, FS_Union
<1>14. LinkInv'
  BY <1>1, <1>5, <1>11, <1>12, <1>13 DEF LinkInv, peerVars
<1>15. Link!Post \/ UNCHANGED <<posted, delivered>>
  BY <1>4, PostMaps DEF peerVars
<1> QED
  BY <1>14, <1>15

\* At most one waiting message has its turn.
LEMMA NextIsOne ==
    ASSUME LinkInv
    PROVE  IsFiniteSet({q \in queued : q.id = localSent})
<1> DEFINE next == {q \in queued : q.id = localSent}
<1>1. next = {} \/ \E q \in next : next = {q}
  <2>1. \A p, q \in next : p = q
    BY UniqueIds DEF LinkInv, TypeOK
  <2> QED
    BY <2>1, Zenon
<1> HIDE DEF next
<1>2. ASSUME next = {} PROVE IsFiniteSet(next)
  <2>1. IsFiniteSet({})
    BY FS_EmptySet
  <2> QED
    BY <1>2, <2>1
<1>3. ASSUME NEW q \in next, next = {q} PROVE IsFiniteSet(next)
  BY <1>3, FS_Singleton, Zenon
<1>4. IsFiniteSet(next)
  BY <1>1, <1>2, <1>3, Zenon
<1> QED
  BY <1>4 DEF next

LEMMA FragmentsType ==
    ASSUME NEW n \in Nat
    PROVE  [i \in 1..n |-> Frag] \in Seq(Body) /\ Len([i \in 1..n |-> Frag]) = n
BY DEF Body

\* What is appended shows in what was posted.
LEMMA WholeOnly ==
    ASSUME LinkInv, NEW bs \in Seq(Body), posted' = posted \o bs, Whole'
    PROVE  Whole /\ \A i \in 1..Len(bs) : bs[i] # Frag
<1>1. /\ posted \in Seq(Body) /\ Len(posted) \in Nat /\ Len(bs) \in Nat
      /\ Len(posted') = Len(posted) + Len(bs)
      /\ \A i \in 1..Len(posted) : posted'[i] = posted[i]
      /\ \A i \in 1..Len(bs) : posted'[Len(posted) + i] = bs[i]
  BY LenProperties, ConcatProperties DEF LinkInv, TypeOK
<1>2. \A i \in 1..Len(posted) : posted[i] # Frag
  BY <1>1 DEF Whole
<1>3. ASSUME NEW i \in 1..Len(bs) PROVE bs[i] # Frag
  <2>1. Len(posted) + i \in 1..Len(posted')
    BY <1>1
  <2> QED
    BY <1>1, <2>1 DEF Whole
<1> QED
  BY <1>2, <1>3 DEF Whole
-----------------------------------------------------------------------------
\* Each step keeps the invariant and is a step of the link or invisible to it.
LinkStep == Link!Post \/ Link!Deliver \/ UNCHANGED <<posted, delivered>>

LEMMA PostKeeps == ASSUME OutInv, NEW bs \in Messages, Post(bs) PROVE OutInv' /\ LinkStep
<1>1. /\ bs \in Seq(Body) /\ PostAll(bs, sent, queued, {}, {})
      /\ UNCHANGED <<dataWire, ackWire, peerVars>>
  BY MessagesType DEF Post
<1>2. LinkInv' /\ LinkStep
  BY <1>1, PostAllStep, FS_EmptySet DEF OutInv, LinkStep
<1>3. ASSUME Whole' PROVE IInv'
  <2>1. posted' = posted \o bs
    BY <1>1 DEF PostAll
  <2> QED
    BY <1>1, <1>3, <2>1, WholeOnly, PostStep DEF OutInv
<1> QED
  BY <1>2, <1>3 DEF OutInv

LEMMA ResendKeeps ==
    ASSUME OutInv, NEW due \in SUBSET sent, Resend(due)
    PROVE  OutInv' /\ LinkStep
<1> DEFINE long == {m \in due : m.body \in Long}
           bs == [i \in 1..(2 * Cardinality(long)) |-> Frag]
<1>1. /\ Cardinality(long) \in Nat /\ (long # {} => Cardinality(long) > 0)
      /\ 2 * Cardinality(long) \in Nat
  <2>1. IsFiniteSet(long)
    BY FS_Subset DEF OutInv, LinkInv
  <2> QED
    BY <2>1, FS_CardinalityType, FS_EmptySet
<1>2. /\ bs \in Seq(Body) /\ Len(bs) = 2 * Cardinality(long)
      /\ PostAll(bs, sent, queued, {}, due \ long)
      /\ UNCHANGED <<dataWire, ackWire, peerVars>>
  <2>1. bs \in Seq(Body) /\ Len(bs) = 2 * Cardinality(long)
    <3> HIDE DEF long
    <3> QED
      BY <1>1, FragmentsType
  <2>2. /\ PostAll(bs, sent, queued, {}, due \ long)
        /\ UNCHANGED <<dataWire, ackWire, peerVars>>
    BY Zenon DEF Resend
  <2> QED
    BY <2>1, <2>2
<1>3. LinkInv' /\ LinkStep
  <2> HIDE DEF bs, long
  <2> QED
    BY <1>2, PostAllStep, FS_EmptySet DEF OutInv, LinkStep
<1>4. ASSUME Whole' PROVE IInv'
  <2>1. posted' = posted \o bs
    BY <1>2 DEF PostAll
  <2>2. Whole /\ \A i \in 1..Len(bs) : bs[i] # Frag
    <3> HIDE DEF bs
    <3> QED
      BY <1>2, <1>4, <2>1, WholeOnly DEF OutInv
  <2>3. long = {}
    <3> SUFFICES ASSUME long # {} PROVE FALSE
      OBVIOUS
    <3>1. 1 \in 1..Len(bs) /\ bs[1] = Frag
      BY <1>1, <1>2
    <3> QED
      BY <2>2, <3>1
  <2> QED
    BY <2>2, <2>3, ResendStep DEF OutInv
<1> QED
  BY <1>3, <1>4 DEF OutInv

LEMMA GotACKKeeps ==
    ASSUME OutInv, NEW id \in ackWire, GotACK(id)
    PROVE  OutInv' /\ LinkStep
<1> DEFINE window == sent \ {m \in sent : m.id = id}
           next == {q \in queued : q.id = localSent}
<1>1. LinkInv /\ ackWire' \in SUBSET ackWire /\ dataWire' = dataWire /\ UNCHANGED peerVars
  BY DEF GotACK, OutInv
<1>2. CASE UNCHANGED hostVars
  <2>1. LinkInv' /\ LinkStep
    BY <1>1, <1>2 DEF LinkInv, TypeOK, Authentic, LinkStep, hostVars, peerVars
  <2>2. Whole' => IInv'
    BY <1>2, QuietWhole, GotACKStep DEF OutInv, hostVars
  <2> QED
    BY <2>1, <2>2 DEF OutInv
<1>3. CASE SendNext(window)
  <2>1. IsFiniteSet(next) /\ window \in SUBSET sent /\ queued \ next \in SUBSET queued
        /\ next \in SUBSET queued /\ next \in SUBSET (sent \cup queued)
    BY <1>1, NextIsOne
  <2>2. <<>> \in Seq(Body) /\ Chunked \in Seq(Body)
    BY DEF Chunked, Body
  <2>3. \/ PostAll(<<>>, window, queued \ next, next, next)
        \/ PostAll(Chunked, window, queued \ next, next, {})
    BY <1>3 DEF SendNext
  <2> HIDE DEF window, next
  <2>4. LinkInv' /\ LinkStep
    <3>1. {} \in SUBSET (sent \cup queued) /\ LinkInv
      BY <1>1
    <3>2. CASE PostAll(<<>>, window, queued \ next, next, next)
      BY <1>1, <2>1, <2>2, <3>1, <3>2, PostAllStep DEF LinkStep
    <3>3. CASE PostAll(Chunked, window, queued \ next, next, {})
      BY <1>1, <2>1, <2>2, <3>1, <3>3, PostAllStep DEF LinkStep
    <3> QED
      BY <2>3, <3>2, <3>3
  <2>5. ASSUME Whole' PROVE IInv'
    <3>1. CASE \E q \in next : q.body \in Long
      <4>1. PostAll(Chunked, window, queued \ next, next, {})
        BY <1>3, <3>1 DEF SendNext, next
      <4>2. posted' = posted \o Chunked
        BY <4>1 DEF PostAll
      <4>3. \A i \in 1..Len(Chunked) : Chunked[i] # Frag
        BY <1>1, <2>2, <2>5, <4>2, WholeOnly
      <4> QED
        BY <4>3 DEF Chunked
    <3>2. CASE \A q \in next : q.body \notin Long
      <4>1. PostAll(<<>>, window, queued \ next, next, next)
        BY <1>3, <3>2 DEF SendNext, next
      <4>2. posted' = posted \o <<>>
        BY <4>1 DEF PostAll
      <4>3. Whole
        BY <1>1, <2>2, <2>5, <4>2, WholeOnly
      <4> QED
        BY <3>2, <4>3, GotACKStep DEF OutInv, next
    <3> QED
      BY <3>1, <3>2
  <2> QED
    BY <2>4, <2>5 DEF OutInv
<1> QED
  BY <1>2, <1>3 DEF GotACK

LEMMA NetworkKeeps ==
    ASSUME OutInv, EndCluster \/ Lose \/ (\E m \in dataWire : PeerReceives(m)) \/ UNCHANGED vars
    PROVE  OutInv' /\ LinkStep
<1>1. UNCHANGED <<posted, delivered>>
  BY DEF EndCluster, Lose, PeerReceives, hostVars, peerVars, vars
<1>2. LinkInv'
  <2>1. CASE EndCluster \/ Lose \/ UNCHANGED vars
    BY <2>1 DEF OutInv, LinkInv, TypeOK, Authentic, EndCluster, Lose, hostVars, peerVars, vars
  <2>2. ASSUME NEW m \in dataWire, PeerReceives(m) PROVE LinkInv'
    <3>1. /\ dataWire' \in SUBSET dataWire /\ ackWire' = ackWire \cup {m.id}
          /\ peerBuf' \in SUBSET (peerBuf \cup {m})
          /\ UNCHANGED <<hostVars, peerStep, delivered>>
      BY <2>2 DEF PeerReceives
    <3>2. m \in Msg /\ m.id \in Nat
      BY DEF OutInv, LinkInv, TypeOK, Msg
    <3> QED
      BY <3>1, <3>2 DEF OutInv, LinkInv, TypeOK, Authentic, hostVars
  <2> QED
    BY <2>1, <2>2
<1>3. Whole' => IInv'
  <2> SUFFICES ASSUME IInv PROVE IInv'
    BY <1>1, QuietWhole DEF OutInv
  <2>1. CASE UNCHANGED vars
    BY <2>1 DEF IInv, TypeOK, Authentic, Started, InOrder, WindowRespected,
                QueueDiscipline, NothingForgotten, IdsOf, vars, hostVars, peerVars
  <2> QED
    BY <2>1, EndClusterStep, LoseStep, PeerReceivesStep
<1> QED
  BY <1>1, <1>2, <1>3 DEF OutInv, LinkStep

\* The server hands over the message that was posted next.
LEMMA PeerHandlesKeeps == ASSUME OutInv, PeerHandles PROVE OutInv' /\ LinkStep
<1>1. PICK m \in peerBuf : /\ m.id = peerStep
                           /\ delivered' = Append(delivered, m.body)
                           /\ peerBuf' = peerBuf \ {m}
  BY DEF PeerHandles
<1>2. peerStep' = peerStep + 1 /\ UNCHANGED <<hostVars, dataWire, ackWire>>
  BY DEF PeerHandles
<1>3. /\ TypeOK /\ m.id < localStep /\ m.body = posted[peerStep + 1] /\ m.body \in Body
      /\ peerStep \in Nat /\ localStep \in Nat /\ delivered \in Seq(Body)
      /\ Len(delivered) = peerStep /\ \A i \in 1..peerStep : delivered[i] = posted[i]
      /\ localStep = Len(posted) /\ posted \in Seq(Body)
  BY <1>1 DEF OutInv, LinkInv, TypeOK, Msg, Authentic
<1>4. /\ delivered' \in Seq(Body) /\ Len(delivered') = peerStep + 1
      /\ \A i \in 1..(peerStep + 1) : delivered'[i] = posted[i]
      /\ peerStep + 1 <= localStep
  BY <1>1, <1>3, AppendProperties
<1>5. TypeOK'
  BY <1>1, <1>2, <1>3, <1>4 DEF TypeOK, hostVars
<1>6. LinkInv'
  BY <1>1, <1>2, <1>3, <1>4, <1>5 DEF OutInv, LinkInv, Authentic, hostVars
<1>7. Link!Deliver
  <2>1. delivered' = SubSeq(posted, 1, peerStep + 1)
    <3>1. \A i \in 1..(peerStep + 1) : posted[i] \in Body
      BY <1>3, <1>4, ElementOfSeq
    <3>2. /\ SubSeq(posted, 1, peerStep + 1) \in Seq(Body)
          /\ Len(SubSeq(posted, 1, peerStep + 1)) = peerStep + 1
          /\ \A i \in 1..(peerStep + 1) : SubSeq(posted, 1, peerStep + 1)[i] = posted[i]
      BY <1>3, <1>4, <3>1
    <3> QED
      BY <1>4, <3>2, SeqEqual
  <2>2. peerStep + 1 \in (Len(delivered) + 1)..Len(posted)
    BY <1>3, <1>4
  <2> QED
    BY <1>2, <2>1, <2>2 DEF Link!Deliver, hostVars
<1>8. Whole' => IInv'
  BY <1>2, QuietWhole, PeerHandlesStep DEF OutInv, hostVars
<1> QED
  BY <1>6, <1>7, <1>8 DEF OutInv, LinkStep

LEMMA OutStep == ASSUME OutInv, [Next]_vars PROVE OutInv' /\ LinkStep
BY PostKeeps, ResendKeeps, GotACKKeeps, NetworkKeeps, PeerHandlesKeeps DEF Next

\* The inductive invariant: what the server gets is authentic and in order, and
\* window and queue are disciplined while no stored copy has been fragmented.
THEOREM Invariance == Spec => []OutInv
<1>1. Init => OutInv
  <2> SUFFICES ASSUME Init PROVE OutInv
    OBVIOUS
  <2>1. IInv
    BY InitInv
  <2>2. peerStep <= localStep
    BY DEF Init
  <2> QED
    BY <2>1, <2>2 DEF OutInv, IInv, LinkInv, InOrder
<1>2. OutInv /\ [Next]_vars => OutInv'
  BY OutStep
<1> QED
  BY <1>1, <1>2, PTL DEF Spec

\* Type correctness of the outbox, whatever is posted.
THEOREM TypeCorrect == Spec => []TypeOK
<1>1. OutInv => TypeOK
  BY DEF OutInv, LinkInv
<1> QED
  BY <1>1, Invariance, PTL

\* Until a stored copy is fragmented, the window never holds more than
\* MaxInTransit unacknowledged messages.
THEOREM WindowIsRespected == Spec => [](Whole => WindowRespected)
<1>1. OutInv => (Whole => WindowRespected)
  BY DEF OutInv, IInv
<1> QED
  BY <1>1, Invariance, PTL

\* Until then messages enter the window in order and none waits while there is
\* a place.
THEOREM QueueIsDisciplined == Spec => [](Whole => QueueDiscipline)
<1>1. OutInv => (Whole => QueueDiscipline)
  BY DEF OutInv, IInv
<1> QED
  BY <1>1, Invariance, PTL

\* Until then a message stays in the outbox until the server has it.
THEOREM NothingIsForgotten == Spec => [](Whole => NothingForgotten)
<1>1. OutInv => (Whole => NothingForgotten)
  BY DEF OutInv, IInv
<1> QED
  BY <1>1, Invariance, PTL

\* The outbox implements the FIFO link, whatever is posted and fragmented: every
\* step of the window, of the network and of the server is a step of the link
\* or invisible to it.
THEOREM ImplementsLink == Spec => LinkSpec
<1>1. Init => Link!Init
  BY DEF Init, Link!Init
<1>2. OutInv /\ [Next]_vars => [Link!Next]_(Link!vars)
  BY OutStep DEF LinkStep, Link!Next, Link!vars
<1> QED
  BY Invariance, <1>1, <1>2, PTL DEF Spec, LinkSpec, Link!Spec
=============================================================================
