--------------------------- MODULE HostListProofs ---------------------------
(***************************************************************************)
(* The walk over the list of Hosts, for any number of bots, any commands   *)
(* and any room on the stack.                                              *)
(***************************************************************************)
EXTENDS HostList, SequenceTheorems, TLAPS

\* !close is given in the turn of the Host it closes, and counts the bots.
CloseCounted == \A h \in killMe : toldBy[h] = "close" => h = cur /\ Len(list) > 1

\* The inductive invariant.
IInv == TypeOK /\ WalkIsSound /\ CloseCounted
-----------------------------------------------------------------------------
\* Lists

\* What is left of a list without its i-th entry.
LEMMA RemoveAtProperties ==
    ASSUME NEW S, NEW s \in Seq(S), NEW i \in 1..Len(s)
    PROVE  /\ RemoveAt(s, i) \in Seq(S)
           /\ Len(RemoveAt(s, i)) = Len(s) - 1
           /\ \A j \in 1..(Len(s) - 1) : RemoveAt(s, i)[j] = IF j < i THEN s[j] ELSE s[j + 1]
<1> DEFINE front == SubSeq(s, 1, i - 1)
           back == SubSeq(s, i + 1, Len(s))
<1>1. Len(s) \in Nat /\ i \in Nat
  BY LenProperties
<1>2. /\ front \in Seq(S) /\ Len(front) = i - 1
      /\ \A j \in 1..(i - 1) : front[j] = s[j]
  <2>1. \A j \in 1..(i - 1) : s[j] \in S
    BY <1>1, ElementOfSeq
  <2> QED
    BY <1>1, <2>1, SubSeqProperties
<1>3. /\ back \in Seq(S) /\ Len(back) = Len(s) - i
      /\ \A j \in 1..(Len(s) - i) : back[j] = s[i + j]
  <2>1. \A j \in (i + 1)..Len(s) : s[j] \in S
    BY <1>1, ElementOfSeq
  <2>2. /\ back \in Seq(S)
        /\ Len(back) = IF i + 1 <= Len(s) THEN Len(s) - (i + 1) + 1 ELSE 0
        /\ \A j \in 1..(Len(s) - (i + 1) + 1) : back[j] = s[(i + 1) + j - 1]
    BY <1>1, <2>1, SubSeqProperties
  <2> QED
    BY <1>1, <2>2
<1>4. RemoveAt(s, i) = front \o back
  BY DEF RemoveAt
<1> HIDE DEF front, back
<1>5. /\ front \o back \in Seq(S)
      /\ Len(front \o back) = Len(front) + Len(back)
      /\ \A j \in 1..(Len(front) + Len(back)) :
            (front \o back)[j] = IF j <= Len(front) THEN front[j] ELSE back[j - Len(front)]
  BY <1>2, <1>3, ConcatProperties
<1> QED
  BY <1>1, <1>2, <1>3, <1>4, <1>5

\* A list without repetitions that loses a Host keeps the others and has none twice.
LEMMA RemoveHost ==
    ASSUME NEW l \in Seq(Host), IsInjective(l), NEW i \in 1..Len(l)
    PROVE  /\ RemoveAt(l, i) \in Seq(Host)
           /\ IsInjective(RemoveAt(l, i))
           /\ ToSet(RemoveAt(l, i)) = ToSet(l) \ {l[i]}
           /\ Len(RemoveAt(l, i)) = Len(l) - 1
<1> DEFINE r == RemoveAt(l, i)
<1>1. /\ r \in Seq(Host) /\ Len(r) = Len(l) - 1
      /\ \A j \in 1..(Len(l) - 1) : r[j] = IF j < i THEN l[j] ELSE l[j + 1]
  BY RemoveAtProperties
<1>2. Len(l) \in Nat /\ DOMAIN l = 1..Len(l) /\ DOMAIN r = 1..Len(r)
  BY <1>1, LenProperties
<1> HIDE DEF r
<1>3. \A a, b \in 1..Len(l) : l[a] = l[b] => a = b
  BY <1>2 DEF IsInjective
<1>4. IsInjective(r)
  BY <1>1, <1>2, <1>3 DEF IsInjective
<1>5. ASSUME NEW h \in ToSet(r) PROVE h \in ToSet(l) \ {l[i]}
  <2>1. PICK j \in 1..Len(r) : r[j] = h
    BY <1>2, <1>5 DEF ToSet
  <2>2. PICK k \in 1..Len(l) : k # i /\ h = l[k]
    BY <1>1, <1>2, <2>1
  <2> QED
    BY <1>2, <1>3, <2>2 DEF ToSet
<1>6. ASSUME NEW h \in ToSet(l) \ {l[i]} PROVE h \in ToSet(r)
  <2>1. PICK k \in 1..Len(l) : l[k] = h
    BY <1>2 DEF ToSet
  <2>2. CASE k < i
    <3>1. k \in 1..Len(r) /\ r[k] = h
      BY <1>1, <1>2, <2>1, <2>2
    <3> QED
      BY <1>2, <3>1 DEF ToSet
  <2>3. CASE k > i
    <3>1. k - 1 \in 1..Len(r) /\ r[k - 1] = h
      BY <1>1, <1>2, <2>1, <2>3
    <3> QED
      BY <1>2, <3>1 DEF ToSet
  <2> QED
    BY <1>2, <2>1, <2>2, <2>3
<1> QED
  BY <1>1, <1>4, <1>5, <1>6 DEF r

\* A new Host goes to the end.
LEMMA AppendHost ==
    ASSUME NEW l \in Seq(Host), IsInjective(l), NEW h \in Host, h \notin ToSet(l)
    PROVE  /\ Append(l, h) \in Seq(Host)
           /\ IsInjective(Append(l, h))
           /\ Len(Append(l, h)) = Len(l) + 1
           /\ \A i \in 1..Len(l) : Append(l, h)[i] = l[i]
           /\ ToSet(l) \subseteq ToSet(Append(l, h))
<1> DEFINE r == Append(l, h)
<1>1. /\ r \in Seq(Host) /\ Len(r) = Len(l) + 1
      /\ \A i \in 1..Len(l) : r[i] = l[i]
      /\ r[Len(l) + 1] = h
  BY AppendProperties
<1>2. Len(l) \in Nat /\ DOMAIN l = 1..Len(l) /\ DOMAIN r = 1..Len(r)
  BY <1>1, LenProperties
<1> HIDE DEF r
<1>3. \A a, b \in 1..Len(l) : l[a] = l[b] => a = b
  BY <1>2 DEF IsInjective
<1>4. \A a \in 1..Len(l) : l[a] # h
  BY <1>2 DEF ToSet
<1>5. IsInjective(r)
  BY <1>1, <1>2, <1>3, <1>4 DEF IsInjective
<1>6. ToSet(l) \subseteq ToSet(r)
  BY <1>1, <1>2 DEF ToSet
<1> QED
  BY <1>1, <1>5, <1>6 DEF r

\* After finds the Host behind a listed one, or that there is none.
LEMMA AfterIsBehind ==
    ASSUME NEW l \in Seq(Host), NEW h \in ToSet(l)
    PROVE  \/ After(l, h) = NoHost
           \/ /\ After(l, h) \in Host
              /\ \E i \in 2..Len(l) : l[i - 1] = h /\ l[i] = After(l, h)
<1>1. Len(l) \in Nat /\ DOMAIN l = 1..Len(l)
  BY LenProperties
<1>2. \E k \in 1..Len(l) : l[k] = h
  BY <1>1 DEF ToSet
<1>3. CASE h = Last(l)
  BY <1>3 DEF After
<1>4. CASE h # Last(l)
  <2> DEFINE i == CHOOSE i \in 1..(Len(l) - 1) : l[i] = h
  <2>1. h # l[Len(l)]
    BY <1>4 DEF Last
  <2> HIDE DEF i
  <2>2. \E j \in 1..(Len(l) - 1) : l[j] = h
    BY <1>1, <1>2, <2>1
  <2>3. i \in 1..(Len(l) - 1) /\ l[i] = h
    BY <2>2 DEF i
  <2>4. After(l, h) = l[1 + i]
    BY <1>4 DEF After, i
  <2>5. 1 + i \in 2..Len(l) /\ (1 + i) - 1 = i
    BY <1>1, <2>3
  <2>6. l[1 + i] \in Host
    BY <1>1, <2>5, ElementOfSeq
  <2> QED
    BY <2>3, <2>4, <2>5, <2>6
<1> QED
  BY <1>3, <1>4
-----------------------------------------------------------------------------
LEMMA InitInv == Init => IInv
<1> SUFFICES ASSUME Init PROVE IInv
  OBVIOUS
<1>1. PICK n \in 1..MaxSpawns : list \in [1..n -> Host]
  BY DEF Init
<1>2. IsInjective(list)
  BY DEF Init
<1>3. list \in Seq(Host) /\ Len(list) = n /\ n \in Nat \ {0} /\ DOMAIN list = 1..n
  BY <1>1, HostListAssumption, IsASeq
<1>4. cur = list[1] /\ cur \in Host /\ cur \in ToSet(list)
  <2>1. cur = list[1]
    BY <1>3, EmptySeq DEF Init
  <2> QED
    BY <1>1, <1>3, <2>1 DEF ToSet
<1>5. \/ next = NoHost
      \/ next \in Host /\ \E i \in 2..Len(list) : list[i - 1] = cur /\ list[i] = next
  BY <1>3, <1>4, AfterIsBehind DEF Init
<1>6. TypeOK
  <2>1. <<>> \in Seq(Seq(Host))
    BY EmptySeq
  <2> QED
    BY <1>3, <1>4, <1>5, <2>1 DEF Init, TypeOK
<1>7. WalkIsSound
  BY <1>2, <1>4, <1>5 DEF WalkIsSound, InList
<1>8. CloseCounted
  BY DEF Init, CloseCounted
<1> QED
  BY <1>6, <1>7, <1>8 DEF IInv

\* The turn passes on: to the Host `parse` points to, which is still listed, or
\* to the first one that is left.
LEMMA TurnStep ==
    ASSUME IInv, NEW told \in SUBSET Host, NEW playing \in SUBSET Host, TurnEnds(told, playing)
    PROVE  /\ list' \in Seq(Host)
           /\ cur' \in Host \cup {NoHost} /\ next' \in Host \cup {NoHost}
           /\ process' \in {"runs", "ended"}
           /\ WalkIsSound'
<1>1. /\ list \in Seq(Host) /\ IsInjective(list) /\ process = "runs"
      /\ cur \in InList
      /\ next # NoHost => \E i \in 2..Len(list) : list[i - 1] = cur /\ list[i] = next
  BY DEF IInv, TypeOK, WalkIsSound, TurnEnds
<1>2. Len(list) \in Nat /\ DOMAIN list = 1..Len(list)
  BY <1>1, LenProperties
<1>3. next # NoHost => next \in InList /\ next # cur
  <2> SUFFICES ASSUME next # NoHost PROVE next \in InList /\ next # cur
    OBVIOUS
  <2>1. PICK i \in 2..Len(list) : list[i - 1] = cur /\ list[i] = next
    BY <1>1
  <2>2. i \in 1..Len(list) /\ i - 1 \in 1..Len(list) /\ i # i - 1
    BY <1>2, <2>1
  <2> QED
    BY <1>1, <1>2, <2>1, <2>2 DEF IsInjective, InList, ToSet
<1>4. /\ list' \in Seq(Host) /\ IsInjective(list')
      /\ next # NoHost => next \in ToSet(list')
  <2>1. CASE cur \notin told
    BY <1>1, <1>3, <2>1 DEF TurnEnds, InList
  <2>2. CASE cur \in told
    <3>1. PICK i \in 1..Len(list) : list[i] = cur /\ list' = RemoveAt(list, i)
      BY <1>2, <2>2 DEF TurnEnds
    <3>2. /\ list' \in Seq(Host) /\ IsInjective(list')
          /\ ToSet(list') = ToSet(list) \ {cur}
      BY <1>1, <3>1, RemoveHost
    <3> QED
      BY <1>3, <3>2 DEF InList
  <2> QED
    BY <2>1, <2>2
<1>5. CASE list' = <<>>
  <2>1. process' = "ended" /\ cur' = NoHost /\ next' = NoHost
    BY <1>5 DEF TurnEnds
  <2> QED
    BY <1>4, <2>1 DEF WalkIsSound
<1>6. CASE list' # <<>>
  <2>1. /\ cur' = IF next # NoHost THEN next ELSE Head(list')
        /\ next' = After(list', cur')
        /\ process' = process
    BY <1>6 DEF TurnEnds
  <2>2. Head(list') \in ToSet(list')
    <3>1. Len(list') \in Nat \ {0} /\ DOMAIN (list') = 1..Len(list')
      BY <1>4, <1>6, EmptySeq, LenProperties
    <3>2. Head(list') = (list')[1] /\ 1 \in DOMAIN (list')
      BY <1>4, <1>6, <3>1
    <3> QED
      BY <3>2 DEF ToSet
  <2>3. cur' \in ToSet(list')
    BY <1>4, <2>1, <2>2
  <2>4. ToSet(list') \subseteq Host
    BY <1>4, LenProperties DEF ToSet
  <2>5. \/ After(list', cur') = NoHost
        \/ /\ After(list', cur') \in Host
           /\ \E i \in 2..Len(list') : (list')[i - 1] = cur' /\ (list')[i] = After(list', cur')
    BY <1>4, <2>3, AfterIsBehind
  <2> QED
    BY <1>1, <1>4, <2>1, <2>3, <2>4, <2>5 DEF WalkIsSound, InList
<1> QED
  BY <1>5, <1>6

\* What leaves the list and the walk over it as they are.
LEMMA WalkStays ==
    ASSUME WalkIsSound, UNCHANGED <<list, cur, next, process>>
    PROVE  WalkIsSound'
BY DEF WalkIsSound, InList

LEMMA PacketStep ==
    ASSUME IInv,
           OtherPacket \/ LoggedIn \/ LoginRefused \/ Close \/ RemoteClose \/ CloseAll
    PROVE  IInv'
<1> USE DEF Polls, Given
<1>1. /\ list \in Seq(Host) /\ cur \in InList /\ InList \subseteq Host
      /\ process = "runs"
  <2>1. list \in Seq(Host) /\ cur \in InList /\ process = "runs"
    BY DEF IInv, TypeOK, WalkIsSound, OtherPacket, LoggedIn, LoginRefused, Close, RemoteClose, CloseAll
  <2> QED
    BY <2>1, LenProperties DEF InList, ToSet
<1>2. UNCHANGED <<list, cur, next, process, calls>> /\ polled' = TRUE
  BY DEF OtherPacket, LoggedIn, LoginRefused, Close, RemoteClose, CloseAll
<1>3. WalkIsSound'
  BY <1>2, WalkStays DEF IInv
<1>4. ASSUME NEW hosts \in SUBSET Host, NEW why \in AllCommands \cup {"nothing", "refused"},
             Disconnect(hosts, why),
             why = "close" => hosts = {cur} /\ Len(list) > 1
      PROVE  /\ killMe' \in SUBSET Host
             /\ toldBy' \in [Host -> AllCommands \cup {"nothing", "refused"}]
             /\ CloseCounted'
  <2>1. /\ killMe' = killMe \cup hosts
        /\ toldBy' = [h \in Host |-> IF h \in hosts THEN why ELSE toldBy[h]]
    BY <1>4 DEF Disconnect
  <2>2. killMe \in SUBSET Host /\ toldBy \in [Host -> AllCommands \cup {"nothing", "refused"}]
    BY DEF IInv, TypeOK
  <2>3. CloseCounted'
    <3> SUFFICES ASSUME NEW h \in killMe', toldBy'[h] = "close" PROVE h = cur /\ Len(list) > 1
      BY <1>2 DEF CloseCounted
    <3>1. CASE h \in hosts
      BY <1>4, <2>1, <3>1
    <3>2. CASE h \notin hosts
      BY <2>1, <2>2, <3>2 DEF IInv, CloseCounted
    <3> QED
      BY <3>1, <3>2
  <2> QED
    BY <2>1, <2>2, <2>3
<1>5. /\ inGame' \in SUBSET Host /\ killMe' \in SUBSET Host
      /\ toldBy' \in [Host -> AllCommands \cup {"nothing", "refused"}]
      /\ CloseCounted'
  <2>1. CASE OtherPacket \/ LoggedIn
    <3>1. UNCHANGED <<killMe, toldBy>> /\ inGame' \subseteq inGame \cup {cur}
      BY <2>1 DEF OtherPacket, LoggedIn
    <3> QED
      BY <1>1, <1>2, <3>1 DEF IInv, TypeOK, CloseCounted
  <2>2. CASE LoginRefused \/ Close \/ RemoteClose
    <3>1. inGame' = inGame /\ {cur} \in SUBSET Host
      BY <1>1, <2>2 DEF LoginRefused, Close, RemoteClose
    <3>2. PICK why \in {"refused", "close", "remote close"} :
             Disconnect({cur}, why) /\ (why = "close" => Len(list) > 1)
      <4>1. CASE LoginRefused
        BY <4>1 DEF LoginRefused
      <4>2. CASE Close
        BY <4>2 DEF Close
      <4>3. CASE RemoteClose
        BY <4>3 DEF RemoteClose
      <4> QED
        BY <2>2, <4>1, <4>2, <4>3
    <3>3. why \in AllCommands \cup {"nothing", "refused"}
      BY DEF AllCommands
    <3> QED
      BY <1>4, <3>1, <3>2, <3>3 DEF IInv, TypeOK
  <2>3. CASE CloseAll
    <3>1. inGame' = inGame /\ Disconnect(InList, "closeall")
      BY <2>3 DEF CloseAll
    <3> QED
      BY <1>1, <1>4, <3>1 DEF IInv, TypeOK, AllCommands
  <2> QED
    BY <2>1, <2>2, <2>3
<1>6. TypeOK'
  BY <1>2, <1>5 DEF IInv, TypeOK
<1> QED
  BY <1>3, <1>5, <1>6 DEF IInv

LEMMA SpawnStep == ASSUME IInv, NEW h \in Host, Spawn(h) PROVE IInv'
<1>1. /\ list \in Seq(Host) /\ IsInjective(list) /\ h \notin ToSet(list)
      /\ process = "runs" /\ cur \in ToSet(list)
      /\ list' = Append(list, h)
      /\ inGame' = inGame \ {h} /\ killMe' = killMe \ {h}
      /\ toldBy' = [toldBy EXCEPT ![h] = "nothing"]
      /\ polled' = TRUE
      /\ UNCHANGED <<cur, next, calls, process>>
  BY DEF IInv, TypeOK, WalkIsSound, InList, Spawn, Given, Polls
<1>2. /\ list' \in Seq(Host) /\ IsInjective(list')
      /\ Len(list') = Len(list) + 1 /\ Len(list) \in Nat
      /\ \A i \in 1..Len(list) : (list')[i] = list[i]
      /\ cur \in ToSet(list')
  BY <1>1, AppendHost, LenProperties
<1>3. WalkIsSound'
  <2>1. ASSUME next # NoHost
        PROVE  \E i \in 2..Len(list') : (list')[i - 1] = cur /\ (list')[i] = next
    <3>1. PICK i \in 2..Len(list) : list[i - 1] = cur /\ list[i] = next
      BY <1>1, <2>1 DEF IInv, WalkIsSound
    <3>2. i \in 2..Len(list') /\ i \in 1..Len(list) /\ i - 1 \in 1..Len(list)
      BY <1>2
    <3> QED
      BY <1>2, <3>1, <3>2
  <2> QED
    BY <1>1, <1>2, <2>1 DEF WalkIsSound, InList
<1>4. CloseCounted'
  BY <1>1, <1>2 DEF IInv, TypeOK, CloseCounted
<1>5. TypeOK'
  BY <1>1, <1>2 DEF IInv, TypeOK
<1> QED
  BY <1>3, <1>4, <1>5 DEF IInv

LEMMA RestartInv == ASSUME IInv, CallRestart \/ ServerDisconnects \/ RestartStep PROVE IInv'
<1>1. /\ list \in Seq(Host) /\ calls \in Seq(Seq(Host)) /\ killMe \in SUBSET Host
      /\ toldBy \in [Host -> AllCommands \cup {"nothing", "refused"}]
  BY DEF IInv, TypeOK
<1>2. UNCHANGED <<list, cur, next>> /\ process = "runs" /\ process' \in {"runs", "crashed"}
      /\ polled' \in BOOLEAN
  BY DEF IInv, TypeOK, CallRestart, ServerDisconnects, RestartStep, Given, Polls
<1>3. WalkIsSound'
  BY <1>2 DEF IInv, WalkIsSound, InList
<1>4. /\ killMe' \subseteq killMe /\ inGame' \subseteq inGame
      /\ \/ toldBy' = toldBy
         \/ \E h \in Host \cup {cur} : toldBy' = [toldBy EXCEPT ![h] = "nothing"]
      /\ calls' \in Seq(Seq(Host))
  <2>1. <<list>> \in Seq(Seq(Host))
    BY <1>1
  <2>2. CASE CallRestart
    BY <2>1, <2>2 DEF CallRestart
  <2>3. CASE ServerDisconnects
    BY <2>1, <2>3 DEF ServerDisconnects
  <2>4. CASE RestartStep
    <3> DEFINE left == Last(calls)
               outer == Front(calls)
    <3>1. calls # <<>>
      BY <2>4 DEF RestartStep
    <3>2. Len(calls) \in Nat \ {0} /\ \A i \in 1..Len(calls) : calls[i] \in Seq(Host)
      BY <1>1, <3>1, EmptySeq, ElementOfSeq
    <3>3. left \in Seq(Host)
      BY <3>2 DEF Last
    <3>4. outer \in Seq(Seq(Host))
      <4>1. \A i \in 1..(Len(calls) - 1) : calls[i] \in Seq(Host)
        BY <3>2
      <4> QED
        BY <3>2, <4>1, SubSeqProperties DEF Front
    <3> HIDE DEF left, outer
    <3>5. CASE left = <<>>
      <4>1. calls' = outer /\ UNCHANGED <<inGame, killMe, process, toldBy>>
        BY <2>4, <3>5 DEF RestartStep, left, outer
      <4> QED
        BY <3>4, <4>1
    <3>6. CASE left # <<>>
      <4>1. Head(left) \in Host /\ Tail(left) \in Seq(Host)
        BY <3>3, <3>6, HeadTailProperties
      <4>2. /\ inGame' = inGame \ {Head(left)} /\ killMe' = killMe \ {Head(left)}
            /\ toldBy' = [toldBy EXCEPT ![Head(left)] = "nothing"]
            /\ \/ calls' = outer \o <<Tail(left), list>>
               \/ calls' = calls
        BY <2>4, <3>6 DEF RestartStep, left, outer
      <4>3. <<Tail(left), list>> \in Seq(Seq(Host))
        BY <1>1, <4>1
      <4>4. outer \o <<Tail(left), list>> \in Seq(Seq(Host))
        BY <3>4, <4>3, ConcatProperties
      <4> QED
        BY <1>1, <4>1, <4>2, <4>4
    <3> QED
      BY <3>5, <3>6
  <2> QED
    BY <2>2, <2>3, <2>4
<1>5. toldBy' \in [Host -> AllCommands \cup {"nothing", "refused"}]
  BY <1>1, <1>4
<1>6. CloseCounted'
  <2> SUFFICES ASSUME NEW h \in killMe', toldBy'[h] = "close" PROVE h = cur /\ Len(list) > 1
    BY <1>2 DEF CloseCounted
  <2>1. h \in killMe /\ h \in Host /\ toldBy[h] = "close"
    BY <1>1, <1>4
  <2> QED
    BY <2>1 DEF IInv, CloseCounted
<1>7. TypeOK'
  BY <1>2, <1>4, <1>5 DEF IInv, TypeOK
<1> QED
  BY <1>3, <1>6, <1>7 DEF IInv

LEMMA TurnInv == ASSUME IInv, EndTurn \/ EndTurnSilent PROVE IInv'
<1> DEFINE told == IF EndTurn THEN killMe ELSE killMe \ {cur}
           playing == IF EndTurn THEN inGame ELSE inGame \ {cur}
<1>1. /\ killMe \in SUBSET Host /\ inGame \in SUBSET Host
      /\ toldBy \in [Host -> AllCommands \cup {"nothing", "refused"}]
      /\ calls \in Seq(Seq(Host))
  BY DEF IInv, TypeOK
<1>2. /\ TurnEnds(told, playing)
      /\ toldBy' = toldBy \/ toldBy' = [toldBy EXCEPT ![cur] = "nothing"]
  BY DEF EndTurn, EndTurnSilent
<1>3. told \in SUBSET Host /\ playing \in SUBSET Host /\ told \ {cur} \subseteq killMe \ {cur}
  BY <1>1
<1> HIDE DEF told, playing
<1>4. /\ list' \in Seq(Host)
      /\ cur' \in Host \cup {NoHost} /\ next' \in Host \cup {NoHost}
      /\ process' \in {"runs", "ended"}
      /\ WalkIsSound'
  BY <1>2, <1>3, TurnStep
<1>5. /\ killMe' = told \ {cur} /\ inGame' = playing \ (told \cap {cur})
      /\ polled' = FALSE /\ calls' = calls
  BY <1>2 DEF TurnEnds
<1>6. CloseCounted'
  <2> SUFFICES ASSUME NEW h \in killMe', toldBy'[h] = "close" PROVE FALSE
    BY DEF CloseCounted
  <2>1. h \in killMe /\ h # cur /\ h \in Host
    BY <1>1, <1>3, <1>5
  <2>2. toldBy[h] = "close"
    BY <1>1, <1>2, <2>1
  <2> QED
    BY <2>1, <2>2 DEF IInv, CloseCounted
<1>7. toldBy' \in [Host -> AllCommands \cup {"nothing", "refused"}]
  BY <1>1, <1>2
<1>8. TypeOK'
  BY <1>1, <1>3, <1>4, <1>5, <1>7 DEF TypeOK
<1> QED
  BY <1>4, <1>6, <1>8 DEF IInv

LEMMA StepInv == IInv /\ [Next]_vars => IInv'
<1> SUFFICES ASSUME IInv, [Next]_vars PROVE IInv'
  OBVIOUS
<1>1. CASE UNCHANGED vars
  BY <1>1 DEF vars, IInv, TypeOK, WalkIsSound, CloseCounted, InList
<1>2. CASE OtherPacket \/ LoggedIn \/ LoginRefused \/ Close \/ RemoteClose \/ CloseAll
  BY <1>2, PacketStep
<1>3. CASE \E h \in Host : Spawn(h)
  BY <1>3, SpawnStep
<1>4. CASE CallRestart \/ ServerDisconnects \/ RestartStep
  BY <1>4, RestartInv
<1>5. CASE EndTurn \/ EndTurnSilent
  BY <1>5, TurnInv
<1> QED
  BY <1>1, <1>2, <1>3, <1>4, <1>5 DEF Next

\* The invariant holds in every behaviour.
THEOREM Invariance == Spec => []IInv
<1> QED
  BY InitInv, StepInv, PTL DEF Spec

\* Every variable keeps its type.
THEOREM TypeCorrect == Spec => []TypeOK
<1>1. IInv => TypeOK
  BY DEF IInv
<1> QED
  BY <1>1, Invariance, PTL

\* hostList::doEvents() never runs a Host that has left the list, and `parse`
\* never points to one, whatever the bots are told in their turns.
THEOREM WalkAlwaysSound == Spec => []WalkIsSound
<1>1. IInv => WalkIsSound
  BY DEF IInv
<1> QED
  BY <1>1, Invariance, PTL
-----------------------------------------------------------------------------
\* The last Host has not been told to leave by !close.
LEMMA LastIsNotClosed ==
    ASSUME IInv, [Next]_vars, process = "runs", process' = "ended"
    PROVE  toldBy[cur] # "close"
<1>1. CASE EndTurn
  <2>1. TurnEnds(killMe, inGame) /\ list' = <<>>
    BY <1>1 DEF EndTurn, TurnEnds
  <2>2. /\ list \in Seq(Host) /\ IsInjective(list) /\ Len(list) \in Nat /\ DOMAIN list = 1..Len(list)
        /\ cur \in InList
    BY LenProperties DEF IInv, TypeOK, WalkIsSound
  <2>3. cur \in killMe /\ Len(list) = 1
    <3>1. list # <<>> /\ Len(<<>>) = 0
      BY <2>2 DEF InList, ToSet
    <3>2. PICK i \in 1..Len(list) : cur \in killMe /\ list' = RemoveAt(list, i)
      BY <2>1, <2>2, <3>1 DEF TurnEnds
    <3>3. Len(list') = Len(list) - 1
      BY <2>2, <3>2, RemoveHost
    <3> QED
      <4>1. Len(list') = 0
        BY <2>1, <3>1, Zenon
      <4>2. Len(list) - 1 = 0
        BY <3>3, <4>1
      <4>3. Len(list) \in Nat
        BY <2>2, Zenon
      <4>4. Len(list) = 1
        BY <4>2, <4>3
      <4> QED
        BY <3>2, <4>4
  <2> QED
    BY <2>3 DEF IInv, CloseCounted
<1>2. CASE EndTurnSilent
  <2>1. list' = list /\ list' = <<>>
    BY <1>2 DEF EndTurnSilent, TurnEnds
  <2>2. list # <<>>
    BY DEF IInv, WalkIsSound, InList, ToSet
  <2> QED
    BY <2>1, <2>2
<1>3. CASE UNCHANGED vars
  BY <1>3 DEF vars
<1>4. CASE OtherPacket \/ LoggedIn \/ LoginRefused \/ Close \/ RemoteClose \/ CloseAll
           \/ (\E h \in Host : Spawn(h)) \/ CallRestart \/ ServerDisconnects
  BY <1>4 DEF OtherPacket, LoggedIn, LoginRefused, Close, RemoteClose, CloseAll, Spawn, CallRestart, ServerDisconnects
<1>5. CASE RestartStep
  BY <1>5 DEF RestartStep
<1> QED
  BY <1>1, <1>2, <1>3, <1>4, <1>5 DEF Next

\* The process never ends because each of several bots was closed on the count
\* of the others (!close, command.cpp).
THEOREM CloseAlwaysLeavesOne == Spec => CloseLeavesOne
<1>1. IInv /\ [Next]_vars
         => [process = "runs" /\ process' = "ended" => toldBy[cur] # "close"]_vars
  BY LastIsNotClosed
<1> QED
  BY <1>1, Invariance, PTL DEF Spec, CloseLeavesOne
-----------------------------------------------------------------------------
\* massRestart() never comes back.

\* The innermost call has yet to begin: there is a Host it will disconnect.
JustCalled == process = "runs" /\ calls # <<>> => Last(calls) = list

\* Every step of a restart calls massRestart() once more, or runs out of stack.
Deeper == calls # <<>> => calls' # <<>> /\ (Len(calls') = Len(calls) + 1 \/ process' = "crashed")

LEMMA RestartGoesDeeper ==
    ASSUME IInv, JustCalled, RestartStep
    PROVE  Deeper /\ JustCalled'
<1>1. /\ calls \in Seq(Seq(Host)) /\ calls # <<>> /\ process = "runs"
      /\ list \in Seq(Host) /\ list # <<>> /\ list' = list
  <2>1. list # <<>>
    BY DEF IInv, WalkIsSound, InList, ToSet, RestartStep
  <2> QED
    BY <2>1 DEF IInv, TypeOK, RestartStep
<1>2. PICK left, outer : left = Last(calls) /\ outer = Front(calls) /\ left = list
  BY <1>1 DEF JustCalled
<1>3. IF Len(calls) < MaxStack
      THEN calls' = outer \o <<Tail(left), list>> /\ process' = process
      ELSE process' = "crashed" /\ calls' = calls
  BY <1>1, <1>2 DEF RestartStep
<1>4. CASE ~(Len(calls) < MaxStack)
  BY <1>1, <1>3, <1>4 DEF Deeper, JustCalled
<1>5. CASE Len(calls) < MaxStack
  <2>1. PICK S : S = Seq(Host)
    OBVIOUS
  <2>2. calls \in Seq(S) /\ Len(calls) \in Nat /\ Len(calls) > 0
    BY <1>1, <2>1, LenProperties, EmptySeq
  <2>3. outer \in Seq(S) /\ Len(outer) = Len(calls) - 1
    <3>1. \A j \in 1..(Len(calls) - 1) : calls[j] \in S
      BY <2>2, ElementOfSeq
    <3>2. outer = SubSeq(calls, 1, Len(calls) - 1)
      BY <1>2 DEF Front
    <3>3. PICK n : n = Len(calls) - 1 /\ n \in Nat
      BY <2>2
    <3>4. SubSeq(calls, 1, n) \in Seq(S) /\ Len(SubSeq(calls, 1, n)) = IF 1 <= n THEN n - 1 + 1 ELSE 0
      BY <2>2, <3>1, <3>3, SubSeqProperties
    <3> QED
      BY <3>2, <3>3, <3>4
  <2>4. PICK b : b = <<Tail(left), list>>
    OBVIOUS
  <2>5. b \in Seq(S) /\ Len(b) = 2 /\ b[2] = list
    BY <1>1, <1>2, <2>1, <2>4
  <2>6. /\ Len(outer \o b) = Len(calls) + 1
        /\ (outer \o b)[Len(calls) + 1] = list
    <3>1. /\ Len(outer \o b) = Len(outer) + Len(b)
          /\ \A j \in 1..(Len(outer) + Len(b)) :
                (outer \o b)[j] = IF j <= Len(outer) THEN outer[j] ELSE b[j - Len(outer)]
      BY <2>3, <2>5, ConcatProperties
    <3>2. Len(outer) + Len(b) = Len(calls) + 1 /\ Len(calls) + 1 - Len(outer) = 2
      BY <2>2, <2>3, <2>5
    <3> QED
      BY <2>2, <2>3, <2>5, <3>1, <3>2
  <2>7. calls' = outer \o b
    BY <1>3, <1>5, <2>4
  <2>8. Last(calls') = list /\ Len(calls') = Len(calls) + 1
    BY <2>6, <2>7 DEF Last
  <2>9. calls' # <<>>
    BY <2>2, <2>8, EmptySeq
  <2> QED
    BY <1>1, <2>8, <2>9 DEF Deeper, JustCalled
<1> QED
  BY <1>4, <1>5

LEMMA RestartStaysDeep ==
    ASSUME IInv, JustCalled, [Next]_vars
    PROVE  [Deeper]_vars /\ JustCalled'
<1>1. CASE RestartStep
  BY <1>1, RestartGoesDeeper
<1>2. CASE UNCHANGED vars
  BY <1>2 DEF vars, JustCalled
<1>3. CASE CallRestart \/ ServerDisconnects
  <2>1. calls = <<>> /\ calls' = <<list>> /\ list' = list
    BY <1>3 DEF CallRestart, ServerDisconnects, Given, Polls
  <2>2. Last(<<list>>) = list
    BY DEF Last
  <2> QED
    BY <2>1, <2>2 DEF Deeper, JustCalled
<1>4. CASE \/ OtherPacket \/ LoggedIn \/ LoginRefused \/ Close \/ RemoteClose \/ CloseAll
           \/ (\E h \in Host : Spawn(h)) \/ EndTurn \/ EndTurnSilent
  <2>1. calls = <<>> /\ calls' = calls
    BY <1>4 DEF OtherPacket, LoggedIn, LoginRefused, Close, RemoteClose, CloseAll, Spawn,
       EndTurn, EndTurnSilent, TurnEnds, Given, Polls
  <2> QED
    BY <2>1 DEF Deeper, JustCalled
<1> QED
  BY <1>1, <1>2, <1>3, <1>4 DEF Next

\* Once massRestart() is called no call of it returns: each step is one more call
\* inside the last, until the stack is used up (gotDisconnect(), host.cpp).  With
\* the fairness of the thread this is why RestartReturns fails.
THEOREM RestartNeverReturns == Spec => [][Deeper]_vars
<1>1. Init => JustCalled
  BY DEF Init, JustCalled
<1>2. IInv /\ JustCalled /\ [Next]_vars => [Deeper]_vars /\ JustCalled'
  BY RestartStaysDeep
<1> QED
  BY <1>1, <1>2, Invariance, PTL DEF Spec
=============================================================================
