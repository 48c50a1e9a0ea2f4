--------------------------- MODULE DatabaseProofs ---------------------------
(***************************************************************************)
(* The two databases the program keeps in files.  The cache of linked       *)
(* accounts catches up with its file, for any number of accounts, players   *)
(* and threads; the list of operators and what players may do by it, for    *)
(* any names, levels and files.                                            *)
(***************************************************************************)
EXTENDS Elite, Operators, SequenceTheorems, TLAPS

\* A thread that is to load: it will read the file as it is now, or later.
ToLoad == \E u \in All : pc[u] = "load"

\* The thread of the bot loads only after it has linked an account.
LinkInHand == /\ pc[Game] # "lookup"
              /\ pc[Game] # "idle" => arg[Game] \in Id

\* While a load runs alone no other runs, and as long as nothing is torn the
\* one that runs, if any, runs alone.
LonersAreAlone ==
    \A t \in All : Loading(t) =>
        /\ alone[t] => ~OthersLoad(t)
        /\ ~torn => alone[t]

\* A load that runs alone will have the cache as it found the file, or another
\* one is to come.
LonersReadAll ==
    \A t \in All : alone[t] =>
        /\ pc[t] = "read" => accounts = <<>>
        /\ pc[t] = "append" => accounts \o todo[t] = file \/ ToLoad

\* Between loads the cache is the file, or a load is to come.
RestIsFile == ~torn /\ (\A t \in All : ~Loading(t)) => accounts = file \/ ToLoad

\* The inductive invariant.
IInv == TypeOK /\ LinkInHand /\ LonersAreAlone /\ LonersReadAll /\ RestIsFile

USE DEF Account, Call, All
-----------------------------------------------------------------------------
\* Sequences

LEMMA RemoveAtType ==
    ASSUME NEW S, NEW s \in Seq(S), NEW i \in DOMAIN s
    PROVE  RemoveAt(s, i) \in Seq(S)
<1>1. Len(s) \in Nat /\ i \in 1..Len(s)
  BY LenProperties
<1>2. SubSeq(s, 1, i - 1) \in Seq(S)
  <2>1. \A j \in 1..(i - 1) : s[j] \in S
    BY <1>1, ElementOfSeq
  <2> QED
    BY <1>1, <2>1, SubSeqProperties
<1>3. SubSeq(s, i + 1, Len(s)) \in Seq(S)
  <2>1. \A j \in (i + 1)..Len(s) : s[j] \in S
    BY <1>1, ElementOfSeq
  <2> QED
    BY <1>1, <2>1, SubSeqProperties
<1> QED
  BY <1>2, <1>3, ConcatProperties DEF RemoveAt

\* One step of the loop that appends: what is read and appended stays the same.
LEMMA MoveHead ==
    ASSUME NEW S, NEW a \in Seq(S), NEW b \in Seq(S), b # <<>>
    PROVE  Append(a, Head(b)) \o Tail(b) = a \o b
<1>1. Head(b) \in S /\ Tail(b) \in Seq(S)
  BY HeadTailProperties
<1>2. <<Head(b)>> \in Seq(S) /\ <<Head(b)>> \o Tail(b) = b
  BY <1>1
<1>3. Append(a, Head(b)) = a \o <<Head(b)>>
  BY <1>1, AppendIsConcat
<1>4. (a \o <<Head(b)>>) \o Tail(b) = a \o (<<Head(b)>> \o Tail(b))
  BY <1>1, <1>2, ConcatAssociative
<1> QED
  BY <1>2, <1>3, <1>4

LEMMA FileTypes ==
    ASSUME TypeOK, NEW id \in Id, NEW name \in Name
    PROVE  Written(id, name) \in Seq(Account)
<1>1. file \in Seq(Account) /\ [id |-> id, name |-> name] \in Account
  BY DEF TypeOK
<1>2. CASE \E i \in DOMAIN file : file[i].id = id
  <2>1. Len(file) \in Nat /\ DOMAIN file = 1..Len(file)
    BY <1>1, LenProperties
  <2> DEFINE line(i) == IF file[i].id = id THEN [id |-> id, name |-> name] ELSE file[i]
  <2>2. \A i \in 1..Len(file) : line(i) \in Account
    <3> TAKE i \in 1..Len(file)
    <3>1. file[i] \in Account
      BY <1>1, ElementOfSeq
    <3> QED
      BY <1>1, <3>1
  <2> HIDE DEF line
  <2>3. [i \in 1..Len(file) |-> line(i)] \in Seq(Account)
    BY <2>1, <2>2, IsASeq
  <2>4. Written(id, name) = [i \in 1..Len(file) |-> line(i)]
    BY <1>2, <2>1 DEF Written, line
  <2> QED
    BY <2>3, <2>4
<1>3. CASE ~(\E i \in DOMAIN file : file[i].id = id)
  BY <1>1, <1>3, AppendProperties DEF Written
<1> QED
  BY <1>2, <1>3

LEMMA WithoutType == ASSUME TypeOK, NEW id PROVE Without(id) \in Seq(Account)
<1>1. file \in Seq(Account)
  BY DEF TypeOK
<1>2. CASE \E i \in DOMAIN file : file[i].id = id
  <2>1. (CHOOSE i \in DOMAIN file : file[i].id = id) \in DOMAIN file
    BY <1>2
  <2> QED
    BY <1>1, <1>2, <2>1, RemoveAtType DEF Without
<1> QED
  BY <1>1, <1>2 DEF Without
-----------------------------------------------------------------------------
LEMMA InitInv == Init => IInv
<1> SUFFICES ASSUME Init PROVE IInv
  OBVIOUS
<1>1. TypeOK
  <2>1. /\ file \in Seq(Account) /\ accounts \in Seq(Account) /\ hash \in Seq(Id)
        /\ todo \in [All -> Seq(Account)]
    BY EmptySeq, EliteAssumption DEF Init
  <2>2. /\ pc \in [All -> {"idle", "lookup", "load", "read", "append"}]
        /\ arg \in [All -> Id \cup Name \cup {NoId}]
    BY DEF Init
  <2>3. torn \in BOOLEAN /\ alone \in [All -> BOOLEAN]
    BY DEF Init
  <2>4. jobs \in 0..MaxJobs
    BY EliteAssumption DEF Init
  <2> QED
    BY <2>1, <2>2, <2>3, <2>4 DEF Init, TypeOK
<1>2. LinkInHand /\ LonersAreAlone /\ LonersReadAll /\ RestIsFile
  BY EliteAssumption DEF Init, LinkInHand, LonersAreAlone, LonersReadAll, RestIsFile, Loading
<1> QED
  BY <1>1, <1>2 DEF IInv

LEMMA LoadClearStep == ASSUME IInv, NEW t \in All, LoadClear(t) PROVE IInv'
<1>1. /\ pc[t] = "load" /\ accounts' = <<>>
      /\ alone' = [u \in All |-> IF u = t THEN ~OthersLoad(t) ELSE alone[u] /\ ~Loading(u)]
      /\ torn' = (torn \/ OthersLoad(t))
      /\ pc' = [pc EXCEPT ![t] = "read"]
      /\ UNCHANGED <<file, todo, arg, jobs, role, calls, prompts, hash>>
  BY DEF LoadClear, Goto, discord
<1>2. TypeOK'
  <2>1. alone' \in [All -> BOOLEAN] /\ torn' \in BOOLEAN
    BY <1>1, Zenon DEF OthersLoad, Loading, IInv, TypeOK
  <2>2. pc' \in [All -> {"idle", "lookup", "load", "read", "append"}]
    BY <1>1 DEF IInv, TypeOK
  <2> QED
    BY <1>1, <2>1, <2>2, EmptySeq DEF IInv, TypeOK
<1>3. LinkInHand'
  BY <1>1 DEF IInv, TypeOK, LinkInHand
<1>4. \A u \in All \ {t} : pc'[u] = pc[u]
  BY <1>1 DEF IInv, TypeOK
<1>5. pc'[t] = "read"
  BY <1>1 DEF IInv, TypeOK
<1>6. OthersLoad(t)' <=> OthersLoad(t)
  BY <1>4 DEF OthersLoad, Loading
<1>7. alone'[t] <=> ~OthersLoad(t)
  BY <1>1
<1>8. \A u \in All \ {t} : alone'[u] <=> alone[u] /\ ~Loading(u)
  BY <1>1
<1>9. ASSUME NEW u \in All \ {t}, Loading(u)' PROVE Loading(u) /\ ~alone'[u] /\ torn'
  <2>1. Loading(u)
    BY <1>4, <1>9 DEF Loading
  <2>2. OthersLoad(t)
    BY <2>1 DEF OthersLoad
  <2> QED
    BY <1>1, <1>8, <2>1, <2>2
<1>10. LonersAreAlone'
  BY <1>1, <1>6, <1>7, <1>9 DEF LonersAreAlone
<1>11. LonersReadAll'
  BY <1>1, <1>5, <1>9 DEF LonersReadAll, Loading
<1>12. RestIsFile'
  BY <1>5 DEF RestIsFile, Loading
<1> QED
  BY <1>2, <1>3, <1>10, <1>11, <1>12 DEF IInv

\* A load that runs alone reads all of the file, unless a writer has it open,
\* who will load in turn.
LEMMA LoadReadStep == ASSUME IInv, NEW t \in All, LoadRead(t) PROVE IInv'
<1>1. /\ pc[t] = "read"
      /\ \/ todo' = [todo EXCEPT ![t] = file]
         \/ Writing(t) /\ todo' = [todo EXCEPT ![t] = <<>>]
      /\ pc' = [pc EXCEPT ![t] = "append"]
      /\ UNCHANGED <<file, accounts, torn, arg, alone, jobs, role, calls, prompts, hash>>
  BY DEF LoadRead, Goto, elite, discord
<1>2. TypeOK'
  <2>1. todo' \in [All -> Seq(Account)]
    <3>1. PICK S : S = Seq(Account)
      OBVIOUS
    <3>2. todo \in [All -> S] /\ file \in S /\ <<>> \in S
      BY <3>1, EmptySeq DEF IInv, TypeOK
    <3>3. todo' = [todo EXCEPT ![t] = file] \/ todo' = [todo EXCEPT ![t] = <<>>]
      BY <1>1
    <3>4. todo' \in [All -> S]
      BY <3>2, <3>3
    <3> QED
      BY <3>1, <3>4
  <2> QED
    BY <1>1, <2>1 DEF IInv, TypeOK
<1>3. LinkInHand'
  BY <1>1 DEF IInv, TypeOK, LinkInHand
<1>4. /\ \A u \in All \ {t} : pc'[u] = pc[u] /\ todo'[u] = todo[u]
      /\ pc'[t] = "append"
  BY <1>1 DEF IInv, TypeOK
<1>5. \A u \in All : Loading(u)' <=> Loading(u)
  BY <1>1, <1>4 DEF Loading
<1>6. ToLoad' <=> ToLoad
  BY <1>1, <1>4 DEF ToLoad
<1>7. LonersAreAlone'
  BY <1>1, <1>5 DEF IInv, LonersAreAlone, OthersLoad
<1>8. ASSUME alone[t] PROVE accounts' \o todo'[t] = file' \/ ToLoad'
  <2>1. accounts = <<>> /\ file \in Seq(Account)
    BY <1>1, <1>8 DEF IInv, TypeOK, LonersReadAll
  <2>2. CASE todo' = [todo EXCEPT ![t] = file]
    <3>1. todo'[t] = file
      BY <2>2 DEF IInv, TypeOK
    <3> QED
      BY <1>1, <2>1, <3>1, ConcatEmptySeq
  <2>3. CASE Writing(t)
    BY <1>6, <2>3 DEF Writing, ToLoad
  <2> QED
    BY <1>1, <2>2, <2>3
<1>9. LonersReadAll'
  BY <1>1, <1>4, <1>6, <1>8 DEF IInv, LonersReadAll
<1>10. RestIsFile'
  BY <1>1, <1>5, <1>6 DEF IInv, RestIsFile
<1> QED
  BY <1>2, <1>3, <1>7, <1>9, <1>10 DEF IInv

LEMMA LoadAppendStep == ASSUME IInv, NEW t \in All, LoadAppend(t) PROVE IInv'
<1>1. /\ pc[t] = "append" /\ todo[t] # <<>>
      /\ \/ accounts' = Append(accounts, Head(todo[t]))
         \/ OthersLoad(t) /\ accounts' = accounts
      /\ todo' = [todo EXCEPT ![t] = Tail(todo[t])]
      /\ UNCHANGED <<file, torn, pc, arg, alone, jobs, role, calls, prompts, hash>>
  BY DEF LoadAppend, discord
<1>2. /\ accounts \in Seq(Account) /\ todo[t] \in Seq(Account)
      /\ Head(todo[t]) \in Account /\ Tail(todo[t]) \in Seq(Account)
  BY <1>1, HeadTailProperties DEF IInv, TypeOK
<1>3. TypeOK'
  <2>1. accounts' \in Seq(Account)
    BY <1>1, <1>2, AppendProperties
  <2>2. todo' \in [All -> Seq(Account)]
    BY <1>1, <1>2 DEF IInv, TypeOK
  <2> QED
    BY <1>1, <2>1, <2>2 DEF IInv, TypeOK
<1>4. LinkInHand' /\ LonersAreAlone'
  BY <1>1 DEF IInv, LinkInHand, LonersAreAlone, OthersLoad, Loading
<1>5. ToLoad' <=> ToLoad
  BY <1>1 DEF ToLoad
<1>6. ASSUME NEW u \in All, alone[u]
      PROVE  /\ pc[u] = "read" => accounts' = <<>>
             /\ pc[u] = "append" => accounts' \o todo'[u] = file \/ ToLoad'
  <2>1. CASE u = t
    <3>1. ~OthersLoad(t)
      BY <1>1, <1>6, <2>1 DEF IInv, LonersAreAlone, Loading
    <3>2. accounts' \o todo'[t] = accounts \o todo[t]
      <4>1. accounts' = Append(accounts, Head(todo[t]))
        BY <1>1, <3>1
      <4>2. todo'[t] = Tail(todo[t])
        BY <1>1 DEF IInv, TypeOK
      <4> QED
        BY <1>1, <1>2, <4>1, <4>2, MoveHead
    <3>3. accounts \o todo[t] = file \/ ToLoad
      BY <1>1, <1>6, <2>1 DEF IInv, LonersReadAll
    <3> QED
      BY <1>1, <1>5, <2>1, <3>2, <3>3
  <2>2. CASE u # t
    <3>1. ~Loading(u)
      BY <1>1, <1>6, <2>2 DEF IInv, LonersAreAlone, OthersLoad, Loading
    <3> QED
      BY <3>1 DEF Loading
  <2> QED
    BY <2>1, <2>2
<1>7. LonersReadAll'
  BY <1>1, <1>6 DEF LonersReadAll
<1>8. RestIsFile'
  BY <1>1 DEF RestIsFile, Loading
<1> QED
  BY <1>3, <1>4, <1>7, <1>8 DEF IInv

LEMMA LoadDoneStep == ASSUME IInv, NEW t \in All, LoadDone(t) PROVE IInv'
<1>1. /\ pc[t] = "append" /\ todo[t] = <<>>
      /\ torn' = (torn /\ ~alone[t])
      /\ pc' = [pc EXCEPT ![t] = "idle"]
      /\ arg' = [arg EXCEPT ![t] = NoId]
      /\ UNCHANGED <<file, accounts, todo, alone, jobs, role, prompts>>
  BY DEF LoadDone, Goto
<1>2. /\ \A u \in All \ {t} : pc'[u] = pc[u]
      /\ pc'[t] = "idle"
  BY <1>1 DEF IInv, TypeOK
<1>3. calls' \in SUBSET Call /\ hash' \in Seq(Id)
  <2>1. calls \in SUBSET Call /\ hash \in Seq(Id)
    BY DEF IInv, TypeOK
  <2>2. CASE t = Game
    <3>1. arg[t] \in Id
      BY <1>1, <2>2 DEF IInv, LinkInHand
    <3>2. calls' = calls \cup {[op |-> "grant", id |-> arg[t]]}
      BY <2>2 DEF LoadDone
    <3>3. PICK i \in DOMAIN hash : hash' = RemoveAt(hash, i)
      BY <2>2 DEF LoadDone
    <3>4. hash' \in Seq(Id)
      BY <2>1, <3>3, RemoveAtType
    <3> QED
      BY <2>1, <3>1, <3>2, <3>4
  <2>3. CASE t # Game
    BY <2>1, <2>3 DEF LoadDone
  <2> QED
    BY <2>2, <2>3
<1>4. TypeOK'
  <2>1. torn' \in BOOLEAN
    BY <1>1, Zenon
  <2> QED
    BY <1>1, <1>3, <2>1 DEF IInv, TypeOK
<1>5. LinkInHand'
  BY <1>1, EliteAssumption DEF IInv, TypeOK, LinkInHand
<1>6. \A u \in All : Loading(u)' => Loading(u) /\ u # t
  BY <1>2 DEF Loading
<1>7. ToLoad' <=> ToLoad
  BY <1>1, <1>2 DEF ToLoad
<1>8. LonersAreAlone'
  <2> SUFFICES ASSUME NEW u \in All, Loading(u)'
               PROVE  /\ alone[u] => ~OthersLoad(u)'
                      /\ ~torn' => alone[u]
    BY <1>1 DEF LonersAreAlone
  <2>1. u # t /\ Loading(u) /\ Loading(t)
    BY <1>1, <1>6 DEF Loading
  <2>2. ~alone[t]
    BY <2>1 DEF IInv, LonersAreAlone, OthersLoad
  <2>3. OthersLoad(u)' => OthersLoad(u)
    BY <1>6 DEF OthersLoad
  <2> QED
    BY <1>1, <2>1, <2>2, <2>3 DEF IInv, LonersAreAlone
<1>9. LonersReadAll'
  BY <1>1, <1>2, <1>7 DEF IInv, LonersReadAll
<1>10. RestIsFile'
  <2> SUFFICES ASSUME ~torn' PROVE accounts = file \/ ToLoad
    BY <1>1, <1>7 DEF RestIsFile
  <2>1. alone[t]
    BY <1>1 DEF IInv, LonersAreAlone, Loading
  <2>2. accounts \o <<>> = file \/ ToLoad
    BY <1>1, <2>1 DEF IInv, LonersReadAll
  <2>3. accounts \in Seq(Account)
    BY DEF IInv, TypeOK
  <2> QED
    BY <2>2, <2>3, ConcatEmptySeq
<1> QED
  BY <1>4, <1>5, <1>8, <1>9, <1>10 DEF IInv

\* A thread that begins a job and is to load, or to look up first: the file may
\* have changed only if it is to load.
LEMMA BeginStep ==
    ASSUME IInv, NEW t \in All, ~Loading(t), pc[t] # "load",
           pc' = [pc EXCEPT ![t] = "load"] \/ (pc' = [pc EXCEPT ![t] = "lookup"] /\ file' = file),
           UNCHANGED <<accounts, torn, todo, alone>>
    PROVE  LonersAreAlone' /\ LonersReadAll' /\ RestIsFile'
<1>1. \A u \in All \ {t} : pc'[u] = pc[u]
  BY DEF IInv, TypeOK
<1>2. pc'[t] = "load" \/ (pc'[t] = "lookup" /\ file' = file)
  BY DEF IInv, TypeOK
<1>3. \A u \in All : Loading(u)' <=> Loading(u)
  BY <1>1, <1>2 DEF Loading
<1>4. ToLoad' \/ (file' = file /\ (ToLoad => ToLoad'))
  BY <1>1, <1>2 DEF ToLoad
<1>5. LonersAreAlone'
  BY <1>3 DEF IInv, LonersAreAlone, OthersLoad
<1>6. LonersReadAll'
  BY <1>1, <1>2, <1>4 DEF IInv, LonersReadAll
<1>7. RestIsFile'
  BY <1>3, <1>4 DEF IInv, RestIsFile
<1> QED
  BY <1>5, <1>6, <1>7

LEMMA ReloadStep == ASSUME IInv, NEW t \in Thread, Reload(t) PROVE IInv'
<1>1. /\ pc[t] = "idle" /\ t # Game /\ jobs < MaxJobs /\ jobs' = jobs + 1
      /\ pc' = [pc EXCEPT ![t] = "load"] /\ arg' = [arg EXCEPT ![t] = NoId]
      /\ UNCHANGED <<file, accounts, torn, todo, alone, role, calls, prompts, hash>>
  BY DEF Reload, Begin, Goto, elite, discord
<1>2. TypeOK'
  <2>1. jobs' \in 0..MaxJobs
    BY <1>1, EliteAssumption DEF IInv, TypeOK
  <2>2. /\ pc' \in [All -> {"idle", "lookup", "load", "read", "append"}]
        /\ arg' \in [All -> Id \cup Name \cup {NoId}]
    BY <1>1 DEF IInv, TypeOK
  <2> QED
    BY <1>1, <2>1, <2>2 DEF IInv, TypeOK
<1>3. LinkInHand'
  BY <1>1 DEF IInv, TypeOK, LinkInHand
<1> QED
  BY <1>1, <1>2, <1>3, BeginStep DEF IInv, Loading

LEMMA ClaimStep == ASSUME IInv, NEW id \in Id, NEW name \in Name, Claim(name, id) PROVE IInv'
<1>1. /\ pc[Game] = "idle" /\ jobs < MaxJobs /\ jobs' = jobs + 1
      /\ pc' = [pc EXCEPT ![Game] = "load"] /\ arg' = [arg EXCEPT ![Game] = id]
      /\ file' = Written(id, name)
      /\ UNCHANGED <<accounts, torn, todo, alone, role, calls, prompts, hash>>
  BY DEF Claim, Begin, Goto, discord
<1>2. file' \in Seq(Account)
  BY <1>1, FileTypes DEF IInv
<1>3. TypeOK'
  <2>1. jobs' \in 0..MaxJobs
    BY <1>1, EliteAssumption DEF IInv, TypeOK
  <2>2. /\ pc' \in [All -> {"idle", "lookup", "load", "read", "append"}]
        /\ arg' \in [All -> Id \cup Name \cup {NoId}]
    BY <1>1 DEF IInv, TypeOK
  <2> QED
    BY <1>1, <1>2, <2>1, <2>2 DEF IInv, TypeOK
<1>4. LinkInHand'
  BY <1>1 DEF IInv, TypeOK, LinkInHand
<1> QED
  BY <1>1, <1>3, <1>4, BeginStep DEF IInv, Loading

LEMMA UnlinkCommandStep ==
    ASSUME IInv, NEW name \in Name, NEW t \in Thread, UnlinkCommand(name, t) PROVE IInv'
<1>1. /\ pc[t] = "idle" /\ t # Game /\ jobs < MaxJobs /\ jobs' = jobs + 1
      /\ pc' = [pc EXCEPT ![t] = "lookup"] /\ arg' = [arg EXCEPT ![t] = name]
      /\ UNCHANGED <<file, accounts, torn, todo, alone, role, calls, prompts, hash>>
  BY DEF UnlinkCommand, Begin, Goto, elite, discord
<1>2. TypeOK'
  <2>1. jobs' \in 0..MaxJobs
    BY <1>1, EliteAssumption DEF IInv, TypeOK
  <2>2. /\ pc' \in [All -> {"idle", "lookup", "load", "read", "append"}]
        /\ arg' \in [All -> Id \cup Name \cup {NoId}]
    BY <1>1 DEF IInv, TypeOK
  <2> QED
    BY <1>1, <2>1, <2>2 DEF IInv, TypeOK
<1>3. LinkInHand'
  BY <1>1 DEF IInv, TypeOK, LinkInHand
<1> QED
  BY <1>1, <1>2, <1>3, BeginStep DEF IInv, Loading

\* An account is taken from the file by a thread that loads next.
LEMMA UnlinkStep ==
    ASSUME IInv, NEW t \in Thread, NEW id \in Id \cup {NoId}, pc[t] \in {"idle", "lookup"},
           UnlinkAccount(t, id),
           prompts' \in SUBSET Id, jobs' \in 0..MaxJobs
    PROVE  IInv'
<1>1. /\ file' = Without(id)
      /\ calls' = calls \cup {[op |-> "remove", id |-> id]}
      /\ arg' = [arg EXCEPT ![t] = id]
      /\ pc' = [pc EXCEPT ![t] = "load"]
      /\ UNCHANGED <<accounts, torn, todo, alone, role, hash>>
  BY DEF UnlinkAccount, Goto
<1>2. file' \in Seq(Account) /\ calls' \in SUBSET Call
  <2>1. file' \in Seq(Account)
    BY <1>1, WithoutType DEF IInv
  <2>2. [op |-> "remove", id |-> id] \in Call
    OBVIOUS
  <2> QED
    BY <1>1, <2>1, <2>2 DEF IInv, TypeOK
<1>3. TypeOK'
  BY <1>1, <1>2 DEF IInv, TypeOK
<1>4. t # Game
  BY EliteAssumption
<1>5. LinkInHand'
  BY <1>1, <1>4 DEF IInv, TypeOK, LinkInHand
<1> QED
  BY <1>1, <1>3, <1>5, BeginStep DEF IInv, Loading

\* Steps that leave file, cache and threads alone.
LEMMA OtherStep ==
    ASSUME IInv, UNCHANGED <<file, accounts, torn, pc, todo, arg, alone, jobs>>,
           role' \in SUBSET Id, calls' \in SUBSET Call, prompts' \in SUBSET Id, hash' \in Seq(Id)
    PROVE  IInv'
<1>1. TypeOK'
  BY DEF IInv, TypeOK
<1> QED
  BY <1>1 DEF IInv, LinkInHand, LonersAreAlone, LonersReadAll, RestIsFile, ToLoad, Loading, OthersLoad

LEMMA StepInv == IInv /\ [Next]_vars => IInv'
<1> SUFFICES ASSUME IInv, [Next]_vars PROVE IInv'
  OBVIOUS
<1>1. role \in SUBSET Id /\ calls \in SUBSET Call /\ prompts \in SUBSET Id /\ hash \in Seq(Id)
  BY DEF IInv, TypeOK
<1>2. CASE UNCHANGED vars
  BY <1>1, <1>2, OtherStep DEF vars, elite, threads, discord
<1>3. CASE \E t \in All : LoadClear(t) \/ LoadRead(t) \/ LoadAppend(t) \/ LoadDone(t)
  BY <1>3, LoadClearStep, LoadReadStep, LoadAppendStep, LoadDoneStep
<1>4. CASE \E t \in Thread : Reload(t)
  BY <1>4, ReloadStep
<1>5. ASSUME NEW t \in Thread, UnlinkThread(t) PROVE IInv'
  <2>1. PICK id \in Id \cup {NoId} : UnlinkAccount(t, id)
    BY <1>5 DEF UnlinkThread
  <2>2. /\ pc[t] \in {"idle", "lookup"}
        /\ prompts' \in SUBSET Id /\ jobs' \in 0..MaxJobs
    BY <1>5 DEF UnlinkThread, IInv, TypeOK
  <2> QED
    BY <2>1, <2>2, UnlinkStep
<1>6. ASSUME NEW id \in Id, IssueCode(id) PROVE IInv'
  <2>1. hash' \in Seq(Id)
    BY <1>1, <1>6, AppendProperties DEF IssueCode
  <2> QED
    BY <1>1, <1>6, <2>1, OtherStep DEF IssueCode, elite, threads, discord
<1>7. ASSUME NEW id \in Id, AskUnlink(id) PROVE IInv'
  BY <1>1, <1>7, OtherStep DEF AskUnlink, elite, threads
<1>8. ASSUME NEW id \in Id, Return(id) PROVE IInv'
  <2>1. role' \in SUBSET Id /\ calls' \in SUBSET Call
    BY <1>1, <1>8 DEF Return
  <2> QED
    BY <1>1, <1>8, <2>1, OtherStep DEF Return, elite, threads
<1>9. CASE \E id \in Id, name \in Name : Claim(name, id)
  BY <1>9, ClaimStep
<1>10. CASE \E name \in Name, t \in Thread : UnlinkCommand(name, t)
  BY <1>10, UnlinkCommandStep
<1>11. ASSUME NEW t \in Thread, NEW id \in Id, Confirm(t, id) PROVE IInv'
  <2>1. /\ UnlinkAccount(t, id) /\ pc[t] \in {"idle", "lookup"}
        /\ prompts' \in SUBSET Id /\ jobs' \in 0..MaxJobs
    BY <1>1, <1>11, EliteAssumption DEF Confirm, IInv, TypeOK
  <2> QED
    BY <2>1, UnlinkStep
<1>12. ASSUME NEW c \in calls, Perform(c) PROVE IInv'
  <2>1. role' \in SUBSET Id /\ calls' \in SUBSET Call
    <3>1. c.op = "grant" => c.id \in Id
      BY <1>1
    <3> QED
      BY <1>1, <1>12, <3>1 DEF Perform
  <2> QED
    BY <1>1, <1>12, <2>1, OtherStep DEF Perform, elite, threads
<1> QED
  BY <1>2, <1>3, <1>4, <1>5, <1>6, <1>7, <1>8, <1>9, <1>10, <1>11, <1>12 DEF Next

\* The invariant holds in every behaviour.
THEOREM Invariance == Spec => []IInv
<1> QED
  BY InitInv, StepInv, PTL DEF Spec

\* Every variable keeps its type.
THEOREM TypeCorrect == Spec => []TypeOK
<1>1. IInv => TypeOK
  BY DEF IInv
<1> QED
  BY <1>1, Invariance, PTL

\* loadLists() and those who write elite.dat leave the cache with the accounts
\* of the file once everyone has loaded, however their loads overlapped.
THEOREM CacheCatchesUp == Spec => []CacheIsFile
<1>1. ASSUME IInv PROVE CacheIsFile
  <2> SUFFICES ASSUME ~torn, \A t \in All : ~Busy(t) PROVE accounts = file
    BY DEF CacheIsFile, Quiet
  <2>1. (\A t \in All : ~Loading(t)) /\ ~ToLoad
    BY DEF Busy, Loading, ToLoad
  <2> QED
    BY <1>1, <2>1 DEF IInv, RestIsFile
<1> QED
  BY <1>1, Invariance, PTL
-----------------------------------------------------------------------------
\* The operators

\* The inductive invariant.
OpIInv == OpTypeOK /\ NamesAreChecked /\ UnmarkedIsSaved

\* What a step does to the levels in force, and in the file.
NotRaised ==
    \A level \in Held' :
        level > Limited /\ (\A other \in Held : other < level)
            => \E p \in here : access[p] = Owner
-----------------------------------------------------------------------------
LEMMA LevelFacts ==
    /\ Levels = 0..6 /\ Player = 0 /\ Limited = 1 /\ Moderator = 2 /\ SuperModerator = 3
    /\ Owner = 5 /\ Unknown = 6
BY DEF Levels, Player, Limited, Moderator, SuperModerator, Owner, Unknown

\* A list of operators is a function from some of the names.
LEMMA ListFacts ==
    /\ \A list \in Lists : list \in [DOMAIN list -> Entries] /\ DOMAIN list \subseteq Names
    /\ \A ns \in SUBSET Names : [ns -> Entries] \subseteq Lists
<1>1. ASSUME NEW list \in Lists
      PROVE  list \in [DOMAIN list -> Entries] /\ DOMAIN list \subseteq Names
  <2>1. PICK ns \in SUBSET Names : list \in [ns -> Entries]
    BY DEF Lists
  <2> QED
    BY <2>1
<1>2. \A ns \in SUBSET Names : [ns -> Entries] \subseteq Lists
  BY DEF Lists
<1> QED
  BY <1>1, <1>2

\* What is valid of a list is a list, all of it valid.
LEMMA ValidFacts ==
    ASSUME NEW list \in Lists
    PROVE  /\ Valid(list) \in Lists
           /\ DOMAIN Valid(list) \subseteq DOMAIN list
           /\ \A n \in DOMAIN Valid(list) : Valid(list)[n] = list[n]
           /\ Valid(Valid(list)) = Valid(list)
<1>1. list \in [DOMAIN list -> Entries] /\ DOMAIN list \subseteq Names
  BY ListFacts
<1> DEFINE ns == {m \in DOMAIN list : list[m].level \in Limited..Owner}
<1>2. Valid(list) = [n \in ns |-> list[n]]
  BY DEF Valid
<1>3. Valid(list) \in [ns -> Entries] /\ ns \in SUBSET Names
  BY <1>1, <1>2
<1>4. DOMAIN Valid(list) = ns /\ \A n \in ns : Valid(list)[n] = list[n]
  BY <1>2
<1>5. {m \in ns : Valid(list)[m].level \in Limited..Owner} = ns
  BY <1>4
<1>6. Valid(Valid(list)) = [n \in ns |-> Valid(list)[n]]
  BY <1>4, <1>5 DEF Valid
<1>7. Valid(Valid(list)) = Valid(list)
  BY <1>2, <1>4, <1>6
<1>8. Valid(list) \in Lists
  BY <1>3, ListFacts
<1> QED
  BY <1>4, <1>7, <1>8

\* One list laid over another.
LEMMA OverFacts ==
    ASSUME NEW f \in Lists, NEW g \in Lists
    PROVE  /\ Over(f, g) \in Lists
           /\ DOMAIN Over(f, g) = DOMAIN f \cup DOMAIN g
           /\ \A n \in DOMAIN f : Over(f, g)[n] = f[n]
           /\ \A n \in DOMAIN g \ DOMAIN f : Over(f, g)[n] = g[n]
           /\ (\A n \in DOMAIN f : n \in DOMAIN g /\ g[n] = f[n]) => Over(f, g) = g
<1>1. /\ f \in [DOMAIN f -> Entries] /\ DOMAIN f \subseteq Names
      /\ g \in [DOMAIN g -> Entries] /\ DOMAIN g \subseteq Names
  BY ListFacts
<1> DEFINE ns == DOMAIN f \cup DOMAIN g
<1>2. Over(f, g) = [n \in ns |-> IF n \in DOMAIN f THEN f[n] ELSE g[n]]
  BY DEF Over
<1>3. Over(f, g) \in [ns -> Entries] /\ ns \in SUBSET Names
  BY <1>1, <1>2
<1>4. Over(f, g) \in Lists
  BY <1>3, ListFacts
<1>5. ASSUME \A n \in DOMAIN f : n \in DOMAIN g /\ g[n] = f[n] PROVE Over(f, g) = g
  <2>1. ns = DOMAIN g /\ \A n \in DOMAIN g : Over(f, g)[n] = g[n]
    BY <1>2, <1>5
  <2> QED
    BY <1>1, <1>3, <2>1
<1> QED
  BY <1>2, <1>4, <1>5

\* An operator changed, and one removed.
LEMMA EditedFacts ==
    ASSUME NEW list \in Lists, NEW n \in DOMAIN list, NEW e \in Entries
    PROVE  /\ [list EXCEPT ![n] = e] \in Lists
           /\ DOMAIN [list EXCEPT ![n] = e] = DOMAIN list
           /\ \A m \in DOMAIN list : [list EXCEPT ![n] = e][m] = IF m = n THEN e ELSE list[m]
<1>1. list \in [DOMAIN list -> Entries] /\ DOMAIN list \in SUBSET Names
  BY ListFacts
<1>2. [list EXCEPT ![n] = e] \in [DOMAIN list -> Entries]
  BY <1>1
<1> QED
  BY <1>1, <1>2, ListFacts

LEMMA RemovedFacts ==
    ASSUME NEW list \in Lists, NEW n
    PROVE  /\ Removed(list, n) \in Lists
           /\ DOMAIN Removed(list, n) = DOMAIN list \ {n}
           /\ \A m \in DOMAIN list \ {n} : Removed(list, n)[m] = list[m]
<1>1. list \in [DOMAIN list -> Entries] /\ DOMAIN list \subseteq Names
  BY ListFacts
<1>2. Removed(list, n) \in [DOMAIN list \ {n} -> Entries] /\ DOMAIN list \ {n} \in SUBSET Names
  BY <1>1 DEF Removed
<1> QED
  BY <1>2, ListFacts DEF Removed

LEMMA OpInitInv == OpInit => OpIInv
<1> SUFFICES ASSUME OpInit PROVE OpIInv
  OBVIOUS
<1>1. /\ opFile \in Lists /\ opList = Valid(opFile) /\ operatorsUpdated = FALSE /\ dropped = FALSE
      /\ commands = 0 /\ billerOnline = TRUE /\ lowestLevel \in {Player, Owner}
      /\ allowLimited = FALSE /\ limitedOwner = Nobody /\ here = {} /\ given = {}
      /\ access = [n \in Names |-> Player]
  BY OpAssumption DEF OpInit
<1>2. opList \in Lists /\ Valid(opList) = Valid(opFile)
  BY <1>1, ValidFacts
<1>3. OpTypeOK
  <2>1. operatorsUpdated \in BOOLEAN /\ dropped \in BOOLEAN /\ billerOnline \in BOOLEAN
        /\ allowLimited \in BOOLEAN
    BY <1>1
  <2>2. commands \in 0..MaxCommands /\ lowestLevel \in Player..Owner
    BY <1>1, OpAssumption DEF Player, Owner
  <2>3. access \in [Names -> Levels] /\ \A n \in Names \ here : access[n] = Player
    BY <1>1, LevelFacts
  <2> QED
    BY <1>1, <1>2, <2>1, <2>2, <2>3 DEF OpTypeOK
<1>4. NamesAreChecked
  BY <1>1 DEF NamesAreChecked
<1>5. UnmarkedIsSaved
  BY <1>1, <1>2 DEF UnmarkedIsSaved
<1> QED
  BY <1>3, <1>4, <1>5 DEF OpIInv

\* A command that changes the list.
LEMMA ChangeStep ==
    ASSUME OpIInv, NEW list \in Lists, NEW marked \in BOOLEAN, Change(list, marked),
           marked \/ DOMAIN list = DOMAIN opList
    PROVE  OpIInv'
<1>1. /\ commands < MaxCommands /\ commands' = commands + 1 /\ opList' = list
      /\ operatorsUpdated' = (operatorsUpdated \/ marked)
      /\ dropped' = (dropped \/ (~marked /\ ~operatorsUpdated /\ list # opList))
      /\ UNCHANGED <<opFile, billerOnline, lowestLevel, allowLimited, limitedOwner, here, access, given>>
  BY DEF Change, hostVars, ownVars, playerVars
<1>2. OpTypeOK'
  <2>1. operatorsUpdated' \in BOOLEAN
    BY <1>1 DEF OpIInv, OpTypeOK
  <2>2. dropped' \in BOOLEAN
    BY <1>1 DEF OpIInv, OpTypeOK
  <2>3. billerOnline' \in BOOLEAN /\ allowLimited' \in BOOLEAN
    BY <1>1 DEF OpIInv, OpTypeOK
  <2>4. commands' \in 0..MaxCommands
    BY <1>1, OpAssumption DEF OpIInv, OpTypeOK
  <2> QED
    BY <1>1, <2>1, <2>2, <2>3, <2>4 DEF OpIInv, OpTypeOK
<1>3. NamesAreChecked'
  BY <1>1 DEF OpIInv, NamesAreChecked
<1>4. UnmarkedIsSaved'
  BY <1>1 DEF OpIInv, UnmarkedIsSaved
<1> QED
  BY <1>2, <1>3, <1>4 DEF OpIInv

\* A step that leaves the list and the file alone.
LEMMA PlayersStep ==
    ASSUME OpIInv, UNCHANGED dbVars, billerOnline' \in BOOLEAN, allowLimited' \in BOOLEAN,
           lowestLevel' \in Player..Owner, here' \subseteq Names, given' \subseteq here',
           limitedOwner' \in here' \cup {Nobody}, access' \in [Names -> Levels],
           \A n \in Names \ here' : access'[n] = Player,
           billerOnline' \/ \A n \in here' : access'[n] >= Moderator => n \in given'
    PROVE  OpIInv'
<1>1. UNCHANGED <<opList, opFile, operatorsUpdated, dropped, commands>>
  BY DEF dbVars
<1>2. OpTypeOK'
  <2>1. operatorsUpdated' \in BOOLEAN /\ dropped' \in BOOLEAN
    BY <1>1 DEF OpIInv, OpTypeOK
  <2> QED
    BY <1>1, <2>1 DEF OpIInv, OpTypeOK
<1>3. NamesAreChecked'
  BY DEF NamesAreChecked
<1>4. UnmarkedIsSaved'
  BY <1>1 DEF OpIInv, UnmarkedIsSaved
<1> QED
  BY <1>2, <1>3, <1>4 DEF OpIInv

\* What a player may have become in such a step.
LEMMA AccessStep ==
    ASSUME OpIInv, UNCHANGED <<dbVars, hostVars>>, allowLimited' \in BOOLEAN,
           here' \subseteq Names, given' \subseteq here', limitedOwner' \in here' \cup {Nobody},
           access' \in [Names -> Levels], \A n \in Names \ here' : access'[n] = Player,
           billerOnline \/ \A n \in here' :
               \/ access'[n] \in {Player, Limited}
               \/ access'[n] = access[n] /\ n \in here /\ (n \in given => n \in given')
               \/ n \in given'
    PROVE  OpIInv'
<1>1. billerOnline' = billerOnline /\ lowestLevel' = lowestLevel
  BY DEF hostVars
<1>2. billerOnline' \in BOOLEAN
  BY <1>1 DEF OpIInv, OpTypeOK
<1>3. billerOnline' \/ \A n \in here' : access'[n] >= Moderator => n \in given'
  BY <1>1, LevelFacts DEF OpIInv, NamesAreChecked
<1>4. lowestLevel' \in Player..Owner
  BY <1>1 DEF OpIInv, OpTypeOK
<1> QED
  BY <1>2, <1>3, <1>4, PlayersStep

LEMMA EnterStep ==
    ASSUME OpIInv, NEW n \in Names, Enter(n) PROVE OpIInv'
<1>1. /\ here' = here \cup {n} /\ n \notin here
      /\ access' = [access EXCEPT ![n] = IF TrustedByName(n) THEN opList[n].level ELSE Player]
      /\ UNCHANGED <<dbVars, hostVars, allowLimited, limitedOwner, given>>
  BY DEF Enter, ownVars
<1>2. /\ opList \in [DOMAIN opList -> Entries] /\ DOMAIN opList \subseteq Names
      /\ access \in [Names -> Levels] /\ here \subseteq Names /\ given \subseteq here
      /\ limitedOwner \in here \cup {Nobody}
      /\ \A m \in Names \ here : access[m] = Player
  BY ListFacts DEF OpIInv, OpTypeOK
<1>3. allowLimited' \in BOOLEAN
  BY <1>1 DEF OpIInv, OpTypeOK
<1>4. TrustedByName(n) => opList[n].level \in Levels
  BY <1>2 DEF TrustedByName, Entries
<1>5. access' \in [Names -> Levels] /\ (access'[n] = Player \/ billerOnline)
      /\ \A m \in Names : m # n => access'[m] = access[m]
  BY <1>1, <1>2, <1>4, LevelFacts DEF TrustedByName
<1>6. billerOnline \/ \A m \in here' :
          \/ access'[m] \in {Player, Limited}
          \/ access'[m] = access[m] /\ m \in here /\ (m \in given => m \in given')
          \/ m \in given'
  BY <1>1, <1>2, <1>5
<1>7. here' \subseteq Names /\ given' \subseteq here' /\ limitedOwner' \in here' \cup {Nobody}
  BY <1>1, <1>2
<1>8. \A m \in Names \ here' : access'[m] = Player
  BY <1>1, <1>2, <1>5
<1>9. UNCHANGED <<dbVars, hostVars>>
  BY <1>1
<1> QED
  BY <1>3, <1>5, <1>6, <1>7, <1>8, <1>9, AccessStep

LEMMA LeaveStep ==
    ASSUME OpIInv, NEW n \in Names, Leave(n) PROVE OpIInv'
<1>1. /\ n \in here /\ here' = here \ {n}
      /\ access' = [access EXCEPT ![n] = Player]
      /\ limitedOwner' = IF limitedOwner = n THEN Nobody ELSE limitedOwner
      /\ given' = given \ {n}
      /\ UNCHANGED <<dbVars, hostVars, allowLimited>>
  BY DEF Leave
<1>2. /\ access \in [Names -> Levels] /\ here \subseteq Names /\ given \subseteq here
      /\ limitedOwner \in here \cup {Nobody}
      /\ \A m \in Names \ here : access[m] = Player
  BY DEF OpIInv, OpTypeOK
<1>3. allowLimited' \in BOOLEAN
  BY <1>1 DEF OpIInv, OpTypeOK
<1>4. access' \in [Names -> Levels] /\ access'[n] = Player
      /\ \A m \in Names : m # n => access'[m] = access[m]
  BY <1>1, <1>2, LevelFacts
<1> QED
  BY <1>1, <1>2, <1>3, <1>4, AccessStep

\* Nobody is in the arena, and nobody has any access.
LEMMA ClearedStep ==
    ASSUME OpIInv, ClearArena
    PROVE  /\ here' = {} /\ given' = {} /\ limitedOwner' = Nobody /\ allowLimited' \in BOOLEAN
           /\ access' \in [Names -> Levels] /\ \A n \in Names : access'[n] = Player
<1>1. access' = [n \in Names |-> Player] /\ Player \in Levels
  BY LevelFacts DEF ClearArena
<1>2. allowLimited' \in BOOLEAN
  BY DEF ClearArena
<1> QED
  BY <1>1, <1>2 DEF ClearArena

LEMMA NewArenaStep == ASSUME OpIInv, ChangeArena \/ NewSession PROVE OpIInv'
<1>1. /\ here' = {} /\ given' = {} /\ limitedOwner' = Nobody /\ allowLimited' \in BOOLEAN
      /\ access' \in [Names -> Levels] /\ \A n \in Names : access'[n] = Player
  BY ClearedStep DEF ChangeArena, NewSession
<1>2. billerOnline' \in BOOLEAN
  BY DEF ChangeArena, NewSession, hostVars, OpIInv, OpTypeOK
<1>3. UNCHANGED dbVars /\ lowestLevel' \in Player..Owner
  BY DEF ChangeArena, NewSession, hostVars, OpIInv, OpTypeOK
<1> QED
  BY <1>1, <1>2, <1>3, PlayersStep

\* The commands that change what players may do.
LEMMA AccessCommandStep ==
    ASSUME OpIInv, NEW p \in Names,
           \/ \E word \in Passwords : Login(p, word)
           \/ Logout(p)
           \/ \E on \in BOOLEAN : OwnBot(p, on)
           \/ Own(p)
           \/ \E x \in Names \cup {Nobody} : Give(p, x)
    PROVE  OpIInv'
<1>1. /\ p \in here /\ here' = here /\ UNCHANGED <<dbVars, hostVars>>
  BY DEF Login, LoggedIn, Logout, OwnBot, Own, Give, MayCommand
<1>2. /\ opList \in [DOMAIN opList -> Entries] /\ DOMAIN opList \subseteq Names
      /\ access \in [Names -> Levels] /\ here \subseteq Names /\ given \subseteq here
      /\ limitedOwner \in here \cup {Nobody}
      /\ \A m \in Names \ here : access[m] = Player
  BY ListFacts DEF OpIInv, OpTypeOK
<1>3. \A level \in Levels : /\ Revoked(level) \in [Names -> Levels]
                            /\ \A n \in Names : Revoked(level)[n] \in {Player, access[n]}
  BY <1>2, LevelFacts DEF Revoked
<1>4. CASE \E word \in Passwords : Login(p, word)
  <2>1. PICK word \in Passwords : Login(p, word)
    BY <1>4
  <2>2. /\ p \in DOMAIN opList /\ (billerOnline \/ ~Accepts(opList[p], ""))
        /\ access' = [access EXCEPT ![p] = opList[p].level]
        /\ limitedOwner' = IF limitedOwner = p THEN Nobody ELSE limitedOwner
        /\ given' = IF opList[p].pass = "" THEN given ELSE given \cup {p}
        /\ allowLimited' = allowLimited
    BY <2>1 DEF Login, LoggedIn
  <2>3. billerOnline \/ p \in given'
    BY <2>2 DEF Accepts
  <2>4. opList[p].level \in Levels
    <3>1. p \in DOMAIN opList
      BY <2>2
    <3> QED
      BY <1>2, <3>1 DEF Entries
  <2>5. access' \in [Names -> Levels] /\ \A n \in Names : n # p => access'[n] = access[n]
    BY <1>2, <2>2, <2>4
  <2>6. allowLimited' \in BOOLEAN
    BY <2>2 DEF OpIInv, OpTypeOK
  <2>7. given' \subseteq here' /\ given \subseteq given' /\ limitedOwner' \in here' \cup {Nobody}
    BY <1>1, <1>2, <2>2
  <2> QED
    BY <1>1, <1>2, <2>3, <2>5, <2>6, <2>7, AccessStep
<1>5. CASE Logout(p)
  <2>1. access' = [access EXCEPT ![p] = Player] /\ UNCHANGED <<allowLimited, limitedOwner, given>>
    BY <1>5 DEF Logout, ownVars
  <2>2. access' \in [Names -> Levels] /\ access'[p] = Player
        /\ \A n \in Names : n # p => access'[n] = access[n]
    BY <1>2, <2>1, LevelFacts
  <2>3. allowLimited' \in BOOLEAN
    BY <2>1 DEF OpIInv, OpTypeOK
  <2> QED
    BY <1>1, <1>2, <2>1, <2>2, <2>3, AccessStep
<1>6. CASE \E on \in BOOLEAN : OwnBot(p, on)
  <2>1. /\ UNCHANGED <<limitedOwner, given>> /\ access' \in {access, Revoked(Limited)}
    BY <1>6 DEF OwnBot
  <2>2. allowLimited' \in BOOLEAN
    BY <1>6 DEF OwnBot
  <2>3. access' \in [Names -> Levels] /\ \A n \in Names : access'[n] \in {Player, access[n]}
    BY <1>2, <1>3, <2>1, LevelFacts
  <2> QED
    BY <1>1, <1>2, <2>1, <2>2, <2>3, AccessStep
<1>7. CASE Own(p)
  <2>1. /\ access' = [access EXCEPT ![p] = Limited] /\ limitedOwner' = p
        /\ UNCHANGED <<allowLimited, given>>
    BY <1>7 DEF Own
  <2>2. access' \in [Names -> Levels] /\ access'[p] = Limited
        /\ \A n \in Names : n # p => access'[n] = access[n]
    BY <1>2, <2>1, LevelFacts
  <2>3. allowLimited' \in BOOLEAN
    BY <2>1 DEF OpIInv, OpTypeOK
  <2> QED
    BY <1>1, <1>2, <2>1, <2>2, <2>3, AccessStep
<1>8. CASE \E x \in Names \cup {Nobody} : Give(p, x)
  <2>1. PICK x \in Names \cup {Nobody} : Give(p, x)
    BY <1>8
  <2>2. /\ access' = [n \in Names |-> IF n = x /\ x \in here /\ Revoked(Limited)[x] = Player
                                      THEN Limited ELSE Revoked(Limited)[n]]
        /\ limitedOwner' = Nobody /\ UNCHANGED <<allowLimited, given>>
    BY <2>1 DEF Give
  <2>3. access' \in [Names -> Levels]
    BY <1>3, <2>2, LevelFacts
  <2>4. \A n \in Names : access'[n] \in {Player, Limited, access[n]}
    BY <1>3, <2>2, LevelFacts
  <2>5. \A n \in Names \ here' : access'[n] = Player
    BY <1>1, <1>2, <1>3, <2>2, LevelFacts
  <2>6. allowLimited' \in BOOLEAN
    BY <2>2 DEF OpIInv, OpTypeOK
  <2> QED
    BY <1>1, <1>2, <2>2, <2>3, <2>4, <2>5, <2>6, AccessStep
<1> QED
  BY <1>4, <1>5, <1>6, <1>7, <1>8

LEMMA LimitStep ==
    ASSUME OpIInv, NEW p \in Names, NEW level \in Asked, Limit(p, level) PROVE OpIInv'
<1>1. /\ lowestLevel' = IF level > Owner THEN Owner ELSE level
      /\ UNCHANGED <<dbVars, billerOnline, allowLimited, limitedOwner, here, access, given>>
  BY DEF Limit, ownVars, playerVars
<1>2. level \in 0..6
  BY OpAssumption, LevelFacts
<1>3. lowestLevel' \in Player..Owner
  BY <1>1, <1>2, LevelFacts
<1>4. billerOnline' \in BOOLEAN /\ allowLimited' \in BOOLEAN
  BY <1>1 DEF OpIInv, OpTypeOK
<1>5. /\ access' \in [Names -> Levels] /\ here' \subseteq Names /\ given' \subseteq here'
      /\ limitedOwner' \in here' \cup {Nobody}
      /\ \A m \in Names \ here' : access'[m] = Player
  BY <1>1 DEF OpIInv, OpTypeOK
<1>6. billerOnline' \/ \A n \in here' : access'[n] >= Moderator => n \in given'
  BY <1>1 DEF OpIInv, NamesAreChecked
<1>7. UNCHANGED dbVars
  BY <1>1
<1> QED
  BY <1>3, <1>4, <1>5, <1>6, <1>7, PlayersStep

\* A level that !addop gives is a level.
LEMMA CappedFacts ==
    ASSUME OpTypeOK, NEW p \in Names, NEW level \in Asked, MayCommand(p, SuperModerator)
    PROVE  /\ Capped(p, level) \in Levels /\ access[p] \in SuperModerator..Owner
           /\ access[p] = Owner \/ Capped(p, level) < access[p]
<1>1. level \in 0..6 /\ access[p] \in SuperModerator..Owner
  BY OpAssumption, LevelFacts DEF MayCommand
<1> QED
  BY <1>1, LevelFacts DEF Capped

\* The commands that change the list.
LEMMA AddOrEditStep ==
    ASSUME OpIInv, NEW p \in Names, NEW n \in Names, NEW level \in Asked, NEW pass \in Passwords,
           AddOp(p, n, level, pass) \/ EditOp(p, n, level, pass)
    PROVE  OpIInv'
<1>1. opList \in Lists /\ level \in Levels /\ OpTypeOK
  BY OpAssumption DEF OpIInv, OpTypeOK
<1>2. CASE AddOp(p, n, level, pass)
  <2> DEFINE new == [m \in {n} |-> [level |-> Capped(p, level), pass |-> pass]]
  <2>1. Capped(p, level) \in Levels
    BY <1>1, <1>2, CappedFacts DEF AddOp
  <2>2. new \in [{n} -> Entries] /\ {n} \in SUBSET Names
    BY <2>1 DEF Entries
  <2>3. Over(new, opList) \in Lists
    BY <1>1, <2>2, ListFacts, OverFacts
  <2>4. Change(Over(new, opList), TRUE)
    BY <1>2 DEF AddOp
  <2> QED
    BY <2>3, <2>4, ChangeStep
<1>3. CASE EditOp(p, n, level, pass)
  <2>1. n \in DOMAIN opList /\ [level |-> level, pass |-> pass] \in Entries
    BY <1>1, <1>3 DEF EditOp, Entries
  <2>2. Change([opList EXCEPT ![n] = [level |-> level, pass |-> pass]], FALSE)
    BY <1>3 DEF EditOp
  <2> QED
    BY <1>1, <2>1, <2>2, EditedFacts, ChangeStep
<1> QED
  BY <1>2, <1>3

LEMMA DeleteStep ==
    ASSUME OpIInv, NEW p \in Names, NEW n \in Names, DeleteOp(p, n) PROVE OpIInv'
<1>1. Change(Removed(opList, n), TRUE) /\ opList \in Lists
  BY DEF DeleteOp, OpIInv, OpTypeOK
<1> QED
  BY <1>1, RemovedFacts, ChangeStep

LEMMA SetLoginStep ==
    ASSUME OpIInv, NEW p \in Names, NEW pass \in Passwords, SetLogin(p, pass) PROVE OpIInv'
<1>1. p \in DOMAIN opList /\ Change([opList EXCEPT ![p].pass = pass], FALSE) /\ opList \in Lists
  BY DEF SetLogin, OpIInv, OpTypeOK
<1>2. opList \in [DOMAIN opList -> Entries]
  BY <1>1, ListFacts
<1>3. [opList[p] EXCEPT !.pass = pass] \in Entries
  BY <1>1, <1>2 DEF Entries
<1>4. [opList EXCEPT ![p].pass = pass] = [opList EXCEPT ![p] = [opList[p] EXCEPT !.pass = pass]]
  BY <1>1
<1> QED
  BY <1>1, <1>3, <1>4, EditedFacts, ChangeStep

\* The commands that write and read the file.
LEMMA FileCommandStep ==
    ASSUME OpIInv, NEW p \in Names, Save(p) \/ Read(p) PROVE OpIInv'
<1>1. UNCHANGED <<commands, billerOnline, lowestLevel, allowLimited, limitedOwner, here, access, given>>
  BY DEF Save, Read, hostVars, ownVars, playerVars
<1>2. opList \in Lists /\ opFile \in Lists
  BY DEF OpIInv, OpTypeOK
<1>3. /\ Valid(opFile) \in Lists /\ Valid(Valid(opFile)) = Valid(opFile)
      /\ DOMAIN Valid(opList) \subseteq DOMAIN opList
      /\ \A n \in DOMAIN Valid(opList) : Valid(opList)[n] = opList[n]
  BY <1>2, ValidFacts
<1>4. NamesAreChecked'
  BY <1>1 DEF OpIInv, NamesAreChecked
<1>5. CASE Save(p)
  <2>1. opList' = opList /\ SaveOperators
    BY <1>5 DEF Save
  <2>2. opFile' \in {opFile, opList}
    BY <2>1 DEF SaveOperators
  <2>3. operatorsUpdated' \in BOOLEAN /\ dropped' \in BOOLEAN
    BY <2>1 DEF SaveOperators, OpIInv, OpTypeOK
  <2>4. billerOnline' \in BOOLEAN /\ allowLimited' \in BOOLEAN
    BY <1>1 DEF OpIInv, OpTypeOK
  <2>5. OpTypeOK'
    BY <1>1, <1>2, <2>1, <2>2, <2>3, <2>4 DEF OpIInv, OpTypeOK
  <2>6. UnmarkedIsSaved'
    BY <1>3, <2>1 DEF SaveOperators, OpIInv, UnmarkedIsSaved
  <2> QED
    BY <1>4, <2>5, <2>6 DEF OpIInv
<1>6. CASE Read(p)
  <2>1. /\ opList' = Over(Valid(opFile), opList) /\ opFile' = opFile
        /\ operatorsUpdated' = FALSE /\ dropped' = (dropped \/ operatorsUpdated)
    BY <1>6 DEF Read
  <2>2. opList' \in Lists /\ DOMAIN opList' = DOMAIN Valid(opFile) \cup DOMAIN opList
    BY <1>2, <1>3, <2>1, OverFacts
  <2>3. dropped' \in BOOLEAN
    BY <2>1 DEF OpIInv, OpTypeOK
  <2>4. billerOnline' \in BOOLEAN /\ allowLimited' \in BOOLEAN
    BY <1>1 DEF OpIInv, OpTypeOK
  <2>5. OpTypeOK'
    BY <1>1, <1>2, <2>1, <2>2, <2>3, <2>4 DEF OpIInv, OpTypeOK
  <2>6. ~dropped' => opList' = opList /\ Valid(opFile) = Valid(opList)
    <3> SUFFICES ASSUME ~dropped' PROVE opList' = opList /\ Valid(opFile) = Valid(opList)
      OBVIOUS
    <3>1. Valid(opFile) = Valid(opList)
      BY <2>1 DEF OpIInv, UnmarkedIsSaved
    <3>2. \A n \in DOMAIN Valid(opFile) : n \in DOMAIN opList /\ opList[n] = Valid(opFile)[n]
      BY <1>3, <3>1
    <3> QED
      BY <1>2, <1>3, <2>1, <3>1, <3>2, OverFacts
  <2>7. UnmarkedIsSaved'
    BY <2>1, <2>2, <2>6 DEF UnmarkedIsSaved
  <2> QED
    BY <1>4, <2>5, <2>7 DEF OpIInv
<1> QED
  BY <1>5, <1>6

LEMMA RestartStep == ASSUME OpIInv, Restart PROVE OpIInv'
<1>1. /\ here' = {} /\ given' = {} /\ limitedOwner' = Nobody /\ allowLimited' \in BOOLEAN
      /\ access' \in [Names -> Levels] /\ \A n \in Names : access'[n] = Player
  BY ClearedStep DEF Restart
<1>2. opFile' \in Lists /\ opList' = Valid(opFile')
  BY DEF Restart, OpIInv, OpTypeOK
<1>3. opList' \in Lists /\ Valid(opList') = Valid(opFile')
  BY <1>2, ValidFacts
<1>4. operatorsUpdated' = FALSE /\ dropped' = FALSE /\ commands' = commands
      /\ lowestLevel' \in Player..Owner
  BY LevelFacts DEF Restart
<1>5. billerOnline' \in BOOLEAN
  BY DEF Restart
<1>6. OpTypeOK'
  <2>1. operatorsUpdated' \in BOOLEAN /\ dropped' \in BOOLEAN
    BY <1>4
  <2> QED
    BY <1>1, <1>2, <1>3, <1>4, <1>5, <2>1 DEF OpIInv, OpTypeOK
<1>7. NamesAreChecked'
  BY <1>1 DEF NamesAreChecked
<1>8. UnmarkedIsSaved'
  BY <1>2, <1>3, <1>4 DEF UnmarkedIsSaved
<1> QED
  BY <1>6, <1>7, <1>8 DEF OpIInv

LEMMA OpNextInv == OpIInv /\ [OpNext]_opVars => OpIInv'
<1> SUFFICES ASSUME OpIInv, [OpNext]_opVars PROVE OpIInv'
  OBVIOUS
<1>1. ASSUME NEW n \in Names, Enter(n) \/ Leave(n) PROVE OpIInv'
  BY <1>1, EnterStep, LeaveStep
<1>2. ASSUME NEW p \in Names, Command(p) PROVE OpIInv'
  <2>1. CASE \/ \E word \in Passwords : Login(p, word)
             \/ Logout(p)
             \/ \E on \in BOOLEAN : OwnBot(p, on)
             \/ Own(p)
             \/ \E x \in Names \cup {Nobody} : Give(p, x)
    BY <2>1, AccessCommandStep
  <2>2. CASE \E level \in Asked : Limit(p, level)
    BY <2>2, LimitStep
  <2>3. ASSUME NEW n \in Names, NEW pass \in Passwords, NEW level \in Asked,
               AddOp(p, n, level, pass) \/ EditOp(p, n, level, pass)
        PROVE  OpIInv'
    BY <2>3, AddOrEditStep
  <2>4. CASE \E n \in Names : DeleteOp(p, n)
    BY <2>4, DeleteStep
  <2>5. CASE \E pass \in Passwords : SetLogin(p, pass)
    BY <2>5, SetLoginStep
  <2>6. CASE Save(p) \/ Read(p)
    BY <2>6, FileCommandStep
  <2> QED
    BY <1>2, <2>1, <2>2, <2>3, <2>4, <2>5, <2>6 DEF Command
<1>3. CASE ChangeArena \/ NewSession
  BY <1>3, NewArenaStep
<1>4. CASE Restart
  BY <1>4, RestartStep
<1>5. CASE UNCHANGED opVars
  <2>1. /\ UNCHANGED dbVars
        /\ UNCHANGED <<billerOnline, lowestLevel, allowLimited, limitedOwner, here, access, given>>
    BY <1>5 DEF opVars, hostVars, ownVars, playerVars
  <2>2. billerOnline' \in BOOLEAN /\ allowLimited' \in BOOLEAN
    BY <2>1 DEF OpIInv, OpTypeOK
  <2> QED
    BY <2>1, <2>2, PlayersStep DEF OpIInv, OpTypeOK, NamesAreChecked
<1> QED
  BY <1>1, <1>2, <1>3, <1>4, <1>5 DEF OpNext
-----------------------------------------------------------------------------
\* A step after which every level was held before raises nobody.
LEMMA NoNewLevel ==
    ASSUME OpTypeOK, Held' \subseteq Held \cup {Player, Limited} PROVE NotRaised
<1>1. /\ opList \in [DOMAIN opList -> Entries] /\ opFile \in [DOMAIN opFile -> Entries]
      /\ access \in [Names -> Levels] /\ here \subseteq Names
  BY ListFacts DEF OpTypeOK
<1>2. Held \subseteq 0..6
  BY <1>1, LevelFacts DEF Held, Entries
<1> QED
  BY <1>2, LevelFacts DEF NotRaised

\* What the list holds changes for one operator, to no more than p has.
LEMMA NoHigherLevel ==
    ASSUME OpTypeOK, NEW p \in here, NEW top \in Levels,
           access[p] \in Levels, access[p] = Owner \/ top <= access[p],
           UNCHANGED <<opFile, here, access>>,
           \A n \in DOMAIN opList' : \/ opList'[n].level = top
                                     \/ n \in DOMAIN opList /\ opList'[n].level = opList[n].level
    PROVE  NotRaised
<1>1. Held' \subseteq Held \cup {top}
  BY DEF Held
<1>2. access[p] \in Held
  BY DEF Held
<1>3. /\ opList \in [DOMAIN opList -> Entries] /\ opFile \in [DOMAIN opFile -> Entries]
      /\ access \in [Names -> Levels] /\ here \subseteq Names
  BY ListFacts DEF OpTypeOK
<1>4. Held \subseteq 0..6
  BY <1>3, LevelFacts DEF Held, Entries
<1>5. SUFFICES ASSUME NEW level \in Held', level > Limited, \A other \in Held : other < level
               PROVE  access[p] = Owner
  BY DEF NotRaised
<1>6. level \notin Held
  <2>1. level \in Held => level \in Int /\ level < level
    BY <1>4, <1>5
  <2> QED
    BY <2>1
<1>7. level = top /\ access[p] < level
  BY <1>1, <1>2, <1>5, <1>6
<1> QED
  BY <1>7, LevelFacts

LEMMA NobodyRaised == ASSUME OpTypeOK, [OpNext]_opVars PROVE NotRaised
<1>1. /\ opList \in Lists /\ opFile \in Lists /\ access \in [Names -> Levels] /\ here \subseteq Names
  BY DEF OpTypeOK
<1>2. /\ DOMAIN Valid(opFile) \subseteq DOMAIN opFile
      /\ \A n \in DOMAIN Valid(opFile) : Valid(opFile)[n] = opFile[n]
      /\ DOMAIN Valid(opList) \subseteq DOMAIN opList
      /\ \A n \in DOMAIN Valid(opList) : Valid(opList)[n] = opList[n]
      /\ Valid(opFile) \in Lists
  BY <1>1, ValidFacts
<1>3. ASSUME UNCHANGED <<opList, opFile>>, here' \subseteq Names,
             \A n \in here' : \/ access'[n] \in Held \cup {Player, Limited}
      PROVE  NotRaised
  <2>1. Held' \subseteq Held \cup {Player, Limited}
    BY <1>3 DEF Held
  <2> QED
    BY <2>1, NoNewLevel
<1>4. ASSUME NEW n \in Names, Enter(n) PROVE NotRaised
  <2>1. /\ UNCHANGED <<opList, opFile>> /\ here' = here \cup {n}
        /\ access' = [access EXCEPT ![n] = IF TrustedByName(n) THEN opList[n].level ELSE Player]
    BY <1>4 DEF Enter, dbVars
  <2>2. \A m \in here' : access'[m] \in Held \cup {Player, Limited}
    BY <1>1, <2>1 DEF Held, TrustedByName
  <2> QED
    BY <1>1, <1>3, <2>1, <2>2
<1>5. ASSUME NEW n \in Names, Leave(n) PROVE NotRaised
  <2>1. /\ UNCHANGED <<opList, opFile>> /\ here' = here \ {n}
        /\ access' = [access EXCEPT ![n] = Player]
    BY <1>5 DEF Leave, dbVars
  <2>2. \A m \in here' : access'[m] \in Held \cup {Player, Limited}
    BY <1>1, <2>1 DEF Held
  <2> QED
    BY <1>1, <1>3, <2>1, <2>2
<1>6. CASE ChangeArena \/ NewSession
  <2>1. UNCHANGED <<opList, opFile>> /\ here' = {}
    BY <1>6 DEF ChangeArena, NewSession, ClearArena, dbVars
  <2> QED
    BY <1>3, <2>1
<1>7. CASE Restart
  <2>1. here' = {} /\ opList' = Valid(opFile') /\ opFile' \in {opFile, opList}
    BY <1>7 DEF Restart, ClearArena
  <2>2. \A n \in DOMAIN opList' : n \in DOMAIN opFile' /\ opList'[n] = opFile'[n]
    BY <1>2, <2>1
  <2>3. Held' \subseteq Held \cup {Player, Limited}
    BY <2>1, <2>2 DEF Held
  <2> QED
    BY <2>3, NoNewLevel
<1>8. ASSUME NEW p \in Names, Command(p) PROVE NotRaised
  <2>1. \A level \in Levels : \A n \in Names : Revoked(level)[n] \in {Player, access[n]}
    BY <1>1 DEF Revoked
  <2>2. ASSUME NEW word \in Passwords, Login(p, word) PROVE NotRaised
    <3>1. /\ UNCHANGED <<opList, opFile, here>> /\ p \in DOMAIN opList
          /\ access' = [access EXCEPT ![p] = opList[p].level]
      BY <2>2 DEF Login, LoggedIn, dbVars
    <3>2. \A m \in here' : access'[m] \in Held \cup {Player, Limited}
      BY <1>1, <3>1 DEF Held
    <3> QED
      BY <1>1, <1>3, <3>1, <3>2
  <2>3. CASE Logout(p) \/ Own(p)
    <3>1. /\ UNCHANGED <<opList, opFile, here>>
          /\ access' = [access EXCEPT ![p] = Player] \/ access' = [access EXCEPT ![p] = Limited]
      BY <2>3 DEF Logout, Own, dbVars
    <3>2. \A m \in here' : access'[m] \in Held \cup {Player, Limited}
      BY <1>1, <3>1 DEF Held
    <3> QED
      BY <1>1, <1>3, <3>1, <3>2
  <2>4. ASSUME NEW on \in BOOLEAN, OwnBot(p, on) PROVE NotRaised
    <3>1. UNCHANGED <<opList, opFile, here>> /\ access' \in {access, Revoked(Limited)}
      BY <2>4 DEF OwnBot, dbVars
    <3>2. \A m \in here' : access'[m] \in Held \cup {Player, Limited}
      BY <1>1, <2>1, <3>1, LevelFacts DEF Held
    <3> QED
      BY <1>1, <1>3, <3>1, <3>2
  <2>5. ASSUME NEW x \in Names \cup {Nobody}, Give(p, x) PROVE NotRaised
    <3>1. /\ UNCHANGED <<opList, opFile, here>>
          /\ \A n \in Names : access'[n] \in {Limited, Revoked(Limited)[n]}
      BY <2>5 DEF Give, dbVars
    <3>2. \A m \in here' : access'[m] \in Held \cup {Player, Limited}
      BY <1>1, <2>1, <3>1, LevelFacts DEF Held
    <3> QED
      BY <1>1, <1>3, <3>1, <3>2
  <2>6. ASSUME NEW level \in Asked, Limit(p, level) PROVE NotRaised
    <3>1. UNCHANGED <<opList, opFile, here, access>>
      BY <2>6 DEF Limit, dbVars, playerVars
    <3> QED
      BY <3>1, NoNewLevel DEF Held
  <2>7. ASSUME NEW n \in Names, NEW pass \in Passwords, NEW level \in Asked, AddOp(p, n, level, pass)
        PROVE  NotRaised
    <3> DEFINE new == [m \in {n} |-> [level |-> Capped(p, level), pass |-> pass]]
    <3>1. /\ Capped(p, level) \in Levels /\ access[p] \in SuperModerator..Owner /\ p \in here
          /\ access[p] = Owner \/ Capped(p, level) < access[p]
      BY <2>7, CappedFacts DEF AddOp, MayCommand
    <3>2. opList' = Over(new, opList) /\ UNCHANGED <<opFile, here, access>>
      BY <2>7 DEF AddOp, Change, playerVars
    <3>3. \A m \in DOMAIN opList' : \/ opList'[m].level = Capped(p, level)
                                    \/ m \in DOMAIN opList /\ opList'[m].level = opList[m].level
      BY <3>2 DEF Over
    <3>4. access[p] = Owner \/ Capped(p, level) <= access[p]
      BY <3>1, LevelFacts
    <3>5. access[p] \in Levels
      BY <3>1, LevelFacts
    <3> QED
      BY <3>1, <3>2, <3>3, <3>4, <3>5, NoHigherLevel
  <2>8. ASSUME NEW n \in Names, NEW pass \in Passwords, NEW level \in Asked, EditOp(p, n, level, pass)
        PROVE  NotRaised
    <3>1. /\ access[p] \in SuperModerator..Owner /\ p \in here /\ MayEdit(p, n, level)
          /\ opList' = [opList EXCEPT ![n] = [level |-> level, pass |-> pass]] /\ n \in DOMAIN opList
          /\ UNCHANGED <<opFile, here, access>>
      BY <2>8 DEF EditOp, MayCommand, Change, playerVars
    <3>2. level \in Levels /\ access[p] \in Levels /\ (access[p] = Owner \/ level <= access[p])
      BY <3>1, OpAssumption, LevelFacts DEF MayEdit
    <3>3. \A m \in DOMAIN opList' : \/ opList'[m].level = level
                                    \/ m \in DOMAIN opList /\ opList'[m].level = opList[m].level
      BY <1>1, <3>1, ListFacts
    <3> QED
      BY <3>1, <3>2, <3>3, NoHigherLevel
  <2>9. ASSUME NEW n \in Names, DeleteOp(p, n) PROVE NotRaised
    <3>1. opList' = Removed(opList, n) /\ UNCHANGED <<opFile, here, access>>
      BY <2>9 DEF DeleteOp, Change, playerVars
    <3>2. Held' \subseteq Held \cup {Player, Limited}
      BY <3>1 DEF Held, Removed
    <3> QED
      BY <3>2, NoNewLevel
  <2>10. ASSUME NEW pass \in Passwords, SetLogin(p, pass) PROVE NotRaised
    <3>1. /\ opList' = [opList EXCEPT ![p].pass = pass] /\ p \in DOMAIN opList
          /\ UNCHANGED <<opFile, here, access>>
      BY <2>10 DEF SetLogin, Change, playerVars
    <3>2. opList \in [DOMAIN opList -> Entries]
      BY <1>1, ListFacts
    <3>3. DOMAIN opList' = DOMAIN opList /\ \A m \in DOMAIN opList : opList'[m].level = opList[m].level
      BY <3>1, <3>2 DEF Entries
    <3>4. Held' \subseteq Held \cup {Player, Limited}
      BY <3>1, <3>3 DEF Held
    <3> QED
      BY <3>4, NoNewLevel
  <2>11. CASE Save(p)
    <3>1. opList' = opList /\ opFile' \in {opFile, opList} /\ UNCHANGED <<here, access>>
      BY <2>11 DEF Save, SaveOperators, playerVars
    <3>2. Held' \subseteq Held \cup {Player, Limited}
      BY <3>1 DEF Held
    <3> QED
      BY <3>2, NoNewLevel
  <2>12. CASE Read(p)
    <3>1. opList' = Over(Valid(opFile), opList) /\ UNCHANGED <<opFile, here, access>>
      BY <2>12 DEF Read, playerVars
    <3>2. \A n \in DOMAIN opList' :
              \/ n \in DOMAIN opFile /\ opList'[n] = opFile[n]
              \/ n \in DOMAIN opList /\ opList'[n] = opList[n]
      <4> DEFINE read == Over(Valid(opFile), opList)
      <4>0. /\ DOMAIN read = DOMAIN Valid(opFile) \cup DOMAIN opList
            /\ \A n \in DOMAIN Valid(opFile) : read[n] = Valid(opFile)[n]
            /\ \A n \in DOMAIN opList \ DOMAIN Valid(opFile) : read[n] = opList[n]
        <5>1. Valid(opFile) \in Lists /\ opList \in Lists
          BY <1>1, <1>2
        <5> QED
          BY <5>1, OverFacts
      <4>1. /\ DOMAIN opList' = DOMAIN Valid(opFile) \cup DOMAIN opList
            /\ \A n \in DOMAIN Valid(opFile) : opList'[n] = Valid(opFile)[n]
            /\ \A n \in DOMAIN opList \ DOMAIN Valid(opFile) : opList'[n] = opList[n]
        BY <3>1, <4>0
      <4> QED
        BY <1>2, <4>1
    <3>3. Held' \subseteq Held \cup {Player, Limited}
      BY <3>1, <3>2 DEF Held
    <3> QED
      BY <3>3, NoNewLevel
  <2> QED
    BY <1>8, <2>2, <2>3, <2>4, <2>5, <2>6, <2>7, <2>8, <2>9, <2>10, <2>11, <2>12 DEF Command
<1>9. CASE UNCHANGED opVars
  <2>1. UNCHANGED <<opList, opFile, here, access>>
    BY <1>9 DEF opVars, dbVars, playerVars
  <2> QED
    BY <2>1, NoNewLevel DEF Held
<1> QED
  BY <1>4, <1>5, <1>6, <1>7, <1>8, <1>9 DEF OpNext

\* The strengthened invariant of the operators.
THEOREM OpInvariance == OpSpec => []OpIInv
<1> QED
  BY OpInitInv, OpNextInv, PTL DEF OpSpec

\* The list, the file and the levels are well formed, and who is not in the
\* arena has no access and no claim to the bot.
THEOREM OpTypeCorrect == OpSpec => []OpTypeOK
<1>1. OpIInv => OpTypeOK
  BY DEF OpIInv
<1> QED
  BY <1>1, OpInvariance, PTL

\* With the biller down nobody has the powers of an operator by his name
\* alone (the guard of handlePlayerEntering and of !login).
THEOREM NobodyTrustedUnchecked == OpSpec => []NamesAreChecked
<1>1. OpIInv => NamesAreChecked
  BY DEF OpIInv
<1> QED
  BY <1>1, OpInvariance, PTL

\* The mark that makes saveOperators() write is missing only where nothing
\* would be written, or where setAccess, setPassword or !read left it out.
THEOREM NothingUnsaved == OpSpec => []UnmarkedIsSaved
<1>1. OpIInv => UnmarkedIsSaved
  BY DEF OpIInv
<1> QED
  BY <1>1, OpInvariance, PTL

\* No commands of operators below Owner raise the highest level there is: the
\* checks of !addop and !editop, with copies of levels in `access` and the
\* file that !read brings back.
THEOREM TopIsTop == OpSpec => TopNeverRises
<1>1. OpTypeOK /\ [OpNext]_opVars => [NotRaised]_opVars
  BY NobodyRaised
<1>2. OpSpec => [][NotRaised]_opVars
  BY <1>1, OpTypeCorrect, PTL DEF OpSpec
<1> QED
  BY <1>2 DEF TopNeverRises, NotRaised
=============================================================================
