----------------------------- MODULE RequestProofs ----------------------------
(***************************************************************************)
(* Answers that reach another thread than the one that asked: lookups and   *)
(* cooldowns of the plugin, for any number of users, threads, commands and  *)
(* answers, and requests to Discord, for any number of messages and of io   *)
(* threads.                                                                *)
(***************************************************************************)
EXTENDS Lookups, Rest, SequenceTheorems, TLAPS

\* No thread has counted more answers than there were.
CountedBefore == \A t \in Thread : seen[t] <= answers

\* The inductive invariant.
IInv == TypeOK /\ CountedBefore /\ FreshAnswers
-----------------------------------------------------------------------------
\* A sequence without one of its entries is a sequence of the same things.
LEMMA RemoveAtType ==
    ASSUME NEW S, NEW s \in Seq(S), NEW i \in DOMAIN s
    PROVE  RemoveAt(s, i) \in Seq(S)
<1>1. Len(s) \in Nat /\ i \in 1..Len(s)
  BY LenProperties
<1>2. SubSeq(s, 1, i - 1) \in Seq(S)
  <2>1. \A j \in 1..(i - 1) : s[j] \in S
    BY <1>1, ElementOfSeq
  <2> QED
    BY <1>1, <2>1, SubSeqProperties
<1>3. SubSeq(s, i + 1, Len(s)) \in Seq(S)
  <2>1. \A j \in (i + 1)..Len(s) : s[j] \in S
    BY <1>1, ElementOfSeq
  <2> QED
    BY <1>1, <2>1, SubSeqProperties
<1> QED
  BY <1>2, <1>3, ConcatProperties DEF RemoveAt

LEMMA FrontType ==
    ASSUME NEW S, NEW s \in Seq(S), s # <<>>
    PROVE  Front(s) \in Seq(S)
<1>1. Len(s) \in Nat /\ Len(s) # 0
  BY LenProperties, EmptySeq
<1>2. \A j \in 1..(Len(s) - 1) : s[j] \in S
  BY <1>1, ElementOfSeq
<1> QED
  BY <1>1, <1>2, SubSeqProperties DEF Front

LEMMA InitInv == Init => IInv
<1> SUFFICES ASSUME Init PROVE IInv
  OBVIOUS
<1>1. PICK u \in User : TRUE
  BY LookupsAssumption
<1>2. [user |-> u, cmd |-> "find"] \in Command
  BY DEF Command
<1>3. (CHOOSE c \in Command : TRUE) \in Command
  BY <1>2
<1>4. TypeOK
  BY <1>3, LookupsAssumption, EmptySeq DEF Init, TypeOK, Nothing, Where
<1> QED
  BY <1>4 DEF Init, IInv, CountedBefore, FreshAnswers, Nothing, Asking

LEMMA GiveStep ==
    ASSUME IInv, NEW c \in Command, Give(c), alive' = alive PROVE IInv'
<1>1. /\ commands < MaxCommands /\ commands' = commands + 1
      /\ about' = [about EXCEPT ![commands + 1] = c]
      /\ pc' = [pc EXCEPT ![commands + 1] = "check"]
      /\ UNCHANGED <<cooldown, find, answers, at, seen, got>>
  BY DEF Give, Goto
<1>2. TypeOK'
  <2>1. commands' \in 0..MaxCommands
    BY <1>1, LookupsAssumption DEF IInv, TypeOK
  <2>2. pc' \in [Thread -> Where]
    BY <1>1 DEF IInv, TypeOK, Where
  <2>3. about' \in [Thread -> Command]
    BY <1>1 DEF IInv, TypeOK
  <2> QED
    BY <1>1, <2>1, <2>2, <2>3 DEF IInv, TypeOK
<1>3. CountedBefore' /\ FreshAnswers'
  BY <1>1 DEF IInv, TypeOK, CountedBefore, FreshAnswers, Asking
<1> QED
  BY <1>2, <1>3 DEF IInv

\* A round of a loop leads to where its thread is told to go, or goes on.
LEMMA RoundStep ==
    ASSUME IInv, NEW t \in Thread, NEW where, where.found \in Where \ Asking,
           where.none \in Where \ Asking, pc[t] \notin Asking, Round(t, where),
           UNCHANGED <<cooldown, find, answers, about, seen, got, commands, alive>>
    PROVE  IInv'
<1>1. \/ pc' = pc
      \/ pc' = [pc EXCEPT ![t] = where.found]
      \/ pc' = [pc EXCEPT ![t] = where.none]
  BY DEF Round, Goto
<1>2. at' \in [Thread -> Nat \ {0}]
  <2>1. at \in [Thread -> Nat \ {0}]
    BY DEF IInv, TypeOK
  <2>2. at' = at \/ at' = [at EXCEPT ![t] = 1] \/ at' = [at EXCEPT ![t] = @ + 1]
    BY DEF Round
  <2> QED
    BY <2>1, <2>2
<1>3. TypeOK'
  BY <1>1, <1>2 DEF IInv, TypeOK
<1>4. \A u \in Thread : pc'[u] \in Asking => pc'[u] = pc[u]
  BY <1>1 DEF IInv, TypeOK
<1>5. CountedBefore' /\ FreshAnswers'
  BY <1>4 DEF IInv, CountedBefore, FreshAnswers, Asking
<1> QED
  BY <1>3, <1>5 DEF IInv

\* The other steps that have to do with cooldowns.
LEMMA CooldownStep ==
    ASSUME IInv, NEW t \in Thread, EnterCooldown(t) \/ Wake(t), alive' = alive PROVE IInv'
<1>1. /\ pc' = [pc EXCEPT ![t] = "sleep"] \/ pc' = [pc EXCEPT ![t] = "seek"]
      /\ at' = at \/ at' = [at EXCEPT ![t] = 1]
      /\ cooldown' = cooldown \/ cooldown' = Append(cooldown, about[t])
      /\ UNCHANGED <<find, answers, about, seen, got, commands>>
  BY DEF EnterCooldown, Wake, Goto
<1>2. cooldown' \in Seq(Command)
  <2>1. cooldown \in Seq(Command) /\ about[t] \in Command
    BY DEF IInv, TypeOK
  <2> QED
    BY <1>1, <2>1, AppendProperties
<1>3. TypeOK'
  <2>1. pc' \in [Thread -> Where]
    BY <1>1 DEF IInv, TypeOK, Where
  <2>2. at' \in [Thread -> Nat \ {0}]
    BY <1>1 DEF IInv, TypeOK
  <2> QED
    BY <1>1, <1>2, <2>1, <2>2 DEF IInv, TypeOK
<1>4. CountedBefore' /\ FreshAnswers'
  BY <1>1 DEF IInv, TypeOK, CountedBefore, FreshAnswers, Asking
<1> QED
  BY <1>3, <1>4 DEF IInv

LEMMA EraseStep == ASSUME IInv, NEW t \in Thread, Erase(t) PROVE IInv'
<1>1. /\ pc' = [pc EXCEPT ![t] = "over"]
      /\ UNCHANGED <<find, answers, about, at, seen, got, commands>>
  BY DEF Erase, Goto
<1>2. cooldown \in Seq(Command) /\ at[t] \in Nat \ {0}
  BY DEF IInv, TypeOK
<1>3. cooldown' \in Seq(Command) /\ alive' \in BOOLEAN
  <2>1. CASE ~Past(t) /\ cooldown' = RemoveAt(cooldown, at[t]) /\ UNCHANGED alive
    <3>1. at[t] \in DOMAIN cooldown
      BY <1>2, <2>1, LenProperties DEF Past
    <3> QED
      BY <1>2, <2>1, <3>1, RemoveAtType DEF IInv, TypeOK
  <2>2. CASE cooldown # <<>> /\ cooldown' = Front(cooldown) /\ UNCHANGED alive
    BY <1>2, <2>2, FrontType DEF IInv, TypeOK
  <2>3. CASE alive' = FALSE /\ UNCHANGED cooldown
    BY <1>2, <2>3
  <2> QED
    BY <2>1, <2>2, <2>3 DEF Erase
<1>4. TypeOK'
  BY <1>1, <1>3 DEF IInv, TypeOK, Where
<1>5. CountedBefore' /\ FreshAnswers'
  BY <1>1 DEF IInv, TypeOK, CountedBefore, FreshAnswers, Asking
<1> QED
  BY <1>4, <1>5 DEF IInv

\* A lookup goes on only when no answer is kept: what is kept later came later.
LEMMA LookStep ==
    ASSUME IInv, NEW t \in Thread, Look(t), alive' = alive PROVE IInv'
<1>1. UNCHANGED <<cooldown, find, answers, about, at, got, commands>>
  BY DEF Look
<1>2. CASE find = Nothing
  <2>1. seen' = [seen EXCEPT ![t] = answers] /\ pc' = [pc EXCEPT ![t] = "ask"]
    BY <1>2 DEF Look, Goto
  <2>2. TypeOK'
    BY <1>1, <2>1 DEF IInv, TypeOK, Where, Asking
  <2>3. CountedBefore'
    BY <1>1, <2>1, LookupsAssumption DEF IInv, TypeOK, CountedBefore
  <2>4. FreshAnswers'
    BY <1>1, <1>2, <2>1 DEF IInv, TypeOK, FreshAnswers
  <2> QED
    BY <2>2, <2>3, <2>4 DEF IInv
<1>3. CASE find # Nothing
  <2>1. seen' = seen /\ pc' = [pc EXCEPT ![t] = "start"]
    BY <1>3 DEF Look, Goto
  <2> QED
    BY <1>1, <2>1 DEF IInv, TypeOK, CountedBefore, FreshAnswers, Where, Asking
<1> QED
  BY <1>2, <1>3

\* A thread that locates what it wants in an answer was at work before.
LEMMA ReportStep ==
    ASSUME IInv, NEW t \in Thread,
           \/ (SendFind(t) \/ Compare(t) \/ Locate(t) \/ Clear(t)) /\ alive' = alive
           \/ Cut(t)
    PROVE  IInv'
<1>1. /\ UNCHANGED <<cooldown, answers, about, at, seen, commands>>
      /\ alive' \in BOOLEAN
      /\ find' = find \/ find' = Nothing
  BY DEF SendFind, Compare, Locate, Clear, Cut, IInv, TypeOK
<1>2. /\ pc[t] \in Asking
      /\ \/ pc' = pc /\ got' = got
         \/ \E w \in {"wait", "locate", "clear", "start"} :
                pc' = [pc EXCEPT ![t] = w] /\ got' = got
         \/ /\ pc' = [pc EXCEPT ![t] = "cut"] /\ got' = [got EXCEPT ![t] = find]
            /\ find' = find
  BY DEF SendFind, Compare, Locate, Clear, Cut, Goto, Asking
<1>3. TypeOK'
  <2>1. pc' \in [Thread -> Where]
    BY <1>2 DEF IInv, TypeOK, Where, Asking
  <2>2. got' \in [Thread -> 0..MaxAnswers]
    BY <1>2 DEF IInv, TypeOK
  <2>3. find' \in 0..MaxAnswers
    BY <1>1, LookupsAssumption DEF IInv, TypeOK, Nothing
  <2> QED
    BY <1>1, <2>1, <2>2, <2>3 DEF IInv, TypeOK
<1>4. CountedBefore'
  BY <1>1 DEF IInv, CountedBefore
<1>5. ASSUME NEW u \in Thread
      PROVE  /\ pc'[u] \in Asking /\ find' # Nothing => find' > seen'[u]
             /\ pc'[u] = "cut" /\ got'[u] # Nothing => got'[u] > seen'[u]
  <2>1. /\ pc[u] \in Asking /\ find # Nothing => find > seen[u]
        /\ pc[u] = "cut" /\ got[u] # Nothing => got[u] > seen[u]
    BY DEF IInv, FreshAnswers
  <2>2. pc'[u] \in Asking => pc[u] \in Asking
    BY <1>2 DEF IInv, TypeOK, Asking
  <2>3. pc'[u] = "cut" => got'[u] = find \/ (pc[u] = "cut" /\ got'[u] = got[u])
    <3>1. pc \in [Thread -> Where] /\ got \in [Thread -> 0..MaxAnswers]
      BY DEF IInv, TypeOK
    <3> QED
      BY <1>2, <3>1
  <2>4. pc'[u] = "cut" => pc[u] \in Asking
    BY <2>2 DEF Asking
  <2> QED
    BY <1>1, <2>1, <2>2, <2>3, <2>4
<1> QED
  BY <1>3, <1>4, <1>5 DEF IInv, FreshAnswers

LEMMA AnswerStep == ASSUME IInv, GotAnswer, alive' = alive PROVE IInv'
<1>1. /\ answers \in Nat /\ answers < MaxAnswers /\ answers' = answers + 1 /\ find' = answers + 1
      /\ seen \in [Thread -> Nat]
      /\ UNCHANGED <<cooldown, pc, about, at, seen, got, commands>>
  BY LookupsAssumption DEF GotAnswer, threads, IInv, TypeOK
<1>2. TypeOK'
  BY <1>1, LookupsAssumption DEF IInv, TypeOK
<1>3. CountedBefore' /\ FreshAnswers'
  BY <1>1 DEF IInv, CountedBefore, FreshAnswers
<1> QED
  BY <1>2, <1>3 DEF IInv

LEMMA ThreadStep == ASSUME IInv, NEW t \in Thread, Step(t) PROVE IInv'
<1>1. CASE Erase(t)
  BY <1>1, EraseStep
<1>2. CASE Cut(t)
  BY <1>2, ReportStep
<1>3. CASE Steady(t) /\ UNCHANGED alive
  <2>1. CASE Check(t)
    <3> DEFINE where == [found |-> "over",
                         none |-> IF about[t].cmd = "find" THEN "look" ELSE "start"]
    <3>1. where.found \in Where \ Asking /\ where.none \in Where \ Asking /\ pc[t] \notin Asking
      BY <2>1 DEF Check, Where, Asking
    <3> QED
      BY <1>3, <2>1, <3>1, RoundStep DEF Check
  <2>2. CASE StartCooldown(t)
    <3> DEFINE where == [found |-> "sleep", none |-> "push"]
    <3>1. where.found \in Where \ Asking /\ where.none \in Where \ Asking /\ pc[t] \notin Asking
      BY <2>2 DEF StartCooldown, Where, Asking
    <3> QED
      BY <1>3, <2>2, <3>1, RoundStep DEF StartCooldown
  <2>3. CASE Seek(t)
    <3> DEFINE where == [found |-> "erase", none |-> "over"]
    <3>1. where.found \in Where \ Asking /\ where.none \in Where \ Asking /\ pc[t] \notin Asking
      BY <2>3 DEF Seek, Where, Asking
    <3> QED
      BY <1>3, <2>3, <3>1, RoundStep DEF Seek
  <2>4. CASE EnterCooldown(t) \/ Wake(t)
    BY <1>3, <2>4, CooldownStep
  <2>5. CASE Look(t)
    BY <1>3, <2>5, LookStep
  <2>6. CASE SendFind(t) \/ Compare(t) \/ Locate(t) \/ Clear(t)
    BY <1>3, <2>6, ReportStep
  <2> QED
    BY <1>3, <2>1, <2>2, <2>3, <2>4, <2>5, <2>6 DEF Steady
<1> QED
  BY <1>1, <1>2, <1>3 DEF Step

LEMMA StepInv == IInv /\ [Next]_vars => IInv'
<1> SUFFICES ASSUME IInv, [Next]_vars PROVE IInv'
  OBVIOUS
<1>1. CASE UNCHANGED vars
  BY <1>1 DEF vars, threads, IInv, TypeOK, CountedBefore, FreshAnswers
<1>2. CASE alive' = alive /\ \E c \in Command : Give(c)
  BY <1>2, GiveStep
<1>3. CASE \E t \in Thread : Step(t)
  BY <1>3, ThreadStep
<1>4. CASE alive' = alive /\ GotAnswer
  BY <1>4, AnswerStep
<1> QED
  BY <1>1, <1>2, <1>3, <1>4 DEF Next

\* The invariant holds in every behaviour.
THEOREM Invariance == Spec => []IInv
<1> QED
  BY InitInv, StepInv, PTL DEF Spec

\* Every variable keeps its type.
THEOREM TypeCorrect == Spec => []TypeOK
<1>1. IInv => TypeOK
  BY DEF IInv
<1> QED
  BY <1>1, Invariance, PTL

\* --find never reports what was kept before it looked, however many lookups
\* share the one place where answers are kept, clear it and read it as others do.
THEOREM AnswersAreFresh == Spec => []FreshAnswers
<1>1. IInv => FreshAnswers
  BY DEF IInv
<1> QED
  BY <1>1, Invariance, PTL
-----------------------------------------------------------------------------
\* Requests to Discord

Pending(c) == Work(c) \in Queued \/ \E t \in Threads : Performs(t, c)
Unasked(c) == ~Pending(c) /\ accepted[c] = 0

\* The thread of message d has not handed the continuation over yet.
WithCaller(d) ==
    \/ actor[d].at \in {"start", "lock"}
    \/ actor[d].at \in Inquiring /\ actor[d].why # "get"
ToRun(d) == \/ WithCaller(d) \/ task[d] = "held" \/ Continuation(d) \in Queued
            \/ \E a \in Actors : Runs(a, d)

Jobs == {Work(c) : c \in Calls} \cup {Continuation(d) : d \in Dms}
Answer == [at : {"idle", "start", "lock", "run", "answer", "end"} \cup Inquiring \cup Serving,
           call : Calls \cup {None},
           why : {"", "then", "failed", "take", "schedule", "post", "get", "cell", "own"},
           value : States,
           ptr : {"none", "queue", "thread", "gone"}]

\* What thread a may be doing, and for which call.
ActorTyped(a) ==
    /\ actor[a].at \notin {"start", "idle", "end"} => actor[a].call \in Calls
    /\ actor[a].at \in Inquiring /\ actor[a].why = "get" =>
          \E d \in Dms : actor[a].call = Send(d)
    /\ actor[a].at = "run" => \E d \in Dms : actor[a].call = Open(d)
    /\ a \in Dms =>
          /\ actor[a].at \notin Serving \cup {"idle"}
          /\ actor[a].at \in Inquiring =>
                actor[a].why \in {"then", "failed", "take", "schedule", "post", "get"}
          /\ actor[a].at \in {"test", "unlink", "move"} => actor[a].why = "take"
          /\ actor[a].at # "start" /\ WithCaller(a) => actor[a].call = Open(a)
    /\ a \in Threads =>
          /\ actor[a].at \notin {"start", "lock", "end"}
          /\ actor[a].at \in {"see", "read", "use"} => actor[a].why = "get"
          /\ actor[a].at \notin {"test", "unlink", "move"}
          /\ actor[a].at \in {"load", "store"} => actor[a].value # "unset"
          /\ actor[a].at = "store" => actor[a].why \in {"cell", "own"}
          /\ actor[a].at = "store" /\ actor[a].why = "cell" => \E d \in Dms : actor[a].call = Open(d)

ActorsTyped == actor \in [Actors -> Answer] /\ \A a \in Actors : ActorTyped(a)

RestTyped ==
    /\ RestTypeOK
    /\ queue \in Seq(Jobs)
    /\ accepted \in [Calls -> 0..1]
    /\ crashed \in BOOLEAN
    /\ ActorsTyped

Distinct == \A i, j \in DOMAIN queue : queue[i] = queue[j] => i = j

\* A call is in one place.
CallsOnce ==
    /\ Distinct
    /\ \A t \in Threads, c \in Calls : Performs(t, c) => Work(c) \notin Queued
    /\ \A t, u \in Threads, c \in Calls : Performs(t, c) /\ Performs(u, c) => t = u

NotRepeated ==
    /\ \A c \in Calls : Work(c) \in Queued => accepted[c] = 0
    /\ \A t \in Threads : actor[t].at \in {"perform", "request", "again"} => accepted[actor[t].call] = 0
    /\ \A d \in Dms : actor[d].at = "start" => Unasked(Open(d))

\* A continuation is in one place, and what it sends is not sent before.
RunsOnceAt(d) ==
    /\ WithCaller(d) => task[d] = "none"
    /\ WithCaller(d) \/ task[d] = "held" =>
          Continuation(d) \notin Queued /\ \A a \in Actors : ~Runs(a, d)
    /\ Continuation(d) \in Queued => \A a \in Actors : ~Runs(a, d)
    /\ \A a, b \in Actors : Runs(a, d) /\ Runs(b, d) => a = b
    /\ ToRun(d) => Unasked(Send(d))
RunsOnce == \A d \in Dms : RunsOnceAt(d)

\* Where the answer to the first call of d is.
AnswerAt(d) ==
    /\ WithCaller(d) => cell[d] = "unset"
    /\ task[d] = "held" /\ cell[d] # "unset" =>
          \E t \in Threads : Performs(t, Open(d)) /\ actor[t].at = "ready"
    /\ \A t \in Threads : Performs(t, Open(d)) =>
          /\ actor[t].at = "store" /\ actor[t].why = "cell" => task[d] = "held"
          /\ actor[t].at = "ready" /\ own[Open(d)] = "unset" =>
                task[d] = "held" /\ cell[d] # "unset"
          /\ actor[t].at = "drop" /\ own[Open(d)] = "unset" => task[d] = "posted"
    /\ ToRunNow(d) /\ cell[d] = "unset" => Late(d) \/ PostedBehind(d)
    /\ outer[d] = "lost" => Late(d) /\ ~Pending(Open(d)) /\ ~WithCaller(d)
AnswerKept == \A d \in Dms : AnswerAt(d)

\* How the first call of d is handed over: as long as future and promise know
\* each other the promise is there, the future is empty and no continuation is
\* registered; when they part under the caller's hands the future has the state.
HandedAt(d) ==
    /\ linked[Open(d)] => Pending(Open(d)) /\ kept[Open(d)] = "unset" /\ task[d] = "none"
    /\ own[Open(d)] # "unset" => Work(Open(d)) \notin Queued
    /\ kept[Open(d)] # "unset" => own[Open(d)] # "unset"
    /\ task[d] = "held" => kept[Open(d)] = "unset"
    /\ actor[d].at = "start" => kept[Open(d)] = "unset" /\ own[Open(d)] = "unset"
    /\ WithCaller(d) /\ actor[d].at \notin {"start", "move"} /\ ~linked[Open(d)] =>
          kept[Open(d)] # "unset"
    /\ WithCaller(d) /\ actor[d].why \in {"failed", "take", "post"} => own[Open(d)] # "unset"
    /\ actor[d].at = "use" /\ actor[d].why = "post" => actor[d].ptr = "thread"
Handed == \A d \in Dms : HandedAt(d)

RestIInv == RestTyped /\ CallsOnce /\ NotRepeated /\ RunsOnce /\ AnswerKept /\ Handed
-----------------------------------------------------------------------------
\* Calls and jobs are told apart.
LEMMA CallFacts ==
    /\ \A d \in Dms : Open(d) \in Calls /\ Send(d) \in Calls
    /\ \A d \in Dms : /\ Open(d)[1] = d /\ Open(d)[2] = "open"
                      /\ Send(d)[1] = d /\ Send(d)[2] = "send"
    /\ \A c \in Calls : \E d \in Dms : c = Open(d) \/ c = Send(d)
    /\ \A d, e \in Dms : Open(d) # Send(e)
    /\ \A d, e \in Dms : (Open(d) = Open(e) => d = e) /\ (Send(d) = Send(e) => d = e)
    /\ \A c, e \in Calls : Work(c) = Work(e) => c = e
    /\ \A d, e \in Dms : Continuation(d) = Continuation(e) => d = e
    /\ \A c \in Calls, d \in Dms : Work(c) # Continuation(d)
    /\ \A c \in Calls : Work(c) \in Jobs /\ Work(c).kind = "call" /\ Work(c).call = c
    /\ \A d \in Dms : /\ Continuation(d) \in Jobs /\ Continuation(d).kind = "continuation"
                      /\ Continuation(d).call = Open(d)
    /\ \A job \in Jobs : \/ \E c \in Calls : job = Work(c)
                         \/ \E d \in Dms : job = Continuation(d)
    /\ \A c \in Calls : Path(c) \in Paths
<1>1. /\ \A d \in Dms : Open(d) \in Calls /\ Send(d) \in Calls
      /\ \A d \in Dms : /\ Open(d)[1] = d /\ Open(d)[2] = "open"
                        /\ Send(d)[1] = d /\ Send(d)[2] = "send"
      /\ \A c \in Calls : \E d \in Dms : c = Open(d) \/ c = Send(d)
  BY DEF Open, Send, Calls
<1>2. \A d, e \in Dms : (Open(d) = Open(e) => d = e) /\ (Send(d) = Send(e) => d = e) /\ Open(d) # Send(e)
  BY <1>1
<1>3. /\ \A c \in Calls : Work(c) \in Jobs /\ Work(c).kind = "call" /\ Work(c).call = c
      /\ \A d \in Dms : /\ Continuation(d) \in Jobs /\ Continuation(d).kind = "continuation"
                        /\ Continuation(d).call = Open(d)
      /\ \A job \in Jobs : \/ \E c \in Calls : job = Work(c)
                           \/ \E d \in Dms : job = Continuation(d)
  BY DEF Work, Continuation, Jobs
<1>4. /\ \A c, e \in Calls : Work(c) = Work(e) => c = e
      /\ \A d, e \in Dms : Continuation(d) = Continuation(e) => d = e
      /\ \A c \in Calls, d \in Dms : Work(c) # Continuation(d)
  BY <1>2, <1>3
<1>5. \A c \in Calls : Path(c) \in Paths
  BY DEF Path, Paths, Calls
<1> QED
  BY <1>1, <1>2, <1>3, <1>4, <1>5

\* A job more at the end of the queue.
LEMMA PostedJob ==
    ASSUME queue \in Seq(Jobs), NEW job \in Jobs, queue' = Append(queue, job)
    PROVE  /\ queue' \in Seq(Jobs)
           /\ Queued' = Queued \cup {job}
           /\ Distinct /\ job \notin Queued => Distinct'
<1>1. /\ queue' \in Seq(Jobs) /\ Len(queue') = Len(queue) + 1 /\ queue'[Len(queue) + 1] = job
      /\ \A i \in 1..Len(queue) : queue'[i] = queue[i]
      /\ Len(queue) \in Nat
  BY AppendProperties, LenProperties
<1>2. DOMAIN queue = 1..Len(queue) /\ DOMAIN queue' = 1..(Len(queue) + 1)
  BY <1>1, LenProperties
<1>3. DOMAIN queue' = DOMAIN queue \cup {Len(queue) + 1} /\ Len(queue) + 1 \notin DOMAIN queue
  BY <1>1, <1>2
<1>4. Queued' = Queued \cup {job}
  BY <1>1, <1>2, <1>3 DEF Queued
<1>5. ASSUME Distinct, job \notin Queued PROVE Distinct'
  <2>1. \A i \in DOMAIN queue : queue[i] # job
    BY <1>5 DEF Queued
  <2> QED
    BY <1>1, <1>2, <1>3, <1>5, <2>1 DEF Distinct
<1> QED
  BY <1>1, <1>4, <1>5

\* The first job is taken off the queue.
LEMMA TakenJob ==
    ASSUME queue \in Seq(Jobs), queue # <<>>, queue' = Tail(queue)
    PROVE  /\ Head(queue) \in Jobs /\ Head(queue) \in Queued
           /\ queue' \in Seq(Jobs)
           /\ Queued' \subseteq Queued
           /\ Queued \subseteq Queued' \cup {Head(queue)}
           /\ Distinct => Distinct' /\ Head(queue) \notin Queued'
<1>1. /\ Head(queue) \in Jobs /\ queue' \in Seq(Jobs) /\ Len(queue') = Len(queue) - 1
      /\ \A i \in 1..Len(queue') : queue'[i] = queue[i + 1]
      /\ Head(queue) = queue[1]
      /\ Len(queue) \in Nat \ {0}
  BY HeadTailProperties, LenProperties, EmptySeq
<1>2. DOMAIN queue = 1..Len(queue) /\ DOMAIN queue' = 1..(Len(queue) - 1)
  BY <1>1, LenProperties
<1>3. \A i \in DOMAIN queue' : i + 1 \in DOMAIN queue /\ queue'[i] = queue[i + 1] /\ i + 1 # 1
  BY <1>1, <1>2
<1>4. 1 \in DOMAIN queue /\ Head(queue) \in Queued
  BY <1>1, <1>2 DEF Queued
<1>5. Queued' \subseteq Queued
  BY <1>3 DEF Queued
<1>7. Queued \subseteq Queued' \cup {Head(queue)}
  <2>1. \A i \in DOMAIN queue : i # 1 => i - 1 \in DOMAIN queue' /\ queue'[i - 1] = queue[i]
    BY <1>1, <1>2
  <2> QED
    BY <1>1, <2>1 DEF Queued
<1>6. ASSUME Distinct PROVE Distinct' /\ Head(queue) \notin Queued'
  <2>1. Distinct'
    BY <1>2, <1>3, <1>6 DEF Distinct
  <2>2. \A i \in DOMAIN queue' : queue'[i] # queue[1]
    BY <1>3, <1>4, <1>6 DEF Distinct
  <2> QED
    BY <1>1, <2>1, <2>2 DEF Queued
<1> QED
  BY <1>1, <1>4, <1>5, <1>6, <1>7

LEMMA SameQueue == UNCHANGED queue => (Queued' = Queued) /\ (Distinct' <=> Distinct)
BY DEF Queued, Distinct

LEMMA RestInitInv == RestInit => RestIInv
<1> SUFFICES ASSUME RestInit PROVE RestIInv
  OBVIOUS
<1>1. /\ queue = <<>> /\ holder = [b \in Paths |-> None] /\ crashed = FALSE
      /\ linked = [c \in Calls |-> FALSE]
      /\ own = [c \in Calls |-> "unset"] /\ kept = [c \in Calls |-> "unset"]
      /\ task = [d \in Dms |-> "none"] /\ cell = [d \in Dms |-> "unset"]
      /\ outer = [d \in Dms |-> "unset"] /\ accepted = [c \in Calls |-> 0]
  BY DEF RestInit
<1>d. accepted = [c \in Calls |-> 0] /\ crashed = FALSE
  BY DEF RestInit
<1>2. queue \in Seq(Jobs) /\ Queued = {} /\ Distinct
  BY <1>1, EmptySeq DEF Queued, Distinct
<1>a. actor = [a \in Actors |-> Doing(IF a \in Dms THEN "start" ELSE "idle")]
  BY DEF RestInit
<1>b. \A a \in Actors : /\ actor[a].at = (IF a \in Dms THEN "start" ELSE "idle")
                        /\ actor[a].call = None /\ actor[a].why = ""
                        /\ actor[a] \in Answer
  BY <1>a DEF Doing, Answer, States
<1>3. \A d \in Dms : actor[d].at = "start" /\ actor[d].call = None /\ actor[d].why = ""
  BY <1>b DEF Actors
<1>4. \A t \in Threads : actor[t].at = "idle"
  BY <1>b, RestAssumption DEF Actors
<1>c. actor \in [Actors -> Answer]
  BY <1>a, <1>b
<1>5. ActorsTyped
  BY <1>c, <1>3, <1>4 DEF ActorsTyped, ActorTyped, Actors, Serving, Inquiring, WithCaller
<1>6. RestTyped
  <2>1. RestTypeOK
    BY <1>1, <1>4, RestAssumption DEF RestTypeOK, States
  <2>2. accepted \in [Calls -> 0..1]
    BY <1>d
  <2>3. crashed \in BOOLEAN
    BY <1>d
  <2> QED
    BY <1>2, <1>5, <2>1, <2>2, <2>3 DEF RestTyped
<1>7. CallsOnce
  BY <1>2, <1>4 DEF CallsOnce, Performs, Serving
<1>8. NotRepeated
  BY <1>1, <1>2, <1>4, CallFacts DEF NotRepeated, Unasked, Pending, Performs, Serving
<1>9. RunsOnce
  BY <1>1, <1>2, <1>3, <1>4, CallFacts DEF RunsOnce, RunsOnceAt, Unasked, Pending, Performs, Serving, Runs, Actors
<1>10. AnswerKept
  BY <1>1, <1>2, <1>3, <1>4, <1>b, CallFacts DEF AnswerKept, AnswerAt, Performs, Serving, ToRunNow, Runs
<1>11. Handed
  BY <1>1, <1>2, <1>3, CallFacts DEF Handed, HandedAt
<1> QED
  BY <1>6, <1>7, <1>8, <1>9, <1>10, <1>11 DEF RestIInv

\* Thread a alone has changed what it is doing.
LEMMA ActorsStep ==
    ASSUME ActorsTyped, NEW a \in Actors, actor' \in [Actors -> Answer],
           \A b \in Actors \ {a} : actor'[b] = actor[b], ActorTyped(a)'
    PROVE  ActorsTyped'
<1>1. \A b \in Actors \ {a} : ActorTyped(b)'
  BY DEF ActorsTyped, ActorTyped, WithCaller
<1> QED
  BY <1>1 DEF ActorsTyped

\* A step that accepts nothing, and after which less is queued or to be asked,
\* repeats no call.
LEMMA NotRepeatedStays ==
    ASSUME RestIInv, accepted' = accepted,
           \A c \in Calls : Work(c) \in Queued' => Work(c) \in Queued,
           \A c \in Calls : Unasked(c) => Unasked(c)',
           \A d \in Dms : actor'[d].at = "start" => actor[d].at = "start",
           \A t \in Threads : actor'[t].at \in {"perform", "request", "again"}
                              => accepted'[actor'[t].call] = 0
    PROVE  NotRepeated'
<1>1. NotRepeated
  BY DEF RestIInv
<1>2. \A c \in Calls : Work(c) \in Queued' => accepted'[c] = 0
  BY <1>1 DEF NotRepeated
<1>3. \A d \in Dms : actor'[d].at = "start" => Unasked(Open(d))'
  BY <1>1, CallFacts DEF NotRepeated
<1> QED
  BY <1>2, <1>3 DEF NotRepeated

\* The hand-over of a first call is not affected by a step that leaves the
\* states and the caller alone and keeps the call where it was or takes it on.
LEMMA HandedStays ==
    ASSUME RestIInv, UNCHANGED <<own, kept>>,
           NEW d \in Dms,
           linked'[Open(d)] = linked[Open(d)],
           task'[d] = task[d] \/ (task[d] = "held" /\ task'[d] = "posted"),
           Pending(Open(d)) => Pending(Open(d))',
           Work(Open(d)) \in Queued' => Work(Open(d)) \in Queued,
           actor'[d] = actor[d]
    PROVE  HandedAt(d)'
<1>1. HandedAt(d) /\ (WithCaller(d)' <=> WithCaller(d))
  BY DEF RestIInv, Handed, WithCaller
<1> QED
  BY <1>1 DEF HandedAt

\* Nor by what a thread does that neither takes, performs nor drops a call.
LEMMA HandedQuiet ==
    ASSUME RestIInv, NEW a \in Actors,
           \A b \in Actors \ {a} : actor'[b] = actor[b],
           actor[a].at \notin Serving, actor'[a].at \notin Serving,
           UNCHANGED <<queue, own, kept, task>>,
           \A d \in Dms : d # a => linked'[Open(d)] = linked[Open(d)],
           a \in Dms => HandedAt(a)'
    PROVE  Handed'
<1>1. Queued' = Queued
  BY SameQueue
<1>2. \A t \in Threads, c \in Calls : Performs(t, c)' <=> Performs(t, c)
  BY DEF Performs, Actors
<1>3. \A c \in Calls : Pending(c)' <=> Pending(c)
  BY <1>1, <1>2 DEF Pending
<1>4. ASSUME NEW d \in Dms, d # a PROVE HandedAt(d)'
  <2>1. actor'[d] = actor[d] /\ linked'[Open(d)] = linked[Open(d)] /\ Open(d) \in Calls
    BY <1>4, CallFacts DEF Actors
  <2>2. Pending(Open(d)) => Pending(Open(d))'
    BY <1>3, <2>1
  <2> QED
    BY <1>1, <2>1, <2>2, HandedStays
<1> QED
  BY <1>4 DEF Handed

\* A step of thread a that touches neither the queue nor a continuation.
LEMMA QuietStep ==
    ASSUME RestIInv, NEW a \in Actors,
           \A b \in Actors \ {a} : actor'[b] = actor[b],
           actor[a].at \notin Serving, actor'[a].at \notin Serving,
           ActorsTyped',
           \A d \in Dms : Runs(a, d)' => Runs(a, d),
           a \in Dms => actor'[a].at # "start" /\ (WithCaller(a)' => WithCaller(a)),
           UNCHANGED <<queue, holder, own, kept, task, cell, accepted, crashed>>,
           linked' \in [Calls -> BOOLEAN],
           outer' \in [Dms -> States \cup {"lost"}],
           \A d \in Dms : outer'[d] = "lost" => outer[d] = "lost",
           Handed'
    PROVE  RestIInv'
<1>1. Queued' = Queued /\ (Distinct' <=> Distinct)
  BY SameQueue
<1>2. \A t \in Threads, c \in Calls : Performs(t, c)' <=> Performs(t, c)
  BY DEF Performs, Actors
<1>3. \A d \in Dms : WithCaller(d)' => WithCaller(d)
  BY DEF WithCaller, Actors
<1>4. \A b \in Actors, d \in Dms : Runs(b, d)' => Runs(b, d)
  BY DEF Runs
<1>5. \A c \in Calls : (Pending(c)' <=> Pending(c)) /\ (Unasked(c)' <=> Unasked(c))
  BY <1>1, <1>2 DEF Pending, Unasked
<1>6. \A d \in Dms : ToRun(d)' => ToRun(d)
  BY <1>1, <1>3, <1>4 DEF ToRun
<1>7. \A d \in Dms : actor'[d].at = "start" => actor[d].at = "start"
  BY DEF Actors
<1>8. \A t \in Threads : actor'[t].at \in Serving => actor'[t] = actor[t]
  BY DEF Actors
<1>9. RestTyped'
  <2>1. RestTypeOK'
    <3>1. \A t \in Threads : actor'[t] = actor[t] \/
             (actor[t].at \notin {"request", "again"} /\ actor'[t].at \notin {"request", "again"})
      BY DEF Actors, Serving
    <3> QED
      BY <3>1 DEF RestIInv, RestTyped, RestTypeOK
  <2>2. queue' \in Seq(Jobs) /\ accepted' \in [Calls -> 0..1]
    BY DEF RestIInv, RestTyped
  <2>3. crashed' \in BOOLEAN
    BY DEF RestIInv, RestTyped
  <2> QED
    BY <2>1, <2>2, <2>3 DEF RestTyped
<1>10. CallsOnce'
  BY <1>1, <1>2 DEF RestIInv, CallsOnce
<1>11. NotRepeated'
  <2>1. \A t \in Threads : actor'[t].at \in {"perform", "request", "again"} => accepted'[actor'[t].call] = 0
    BY <1>8 DEF RestIInv, NotRepeated, Serving
  <2> QED
    BY <1>1, <1>5, <1>7, <2>1, NotRepeatedStays
<1>12. RunsOnce'
  BY <1>1, <1>3, <1>4, <1>5, <1>6, CallFacts DEF RestIInv, RunsOnce, RunsOnceAt
<1>13. AnswerKept'
  <2> SUFFICES ASSUME NEW d \in Dms PROVE AnswerAt(d)'
    BY DEF AnswerKept
  <2>1. Open(d) \in Calls
    BY CallFacts
  <2>2. \A t \in Threads : Performs(t, Open(d)) => actor'[t] = actor[t]
    BY DEF Performs, Actors
  <2>3. (Late(d)' <=> Late(d)) /\ (PostedBehind(d)' <=> PostedBehind(d))
    BY DEF Late, PostedBehind
  <2>4. ToRunNow(d)' => ToRunNow(d)
    BY <1>1, <1>4 DEF ToRunNow
  <2>5. AnswerAt(d)
    BY DEF RestIInv, AnswerKept
  <2> QED
    BY <1>2, <1>3, <1>5, <2>1, <2>2, <2>3, <2>4, <2>5 DEF AnswerAt
<1> QED
  BY <1>9, <1>10, <1>11, <1>12, <1>13 DEF RestIInv

\* What is known of a thread that asks for the state of a future.
LEMMA AskerFacts ==
    ASSUME RestIInv, NEW a \in Actors, actor[a].at \in Inquiring
    PROVE  /\ actor \in [Actors -> Answer] /\ actor[a] \in Answer /\ actor[a].call \in Calls
           /\ actor[a].at \notin Serving
           /\ a \in Threads => actor[a].why = "get"
           /\ actor[a].why = "get" => /\ \E d \in Dms : actor[a].call = Send(d)
                                     /\ ~WithCaller(a)
                                     /\ actor[a].at \in {"see", "read", "use"}
           /\ actor[a].why # "get" =>
                 /\ a \in Dms /\ WithCaller(a)
                 /\ actor[a].call = Open(a) /\ actor[a].call[1] = a
                 /\ actor[a].why \in {"then", "failed", "take", "schedule", "post"}
           /\ actor[a].at \in {"test", "unlink", "move"} => actor[a].why = "take"
<1>1. /\ actor \in [Actors -> Answer] /\ ActorTyped(a)
      /\ actor[a].at \notin {"start", "idle", "end", "lock", "run", "answer"} \cup Serving
  BY DEF RestIInv, RestTyped, ActorsTyped, Inquiring, Serving
<1>2. actor[a] \in Answer /\ actor[a].call \in Calls
  BY <1>1 DEF ActorTyped
<1>3. a \in Threads => actor[a].why = "get"
  BY <1>1 DEF ActorTyped, Inquiring
<1>4. CASE actor[a].why = "get"
  BY <1>1, <1>2, <1>3, <1>4, RestAssumption DEF ActorTyped, WithCaller, Inquiring, Actors
<1>5. CASE actor[a].why # "get"
  <2>1. a \in Dms /\ WithCaller(a)
    BY <1>3, <1>5 DEF Actors, WithCaller
  <2>2. actor[a].call = Open(a)
    BY <1>1, <2>1 DEF ActorTyped
  <2>3. actor[a].why \in {"then", "failed", "take", "schedule", "post"}
    BY <1>1, <1>5, <2>1 DEF ActorTyped
  <2>4. actor[a].at \in {"test", "unlink", "move"} => actor[a].why = "take"
    BY <1>1, <2>1 DEF ActorTyped
  <2> QED
    BY <1>1, <1>2, <1>3, <1>5, <2>1, <2>2, <2>3, <2>4, CallFacts
<1> QED
  BY <1>4, <1>5

\* Thread a goes on asking: nothing moves but what it is at, and then() may
\* cut the promise off.
LEMMA AskStep ==
    ASSUME RestIInv, NEW a \in Actors, actor[a].at \in Inquiring,
           actor' \in [Actors -> Answer], \A b \in Actors \ {a} : actor'[b] = actor[b],
           actor'[a].call = actor[a].call,
           actor'[a].at \in Inquiring \cup {"lock"},
           actor'[a].why = "get" <=> actor[a].why = "get",
           actor[a].why = "get" => actor'[a].at \in {"see", "read", "use"},
           actor'[a].at \in Inquiring =>
              actor'[a].why \in {"then", "failed", "take", "schedule", "post", "get"},
           actor'[a].at \in {"test", "unlink", "move"} => actor'[a].why = "take",
           UNCHANGED <<queue, holder, own, kept, task, cell, outer, accepted, crashed>>,
           linked' \in [Calls -> BOOLEAN],
           \A d \in Dms : d # a => linked'[Open(d)] = linked[Open(d)],
           a \in Dms =>
              /\ linked'[Open(a)] => linked[Open(a)]
              /\ actor[a].why # "get" =>
                    /\ ~linked'[Open(a)] /\ actor'[a].at # "move" => kept[Open(a)] # "unset"
                    /\ actor'[a].why \in {"failed", "take", "post"} => own[Open(a)] # "unset"
                    /\ actor'[a].at = "use" /\ actor'[a].why = "post" => actor'[a].ptr = "thread"
    PROVE  RestIInv'
<1>1. /\ actor[a].call \in Calls /\ actor[a].at \notin Serving
      /\ a \in Threads => actor[a].why = "get"
      /\ actor[a].why = "get" => (\E d \in Dms : actor[a].call = Send(d)) /\ ~WithCaller(a)
      /\ actor[a].why # "get" => a \in Dms /\ WithCaller(a) /\ actor[a].call = Open(a)
  BY AskerFacts
<1>2. actor'[a].at \notin Serving \cup {"start", "idle", "end", "run", "answer"}
  BY DEF Inquiring, Serving
<1>3. ActorsTyped'
  <2>1. ActorTyped(a)'
    <3>1. CASE actor[a].why = "get"
      BY <1>1, <1>2, <3>1, RestAssumption DEF ActorTyped, WithCaller, Inquiring, Actors
    <3>2. CASE actor[a].why # "get"
      BY <1>1, <1>2, <3>2, RestAssumption DEF ActorTyped, WithCaller, Inquiring, Actors
    <3> QED
      BY <3>1, <3>2
  <2> QED
    BY <2>1, ActorsStep DEF RestIInv, RestTyped
<1>4. WithCaller(a)' => actor[a].why # "get"
  BY <1>2 DEF WithCaller, Inquiring
<1>5. a \in Dms => actor'[a].at # "start" /\ (WithCaller(a)' => WithCaller(a))
  BY <1>1, <1>2, <1>4
<1>6. \A d \in Dms : Runs(a, d)' => Runs(a, d)
  BY <1>2 DEF Runs
<1>7. ASSUME a \in Dms PROVE HandedAt(a)'
  <2>1. HandedAt(a) /\ Open(a) \in Calls
    BY <1>7, CallFacts DEF RestIInv, Handed
  <2>2. Queued' = Queued
    BY SameQueue
  <2>3. \A t \in Threads, c \in Calls : Performs(t, c)' <=> Performs(t, c)
    BY <1>1, <1>2 DEF Performs, Actors
  <2>4. Pending(Open(a))' <=> Pending(Open(a))
    BY <2>1, <2>2, <2>3 DEF Pending
  <2>5. actor'[a].at = "use" /\ actor'[a].why = "post" => actor[a].why # "get"
    OBVIOUS
  <2> QED
    BY <1>2, <1>4, <1>7, <2>1, <2>2, <2>4, <2>5 DEF HandedAt
<1>8. Handed'
  BY <1>1, <1>2, <1>7, HandedQuiet
<1>9. outer' \in [Dms -> States \cup {"lost"}]
  BY DEF RestIInv, RestTyped, RestTypeOK
<1> QED
  BY <1>1, <1>2, <1>3, <1>5, <1>6, <1>8, <1>9, QuietStep

\* What the caller's own registers say of the hand-over.
LEMMA AskerHanded ==
    ASSUME RestIInv, NEW a \in Actors, actor[a].at \in Inquiring, actor[a].why # "get"
    PROVE  /\ a \in Dms /\ actor[a].call = Open(a) /\ Open(a) \in Calls
           /\ linked[Open(a)] => Pending(Open(a))
           /\ own[Open(a)] # "unset" => Work(Open(a)) \notin Queued
           /\ kept[Open(a)] # "unset" => own[Open(a)] # "unset"
           /\ ~linked[Open(a)] /\ actor[a].at # "move" => kept[Open(a)] # "unset"
           /\ actor[a].why \in {"failed", "take", "post"} => own[Open(a)] # "unset"
           /\ actor[a].at = "use" /\ actor[a].why = "post" => actor[a].ptr = "thread"
<1>1. a \in Dms /\ actor[a].call = Open(a) /\ Open(a) \in Calls /\ WithCaller(a)
  BY AskerFacts, CallFacts
<1>2. HandedAt(a)
  BY <1>1 DEF RestIInv, Handed
<1>3. actor[a].at # "start"
  BY DEF Inquiring
<1> QED
  BY <1>1, <1>2, <1>3 DEF HandedAt

\* There is a promise: state() goes on to follow the pointer to it.
LEMMA SeeLinkedStep ==
    ASSUME RestIInv, NEW a \in Actors, actor[a].at = "see", Move(a, "read"),
           UNCHANGED <<queue, holder, futureVars, outer, accepted, crashed>>
    PROVE  RestIInv'
<1>1. actor[a].at \in Inquiring
  BY DEF Inquiring
<1>2. /\ actor \in [Actors -> Answer] /\ actor[a] \in Answer
      /\ actor[a].why # "get" => actor[a].why \in {"then", "failed", "take", "schedule", "post"}
  BY <1>1, AskerFacts
<1>3. /\ actor' = [actor EXCEPT ![a].at = "read"]
      /\ UNCHANGED <<queue, holder, linked, own, kept, task, cell, outer, accepted, crashed>>
  BY DEF Move, futureVars
<1>4. /\ actor' \in [Actors -> Answer] /\ \A b \in Actors \ {a} : actor'[b] = actor[b]
      /\ actor'[a].at = "read" /\ actor'[a].call = actor[a].call /\ actor'[a].why = actor[a].why
  BY <1>2, <1>3 DEF Answer, Inquiring
<1>5. linked' \in [Calls -> BOOLEAN] /\ linked' = linked
  BY <1>3 DEF RestIInv, RestTyped, RestTypeOK
<1>6. actor'[a].at \in Inquiring
  BY <1>4 DEF Inquiring
<1>7. actor[a].why # "get" =>
         /\ ~linked[Open(a)] => kept[Open(a)] # "unset"
         /\ actor[a].why \in {"failed", "take", "post"} => own[Open(a)] # "unset"
  BY <1>1, AskerHanded
<1> QED
  BY <1>1, <1>2, <1>3, <1>4, <1>5, <1>6, <1>7, AskStep

\* state() returns a pointer to the promise's state.
LEMMA ReadLinkedStep ==
    ASSUME RestIInv, NEW a \in Actors, actor[a].at = "read", linked[actor[a].call],
           actor' = [actor EXCEPT ![a].at = IF actor[a].why = "take" THEN "test" ELSE "use",
                                  ![a].ptr = Home(actor[a].call)],
           UNCHANGED <<queue, holder, futureVars, outer, accepted, crashed>>
    PROVE  RestIInv'
<1>1. actor[a].at \in Inquiring
  BY DEF Inquiring
<1>2. /\ actor \in [Actors -> Answer] /\ actor[a] \in Answer
      /\ actor[a].why # "get" => actor[a].why \in {"then", "failed", "take", "schedule", "post"}
  BY <1>1, AskerFacts
<1>3. UNCHANGED <<queue, holder, linked, own, kept, task, cell, outer, accepted, crashed>>
  BY DEF futureVars
<1>4. Home(actor[a].call) \in {"queue", "thread", "gone"}
  BY DEF Home
<1>5. /\ actor' \in [Actors -> Answer] /\ \A b \in Actors \ {a} : actor'[b] = actor[b]
      /\ actor'[a].at = (IF actor[a].why = "take" THEN "test" ELSE "use")
      /\ actor'[a].call = actor[a].call /\ actor'[a].why = actor[a].why
      /\ actor'[a].ptr = Home(actor[a].call)
  BY <1>2, <1>4 DEF Answer, Inquiring
<1>6. linked' \in [Calls -> BOOLEAN] /\ linked' = linked
  BY <1>3 DEF RestIInv, RestTyped, RestTypeOK
<1>7. actor'[a].at \in Inquiring
  BY <1>5 DEF Inquiring
<1>8. ASSUME actor[a].why # "get"
      PROVE  /\ ~linked[Open(a)] => kept[Open(a)] # "unset"
             /\ actor[a].why \in {"failed", "take", "post"} => own[Open(a)] # "unset"
             /\ actor[a].why = "post" => actor'[a].ptr = "thread"
  <2>1. /\ a \in Dms /\ actor[a].call = Open(a) /\ Open(a) \in Calls
        /\ linked[Open(a)] => Pending(Open(a))
        /\ own[Open(a)] # "unset" => Work(Open(a)) \notin Queued
        /\ ~linked[Open(a)] => kept[Open(a)] # "unset"
        /\ actor[a].why \in {"failed", "take", "post"} => own[Open(a)] # "unset"
    BY <1>1, <1>8, AskerHanded
  <2>2. actor[a].why = "post" => Home(Open(a)) = "thread"
    BY <2>1 DEF Home, Pending
  <2> QED
    BY <1>5, <2>1, <2>2
<1> QED
  BY <1>1, <1>2, <1>3, <1>5, <1>6, <1>7, <1>8, AskStep

\* get_available_state() tests the promise and cuts it off.
LEMMA UnlinkStep ==
    ASSUME RestIInv, NEW a \in Actors, actor[a].at \in {"test", "unlink"},
           NEW place \in {"unlink", "move"}, Move(a, place),
           \/ place = "move" /\ linked' = [linked EXCEPT ![actor[a].call] = FALSE]
           \/ linked' = linked /\ (place = "unlink" => linked[actor[a].call]),
           UNCHANGED <<queue, holder, own, kept, task, cell, outer, accepted, crashed>>
    PROVE  RestIInv'
<1>1. actor[a].at \in Inquiring
  BY DEF Inquiring
<1>2. /\ actor \in [Actors -> Answer] /\ actor[a] \in Answer
      /\ actor[a].why = "take"
      /\ linked \in [Calls -> BOOLEAN]
  BY <1>1, AskerFacts DEF RestIInv, RestTyped, RestTypeOK
<1>3. actor' = [actor EXCEPT ![a].at = place]
  BY DEF Move
<1>4. /\ actor' \in [Actors -> Answer] /\ \A b \in Actors \ {a} : actor'[b] = actor[b]
      /\ actor'[a].at = place /\ actor'[a].call = actor[a].call /\ actor'[a].why = "take"
  BY <1>2, <1>3 DEF Answer, Inquiring
<1>5. actor'[a].at \in Inquiring
  BY <1>4 DEF Inquiring
<1>6. /\ a \in Dms /\ actor[a].call = Open(a) /\ Open(a) \in Calls
      /\ own[Open(a)] # "unset"
      /\ ~linked[Open(a)] => kept[Open(a)] # "unset"
  BY <1>1, <1>2, AskerHanded
<1>7. /\ linked' \in [Calls -> BOOLEAN]
      /\ \A d \in Dms : d # a => linked'[Open(d)] = linked[Open(d)]
      /\ linked'[Open(a)] => linked[Open(a)]
      /\ place # "move" => linked' = linked
  <2>1. CASE place = "move" /\ linked' = [linked EXCEPT ![Open(a)] = FALSE]
    <3>1. \A d \in Dms : d # a => Open(d) \in Calls /\ Open(d) # Open(a)
      BY <1>6, CallFacts
    <3>2. linked' \in [Calls -> BOOLEAN] /\ ~linked'[Open(a)]
      BY <1>2, <1>6, <2>1
    <3>3. \A d \in Dms : d # a => linked'[Open(d)] = linked[Open(d)]
      BY <1>2, <2>1, <3>1
    <3> QED
      BY <2>1, <3>2, <3>3
  <2>2. CASE linked' = linked
    BY <1>2, <2>2
  <2> QED
    BY <1>6, <2>1, <2>2
<1> QED
  BY <1>1, <1>2, <1>4, <1>5, <1>6, <1>7, AskStep

\* The caller of then() parts with its continuation: it posts it or runs it.
LEMMA HandOverStep ==
    ASSUME RestIInv, NEW a \in Dms, NEW value \in States, actor[a].at \in Inquiring,
           actor[a].why # "get",
           actor' \in [Actors -> Answer], \A b \in Actors \ {a} : actor'[b] = actor[b],
           cell' = [cell EXCEPT ![a] = value],
           \/ /\ queue' = Append(queue, Continuation(a)) /\ task' = [task EXCEPT ![a] = "posted"]
              /\ linked' = [linked EXCEPT ![Open(a)] = FALSE] /\ actor'[a].at = "end"
              /\ value = "unset" => kept[Open(a)] # "unset"
           \/ /\ queue' = queue /\ task' = task /\ linked' = linked
              /\ actor'[a].at = "run" /\ actor'[a].call = Open(a) /\ value # "unset",
           UNCHANGED <<holder, own, kept, outer, accepted, crashed>>
    PROVE  RestIInv'
<1> DEFINE posts == task' = [task EXCEPT ![a] = "posted"] /\ actor'[a].at = "end"
<1>1. /\ actor \in [Actors -> Answer] /\ linked \in [Calls -> BOOLEAN] /\ cell \in [Dms -> States]
      /\ task \in [Dms -> {"none", "held", "posted"}] /\ queue \in Seq(Jobs)
      /\ a \in Actors /\ Open(a) \in Calls /\ Continuation(a) \in Jobs
  BY CallFacts DEF RestIInv, RestTyped, ActorsTyped, RestTypeOK, Actors
<1>2. WithCaller(a) /\ actor[a].at \notin Serving \cup {"run"}
  BY <1>1, AskerFacts DEF Inquiring, Serving
<1>3. /\ task[a] = "none" /\ Continuation(a) \notin Queued /\ \A b \in Actors : ~Runs(b, a)
      /\ Unasked(Send(a)) /\ outer[a] # "lost" /\ cell[a] = "unset"
  BY <1>2 DEF RestIInv, RunsOnce, RunsOnceAt, AnswerKept, AnswerAt, ToRun
<1>4. /\ queue' \in Seq(Jobs) /\ Distinct'
      /\ Queued' = IF posts THEN Queued \cup {Continuation(a)} ELSE Queued
  <2>1. CASE queue' = Append(queue, Continuation(a)) /\ posts
    BY <1>1, <1>3, <2>1, PostedJob DEF RestIInv, CallsOnce
  <2>2. CASE queue' = queue /\ ~posts
    BY <1>1, <2>2, SameQueue DEF RestIInv, CallsOnce
  <2> QED
    BY <2>1, <2>2
<1>5. /\ posts => /\ ~linked'[Open(a)] /\ task'[a] = "posted"
                  /\ value = "unset" => kept[Open(a)] # "unset"
      /\ ~posts => actor'[a].at = "run" /\ actor'[a].call = Open(a) /\ value # "unset"
      /\ linked' \in [Calls -> BOOLEAN] /\ task' \in [Dms -> {"none", "held", "posted"}]
      /\ \A e \in Dms : e # a => task'[e] = task[e] /\ linked'[Open(e)] = linked[Open(e)]
      /\ cell' \in [Dms -> States] /\ cell'[a] = value
      /\ \A e \in Dms : e # a => cell'[e] = cell[e]
  <2>1. \A e \in Dms : e # a => Open(e) # Open(a) /\ Open(e) \in Calls
    BY CallFacts
  <2>2. /\ cell' \in [Dms -> States] /\ cell'[a] = value
        /\ \A e \in Dms : e # a => cell'[e] = cell[e]
    BY <1>1
  <2>3. CASE posts /\ linked' = [linked EXCEPT ![Open(a)] = FALSE]
    <3>1. /\ ~linked'[Open(a)] /\ task'[a] = "posted"
          /\ linked' \in [Calls -> BOOLEAN] /\ task' \in [Dms -> {"none", "held", "posted"}]
      BY <1>1, <2>3
    <3>2. \A e \in Dms : e # a => task'[e] = task[e] /\ linked'[Open(e)] = linked[Open(e)]
      BY <1>1, <2>1, <2>3
    <3>3. value = "unset" => kept[Open(a)] # "unset"
      BY <2>3
    <3> QED
      BY <2>2, <2>3, <3>1, <3>2, <3>3
  <2>4. CASE ~posts /\ task' = task /\ linked' = linked
    <3>1. actor'[a].at = "run" /\ actor'[a].call = Open(a) /\ value # "unset"
      BY <2>4
    <3> QED
      BY <1>1, <2>2, <2>4, <3>1
  <2> QED
    BY <2>3, <2>4
<1>6. ~posts => task'[a] = "none" /\ linked' = linked
  BY <1>1, <1>3
<1> HIDE DEF posts
<1>7. /\ \A t \in Threads, e \in Calls : Performs(t, e)' <=> Performs(t, e)
      /\ \A e \in Dms : WithCaller(e)' <=> WithCaller(e) /\ e # a
      /\ \A b \in Actors, e \in Dms : Runs(b, e)' <=> Runs(b, e) \/ (b = a /\ e = a /\ ~posts)
      /\ \A t \in Threads : actor'[t] = actor[t]
  <2>1. \A t \in Threads : actor'[t] = actor[t]
    BY RestAssumption DEF Actors
  <2>2. \A t \in Threads, e \in Calls : Performs(t, e)' <=> Performs(t, e)
    BY <2>1 DEF Performs
  <2>3. actor'[a].at \in {"end", "run"} /\ (actor'[a].at = "end" <=> posts)
    BY <1>5 DEF posts
  <2>4. \A e \in Dms : WithCaller(e)' <=> WithCaller(e) /\ e # a
    BY <2>3 DEF WithCaller, Actors, Inquiring
  <2>5. \A e \in Dms : Runs(a, e)' <=> e = a /\ ~posts
    BY <1>5, <2>3, CallFacts DEF Runs
  <2>6. \A e \in Dms : ~Runs(a, e)
    BY <1>2 DEF Runs
  <2>7. \A b \in Actors, e \in Dms : b # a => (Runs(b, e)' <=> Runs(b, e))
    BY DEF Runs
  <2> QED
    BY <2>1, <2>2, <2>4, <2>5, <2>6, <2>7
<1>8. /\ \A e \in Calls : Work(e) \in Queued' <=> Work(e) \in Queued
      /\ \A e \in Dms : Continuation(e) \in Queued' <=>
                           Continuation(e) \in Queued \/ (e = a /\ posts)
  BY <1>4, CallFacts
<1>9. \A e \in Calls : (Pending(e)' <=> Pending(e)) /\ (Unasked(e)' <=> Unasked(e))
  BY <1>7, <1>8 DEF Pending, Unasked
<1>10. RestTyped'
  <2>1. ActorTyped(a)'
    BY <1>1, <1>5, RestAssumption DEF ActorTyped, WithCaller, Serving, Inquiring, Actors, posts
  <2>2. ActorsTyped'
    BY <1>1, <2>1, ActorsStep DEF RestIInv, RestTyped
  <2>3. RestTypeOK'
    BY <1>5, <1>7 DEF RestIInv, RestTyped, RestTypeOK
  <2>4. accepted' \in [Calls -> 0..1] /\ crashed' \in BOOLEAN
    BY DEF RestIInv, RestTyped
  <2> QED
    BY <1>4, <2>2, <2>3, <2>4 DEF RestTyped
<1>11. CallsOnce'
  BY <1>4, <1>7, <1>8 DEF RestIInv, CallsOnce
<1>12. NotRepeated'
  <2>1. \A e \in Dms : actor'[e].at = "start" => actor[e].at = "start"
    BY <1>5 DEF posts, Actors
  <2> QED
    BY <1>7, <1>8, <1>9, <2>1, CallFacts DEF RestIInv, NotRepeated
<1>13. RunsOnce'
  <2>1. RunsOnceAt(a)'
    <3>1. Unasked(Send(a))'
      BY <1>3, <1>9, CallFacts
    <3>2. task'[a] # "held"
      BY <1>5, <1>6
    <3> QED
      BY <1>3, <1>7, <1>8, <3>1, <3>2 DEF RunsOnceAt
  <2>2. ASSUME NEW e \in Dms, e # a PROVE RunsOnceAt(e)'
    <3>1. RunsOnceAt(e) /\ task'[e] = task[e] /\ Send(e) \in Calls
      BY <1>5, <2>2, CallFacts DEF RestIInv, RunsOnce
    <3> QED
      BY <1>7, <1>8, <1>9, <2>2, <3>1 DEF RunsOnceAt, ToRun
  <2> QED
    BY <2>1, <2>2 DEF RunsOnce
<1>14. AnswerKept'
  <2>1. AnswerAt(a)'
    <3>1. AnswerAt(a)
      BY DEF RestIInv, AnswerKept
    <3>2. ToRunNow(a)' /\ cell'[a] = "unset" => PostedBehind(a)'
      BY <1>5 DEF PostedBehind
    <3>3. task'[a] # "held" /\ ~WithCaller(a)' /\ outer'[a] # "lost"
      BY <1>3, <1>5, <1>6, <1>7
    <3>4. ASSUME NEW t \in Threads, Performs(t, Open(a))'
          PROVE  /\ ~(actor'[t].at = "store" /\ actor'[t].why = "cell")
                 /\ ~(actor'[t].at \in {"ready", "drop"} /\ own'[Open(a)] = "unset")
      BY <1>1, <1>3, <1>7, <3>1, <3>4 DEF AnswerAt
    <3> QED
      BY <3>2, <3>3, <3>4 DEF AnswerAt
  <2>2. ASSUME NEW e \in Dms, e # a PROVE AnswerAt(e)'
    <3>1. AnswerAt(e) /\ task'[e] = task[e] /\ cell'[e] = cell[e] /\ Open(e) \in Calls
      BY <1>5, <2>2, CallFacts DEF RestIInv, AnswerKept
    <3>2. (Late(e)' <=> Late(e)) /\ (PostedBehind(e)' <=> PostedBehind(e))
      BY <3>1 DEF Late, PostedBehind
    <3>3. ToRunNow(e)' <=> ToRunNow(e)
      BY <1>7, <1>8, <2>2 DEF ToRunNow
    <3> QED
      BY <1>7, <1>9, <2>2, <3>1, <3>2, <3>3 DEF AnswerAt
  <2> QED
    BY <2>1, <2>2 DEF AnswerKept
<1>15. Handed'
  <2>1. HandedAt(a)'
    <3>1. HandedAt(a)
      BY DEF RestIInv, Handed
    <3>2. actor'[a].at \in {"end", "run"} /\ ~WithCaller(a)' /\ task'[a] # "held"
      BY <1>5, <1>6, <1>7 DEF posts
    <3>3. linked'[Open(a)] => linked[Open(a)] /\ task'[a] = "none"
      BY <1>5, <1>6
    <3> QED
      BY <1>1, <1>8, <1>9, <3>1, <3>2, <3>3 DEF HandedAt
  <2>2. ASSUME NEW e \in Dms, e # a PROVE HandedAt(e)'
    <3>1. Open(e) \in Calls /\ actor'[e] = actor[e]
      BY <2>2, CallFacts DEF Actors
    <3> QED
      BY <1>5, <1>8, <1>9, <2>2, <3>1, HandedStays
  <2> QED
    BY <2>1, <2>2 DEF Handed
<1> QED
  BY <1>10, <1>11, <1>12, <1>13, <1>14, <1>15 DEF RestIInv

\* What follows when the state of the future is read.
LEMMA FoundStep ==
    ASSUME RestIInv, NEW a \in Actors, NEW value \in States, actor[a].at \in {"see", "use", "move"},
           Found(a, value),
           actor[a].why # "get" /\ value # "unset" => own[Open(a)] # "unset",
           actor[a].why = "post" /\ value = "unset" => kept[Open(a)] # "unset"
    PROVE  RestIInv'
<1> DEFINE c == actor[a].call
           why == actor[a].why
<1>1. actor[a].at \in Inquiring
  BY DEF Inquiring
<1>2. /\ actor \in [Actors -> Answer] /\ actor[a] \in Answer /\ c \in Calls
      /\ actor[a].at \notin Serving
      /\ why = "get" => (\E d \in Dms : c = Send(d)) /\ ~WithCaller(a)
      /\ why # "get" => a \in Dms /\ c = Open(a) /\ c[1] = a
      /\ actor[a].at = "move" => why = "take"
  BY <1>1, AskerFacts
<1>3. UNCHANGED <<holder, own, kept, outer, accepted, crashed>>
  BY DEF Found
<1>4. /\ linked \in [Calls -> BOOLEAN] /\ outer \in [Dms -> States \cup {"lost"}]
  BY DEF RestIInv, RestTyped, RestTypeOK
<1>5. why # "get" =>
         /\ ~linked[Open(a)] /\ actor[a].at # "move" => kept[Open(a)] # "unset"
         /\ why \in {"failed", "take", "post"} => own[Open(a)] # "unset"
  BY <1>1, AskerHanded
<1>6. ASSUME NEW place \in {"see", "lock"}, NEW next \in {"", "then", "failed", "take", "schedule", "post", "get"},
             why # "take",
             why = "get" <=> next = "get", next = "get" => place = "see",
             place = "see" => next # "",
             next \in {"failed", "take", "post"} => own[Open(a)] # "unset",
             actor' \in [Actors -> Answer], \A b \in Actors \ {a} : actor'[b] = actor[b],
             actor'[a].at = place, actor'[a].call = c, actor'[a].why = next,
             UNCHANGED <<queue, linked, cell, task>>
      PROVE  RestIInv'
  <2>2. place \in Inquiring \cup {"lock"}
    BY DEF Inquiring
  <2>3. place = "lock" => place \notin Inquiring
    BY DEF Inquiring
  <2>4. linked' \in [Calls -> BOOLEAN]
    BY <1>4, <1>6
  <2>5. actor[a].at # "move"
    BY <1>2, <1>6
  <2>6. place \in Inquiring => next \in {"then", "failed", "take", "schedule", "post", "get"}
    BY <1>6, <2>3
  <2> QED
    BY <1>1, <1>3, <1>5, <1>6, <2>2, <2>4, <2>5, <2>6, AskStep
<1>7. ASSUME why = "get", value # "unset",
             linked' = [linked EXCEPT ![c] = FALSE],
             actor' = [actor EXCEPT ![a] = [Doing("answer") EXCEPT !.call = c, !.value = value]],
             UNCHANGED <<queue, cell, task>>
      PROVE  RestIInv'
  <2>1. /\ actor' \in [Actors -> Answer] /\ \A b \in Actors \ {a} : actor'[b] = actor[b]
        /\ actor'[a].at = "answer" /\ actor'[a].call = c
    BY <1>2, <1>7 DEF Doing, Answer, States
  <2>2. ~WithCaller(a)' /\ actor'[a].at \notin Serving
    BY <2>1 DEF WithCaller, Serving, Inquiring
  <2>3. linked' \in [Calls -> BOOLEAN]
    BY <1>4, <1>7
  <2>4. \A d \in Dms : Open(d) # c /\ Open(d) \in Calls
    BY <1>2, <1>7, CallFacts
  <2>5. \A d \in Dms : linked'[Open(d)] = linked[Open(d)]
    BY <1>4, <1>7, <2>4
  <2>6. ActorsTyped'
    <3>1. ActorTyped(a)'
      BY <1>2, <2>1, <2>2, RestAssumption DEF ActorTyped, Serving, Inquiring, Actors
    <3> QED
      BY <2>1, <3>1, ActorsStep DEF RestIInv, RestTyped
  <2>7. a \in Dms => HandedAt(a)'
    <3> SUFFICES ASSUME a \in Dms PROVE HandedAt(a)'
      OBVIOUS
    <3>1. HandedAt(a)
      BY DEF RestIInv, Handed
    <3>2. Queued' = Queued
      BY <1>7, SameQueue
    <3>3. \A t \in Threads, e \in Calls : Performs(t, e)' <=> Performs(t, e)
      BY <1>2, <2>1, <2>2 DEF Performs, Actors
    <3>4. Pending(Open(a))' <=> Pending(Open(a))
      BY <2>4, <3>2, <3>3 DEF Pending
    <3> QED
      BY <1>3, <1>7, <2>1, <2>2, <2>5, <3>1, <3>2, <3>4 DEF HandedAt
  <2>8. Handed'
    BY <1>2, <1>3, <1>7, <2>1, <2>2, <2>5, <2>7, HandedQuiet
  <2>9. \A d \in Dms : Runs(a, d)' => Runs(a, d)
    BY <2>1 DEF Runs
  <2> QED
    BY <1>2, <1>3, <1>4, <1>7, <2>1, <2>2, <2>3, <2>6, <2>8, <2>9, QuietStep
<1>8. ASSUME why = "post",
             queue' = Append(queue, Continuation(a)), cell' = [cell EXCEPT ![a] = value],
             task' = [task EXCEPT ![a] = "posted"], linked' = [linked EXCEPT ![Open(a)] = FALSE],
             actor' = [actor EXCEPT ![a] = Doing("end")]
      PROVE  RestIInv'
  <2>1. /\ actor' \in [Actors -> Answer] /\ \A b \in Actors \ {a} : actor'[b] = actor[b]
        /\ actor'[a].at = "end"
    BY <1>2, <1>8 DEF Doing, Answer, States
  <2> QED
    BY <1>1, <1>2, <1>3, <1>8, <2>1, HandOverStep
<1>9. ASSUME why = "take", value # "unset",
             cell' = [cell EXCEPT ![a] = value], UNCHANGED <<queue, linked, task>>,
             actor' = [actor EXCEPT ![a] = [Doing("run") EXCEPT !.call = Open(a)]]
      PROVE  RestIInv'
  <2>1. /\ actor' \in [Actors -> Answer] /\ \A b \in Actors \ {a} : actor'[b] = actor[b]
        /\ actor'[a].at = "run" /\ actor'[a].call = Open(a)
    BY <1>2, <1>9 DEF Doing, Answer, States
  <2> QED
    BY <1>1, <1>2, <1>3, <1>9, <2>1, HandOverStep
<1>10. ~Clash(a, value)
  BY DEF Found
<1>11. ASSUME NEW next \in {"failed", "schedule", "post", "get"}, Ask(a, c, next),
              why # "take", why = "get" <=> next = "get",
              next \in {"failed", "post"} => own[Open(a)] # "unset",
              UNCHANGED <<queue, linked, cell, task>>
       PROVE  RestIInv'
  <2>1. /\ actor' \in [Actors -> Answer] /\ \A b \in Actors \ {a} : actor'[b] = actor[b]
        /\ actor'[a].at = "see" /\ actor'[a].call = c /\ actor'[a].why = next
    BY <1>2, <1>11 DEF Ask, Doing, Answer, Inquiring, States
  <2> QED
    BY <1>5, <1>6, <1>11, <2>1
<1>12. ASSUME why = "failed",
              actor' = [actor EXCEPT ![a] =
                 [Doing("see") EXCEPT !.call = c, !.why = "take", !.value = value]],
              UNCHANGED <<queue, linked, cell, task>>
       PROVE  RestIInv'
  <2>1. /\ actor' \in [Actors -> Answer] /\ \A b \in Actors \ {a} : actor'[b] = actor[b]
        /\ actor'[a].at = "see" /\ actor'[a].call = c /\ actor'[a].why = "take"
    BY <1>2, <1>12 DEF Doing, Answer, Inquiring, States
  <2> QED
    BY <1>5, <1>6, <1>12, <2>1
<1>13. ASSUME why = "schedule",
              actor' = [actor EXCEPT ![a] = [Doing("lock") EXCEPT !.call = c]],
              UNCHANGED <<queue, linked, cell, task>>
       PROVE  RestIInv'
  <2>1. /\ actor' \in [Actors -> Answer] /\ \A b \in Actors \ {a} : actor'[b] = actor[b]
        /\ actor'[a].at = "lock" /\ actor'[a].call = c /\ actor'[a].why = ""
    BY <1>2, <1>13 DEF Doing, Answer, Inquiring, States
  <2> QED
    BY <1>5, <1>6, <1>13, <2>1
<1>14. CASE UNCHANGED <<queue, linked, cell, task>> /\ why # "take" /\ ~(why = "get" /\ value # "unset")
  <2>1. \/ why = "then" /\ value = "unset" /\ Ask(a, c, "schedule")
        \/ why = "then" /\ value # "unset" /\ Ask(a, c, "failed")
        \/ why = "failed" /\ actor' = [actor EXCEPT ![a] =
                 [Doing("see") EXCEPT !.call = c, !.why = "take", !.value = value]]
        \/ why = "schedule" /\ actor' = [actor EXCEPT ![a] = [Doing("lock") EXCEPT !.call = c]]
        \/ why = "schedule" /\ value # "unset" /\ Ask(a, c, "post")
        \/ why = "get" /\ Ask(a, c, "get")
        \/ why = "post" /\ task' = [task EXCEPT ![a] = "posted"]
              /\ queue' = Append(queue, Continuation(a))
    BY <1>2, <1>14 DEF Found, Retire
  <2>2. why = "then" => why # "get"
    OBVIOUS
  <2> QED
    BY <1>2, <1>11, <1>12, <1>13, <1>14, <2>1
<1> QED
  BY <1>2, <1>5, <1>6, <1>7, <1>8, <1>9, <1>10, <1>14 DEF Found, Ask, Retire, Doing, Clash, States

\* Thread t goes on with its call: who performs, waits and runs is the same.
LEMMA ServingFacts ==
    ASSUME NEW t \in Threads, actor[t].at \in Serving, actor'[t].at \in Serving,
           actor'[t].call = actor[t].call, \A b \in Actors \ {t} : actor'[b] = actor[b]
    PROVE  /\ \A u \in Threads, c \in Calls : Performs(u, c)' <=> Performs(u, c)
           /\ \A d \in Dms : actor'[d] = actor[d] /\ (WithCaller(d)' <=> WithCaller(d))
           /\ \A b \in Actors, d \in Dms : Runs(b, d)' <=> Runs(b, d)
<1>1. \A u \in Threads : u # t => actor'[u] = actor[u]
  BY DEF Actors
<1>2. \A d \in Dms : actor'[d] = actor[d]
  BY RestAssumption DEF Actors
<1>3. \A b \in Actors : b # t => actor'[b] = actor[b]
  OBVIOUS
<1> QED
  BY <1>1, <1>2, <1>3 DEF Performs, WithCaller, Runs, Serving, Inquiring

\* Thread t goes on with its call and has not stored the answer.
LEMMA ServingStep ==
    ASSUME RestIInv, NEW t \in Threads, actor[t].at \in Serving \ {"ready", "drop"},
           actor'[t].at \in Serving \ {"ready", "drop"},
           actor' \in [Actors -> Answer], \A b \in Actors \ {t} : actor'[b] = actor[b],
           actor'[t].call = actor[t].call, ActorTyped(t)',
           RestTypeOK',
           \A d \in Dms : actor'[t].at = "store" /\ actor'[t].why = "cell" /\ actor[t].call = Open(d)
                             => task[d] = "held",
           accepted' \in [Calls -> 0..1],
           \A c \in Calls : c # actor[t].call => accepted'[c] = accepted[c],
           actor'[t].at \in {"perform", "request", "again"} => accepted'[actor[t].call] = 0,
           UNCHANGED <<queue, linked, own, kept, task, cell, outer, crashed>>
    PROVE  RestIInv'
<1>1. /\ \A u \in Threads, c \in Calls : Performs(u, c)' <=> Performs(u, c)
      /\ \A d \in Dms : actor'[d] = actor[d] /\ (WithCaller(d)' <=> WithCaller(d))
      /\ \A b \in Actors, d \in Dms : Runs(b, d)' <=> Runs(b, d)
  BY ServingFacts
<1>2. Queued' = Queued /\ (Distinct' <=> Distinct)
  BY SameQueue
<1>3. actor[t].call \in Calls /\ Performs(t, actor[t].call)
  BY DEF RestIInv, RestTyped, ActorsTyped, ActorTyped, Actors, Performs, Serving
<1>4. \A c \in Calls : (Pending(c)' <=> Pending(c)) /\ (Unasked(c)' <=> Unasked(c))
  BY <1>1, <1>2, <1>3 DEF Pending, Unasked
<1>5. \A u \in Threads : u # t => actor'[u] = actor[u]
  BY DEF Actors
<1>6. RestTyped'
  <2>1. ActorsTyped'
    BY ActorsStep DEF RestIInv, RestTyped, Actors
  <2>2. queue' \in Seq(Jobs)
    BY DEF RestIInv, RestTyped
  <2>3. crashed' \in BOOLEAN
    BY DEF RestIInv, RestTyped
  <2> QED
    BY <2>1, <2>2, <2>3 DEF RestTyped
<1>7. CallsOnce'
  BY <1>1, <1>2 DEF RestIInv, CallsOnce
<1>8. NotRepeated'
  <2>1. \A c \in Calls : Work(c) \in Queued' => accepted'[c] = 0
    BY <1>2, <1>3 DEF RestIInv, NotRepeated, CallsOnce
  <2>2. ASSUME NEW u \in Threads, actor'[u].at \in {"perform", "request", "again"}
        PROVE  accepted'[actor'[u].call] = 0
    <3>1. CASE u = t
      BY <2>2, <3>1
    <3>2. CASE u # t
      <4>1. /\ actor'[u] = actor[u] /\ accepted[actor[u].call] = 0
            /\ actor[u].call \in Calls /\ Performs(u, actor[u].call)
        BY <1>5, <2>2, <3>2 DEF RestIInv, NotRepeated, RestTyped, ActorsTyped, ActorTyped, Actors, Performs, Serving
      <4>2. actor[u].call # actor[t].call
        BY <1>3, <3>2, <4>1 DEF RestIInv, CallsOnce
      <4> QED
        BY <4>1, <4>2
    <3> QED
      BY <3>1, <3>2
  <2>3. \A d \in Dms : actor'[d].at = "start" => Unasked(Open(d))'
    BY <1>1, <1>4, CallFacts DEF RestIInv, NotRepeated
  <2> QED
    BY <2>1, <2>2, <2>3 DEF NotRepeated
<1>9. RunsOnce'
  <2> SUFFICES ASSUME NEW d \in Dms PROVE RunsOnceAt(d)'
    BY DEF RunsOnce
  <2>1. RunsOnceAt(d) /\ Send(d) \in Calls
    BY CallFacts DEF RestIInv, RunsOnce
  <2> QED
    BY <1>1, <1>2, <1>4, <2>1 DEF RunsOnceAt, ToRun
<1>10. AnswerKept'
  <2> SUFFICES ASSUME NEW d \in Dms PROVE AnswerAt(d)'
    BY DEF AnswerKept
  <2>1. AnswerAt(d) /\ Open(d) \in Calls
    BY CallFacts DEF RestIInv, AnswerKept
  <2>2. (Late(d)' <=> Late(d)) /\ (PostedBehind(d)' <=> PostedBehind(d))
    BY DEF Late, PostedBehind
  <2>5. ToRunNow(d)' <=> ToRunNow(d)
    BY <1>1, <1>2 DEF ToRunNow
  <2>3. ASSUME NEW u \in Threads, Performs(u, Open(d)) /\ actor[u].at = "ready"
        PROVE  Performs(u, Open(d))' /\ actor'[u].at = "ready"
    BY <1>1, <1>5, <2>1, <2>3
  <2>4. ASSUME NEW u \in Threads, Performs(u, Open(d))'
        PROVE  /\ actor'[u].at = "store" /\ actor'[u].why = "cell" => task'[d] = "held"
               /\ actor'[u].at = "ready" /\ own'[Open(d)] = "unset" =>
                     task'[d] = "held" /\ cell'[d] # "unset"
               /\ actor'[u].at = "drop" /\ own'[Open(d)] = "unset" => task'[d] = "posted"
    <3>1. CASE u = t
      BY <2>4, <3>1 DEF Performs
    <3>2. CASE u # t
      BY <1>1, <1>5, <2>1, <2>4, <3>2 DEF AnswerAt
    <3> QED
      BY <3>1, <3>2
  <2> QED
    BY <1>1, <1>2, <1>4, <2>1, <2>2, <2>3, <2>4, <2>5 DEF AnswerAt
<1>11. Handed'
  <2> SUFFICES ASSUME NEW d \in Dms PROVE HandedAt(d)'
    BY DEF Handed
  <2>1. Open(d) \in Calls
    BY CallFacts
  <2> QED
    BY <1>1, <1>2, <1>4, <2>1, HandedStays
<1> QED
  BY <1>6, <1>7, <1>8, <1>9, <1>10, <1>11 DEF RestIInv

\* What is known of a thread that performs a call.
LEMMA ServerFacts ==
    ASSUME RestIInv, NEW t \in Threads, actor[t].at \in Serving
    PROVE  /\ actor \in [Actors -> Answer] /\ actor[t] \in Answer /\ t \in Actors
           /\ actor[t].call \in Calls /\ Performs(t, actor[t].call)
           /\ accepted \in [Calls -> 0..1]
           /\ Path(actor[t].call) \in Paths
           /\ holder \in [Paths -> Threads \cup {None}]
           /\ t # None
<1>1. t \in Actors /\ t # None
  BY RestAssumption DEF Actors
<1>2. actor[t].call \in Calls
  BY <1>1 DEF RestIInv, RestTyped, ActorsTyped, ActorTyped, Serving
<1> QED
  BY <1>1, <1>2, CallFacts DEF RestIInv, RestTyped, ActorsTyped, RestTypeOK, Performs

LEMMA LockStep ==
    ASSUME RestIInv, NEW t \in Threads, Lock(t) PROVE RestIInv'
<1>1. /\ actor[t].at = "perform" /\ holder[Path(actor[t].call)] = None
      /\ holder' = [holder EXCEPT ![Path(actor[t].call)] = t]
      /\ actor' = [actor EXCEPT ![t].at = "request"]
      /\ UNCHANGED <<queue, linked, own, kept, task, cell, outer, accepted, crashed>>
  BY DEF Lock, At, Move, futureVars
<1>2. actor[t].at \in Serving
  BY <1>1 DEF Serving
<1>3. /\ actor \in [Actors -> Answer] /\ actor[t] \in Answer /\ t \in Actors
      /\ actor[t].call \in Calls /\ Performs(t, actor[t].call)
      /\ accepted \in [Calls -> 0..1]
      /\ Path(actor[t].call) \in Paths
      /\ holder \in [Paths -> Threads \cup {None}]
      /\ t # None
  BY <1>2, ServerFacts
<1>4. /\ actor' \in [Actors -> Answer] /\ \A b \in Actors \ {t} : actor'[b] = actor[b]
      /\ actor'[t].at = "request" /\ actor'[t].call = actor[t].call
  BY <1>1, <1>3 DEF Answer, Serving
<1>5. ActorTyped(t)'
  BY <1>3, <1>4, RestAssumption DEF ActorTyped, Serving, Inquiring
<1>6. RestTypeOK'
  <2>1. \A u \in Threads, b \in Paths :
            holder[b] = u <=> actor[u].at \in {"request", "again"} /\ Path(actor[u].call) = b
    BY DEF RestIInv, RestTyped, RestTypeOK
  <2>2. ASSUME NEW u \in Threads, NEW b \in Paths
        PROVE  holder'[b] = u <=> actor'[u].at \in {"request", "again"} /\ Path(actor'[u].call) = b
    <3>1. CASE u = t
      BY <1>1, <1>3, <1>4, <2>1, <3>1
    <3>2. CASE u # t
      <4>1. actor'[u] = actor[u]
        BY <1>4, <3>2 DEF Actors
      <4> QED
        BY <1>1, <1>3, <2>1, <3>2, <4>1, RestAssumption
    <3> QED
      BY <3>1, <3>2
  <2>3. holder' \in [Paths -> Threads \cup {None}]
    BY <1>1, <1>3
  <2> QED
    BY <1>1, <2>2, <2>3 DEF RestIInv, RestTyped, RestTypeOK
<1>7. accepted'[actor[t].call] = 0
  BY <1>1, <1>3 DEF RestIInv, NotRepeated
<1>8. actor[t].at \in Serving \ {"ready", "drop"} /\ actor'[t].at \in Serving \ {"ready", "drop"}
  BY <1>1, <1>4 DEF Serving
<1> QED
  BY <1>1, <1>3, <1>4, <1>5, <1>6, <1>7, <1>8, ServingStep

\* The bucket is released with the answer.
LEMMA AnsweredStep ==
    ASSUME RestIInv, NEW t \in Threads, actor[t].at \in {"request", "again"},
           NEW value \in {"ok", "error"}, Answered(t, value),
           accepted' \in {accepted, [accepted EXCEPT ![actor[t].call] = @ + 1]},
           UNCHANGED <<queue, futureVars, outer, crashed>>
    PROVE  RestIInv'
<1>1. /\ holder' = [holder EXCEPT ![Path(actor[t].call)] = None]
      /\ actor' = [actor EXCEPT ![t].at = "load", ![t].value = value]
      /\ UNCHANGED <<queue, linked, own, kept, task, cell, outer, crashed>>
  BY DEF Answered, futureVars
<1>2. actor[t].at \in Serving
  BY DEF Serving
<1>3. /\ actor \in [Actors -> Answer] /\ actor[t] \in Answer /\ t \in Actors
      /\ actor[t].call \in Calls /\ Performs(t, actor[t].call)
      /\ accepted \in [Calls -> 0..1]
      /\ Path(actor[t].call) \in Paths
      /\ holder \in [Paths -> Threads \cup {None}]
      /\ t # None
  BY <1>2, ServerFacts
<1>4. /\ actor' \in [Actors -> Answer] /\ \A b \in Actors \ {t} : actor'[b] = actor[b]
      /\ actor'[t].at = "load" /\ actor'[t].call = actor[t].call /\ actor'[t].value = value
  BY <1>1, <1>3 DEF Answer, Serving, States
<1>5. ActorTyped(t)'
  BY <1>3, <1>4, RestAssumption DEF ActorTyped, Serving, Inquiring
<1>6. RestTypeOK'
  <2>1. \A u \in Threads, b \in Paths :
            holder[b] = u <=> actor[u].at \in {"request", "again"} /\ Path(actor[u].call) = b
    BY DEF RestIInv, RestTyped, RestTypeOK
  <2>2. ASSUME NEW u \in Threads, NEW b \in Paths
        PROVE  holder'[b] = u <=> actor'[u].at \in {"request", "again"} /\ Path(actor'[u].call) = b
    <3>1. CASE u = t
      BY <1>1, <1>3, <1>4, <2>1, <3>1
    <3>2. CASE u # t
      <4>1. actor'[u] = actor[u]
        BY <1>4, <3>2 DEF Actors
      <4> QED
        BY <1>1, <1>3, <2>1, <3>2, <4>1, RestAssumption
    <3> QED
      BY <3>1, <3>2
  <2>3. holder' \in [Paths -> Threads \cup {None}]
    BY <1>1, <1>3
  <2> QED
    BY <1>1, <2>2, <2>3 DEF RestIInv, RestTyped, RestTypeOK
<1>7. accepted[actor[t].call] = 0
  BY DEF RestIInv, NotRepeated
<1>8. /\ accepted' \in [Calls -> 0..1]
      /\ \A c \in Calls : c # actor[t].call => accepted'[c] = accepted[c]
  BY <1>3, <1>7
<1>9. actor[t].at \in Serving \ {"ready", "drop"} /\ actor'[t].at \in Serving \ {"ready", "drop"}
  BY <1>4 DEF Serving
<1> QED
  BY <1>1, <1>3, <1>4, <1>5, <1>6, <1>8, <1>9, ServingStep

LEMMA RequestStep ==
    ASSUME RestIInv, NEW t \in Threads, Request(t) \/ Again(t) PROVE RestIInv'
<1>1. /\ actor[t].at \in {"request", "again"}
      /\ UNCHANGED <<queue, futureVars, outer, crashed>>
  BY DEF Request, Again, At
<1>2. CASE Performed(t)
  BY <1>1, <1>2, AnsweredStep DEF Performed
<1>3. CASE Failed(t)
  BY <1>1, <1>3, AnsweredStep DEF Failed
<1>4. CASE actor[t].at = "request" /\ Move(t, "again") /\ UNCHANGED <<holder, accepted>>
  <2>1. /\ actor' = [actor EXCEPT ![t].at = "again"] /\ actor[t].at = "request"
        /\ UNCHANGED <<queue, linked, own, kept, task, cell, outer, crashed, holder, accepted>>
    BY <1>1, <1>4 DEF Move, futureVars
  <2>2. actor[t].at \in Serving
    BY <2>1 DEF Serving
  <2>3. /\ actor \in [Actors -> Answer] /\ actor[t] \in Answer /\ t \in Actors
        /\ actor[t].call \in Calls /\ accepted \in [Calls -> 0..1]
    BY <2>2, ServerFacts
  <2>4. /\ actor' \in [Actors -> Answer] /\ \A b \in Actors \ {t} : actor'[b] = actor[b]
        /\ actor'[t].at = "again" /\ actor'[t].call = actor[t].call
    BY <2>1, <2>3 DEF Answer, Serving
  <2>5. ActorTyped(t)'
    BY <2>3, <2>4, RestAssumption DEF ActorTyped, Serving, Inquiring
  <2>6. RestTypeOK'
    <3>1. \A u \in Threads : /\ actor'[u].call = actor[u].call
                             /\ actor'[u].at \in {"request", "again"} <=> actor[u].at \in {"request", "again"}
      BY <2>1, <2>4 DEF Actors
    <3> QED
      BY <2>1, <3>1 DEF RestIInv, RestTyped, RestTypeOK
  <2>7. accepted'[actor[t].call] = 0
    BY <2>1 DEF RestIInv, NotRepeated
  <2>8. actor[t].at \in Serving \ {"ready", "drop"} /\ actor'[t].at \in Serving \ {"ready", "drop"}
    BY <2>1, <2>4 DEF Serving
  <2> QED
    BY <2>1, <2>3, <2>4, <2>5, <2>6, <2>7, <2>8, ServingStep
<1> QED
  BY <1>2, <1>3, <1>4 DEF Request, Again, At

LEMMA LoadStep ==
    ASSUME RestIInv, NEW t \in Threads, Load(t) PROVE RestIInv'
<1>1. /\ actor[t].at = "load"
      /\ actor' = [actor EXCEPT ![t].at = "store", ![t].why = IF Held(t) THEN "cell" ELSE "own"]
      /\ UNCHANGED <<queue, linked, own, kept, task, cell, outer, crashed, holder, accepted>>
  BY DEF Load, At, futureVars
<1>2. actor[t].at \in Serving
  BY <1>1 DEF Serving
<1>3. /\ actor \in [Actors -> Answer] /\ actor[t] \in Answer /\ t \in Actors
      /\ actor[t].call \in Calls /\ accepted \in [Calls -> 0..1]
  BY <1>2, ServerFacts
<1>4. /\ actor' \in [Actors -> Answer] /\ \A b \in Actors \ {t} : actor'[b] = actor[b]
      /\ actor'[t].at = "store" /\ actor'[t].call = actor[t].call
      /\ actor'[t].value = actor[t].value
      /\ actor'[t].why = IF Held(t) THEN "cell" ELSE "own"
  BY <1>1, <1>3 DEF Answer, Serving
<1>5. ActorTyped(t)'
  <2>1. actor[t].value # "unset"
    BY <1>1, <1>3 DEF RestIInv, RestTyped, ActorsTyped, ActorTyped
  <2>2. Held(t) => \E d \in Dms : actor[t].call = Open(d)
    BY <1>3, CallFacts DEF Held
  <2> QED
    BY <1>3, <1>4, <2>1, <2>2, RestAssumption DEF ActorTyped, Serving, Inquiring
<1>6. RestTypeOK'
  <2>1. \A u \in Threads : /\ actor'[u].call = actor[u].call
                           /\ actor'[u].at \in {"request", "again"} <=> actor[u].at \in {"request", "again"}
    BY <1>1, <1>4 DEF Actors
  <2>2. UNCHANGED <<linked, own, kept, task, cell, outer, holder>>
    BY <1>1
  <2> QED
    BY <2>1, <2>2 DEF RestIInv, RestTyped, RestTypeOK
<1>7. \A d \in Dms : actor'[t].why = "cell" /\ actor[t].call = Open(d) => task[d] = "held"
  BY <1>4, CallFacts DEF Held
<1>8. actor[t].at \in Serving \ {"ready", "drop"} /\ actor'[t].at \in Serving \ {"ready", "drop"}
  BY <1>1, <1>4 DEF Serving
<1> QED
  BY <1>1, <1>3, <1>4, <1>5, <1>6, <1>7, <1>8, ServingStep

\* The answer is stored.  All that changes for the calls is where it is.
LEMMA StoreStep ==
    ASSUME RestIInv, NEW t \in Threads, Store(t) PROVE RestIInv'
<1> DEFINE c == actor[t].call
<1>1. /\ actor[t].at = "store"
      /\ actor' = [actor EXCEPT ![t] = [Doing("ready") EXCEPT !.call = c]]
      /\ UNCHANGED <<queue, holder, linked, kept, task, outer, accepted, crashed>>
  BY DEF Store, At
<1>2. \/ actor[t].why = "cell" /\ cell' = [cell EXCEPT ![c[1]] = actor[t].value] /\ own' = own
      \/ actor[t].why = "own" /\ own' = [own EXCEPT ![c] = actor[t].value] /\ cell' = cell
  BY DEF Store
<1>3. /\ actor \in [Actors -> Answer] /\ actor[t] \in Answer /\ t \in Actors
      /\ c \in Calls /\ Performs(t, c) /\ accepted \in [Calls -> 0..1]
      /\ actor[t].at \in Serving
  BY <1>1, ServerFacts DEF Serving
<1>4. /\ own \in [Calls -> States] /\ cell \in [Dms -> States]
      /\ actor[t].value \in States \ {"unset"} /\ actor[t].why \in {"cell", "own"}
  BY <1>1, <1>3 DEF RestIInv, RestTyped, RestTypeOK, ActorsTyped, ActorTyped, Answer
<1>5. /\ actor' \in [Actors -> Answer] /\ \A b \in Actors \ {t} : actor'[b] = actor[b]
      /\ actor'[t].at = "ready" /\ actor'[t].call = c
  BY <1>1, <1>3 DEF Answer, Serving, Doing, States
<1>6. /\ \A u \in Threads, e \in Calls : Performs(u, e)' <=> Performs(u, e)
      /\ \A d \in Dms : actor'[d] = actor[d] /\ (WithCaller(d)' <=> WithCaller(d))
      /\ \A b \in Actors, d \in Dms : Runs(b, d)' <=> Runs(b, d)
  BY <1>3, <1>5, ServingFacts DEF Serving
<1>7. Queued' = Queued /\ (Distinct' <=> Distinct)
  BY <1>1, SameQueue
<1>8. \A e \in Calls : (Pending(e)' <=> Pending(e)) /\ (Unasked(e)' <=> Unasked(e))
  BY <1>1, <1>6, <1>7 DEF Pending, Unasked
<1>9. \A u \in Threads : u # t => actor'[u] = actor[u]
  BY <1>5 DEF Actors
<1>10. RestTyped'
  <2>1. ActorsTyped'
    <3>1. ActorTyped(t)'
      BY <1>3, <1>5, RestAssumption DEF ActorTyped, Serving, Inquiring
    <3> QED
      BY <1>3, <1>5, <3>1, ActorsStep DEF RestIInv, RestTyped
  <2>2. queue' \in Seq(Jobs) /\ accepted' \in [Calls -> 0..1]
    BY <1>1, <1>3 DEF RestIInv, RestTyped
  <2>3. crashed' \in BOOLEAN
    BY <1>1 DEF RestIInv, RestTyped
  <2>4. own' \in [Calls -> States] /\ cell' \in [Dms -> States]
    <3>1. c[1] \in Dms
      BY <1>3, CallFacts
    <3>2. CASE actor[t].why = "cell" /\ cell' = [cell EXCEPT ![c[1]] = actor[t].value] /\ own' = own
      BY <1>4, <3>1, <3>2
    <3>3. CASE actor[t].why = "own" /\ own' = [own EXCEPT ![c] = actor[t].value] /\ cell' = cell
      BY <1>3, <1>4, <3>3
    <3> QED
      BY <1>2, <3>2, <3>3
  <2>5. \A u \in Threads : /\ actor'[u].call = actor[u].call
                           /\ actor'[u].at \in {"request", "again"} <=> actor[u].at \in {"request", "again"}
    BY <1>1, <1>5, <1>9
  <2>6. RestTypeOK'
    BY <1>1, <2>4, <2>5 DEF RestIInv, RestTyped, RestTypeOK
  <2> QED
    BY <2>1, <2>2, <2>3, <2>6 DEF RestTyped
<1>11. CallsOnce'
  BY <1>6, <1>7 DEF RestIInv, CallsOnce
<1>12. NotRepeated'
  <2>1. \A u \in Threads : actor'[u].at \in {"perform", "request", "again"} => accepted'[actor'[u].call] = 0
    BY <1>1, <1>5, <1>9 DEF RestIInv, NotRepeated
  <2> QED
    BY <1>1, <1>6, <1>7, <1>8, <2>1, NotRepeatedStays
<1>13. RunsOnce'
  <2> SUFFICES ASSUME NEW d \in Dms PROVE RunsOnceAt(d)'
    BY DEF RunsOnce
  <2>1. RunsOnceAt(d) /\ Send(d) \in Calls
    BY CallFacts DEF RestIInv, RunsOnce
  <2> QED
    BY <1>1, <1>6, <1>7, <1>8, <2>1 DEF RunsOnceAt, ToRun
<1>14. AnswerKept'
  <2> SUFFICES ASSUME NEW d \in Dms PROVE AnswerAt(d)'
    BY DEF AnswerKept
  <2>1. AnswerAt(d) /\ Open(d) \in Calls
    BY CallFacts DEF RestIInv, AnswerKept
  <2>2. c # Open(d) \/ actor[t].why = "own" => cell'[d] = cell[d]
    <3>1. actor[t].why = "cell" => \E e \in Dms : c = Open(e)
      BY <1>1, <1>3 DEF RestIInv, RestTyped, ActorsTyped, ActorTyped
    <3>2. c # Open(d) /\ actor[t].why = "cell" => c[1] # d /\ c[1] \in Dms
      BY <3>1, CallFacts
    <3> QED
      BY <1>2, <1>4, <3>2
  <2>3. c # Open(d) \/ actor[t].why = "cell" => own'[Open(d)] = own[Open(d)]
    BY <1>2, <1>3, <1>4, <2>1
  <2>4. own[Open(d)] # "unset" => own'[Open(d)] # "unset"
    BY <1>2, <1>3, <1>4, <2>1
  <2>5. c = Open(d) => /\ actor[t].why = "own" => own'[Open(d)] # "unset"
                       /\ actor[t].why = "cell" => cell'[d] # "unset" /\ task'[d] = "held"
    <3> SUFFICES ASSUME c = Open(d)
                 PROVE  /\ actor[t].why = "own" => own'[Open(d)] # "unset"
                        /\ actor[t].why = "cell" => cell'[d] # "unset" /\ task'[d] = "held"
      OBVIOUS
    <3>1. c[1] = d
      BY CallFacts
    <3>2. actor[t].why = "cell" => task[d] = "held"
      BY <1>1, <1>3, <2>1 DEF AnswerAt
    <3> QED
      BY <1>1, <1>2, <1>3, <1>4, <3>1, <3>2
  <2>6. c = Open(d) => /\ Performs(t, Open(d)) /\ Pending(Open(d))
                       /\ \A u \in Threads : Performs(u, Open(d)) => u = t
    BY <1>3, <2>1 DEF RestIInv, CallsOnce, Pending
  <2>7. WithCaller(d)' => cell'[d] = "unset"
    <3>1. WithCaller(d) => task[d] = "none" /\ cell[d] = "unset"
      BY <2>1 DEF RestIInv, RunsOnce, RunsOnceAt, AnswerAt
    <3> QED
      BY <1>1, <1>4, <1>6, <2>2, <2>5, <3>1
  <2>8. task'[d] = "held" /\ cell'[d] # "unset" =>
             \E u \in Threads : Performs(u, Open(d))' /\ actor'[u].at = "ready"
    <3>1. CASE c = Open(d)
      BY <1>5, <1>6, <2>1, <2>6, <3>1
    <3>2. CASE c # Open(d)
      <4>1. task[d] = "held" /\ cell[d] # "unset" =>
               \E u \in Threads : Performs(u, Open(d)) /\ actor[u].at = "ready"
        BY <2>1 DEF AnswerAt
      <4>2. \A u \in Threads : Performs(u, Open(d)) => u # t
        BY <3>2 DEF Performs
      <4> QED
        BY <1>1, <1>6, <1>9, <2>1, <2>2, <3>2, <4>1, <4>2
    <3> QED
      BY <3>1, <3>2
  <2>9. ASSUME NEW u \in Threads, Performs(u, Open(d))'
        PROVE  /\ actor'[u].at = "store" /\ actor'[u].why = "cell" => task'[d] = "held"
               /\ actor'[u].at = "ready" /\ own'[Open(d)] = "unset" =>
                     task'[d] = "held" /\ cell'[d] # "unset"
               /\ actor'[u].at = "drop" /\ own'[Open(d)] = "unset" => task'[d] = "posted"
    <3>1. CASE u = t
      BY <1>4, <1>5, <2>5, <2>9, <3>1 DEF Performs
    <3>2. CASE u # t
      <4>1. Performs(u, Open(d)) /\ actor'[u] = actor[u] /\ c # Open(d)
        BY <1>6, <1>9, <2>1, <2>6, <2>9, <3>2
      <4> QED
        BY <1>1, <2>1, <2>2, <2>3, <4>1 DEF AnswerAt
    <3> QED
      BY <3>1, <3>2
  <2>10. ToRunNow(d)' /\ cell'[d] = "unset" => Late(d)' \/ PostedBehind(d)'
    <3>1. cell'[d] = "unset" => cell[d] = "unset"
      BY <1>2, <1>3, <1>4, CallFacts
    <3>2. ToRunNow(d)' <=> ToRunNow(d)
      BY <1>6, <1>7 DEF ToRunNow
    <3>3. cell'[d] = "unset" => (Late(d) => Late(d)') /\ (PostedBehind(d) => PostedBehind(d)')
      BY <1>1, <2>4, <3>1 DEF Late, PostedBehind
    <3> QED
      BY <2>1, <3>1, <3>2, <3>3 DEF AnswerAt
  <2>11. outer'[d] = "lost" => Late(d)' /\ ~Pending(Open(d))' /\ ~WithCaller(d)'
    <3>1. outer[d] = "lost" => c # Open(d)
      BY <2>1, <2>6 DEF AnswerAt
    <3> QED
      BY <1>1, <1>6, <1>8, <2>1, <2>2, <2>3, <3>1 DEF AnswerAt, Late
  <2> QED
    BY <2>7, <2>8, <2>9, <2>10, <2>11 DEF AnswerAt
<1>15. Handed'
  <2> SUFFICES ASSUME NEW d \in Dms PROVE HandedAt(d)'
    BY DEF Handed
  <2>1. HandedAt(d) /\ Open(d) \in Calls
    BY CallFacts DEF RestIInv, Handed
  <2>2. own[Open(d)] # "unset" => own'[Open(d)] # "unset"
    BY <1>2, <1>3, <1>4, <2>1
  <2>3. own'[Open(d)] # own[Open(d)] => c = Open(d)
    BY <1>2, <1>3, <1>4, <2>1
  <2>4. c = Open(d) => Work(Open(d)) \notin Queued /\ actor[d].at # "start"
    BY <1>3, <2>1 DEF RestIInv, CallsOnce, NotRepeated, Unasked, Pending
  <2> QED
    BY <1>1, <1>6, <1>7, <1>8, <2>1, <2>2, <2>3, <2>4 DEF HandedAt
<1> QED
  BY <1>10, <1>11, <1>12, <1>13, <1>14, <1>15 DEF RestIInv

LEMMA MakeReadyStep ==
    ASSUME RestIInv, NEW t \in Threads, MakeReady(t) PROVE RestIInv'
<1> DEFINE c == actor[t].call
<1>1. /\ actor[t].at = "ready" /\ actor' = [actor EXCEPT ![t].at = "drop"]
      /\ UNCHANGED <<holder, linked, own, kept, cell, outer, accepted, crashed>>
  BY DEF MakeReady, At, Move
<1>2. /\ actor \in [Actors -> Answer] /\ actor[t] \in Answer /\ t \in Actors
      /\ c \in Calls /\ Performs(t, c) /\ accepted \in [Calls -> 0..1]
      /\ actor[t].at \in Serving
  BY <1>1, ServerFacts DEF Serving
<1>3. /\ actor' \in [Actors -> Answer] /\ \A b \in Actors \ {t} : actor'[b] = actor[b]
      /\ actor'[t].at = "drop" /\ actor'[t].call = c
  BY <1>1, <1>2 DEF Answer, Serving
<1>4. /\ \A u \in Threads, e \in Calls : Performs(u, e)' <=> Performs(u, e)
      /\ \A d \in Dms : actor'[d] = actor[d] /\ (WithCaller(d)' <=> WithCaller(d))
      /\ \A b \in Actors, d \in Dms : Runs(b, d)' <=> Runs(b, d)
  BY <1>2, <1>3, ServingFacts DEF Serving
<1>5. \A u \in Threads : u # t => actor'[u] = actor[u]
  BY <1>3 DEF Actors
<1>6. ActorsTyped'
  <2>1. ActorTyped(t)'
    BY <1>2, <1>3, RestAssumption DEF ActorTyped, Serving, Inquiring
  <2> QED
    BY <1>2, <1>3, <2>1, ActorsStep DEF RestIInv, RestTyped
<1>7. /\ linked \in [Calls -> BOOLEAN] /\ task \in [Dms -> {"none", "held", "posted"}]
      /\ queue \in Seq(Jobs)
  BY DEF RestIInv, RestTyped, RestTypeOK
<1>8. PICK m \in Dms : c = Open(m) \/ (c = Send(m) /\ ~Held(t))
  BY <1>2, CallFacts DEF Held
<1>9. Held(t) => c = Open(m) /\ c[1] = m /\ task[m] = "held"
  BY <1>8, CallFacts DEF Held
<1>10. c = Open(m) /\ task[m] = "held" => Held(t)
  BY CallFacts DEF Held
<1>11. \/ /\ Held(t) /\ queue' = Append(queue, Continuation(m)) /\ task' = [task EXCEPT ![m] = "posted"]
       \/ ~Held(t) /\ queue' = queue /\ task' = task
  BY <1>9 DEF MakeReady
<1>12. Held(t) => /\ Continuation(m) \notin Queued /\ \A a \in Actors : ~Runs(a, m)
                  /\ ~WithCaller(m) /\ Unasked(Send(m))
  BY <1>9 DEF RestIInv, RunsOnce, RunsOnceAt, ToRun
<1>13. /\ queue' \in Seq(Jobs) /\ Distinct'
       /\ Queued' = IF Held(t) THEN Queued \cup {Continuation(m)} ELSE Queued
  <2>1. CASE Held(t)
    BY <1>7, <1>11, <1>12, <2>1, PostedJob, CallFacts DEF RestIInv, CallsOnce
  <2>2. CASE ~Held(t)
    BY <1>7, <1>11, <2>2, SameQueue DEF RestIInv, CallsOnce
  <2> QED
    BY <2>1, <2>2
<1>14. \A e \in Calls : Work(e) \in Queued' <=> Work(e) \in Queued
  BY <1>13, CallFacts
<1>15. \A e \in Calls : (Pending(e)' <=> Pending(e)) /\ (Unasked(e)' <=> Unasked(e))
  BY <1>1, <1>4, <1>14 DEF Pending, Unasked
<1>16. task' \in [Dms -> {"none", "held", "posted"}]
  BY <1>7, <1>11
<1>17. RestTyped'
  <2>1. \A u \in Threads : /\ actor'[u].call = actor[u].call
                           /\ actor'[u].at \in {"request", "again"} <=> actor[u].at \in {"request", "again"}
    BY <1>1, <1>3, <1>5
  <2>2. RestTypeOK'
    BY <1>1, <1>16, <2>1 DEF RestIInv, RestTyped, RestTypeOK
  <2>3. accepted' \in [Calls -> 0..1]
    BY <1>1, <1>2
  <2>4. crashed' \in BOOLEAN
    BY <1>1 DEF RestIInv, RestTyped
  <2> QED
    BY <1>6, <1>13, <2>2, <2>3, <2>4 DEF RestTyped
<1>18. CallsOnce'
  BY <1>4, <1>13, <1>14 DEF RestIInv, CallsOnce
<1>19. NotRepeated'
  <2>1. \A u \in Threads : actor'[u].at \in {"perform", "request", "again"} => accepted'[actor'[u].call] = 0
    BY <1>1, <1>3, <1>5 DEF RestIInv, NotRepeated
  <2> QED
    BY <1>1, <1>4, <1>14, <1>15, <2>1, NotRepeatedStays
<1>20. RunsOnce'
  <2> SUFFICES ASSUME NEW d \in Dms PROVE RunsOnceAt(d)'
    BY DEF RunsOnce
  <2>1. RunsOnceAt(d) /\ Send(d) \in Calls
    BY CallFacts DEF RestIInv, RunsOnce
  <2>2. CASE Held(t) /\ d = m
    <3>1. task'[d] = "posted" /\ Continuation(d) \in Queued'
      BY <1>7, <1>11, <1>13, <2>2
    <3>2. ~WithCaller(d)' /\ \A b \in Actors : ~Runs(b, d)'
      BY <1>4, <1>12, <2>2
    <3>3. Unasked(Send(d))'
      BY <1>12, <1>15, <2>1, <2>2
    <3> QED
      BY <3>1, <3>2, <3>3 DEF RunsOnceAt
  <2>3. CASE ~(Held(t) /\ d = m)
    <3>1. task'[d] = task[d] /\ (Continuation(d) \in Queued' <=> Continuation(d) \in Queued)
      BY <1>7, <1>11, <1>13, <2>3, CallFacts
    <3> QED
      BY <1>4, <1>15, <2>1, <3>1 DEF RunsOnceAt, ToRun
  <2> QED
    BY <2>2, <2>3
<1>21. AnswerKept'
  <2> SUFFICES ASSUME NEW d \in Dms PROVE AnswerAt(d)'
    BY DEF AnswerKept
  <2>1. AnswerAt(d) /\ Open(d) \in Calls
    BY CallFacts DEF RestIInv, AnswerKept
  <2>2. c = Open(d) => /\ Performs(t, Open(d)) /\ Pending(Open(d)) /\ d = m
                       /\ \A u \in Threads : Performs(u, Open(d)) => u = t
    BY <1>2, <1>8, <2>1, CallFacts DEF RestIInv, CallsOnce, Pending
  <2>3. CASE c = Open(d)
    <3>1. own[Open(d)] # "unset" \/ (task[d] = "held" /\ cell[d] # "unset")
      BY <1>1, <2>1, <2>2, <2>3 DEF AnswerAt
    <3>2. task[d] = "held" <=> Held(t)
      BY <1>9, <1>10, <2>2, <2>3
    <3>3. task'[d] # "held" /\ (Held(t) => task'[d] = "posted")
      BY <1>7, <1>11, <2>2, <2>3, <3>2
    <3>4. outer'[d] # "lost"
      BY <1>1, <2>1, <2>2, <2>3 DEF AnswerAt
    <3>5. \A u \in Threads : Performs(u, Open(d))' => u = t
      BY <1>4, <2>1, <2>2, <2>3
    <3>6. ToRunNow(d)' /\ cell'[d] = "unset" => Late(d)' \/ PostedBehind(d)'
      <4> SUFFICES ASSUME ToRunNow(d)', cell'[d] = "unset" PROVE Late(d)' \/ PostedBehind(d)'
        OBVIOUS
      <4>1. CASE Held(t)
        <5>1. kept[Open(d)] = "unset"
          BY <3>2, <4>1 DEF RestIInv, Handed, HandedAt
        <5> QED
          BY <1>1, <3>1, <3>3, <4>1, <5>1 DEF Late
      <4>2. CASE ~Held(t)
        <5>1. ToRunNow(d)
          BY <1>4, <1>13, <4>2 DEF ToRunNow
        <5> QED
          BY <1>1, <1>11, <2>1, <4>2, <5>1 DEF AnswerAt, Late, PostedBehind
      <4> QED
        BY <4>1, <4>2
    <3>7. WithCaller(d)' => cell'[d] = "unset"
      BY <1>1, <1>4, <2>1 DEF AnswerAt
    <3>8. own'[Open(d)] = "unset" => task'[d] = "posted"
      BY <1>1, <3>1, <3>2, <3>3
    <3> QED
      BY <1>3, <3>3, <3>4, <3>5, <3>6, <3>7, <3>8 DEF AnswerAt
  <2>4. CASE c # Open(d)
    <3>1. ~(Held(t) /\ d = m)
      BY <1>9, <2>4
    <3>2. task'[d] = task[d] /\ (Continuation(d) \in Queued' <=> Continuation(d) \in Queued)
      BY <1>7, <1>11, <1>13, <3>1, CallFacts
    <3>3. \A u \in Threads : Performs(u, Open(d)) => actor'[u] = actor[u]
      BY <1>5, <2>4 DEF Performs
    <3>4. (Late(d)' <=> Late(d)) /\ (PostedBehind(d)' <=> PostedBehind(d))
      BY <1>1, <3>2 DEF Late, PostedBehind
    <3>5. ToRunNow(d)' <=> ToRunNow(d)
      BY <1>4, <3>2 DEF ToRunNow
    <3> QED
      BY <1>1, <1>4, <1>15, <2>1, <3>2, <3>3, <3>4, <3>5 DEF AnswerAt
  <2> QED
    BY <2>3, <2>4
<1>22. Handed'
  <2> SUFFICES ASSUME NEW d \in Dms PROVE HandedAt(d)'
    BY DEF Handed
  <2>1. Open(d) \in Calls
    BY CallFacts
  <2>2. task'[d] = task[d] \/ (task[d] = "held" /\ task'[d] = "posted")
    BY <1>7, <1>9, <1>11
  <2> QED
    BY <1>1, <1>4, <1>14, <1>15, <2>1, <2>2, HandedStays
<1> QED
  BY <1>17, <1>18, <1>19, <1>20, <1>21, <1>22 DEF RestIInv

\* The request is destroyed: no thread performs the call any longer.
LEMMA DropStep ==
    ASSUME RestIInv, NEW t \in Threads, Drop(t) PROVE RestIInv'
<1>0. /\ actor \in [Actors -> Answer] /\ actor[t] \in Answer /\ t \in Actors
      /\ actor[t].call \in Calls /\ Performs(t, actor[t].call) /\ accepted \in [Calls -> 0..1]
      /\ actor[t].at \in Serving /\ actor[t].at = "drop"
  BY ServerFacts DEF Drop, At, Serving
<1>c. PICK c \in Calls : actor[t].call = c
  BY <1>0
<1>1. /\ actor[t].at = "drop"
      /\ linked' = [linked EXCEPT ![c] = FALSE]
      /\ kept' = IF linked[c] THEN [kept EXCEPT ![c] = own[c]] ELSE kept
      /\ outer' = IF Held(t) THEN [outer EXCEPT ![c[1]] = "lost"] ELSE outer
      /\ actor' = [actor EXCEPT ![t] = Doing("idle")]
      /\ UNCHANGED <<queue, holder, own, task, cell, accepted, crashed>>
  BY <1>c, RestAssumption DEF Drop, At, Retire
<1>2. /\ actor \in [Actors -> Answer] /\ actor[t] \in Answer /\ t \in Actors
      /\ Performs(t, c) /\ accepted \in [Calls -> 0..1] /\ actor[t].at \in Serving
  BY <1>0, <1>c
<1>3. /\ actor' \in [Actors -> Answer] /\ \A b \in Actors \ {t} : actor'[b] = actor[b]
      /\ actor'[t].at = "idle"
  BY <1>1, <1>2 DEF Answer, Doing, States
<1>4. /\ \A u \in Threads, e \in Calls : Performs(u, e)' <=> Performs(u, e) /\ u # t
      /\ \A d \in Dms : actor'[d] = actor[d] /\ (WithCaller(d)' <=> WithCaller(d))
      /\ \A b \in Actors, d \in Dms : Runs(b, d)' <=> Runs(b, d)
  <2>1. \A d \in Dms : actor'[d] = actor[d]
    BY <1>3, RestAssumption DEF Actors
  <2>2. \A u \in Threads : u # t => actor'[u] = actor[u]
    BY <1>3 DEF Actors
  <2> QED
    BY <1>1, <1>3, <2>1, <2>2 DEF Performs, WithCaller, Runs, Serving, Inquiring
<1>5. \A u \in Threads : u # t => actor'[u] = actor[u]
  BY <1>3 DEF Actors
<1>6. Queued' = Queued /\ (Distinct' <=> Distinct)
  BY <1>1, SameQueue
<1>7. \A e \in Calls : (Pending(e)' => Pending(e)) /\ (Unasked(e) => Unasked(e)')
  BY <1>1, <1>4, <1>6 DEF Pending, Unasked
<1>8. ~Pending(c)'
  BY <1>2, <1>4, <1>6 DEF Pending, RestIInv, CallsOnce
<1>9. \A d \in Dms : outer'[d] = "lost" =>
         outer[d] = "lost" \/ (c = Open(d) /\ task[d] = "held")
  <2>1. Held(t) => \E m \in Dms : c = Open(m) /\ c[1] = m /\ task[m] = "held"
    BY <1>c, CallFacts DEF Held
  <2>2. outer \in [Dms -> States \cup {"lost"}]
    BY DEF RestIInv, RestTyped, RestTypeOK
  <2> QED
    BY <1>1, <2>1, <2>2
<1>10. RestTyped'
  <2>1. ActorsTyped'
    <3>1. ActorTyped(t)'
      BY <1>2, <1>3, RestAssumption DEF ActorTyped, Serving, Inquiring
    <3> QED
      BY <1>2, <1>3, <3>1, ActorsStep DEF RestIInv, RestTyped
  <2>2. queue' \in Seq(Jobs) /\ accepted' \in [Calls -> 0..1]
    BY <1>1, <1>2 DEF RestIInv, RestTyped
  <2>3. crashed' \in BOOLEAN
    BY <1>1 DEF RestIInv, RestTyped
  <2>4. linked' \in [Calls -> BOOLEAN]
    BY <1>1 DEF RestIInv, RestTyped, RestTypeOK
  <2>5. kept' \in [Calls -> States]
    BY <1>1, <1>2 DEF RestIInv, RestTyped, RestTypeOK
  <2>6. outer' \in [Dms -> States \cup {"lost"}]
    BY <1>1 DEF RestIInv, RestTyped, RestTypeOK
  <2>7. \A u \in Threads : actor'[u] = actor[u] \/
           (actor[u].at \notin {"request", "again"} /\ actor'[u].at \notin {"request", "again"})
    BY <1>1, <1>3, <1>5
  <2>8. RestTypeOK'
    BY <1>1, <2>4, <2>5, <2>6, <2>7 DEF RestIInv, RestTyped, RestTypeOK
  <2> QED
    BY <2>1, <2>2, <2>3, <2>8 DEF RestTyped
<1>11. CallsOnce'
  BY <1>4, <1>6 DEF RestIInv, CallsOnce
<1>12. NotRepeated'
  <2>1. \A u \in Threads : actor'[u].at \in {"perform", "request", "again"} => accepted'[actor'[u].call] = 0
    BY <1>1, <1>3, <1>5 DEF RestIInv, NotRepeated
  <2> QED
    BY <1>1, <1>4, <1>6, <1>7, <2>1, NotRepeatedStays
<1>13. RunsOnce'
  <2> SUFFICES ASSUME NEW d \in Dms PROVE RunsOnceAt(d)'
    BY DEF RunsOnce
  <2>1. RunsOnceAt(d) /\ Send(d) \in Calls
    BY CallFacts DEF RestIInv, RunsOnce
  <2> QED
    BY <1>1, <1>4, <1>6, <1>7, <2>1 DEF RunsOnceAt, ToRun
<1>15. \A d \in Dms : /\ kept'[Open(d)] = IF c = Open(d) /\ linked[Open(d)] THEN own[Open(d)]
                                          ELSE kept[Open(d)]
                      /\ linked'[Open(d)] <=> linked[Open(d)] /\ c # Open(d)
                      /\ linked[Open(d)] => task[d] = "none"
  <2> SUFFICES ASSUME NEW d \in Dms
               PROVE  /\ kept'[Open(d)] = IF c = Open(d) /\ linked[Open(d)] THEN own[Open(d)]
                                          ELSE kept[Open(d)]
                      /\ linked'[Open(d)] <=> linked[Open(d)] /\ c # Open(d)
                      /\ linked[Open(d)] => task[d] = "none"
    OBVIOUS
  <2>1. HandedAt(d) /\ Open(d) \in Calls
    BY CallFacts DEF RestIInv, Handed
  <2>2. kept \in [Calls -> States] /\ linked \in [Calls -> BOOLEAN]
    BY DEF RestIInv, RestTyped, RestTypeOK
  <2>3. kept'[Open(d)] = IF c = Open(d) /\ linked[Open(d)] THEN own[Open(d)] ELSE kept[Open(d)]
    BY <1>1, <2>1, <2>2
  <2>4. linked'[Open(d)] <=> linked[Open(d)] /\ c # Open(d)
    BY <1>1, <2>1, <2>2
  <2> QED
    BY <2>1, <2>3, <2>4 DEF HandedAt
<1>14. AnswerKept'
  <2> SUFFICES ASSUME NEW d \in Dms PROVE AnswerAt(d)'
    BY DEF AnswerKept
  <2>1. AnswerAt(d) /\ Open(d) \in Calls
    BY CallFacts DEF RestIInv, AnswerKept
  <2>2. (Late(d) => Late(d)') /\ (PostedBehind(d) => PostedBehind(d)')
    <3>1. task[d] # "none" => kept'[Open(d)] = kept[Open(d)]
      BY <1>15, <2>1
    <3> QED
      BY <1>1, <3>1 DEF Late, PostedBehind
  <2>6. ToRunNow(d)' <=> ToRunNow(d)
    BY <1>4, <1>6 DEF ToRunNow
  <2>3. task'[d] = "held" /\ cell'[d] # "unset" =>
             \E u \in Threads : Performs(u, Open(d))' /\ actor'[u].at = "ready"
    BY <1>1, <1>4, <1>5, <2>1 DEF AnswerAt
  <2>4. \A u \in Threads : Performs(u, Open(d))' => Performs(u, Open(d)) /\ actor'[u] = actor[u]
    BY <1>4, <1>5, <2>1
  <2>5. ASSUME outer'[d] = "lost" PROVE Late(d)' /\ ~Pending(Open(d))' /\ ~WithCaller(d)'
    <3>1. CASE outer[d] = "lost"
      BY <1>4, <1>7, <2>1, <2>2, <3>1 DEF AnswerAt
    <3>2. CASE c = Open(d) /\ task[d] = "held"
      <4>1. Performs(t, Open(d)) /\ \A u \in Threads : Performs(u, Open(d)) => u = t
        BY <1>2, <2>1, <3>2 DEF RestIInv, CallsOnce
      <4>2. own[Open(d)] # "unset"
        BY <1>1, <2>1, <3>2, <4>1 DEF AnswerAt
      <4>3. cell[d] = "unset"
        BY <1>1, <2>1, <3>2, <4>1 DEF AnswerAt
      <4>4. ~WithCaller(d)
        BY <3>2 DEF RestIInv, RunsOnce, RunsOnceAt
      <4>5. kept[Open(d)] = "unset"
        BY <3>2 DEF RestIInv, Handed, HandedAt
      <4> QED
        BY <1>1, <1>4, <1>8, <1>15, <3>2, <4>2, <4>3, <4>4, <4>5 DEF Late
    <3> QED
      BY <1>9, <2>5, <3>1, <3>2
  <2> QED
    BY <1>1, <1>4, <1>6, <2>1, <2>2, <2>3, <2>4, <2>5, <2>6 DEF AnswerAt
<1>16. Handed'
  <2> SUFFICES ASSUME NEW d \in Dms PROVE HandedAt(d)'
    BY DEF Handed
  <2>1. HandedAt(d) /\ AnswerAt(d) /\ Open(d) \in Calls
    BY CallFacts DEF RestIInv, Handed, AnswerKept
  <2>2. CASE c # Open(d)
    <3>1. Pending(Open(d)) => Pending(Open(d))'
      BY <1>c, <1>4, <1>6, <2>1, <2>2 DEF Pending, Performs
    <3> QED
      BY <1>1, <1>4, <1>6, <1>15, <2>1, <2>2, <3>1 DEF HandedAt
  <2>3. CASE c = Open(d)
    <3>1. /\ Performs(t, Open(d)) /\ Pending(Open(d))
          /\ own[Open(d)] = "unset" => task[d] = "posted"
      BY <1>1, <1>2, <2>1, <2>3 DEF AnswerAt, Pending
    <3>2. actor[d].at # "start"
      BY <3>1 DEF RestIInv, NotRepeated, Unasked
    <3>3. WithCaller(d) => own[Open(d)] # "unset"
      BY <3>1 DEF RestIInv, RunsOnce, RunsOnceAt
    <3> QED
      BY <1>1, <1>4, <1>6, <1>15, <2>1, <2>3, <3>1, <3>2, <3>3 DEF HandedAt
  <2> QED
    BY <2>2, <2>3
<1> QED
  BY <1>10, <1>11, <1>12, <1>13, <1>14, <1>16 DEF RestIInv

LEMMA TakeStep ==
    ASSUME RestIInv, NEW t \in Threads, Take(t) PROVE RestIInv'
<1> DEFINE job == Head(queue)
<1>1. /\ actor[t].at = "idle" /\ queue # <<>> /\ queue' = Tail(queue)
      /\ actor' = [actor EXCEPT ![t].call = job.call,
                                ![t].at = IF job.kind = "call" THEN "perform" ELSE "run"]
      /\ UNCHANGED <<holder, linked, own, kept, task, cell, outer, accepted, crashed>>
  BY DEF Take, At, futureVars
<1>2. /\ actor \in [Actors -> Answer] /\ actor[t] \in Answer /\ t \in Actors /\ queue \in Seq(Jobs)
      /\ Distinct
  BY DEF RestIInv, RestTyped, ActorsTyped, Actors, CallsOnce
<1>3. /\ job \in Jobs /\ job \in Queued /\ queue' \in Seq(Jobs)
      /\ Queued' \subseteq Queued /\ Queued \subseteq Queued' \cup {job}
      /\ Distinct' /\ job \notin Queued'
  BY <1>1, <1>2, TakenJob
<1>4. job.call \in Calls /\ (job.kind = "call" \/ \E d \in Dms : job.call = Open(d))
  BY <1>3, CallFacts
<1>5. /\ actor' \in [Actors -> Answer] /\ \A b \in Actors \ {t} : actor'[b] = actor[b]
      /\ actor'[t].at = (IF job.kind = "call" THEN "perform" ELSE "run")
      /\ actor'[t].call = job.call /\ actor'[t].at \in {"perform", "run"}
  BY <1>1, <1>2, <1>4 DEF Answer, Serving
<1>6. /\ \A u \in Threads : u # t => actor'[u] = actor[u]
      /\ \A d \in Dms : actor'[d] = actor[d] /\ (WithCaller(d)' <=> WithCaller(d))
      /\ \A b \in Actors : b # t => actor'[b] = actor[b]
  <2>1. \A d \in Dms : actor'[d] = actor[d]
    BY <1>5, RestAssumption DEF Actors
  <2> QED
    BY <1>5, <2>1 DEF Actors, WithCaller
<1>7. /\ \A u \in Threads, e \in Calls :
             Performs(u, e)' <=> Performs(u, e) \/ (u = t /\ job = Work(e))
      /\ \A b \in Actors, d \in Dms :
             Runs(b, d)' <=> Runs(b, d) \/ (b = t /\ job = Continuation(d))
  <2>1. \A e \in Calls : ~Performs(t, e)
    BY <1>1 DEF Performs, Serving
  <2>2. \A d \in Dms : ~Runs(t, d)
    BY <1>1 DEF Runs
  <2>3. \A e \in Calls : Performs(t, e)' <=> job = Work(e)
    <3>1. CASE job.kind = "call"
      <4>1. PICK e \in Calls : job = Work(e)
        BY <1>3, <3>1, CallFacts
      <4> QED
        BY <1>5, <3>1, <4>1, CallFacts DEF Performs, Serving
    <3>2. CASE job.kind # "call"
      BY <1>5, <3>2, CallFacts DEF Performs, Serving
    <3> QED
      BY <3>1, <3>2
  <2>4. \A d \in Dms : Runs(t, d)' <=> job = Continuation(d)
    <3>1. CASE \E e \in Calls : job = Work(e)
      BY <1>5, <3>1, CallFacts DEF Runs
    <3>2. CASE \E e \in Dms : job = Continuation(e)
      BY <1>5, <3>2, CallFacts DEF Runs
    <3> QED
      BY <1>3, <3>1, <3>2, CallFacts
  <2>5. \A u \in Threads, e \in Calls : u # t => (Performs(u, e)' <=> Performs(u, e))
    BY <1>6 DEF Performs
  <2>6. \A b \in Actors, d \in Dms : b # t => (Runs(b, d)' <=> Runs(b, d))
    BY <1>6 DEF Runs
  <2> QED
    BY <2>1, <2>2, <2>3, <2>4, <2>5, <2>6
<1>8. \A e \in Calls : (Pending(e)' => Pending(e)) /\ (Unasked(e) => Unasked(e)')
  BY <1>1, <1>3, <1>7 DEF Pending, Unasked
<1>9. RestTyped'
  <2>1. ActorsTyped'
    <3>1. ActorTyped(t)'
      BY <1>2, <1>4, <1>5, RestAssumption DEF ActorTyped, Serving, Inquiring
    <3> QED
      BY <1>2, <1>5, <3>1, ActorsStep DEF RestIInv, RestTyped
  <2>2. accepted' \in [Calls -> 0..1]
    BY <1>1 DEF RestIInv, RestTyped
  <2>3. crashed' \in BOOLEAN
    BY <1>1 DEF RestIInv, RestTyped
  <2>4. \A u \in Threads : actor'[u] = actor[u] \/
           (actor[u].at \notin {"request", "again"} /\ actor'[u].at \notin {"request", "again"})
    BY <1>1, <1>5, <1>6
  <2>5. RestTypeOK'
    <3>1. UNCHANGED <<holder, linked, own, kept, task, cell, outer>>
      BY <1>1
    <3> QED
      BY <2>4, <3>1 DEF RestIInv, RestTyped, RestTypeOK
  <2> QED
    BY <1>3, <2>1, <2>2, <2>3, <2>5 DEF RestTyped
<1>10. CallsOnce'
  <2>1. \A u \in Threads, e \in Calls : Performs(u, e) => job # Work(e)
    BY <1>3 DEF RestIInv, CallsOnce
  <2>2. \A u \in Threads, e \in Calls : Performs(u, e)' => Work(e) \notin Queued'
    BY <1>3, <1>7 DEF RestIInv, CallsOnce
  <2>3. \A u, v \in Threads, e \in Calls : Performs(u, e)' /\ Performs(v, e)' => u = v
    BY <1>7, <2>1 DEF RestIInv, CallsOnce
  <2> QED
    BY <1>3, <2>2, <2>3 DEF CallsOnce
<1>11. NotRepeated'
  <2>1. ASSUME NEW u \in Threads, actor'[u].at \in {"perform", "request", "again"}
        PROVE  accepted'[actor'[u].call] = 0
    <3>1. CASE u = t
      <4>1. PICK e \in Calls : job = Work(e)
        BY <1>3, <1>5, <2>1, <3>1, CallFacts
      <4> QED
        BY <1>1, <1>3, <1>5, <3>1, <4>1, CallFacts DEF RestIInv, NotRepeated
    <3>2. CASE u # t
      BY <1>1, <1>6, <2>1, <3>2 DEF RestIInv, NotRepeated
    <3> QED
      BY <3>1, <3>2
  <2> QED
    BY <1>1, <1>3, <1>6, <1>8, <2>1, NotRepeatedStays
<1>12. RunsOnce'
  <2> SUFFICES ASSUME NEW d \in Dms PROVE RunsOnceAt(d)'
    BY DEF RunsOnce
  <2>1. RunsOnceAt(d) /\ Send(d) \in Calls
    BY CallFacts DEF RestIInv, RunsOnce
  <2>2. ToRun(d)' => ToRun(d)
    BY <1>1, <1>3, <1>6, <1>7 DEF ToRun
  <2>3. CASE job = Continuation(d)
    BY <1>1, <1>3, <1>6, <1>7, <1>8, <2>1, <2>2, <2>3 DEF RunsOnceAt
  <2>4. CASE job # Continuation(d)
    BY <1>1, <1>3, <1>6, <1>7, <1>8, <2>1, <2>2, <2>4 DEF RunsOnceAt
  <2> QED
    BY <2>3, <2>4
<1>13. AnswerKept'
  <2> SUFFICES ASSUME NEW d \in Dms PROVE AnswerAt(d)'
    BY DEF AnswerKept
  <2>1. AnswerAt(d) /\ Open(d) \in Calls
    BY CallFacts DEF RestIInv, AnswerKept
  <2>2. (Late(d)' <=> Late(d)) /\ (PostedBehind(d)' <=> PostedBehind(d))
    BY <1>1 DEF Late, PostedBehind
  <2>5. ToRunNow(d)' => ToRunNow(d)
    BY <1>3, <1>7 DEF ToRunNow
  <2>3. ASSUME NEW u \in Threads, Performs(u, Open(d))'
        PROVE  /\ actor'[u].at = "store" /\ actor'[u].why = "cell" => task'[d] = "held"
               /\ actor'[u].at = "ready" /\ own'[Open(d)] = "unset" =>
                     task'[d] = "held" /\ cell'[d] # "unset"
               /\ actor'[u].at = "drop" /\ own'[Open(d)] = "unset" => task'[d] = "posted"
    <3>1. CASE u = t
      BY <1>5, <3>1
    <3>2. CASE u # t
      BY <1>1, <1>6, <1>7, <2>1, <2>3, <3>2 DEF AnswerAt
    <3> QED
      BY <3>1, <3>2
  <2>4. task'[d] = "held" /\ cell'[d] # "unset" =>
             \E u \in Threads : Performs(u, Open(d))' /\ actor'[u].at = "ready"
    <3>1. \A u \in Threads : actor[u].at = "ready" => u # t
      BY <1>1
    <3> QED
      BY <1>1, <1>6, <1>7, <2>1, <3>1 DEF AnswerAt
  <2> QED
    BY <1>1, <1>3, <1>6, <1>8, <2>1, <2>2, <2>3, <2>4, <2>5 DEF AnswerAt
<1>14. Handed'
  <2> SUFFICES ASSUME NEW d \in Dms PROVE HandedAt(d)'
    BY DEF Handed
  <2>1. Open(d) \in Calls
    BY CallFacts
  <2>2. Pending(Open(d)) => Pending(Open(d))'
    BY <1>3, <1>7, <2>1 DEF Pending
  <2>3. linked'[Open(d)] = linked[Open(d)] /\ task'[d] = task[d] /\ UNCHANGED <<own, kept>>
    BY <1>1
  <2> QED
    BY <1>3, <1>6, <2>1, <2>2, <2>3, HandedStays
<1> QED
  BY <1>9, <1>10, <1>11, <1>12, <1>13, <1>14 DEF RestIInv

\* A request is posted: the first of message d by the thread that sends it,
\* the second by whoever runs the continuation.
LEMMA AsyncStep ==
    ASSUME RestIInv, NEW a \in Actors, NEW d \in Dms, NEW c \in {Open(d), Send(d)},
           NEW why \in {"then", "get"},
           \/ c = Open(d) /\ a = d /\ actor[a].at = "start" /\ why = "then"
           \/ c = Send(d) /\ Runs(a, d) /\ why = "get",
           Async(a, c, why),
           UNCHANGED <<holder, own, kept, task, cell, outer, accepted, crashed>>
    PROVE  RestIInv'
<1>1. /\ queue' = Append(queue, Work(c))
      /\ linked' = [linked EXCEPT ![c] = TRUE]
      /\ actor' = [actor EXCEPT ![a] = [Doing("see") EXCEPT !.call = c, !.why = why]]
  BY DEF Async, Ask
<1>2. /\ actor \in [Actors -> Answer] /\ actor[a] \in Answer /\ c \in Calls
      /\ queue \in Seq(Jobs) /\ linked \in [Calls -> BOOLEAN] /\ actor[a].at \in {"start", "run"}
  BY CallFacts DEF RestIInv, RestTyped, RestTypeOK, ActorsTyped, Runs
<1>3. /\ actor' \in [Actors -> Answer] /\ \A b \in Actors \ {a} : actor'[b] = actor[b]
      /\ actor'[a].at = "see" /\ actor'[a].call = c /\ actor'[a].why = why
  BY <1>1, <1>2 DEF Answer, Doing, Inquiring, States
<1>4. Unasked(c)
  BY DEF RestIInv, NotRepeated, RunsOnce, RunsOnceAt, ToRun
<1>5. /\ queue' \in Seq(Jobs) /\ Queued' = Queued \cup {Work(c)} /\ Distinct'
  <2>1. Work(c) \in Jobs /\ Work(c) \notin Queued /\ Distinct
    BY <1>2, <1>4, CallFacts DEF Unasked, Pending, RestIInv, CallsOnce
  <2> QED
    BY <1>1, <1>2, <2>1, PostedJob
<1>6. \A b \in Actors : b # a => actor'[b] = actor[b]
  BY <1>3
<1>7. \A u \in Threads, e \in Calls : Performs(u, e)' <=> Performs(u, e)
  BY <1>2, <1>3, <1>6 DEF Performs, Serving, Actors
<1>8. \A e \in Dms : WithCaller(e)' <=> WithCaller(e)
  <2>1. CASE c = Open(d) /\ a = d /\ actor[a].at = "start" /\ why = "then"
    BY <1>3, <1>6, <2>1 DEF WithCaller, Actors, Inquiring
  <2>2. CASE c = Send(d) /\ Runs(a, d) /\ why = "get"
    BY <1>3, <1>6, <2>2 DEF WithCaller, Actors, Runs, Inquiring
  <2> QED
    BY <2>1, <2>2
<1>9. \A b \in Actors, e \in Dms : Runs(b, e)' <=> Runs(b, e) /\ b # a
  BY <1>3, <1>6 DEF Runs
<1>10. \A e \in Dms : Continuation(e) \in Queued' <=> Continuation(e) \in Queued
  BY <1>2, <1>5, CallFacts
<1>11. \A e \in Calls : e # c => (Pending(e)' <=> Pending(e)) /\ (Unasked(e)' <=> Unasked(e))
  <2>1. \A e \in Calls : e # c => (Work(e) \in Queued' <=> Work(e) \in Queued)
    BY <1>2, <1>5, CallFacts
  <2> QED
    BY <1>7, <2>1 DEF Pending, Unasked
<1>12. \A e \in Dms : ToRun(e)' => ToRun(e)
  BY <1>8, <1>9, <1>10 DEF ToRun
<1>13. \A u \in Threads : actor'[u].at \in Serving => actor'[u] = actor[u]
  BY <1>3, <1>6 DEF Serving, Actors
<1>14. RestTyped'
  <2>1. ActorsTyped'
    <3>1. ActorTyped(a)'
      <4>1. CASE c = Open(d) /\ a = d /\ actor[a].at = "start" /\ why = "then"
        BY <1>2, <1>3, <4>1, RestAssumption DEF ActorTyped, WithCaller, Serving, Inquiring, Actors
      <4>2. CASE c = Send(d) /\ Runs(a, d) /\ why = "get"
        BY <1>2, <1>3, <4>2, RestAssumption DEF ActorTyped, WithCaller, Serving, Inquiring, Actors
      <4> QED
        BY <4>1, <4>2
    <3> QED
      BY <1>3, <3>1, ActorsStep DEF RestIInv, RestTyped
  <2>2. accepted' \in [Calls -> 0..1]
    BY DEF RestIInv, RestTyped
  <2>3. crashed' \in BOOLEAN
    BY DEF RestIInv, RestTyped
  <2>4. linked' \in [Calls -> BOOLEAN]
    BY <1>1, <1>2
  <2>5. \A u \in Threads : actor'[u] = actor[u] \/
           (actor[u].at \notin {"request", "again"} /\ actor'[u].at \notin {"request", "again"})
    BY <1>2, <1>3, <1>6 DEF Actors
  <2>6. RestTypeOK'
    BY <2>4, <2>5 DEF RestIInv, RestTyped, RestTypeOK
  <2> QED
    BY <1>5, <2>1, <2>2, <2>3, <2>6 DEF RestTyped
<1>15. CallsOnce'
  <2>1. \A u \in Threads, e \in Calls : Performs(u, e)' => Work(e) \notin Queued'
    <3>1. \A u \in Threads : ~Performs(u, c)
      BY <1>4 DEF Unasked, Pending
    <3> QED
      BY <1>2, <1>5, <1>7, <3>1, CallFacts DEF RestIInv, CallsOnce
  <2> QED
    BY <1>5, <1>7, <2>1 DEF RestIInv, CallsOnce
<1>16. NotRepeated'
  <2>1. \A u \in Threads : actor'[u].at \in {"perform", "request", "again"} => accepted'[actor'[u].call] = 0
    BY <1>13 DEF RestIInv, NotRepeated, Serving
  <2>2. \A e \in Calls : Work(e) \in Queued' => accepted'[e] = 0
    BY <1>2, <1>4, <1>5, CallFacts DEF RestIInv, NotRepeated, Unasked
  <2>3. \A e \in Dms : actor'[e].at = "start" => Unasked(Open(e))'
    <3>1. \A e \in Dms : actor'[e].at = "start" => e # a /\ actor[e].at = "start"
      BY <1>3, <1>6 DEF Actors
    <3>2. \A e \in Dms : e # a => Open(e) # c
      BY CallFacts
    <3> QED
      BY <1>11, <3>1, <3>2, CallFacts DEF RestIInv, NotRepeated
  <2> QED
    BY <2>1, <2>2, <2>3 DEF NotRepeated
<1>17. RunsOnce'
  <2> SUFFICES ASSUME NEW e \in Dms PROVE RunsOnceAt(e)'
    BY DEF RunsOnce
  <2>1. RunsOnceAt(e) /\ Send(e) \in Calls
    BY CallFacts DEF RestIInv, RunsOnce
  <2>2. ToRun(e)' => Send(e) # c
    <3>1. CASE c = Open(d)
      BY <3>1, CallFacts
    <3>2. CASE c = Send(d) /\ Runs(a, d)
      <4>1. RunsOnceAt(d)
        BY DEF RestIInv, RunsOnce
      <4>2. ~ToRun(d)'
        BY <1>8, <1>9, <1>10, <3>2, <4>1 DEF ToRun, RunsOnceAt
      <4> QED
        BY <3>2, <4>2, CallFacts
    <3> QED
      BY <3>1, <3>2, CallFacts
  <2> QED
    BY <1>8, <1>9, <1>10, <1>11, <1>12, <2>1, <2>2 DEF RunsOnceAt
<1>18. AnswerKept'
  <2> SUFFICES ASSUME NEW e \in Dms PROVE AnswerAt(e)'
    BY DEF AnswerKept
  <2>1. AnswerAt(e) /\ Open(e) \in Calls
    BY CallFacts DEF RestIInv, AnswerKept
  <2>2. (Late(e)' <=> Late(e)) /\ (PostedBehind(e)' <=> PostedBehind(e))
    BY DEF Late, PostedBehind
  <2>5. ToRunNow(e)' => ToRunNow(e)
    BY <1>9, <1>10 DEF ToRunNow
  <2>3. outer[e] = "lost" => Open(e) # c
    BY <2>1, CallFacts DEF AnswerAt, WithCaller
  <2>4. \A u \in Threads : Performs(u, Open(e)) => actor'[u] = actor[u]
    BY <1>7, <1>13, <2>1 DEF Performs
  <2> QED
    BY <1>7, <1>8, <1>10, <1>11, <2>1, <2>2, <2>3, <2>4, <2>5 DEF AnswerAt
<1>19. Handed'
  <2> SUFFICES ASSUME NEW e \in Dms PROVE HandedAt(e)'
    BY DEF Handed
  <2>1. HandedAt(e) /\ Open(e) \in Calls
    BY CallFacts DEF RestIInv, Handed
  <2>2. CASE Open(e) # c
    <3>1. /\ linked'[Open(e)] = linked[Open(e)]
          /\ Work(Open(e)) \in Queued' <=> Work(Open(e)) \in Queued
          /\ Pending(Open(e))' <=> Pending(Open(e))
      BY <1>1, <1>2, <1>5, <1>11, <2>1, <2>2, CallFacts
    <3>2. CASE e # a
      <4>1. actor'[e] = actor[e]
        BY <1>6, <3>2 DEF Actors
      <4> QED
        BY <3>1, <4>1, HandedStays
    <3>3. CASE e = a
      <4>1. why = "get"
        BY <2>2, <3>3
      <4>2. ~WithCaller(e)'
        BY <1>3, <3>3, <4>1 DEF WithCaller, Inquiring
      <4> QED
        BY <1>3, <2>1, <3>1, <3>3, <4>2 DEF HandedAt
    <3> QED
      BY <3>2, <3>3
  <2>3. CASE Open(e) = c
    <3>1. e = d /\ a = d /\ actor[d].at = "start" /\ why = "then"
      BY <2>3, CallFacts
    <3>2. linked'[Open(e)] /\ Pending(Open(e))'
      BY <1>1, <1>2, <1>5, <2>1, <2>3 DEF Pending
    <3>3. task[e] = "none"
      BY <3>1 DEF RestIInv, RunsOnce, RunsOnceAt, WithCaller
    <3> QED
      BY <1>3, <2>1, <3>1, <3>2, <3>3 DEF HandedAt
  <2> QED
    BY <2>2, <2>3
<1> QED
  BY <1>14, <1>15, <1>16, <1>17, <1>18, <1>19 DEF RestIInv

\* A pointer that is no longer there is followed.
LEMMA CrashStep == ASSUME RestIInv, Crash PROVE RestIInv'
<1>1. UNCHANGED <<queue, actor, holder, linked, own, kept, task, cell, outer, accepted>>
  BY DEF Crash, futureVars
<1>2. Queued' = Queued /\ (Distinct' <=> Distinct)
  BY <1>1, SameQueue
<1>3. /\ \A u \in Threads, c \in Calls : Performs(u, c)' <=> Performs(u, c)
      /\ \A b \in Actors, d \in Dms : Runs(b, d)' <=> Runs(b, d)
      /\ \A d \in Dms : /\ WithCaller(d)' <=> WithCaller(d)
                        /\ Late(d)' <=> Late(d)
                        /\ PostedBehind(d)' <=> PostedBehind(d)
  BY <1>1 DEF Performs, Runs, WithCaller, Late, PostedBehind
<1>4. /\ \A c \in Calls : (Pending(c)' <=> Pending(c)) /\ (Unasked(c)' <=> Unasked(c))
      /\ \A d \in Dms : (ToRun(d)' <=> ToRun(d)) /\ (ToRunNow(d)' <=> ToRunNow(d))
  BY <1>1, <1>2, <1>3 DEF Pending, Unasked, ToRun, ToRunNow
<1>5. RestTyped'
  <2>1. ActorsTyped'
    BY <1>1 DEF RestIInv, RestTyped, ActorsTyped, ActorTyped, WithCaller
  <2>2. RestTypeOK'
    BY <1>1 DEF RestIInv, RestTyped, RestTypeOK
  <2>3. crashed' \in BOOLEAN
    BY DEF Crash
  <2>4. queue' \in Seq(Jobs) /\ accepted' \in [Calls -> 0..1]
    BY <1>1 DEF RestIInv, RestTyped
  <2> QED
    BY <2>1, <2>2, <2>3, <2>4 DEF RestTyped
<1>6. CallsOnce'
  BY <1>2, <1>3 DEF RestIInv, CallsOnce
<1>7. NotRepeated'
  BY <1>1, <1>2, <1>4, CallFacts DEF RestIInv, NotRepeated
<1>8. RunsOnce'
  BY <1>1, <1>2, <1>3, <1>4, CallFacts DEF RestIInv, RunsOnce, RunsOnceAt
<1>9. AnswerKept'
  BY <1>1, <1>2, <1>3, <1>4, CallFacts DEF RestIInv, AnswerKept, AnswerAt
<1>10. Handed'
  BY <1>1, <1>2, <1>3, <1>4, CallFacts DEF RestIInv, Handed, HandedAt
<1> QED
  BY <1>5, <1>6, <1>7, <1>8, <1>9, <1>10 DEF RestIInv

LEMMA StartStep ==
    ASSUME RestIInv, NEW d \in Dms, Start(d) PROVE RestIInv'
<1>1. /\ actor[d].at = "start" /\ Async(d, Open(d), "then") /\ d \in Actors
      /\ UNCHANGED <<holder, own, kept, task, cell, outer, accepted, crashed>>
  BY DEF Start, At, Actors
<1> QED
  BY <1>1, AsyncStep

\* The locked part of schedule(): the caller hands its continuation over.
LEMMA ScheduleStep ==
    ASSUME RestIInv, NEW d \in Dms, Schedule(d) PROVE RestIInv'
<1>1. CASE Crash
  BY <1>1, CrashStep
<1>2. CASE /\ linked[Open(d)]
           /\ task' = [task EXCEPT ![d] = "held"]
           /\ linked' = [linked EXCEPT ![Open(d)] = FALSE]
           /\ Retire(d)
           /\ UNCHANGED <<queue, holder, own, kept, cell, outer, accepted, crashed>>
  <2>1. /\ d \in Actors /\ WithCaller(d) /\ actor[d].at = "lock"
        /\ linked \in [Calls -> BOOLEAN] /\ task \in [Dms -> {"none", "held", "posted"}]
        /\ actor \in [Actors -> Answer]
    BY DEF Schedule, At, WithCaller, Actors, RestIInv, RestTyped, ActorsTyped, RestTypeOK
  <2>2. actor' = [actor EXCEPT ![d] = Doing("end")]
    BY <1>2 DEF Retire
  <2>3. /\ actor' \in [Actors -> Answer] /\ \A b \in Actors : b # d => actor'[b] = actor[b]
        /\ actor'[d].at = "end"
    BY <2>1, <2>2 DEF Doing, Answer, States
  <2>4. /\ task[d] = "none" /\ Continuation(d) \notin Queued /\ \A b \in Actors : ~Runs(b, d)
        /\ Unasked(Send(d)) /\ cell[d] = "unset" /\ outer[d] # "lost"
    BY <2>1 DEF RestIInv, RunsOnce, RunsOnceAt, AnswerKept, AnswerAt, ToRun
  <2>5. Queued' = Queued /\ (Distinct' <=> Distinct)
    BY <1>2, SameQueue
  <2>6. \A t \in Threads : actor'[t] = actor[t]
    BY <2>3, RestAssumption DEF Actors
  <2>7. /\ \A t \in Threads, e \in Calls : Performs(t, e)' <=> Performs(t, e)
        /\ \A e \in Dms : WithCaller(e)' <=> WithCaller(e) /\ e # d
        /\ \A b \in Actors, e \in Dms : Runs(b, e)' <=> Runs(b, e)
    <3>1. \A t \in Threads, e \in Calls : Performs(t, e)' <=> Performs(t, e)
      BY <2>6 DEF Performs
    <3>2. \A e \in Dms : WithCaller(e)' <=> WithCaller(e) /\ e # d
      BY <2>3 DEF WithCaller, Actors, Inquiring
    <3>3. \A b \in Actors, e \in Dms : Runs(b, e)' <=> Runs(b, e)
      BY <2>1, <2>3 DEF Runs
    <3> QED
      BY <3>1, <3>2, <3>3
  <2>8. \A e \in Calls : (Pending(e)' <=> Pending(e)) /\ (Unasked(e)' <=> Unasked(e))
    BY <1>2, <2>5, <2>7 DEF Pending, Unasked
  <2>9. task'[d] = "held" /\ \A e \in Dms : e # d => task'[e] = task[e]
    BY <1>2, <2>1
  <2>10. RestTyped'
    <3>1. ActorsTyped'
      <4>1. ActorTyped(d)'
        BY <2>3, RestAssumption DEF ActorTyped, WithCaller, Serving, Inquiring
      <4> QED
        BY <2>1, <2>3, <4>1, ActorsStep DEF RestIInv, RestTyped
    <3>2. queue' \in Seq(Jobs) /\ accepted' \in [Calls -> 0..1]
      BY <1>2 DEF RestIInv, RestTyped
    <3>3. crashed' \in BOOLEAN
      BY <1>2 DEF RestIInv, RestTyped
    <3>4. linked' \in [Calls -> BOOLEAN]
      BY <1>2, <2>1
    <3>5. task' \in [Dms -> {"none", "held", "posted"}]
      BY <1>2, <2>1
    <3>6. UNCHANGED <<holder, own, kept, cell, outer>>
      BY <1>2
    <3>7. RestTypeOK'
      BY <2>6, <3>4, <3>5, <3>6 DEF RestIInv, RestTyped, RestTypeOK
    <3> QED
      BY <3>1, <3>2, <3>3, <3>7 DEF RestTyped
  <2>11. CallsOnce'
    BY <2>5, <2>7 DEF RestIInv, CallsOnce
  <2>12. NotRepeated'
    <3>1. \A e \in Dms : actor'[e].at = "start" => actor[e].at = "start"
      BY <2>3 DEF Actors
    <3> QED
      BY <1>2, <2>5, <2>6, <2>8, <3>1, CallFacts DEF RestIInv, NotRepeated
  <2>13. RunsOnce'
    <3> SUFFICES ASSUME NEW e \in Dms PROVE RunsOnceAt(e)'
      BY DEF RunsOnce
    <3>1. RunsOnceAt(e) /\ Send(e) \in Calls
      BY CallFacts DEF RestIInv, RunsOnce
    <3>2. CASE e = d
      BY <2>4, <2>5, <2>7, <2>8, <2>9, <3>1, <3>2 DEF RunsOnceAt
    <3>3. CASE e # d
      BY <2>5, <2>7, <2>8, <2>9, <3>1, <3>3 DEF RunsOnceAt, ToRun
    <3> QED
      BY <3>2, <3>3
  <2>14. AnswerKept'
    <3> SUFFICES ASSUME NEW e \in Dms PROVE AnswerAt(e)'
      BY DEF AnswerKept
    <3>1. AnswerAt(e) /\ Open(e) \in Calls
      BY CallFacts DEF RestIInv, AnswerKept
    <3>4. ToRunNow(e)' <=> ToRunNow(e)
      BY <2>5, <2>7 DEF ToRunNow
    <3>2. CASE e = d
      <4>1. ~ToRunNow(e)
        BY <2>4, <3>2 DEF ToRunNow
      <4> QED
        BY <1>2, <2>4, <2>5, <2>6, <2>7, <2>9, <3>1, <3>2, <3>4, <4>1 DEF AnswerAt
    <3>3. CASE e # d
      <4>1. (Late(e)' <=> Late(e)) /\ (PostedBehind(e)' <=> PostedBehind(e))
        BY <1>2, <2>9, <3>3 DEF Late, PostedBehind
      <4> QED
        BY <1>2, <2>5, <2>6, <2>7, <2>8, <2>9, <3>1, <3>3, <3>4, <4>1 DEF AnswerAt
    <3> QED
      BY <3>2, <3>3
  <2>15. Handed'
    <3> SUFFICES ASSUME NEW e \in Dms PROVE HandedAt(e)'
      BY DEF Handed
    <3>1. HandedAt(e) /\ Open(e) \in Calls /\ (e # d => Open(e) # Open(d))
      BY CallFacts DEF RestIInv, Handed
    <3>2. CASE e = d
      BY <1>2, <2>1, <2>3, <2>5, <2>7, <2>9, <3>1, <3>2 DEF HandedAt
    <3>3. CASE e # d
      <4>1. actor'[e] = actor[e] /\ linked'[Open(e)] = linked[Open(e)]
        BY <1>2, <2>1, <2>3, <3>1, <3>3 DEF Actors
      <4> QED
        BY <1>2, <2>5, <2>8, <2>9, <3>1, <3>3, <4>1, HandedStays
    <3> QED
      BY <3>2, <3>3
  <2> QED
    BY <2>10, <2>11, <2>12, <2>13, <2>14, <2>15 DEF RestIInv
<1> QED
  BY <1>1, <1>2 DEF Schedule

\* Actor a is done: its continuation had failed, or it passes an answer on.
LEMMA RetireStep ==
    ASSUME RestIInv, NEW a \in Actors, actor[a].at \in {"run", "answer"}, Retire(a),
           NEW d \in Dms, NEW value \in States, outer' = [outer EXCEPT ![d] = value],
           UNCHANGED <<queue, holder, futureVars, accepted, crashed>>
    PROVE  RestIInv'
<1>1. /\ actor' = [actor EXCEPT ![a] = Doing(IF a \in Dms THEN "end" ELSE "idle")]
      /\ actor \in [Actors -> Answer] /\ outer \in [Dms -> States \cup {"lost"}]
      /\ UNCHANGED <<queue, holder, linked, own, kept, task, cell, accepted, crashed>>
  BY DEF Retire, futureVars, RestIInv, RestTyped, ActorsTyped, RestTypeOK
<1>2. /\ actor' \in [Actors -> Answer] /\ \A b \in Actors \ {a} : actor'[b] = actor[b]
      /\ actor'[a].at = IF a \in Dms THEN "end" ELSE "idle"
  BY <1>1 DEF Doing, Answer, States
<1>3. ActorsTyped'
  <2>1. ActorTyped(a)'
    BY <1>2, RestAssumption DEF ActorTyped, WithCaller, Serving, Inquiring, Actors
  <2> QED
    BY <1>2, <2>1, ActorsStep DEF RestIInv, RestTyped
<1>4. /\ \A e \in Dms : Runs(a, e)' => Runs(a, e)
      /\ a \in Dms => actor'[a].at # "start" /\ (WithCaller(a)' => WithCaller(a))
      /\ actor[a].at \notin Serving /\ actor'[a].at \notin Serving
  BY <1>2 DEF Runs, WithCaller, Serving, Inquiring
<1>5. outer' \in [Dms -> States \cup {"lost"}]
  BY <1>1
<1>6. \A e \in Dms : outer'[e] = "lost" => outer[e] = "lost"
  BY <1>1 DEF States
<1>7. linked' \in [Calls -> BOOLEAN]
  BY <1>1 DEF RestIInv, RestTyped, RestTypeOK
<1>8. ASSUME a \in Dms PROVE HandedAt(a)'
  <2>1. HandedAt(a) /\ Open(a) \in Calls /\ ~WithCaller(a)'
    BY <1>2, <1>8, CallFacts DEF RestIInv, Handed, WithCaller, Inquiring
  <2>2. Queued' = Queued
    BY <1>1, SameQueue
  <2>3. \A t \in Threads, e \in Calls : Performs(t, e)' <=> Performs(t, e)
    BY <1>2, <1>4 DEF Performs, Actors
  <2>4. Pending(Open(a))' <=> Pending(Open(a))
    BY <2>1, <2>2, <2>3 DEF Pending
  <2> QED
    BY <1>1, <1>2, <1>8, <2>1, <2>2, <2>4 DEF HandedAt
<1>9. Handed'
  BY <1>1, <1>2, <1>4, <1>8, HandedQuiet
<1> QED
  BY <1>1, <1>2, <1>3, <1>4, <1>5, <1>6, <1>7, <1>9, QuietStep

LEMMA RunStep ==
    ASSUME RestIInv, NEW a \in Actors, Run(a) PROVE RestIInv'
<1>1. PICK d \in Dms : actor[a].call = Open(d) /\ actor[a].call[1] = d /\ Runs(a, d)
  BY CallFacts DEF Run, At, RestIInv, RestTyped, ActorsTyped, ActorTyped, Runs
<1>2. actor[a].at = "run"
  BY DEF Run, At
<1>3. CASE /\ Async(a, Send(d), "get")
           /\ UNCHANGED <<holder, own, kept, task, cell, outer, accepted, crashed>>
  BY <1>1, <1>3, AsyncStep
<1>4. CASE /\ outer' = [outer EXCEPT ![d] = "error"] /\ Retire(a)
           /\ UNCHANGED <<queue, holder, futureVars, accepted, crashed>>
  BY <1>2, <1>4, RetireStep DEF States
<1>5. CASE Crash
  BY <1>5, CrashStep
<1> QED
  BY <1>1, <1>3, <1>4, <1>5 DEF Run

LEMMA ForwardToStep ==
    ASSUME RestIInv, NEW a \in Actors, ForwardTo(a) PROVE RestIInv'
<1>1. actor[a].at = "answer" /\ actor[a] \in Answer /\ actor[a].call \in Calls
  BY DEF ForwardTo, At, RestIInv, RestTyped, ActorsTyped, ActorTyped
<1>2. actor[a].value \in States
  BY <1>1 DEF Answer
<1>3. actor[a].call[1] \in Dms
  BY <1>1 DEF Calls
<1> QED
  BY <1>1, <1>2, <1>3, RetireStep DEF ForwardTo

LEMMA StateStep ==
    ASSUME RestIInv, NEW a \in Actors,
           See(a) \/ Read(a) \/ Use(a) \/ Test(a) \/ Unlink(a) \/ MoveOut(a)
    PROVE  RestIInv'
<1> DEFINE c == actor[a].call
<1>1. actor[a].at \in Inquiring /\ c \in Calls
  BY AskerFacts DEF See, Read, Use, Test, Unlink, MoveOut, At, Inquiring
<1>2. own[c] \in States /\ kept[c] \in States /\ "unset" \in States
  BY <1>1 DEF RestIInv, RestTyped, RestTypeOK, States
<1>3. CASE Crash
  BY <1>3, CrashStep
<1>4. actor[a].why # "get" =>
         /\ a \in Dms /\ c = Open(a) /\ Open(a) \in Calls
         /\ linked[Open(a)] => Pending(Open(a))
         /\ own[Open(a)] # "unset" => Work(Open(a)) \notin Queued
         /\ kept[Open(a)] # "unset" => own[Open(a)] # "unset"
         /\ ~linked[Open(a)] /\ actor[a].at # "move" => kept[Open(a)] # "unset"
         /\ actor[a].why \in {"failed", "take", "post"} => own[Open(a)] # "unset"
         /\ actor[a].at = "use" /\ actor[a].why = "post" => actor[a].ptr = "thread"
  BY <1>1, AskerHanded
<1>5. CASE See(a) /\ ~Crash
  <2>1. actor[a].at = "see"
    BY <1>5 DEF See, At
  <2>2. CASE Move(a, "read") /\ UNCHANGED <<queue, holder, futureVars, outer, accepted, crashed>>
    BY <2>1, <2>2, SeeLinkedStep
  <2>3. CASE ~linked[c] /\ Found(a, kept[c])
    BY <1>2, <1>4, <2>1, <2>3, FoundStep
  <2> QED
    BY <1>5, <2>2, <2>3 DEF See
<1>6. CASE Read(a) /\ ~Crash
  <2>1. actor[a].at = "read"
    BY <1>6 DEF Read, At
  <2> QED
    BY <1>6, <2>1, ReadLinkedStep DEF Read
<1>7. CASE Use(a) /\ ~Crash
  <2>1. actor[a].at = "use"
    BY <1>7 DEF Use, At
  <2>2. CASE Found(a, own[c])
    BY <1>2, <1>4, <2>1, <2>2, FoundStep
  <2>3. CASE Overtaken(a) /\ Found(a, "unset")
    <3>1. ASSUME actor[a].why = "post" PROVE kept[Open(a)] # "unset"
      <4>1. Home(Open(a)) # "thread" /\ Work(Open(a)) \notin Queued
        BY <1>4, <2>1, <2>3, <3>1 DEF Overtaken
      <4>2. ~Pending(Open(a))
        BY <4>1 DEF Home, Pending
      <4> QED
        BY <1>4, <2>1, <3>1, <4>2
    <3> QED
      BY <1>2, <2>1, <2>3, <3>1, FoundStep
  <2> QED
    BY <1>7, <2>2, <2>3 DEF Use
<1>8. CASE Test(a)
  <2>1. actor[a].at = "test" /\ Move(a, IF linked[c] THEN "unlink" ELSE "move")
    BY <1>8 DEF Test, At
  <2>2. UNCHANGED <<queue, holder, linked, own, kept, task, cell, outer, accepted, crashed>>
    BY <1>8 DEF Test, futureVars
  <2>3. CASE linked[c]
    BY <2>1, <2>2, <2>3, UnlinkStep
  <2>4. CASE ~linked[c]
    BY <2>1, <2>2, <2>4, UnlinkStep
  <2> QED
    BY <2>3, <2>4
<1>9. CASE Unlink(a) /\ ~Crash
  <2>1. /\ actor[a].at = "unlink" /\ Move(a, "move") /\ linked' = [linked EXCEPT ![c] = FALSE]
        /\ UNCHANGED <<queue, holder, own, kept, task, cell, outer, accepted, crashed>>
    BY <1>9 DEF Unlink, At
  <2> QED
    BY <2>1, UnlinkStep
<1>10. CASE MoveOut(a) /\ ~Crash
  <2>1. actor[a].at = "move" /\ Found(a, own[c])
    BY <1>10 DEF MoveOut, At
  <2>2. actor[a].why = "take"
    BY <1>1, <2>1, AskerFacts
  <2> QED
    BY <1>2, <1>4, <2>1, <2>2, FoundStep
<1> QED
  BY <1>3, <1>5, <1>6, <1>7, <1>8, <1>9, <1>10

LEMMA RestNextInv == RestIInv /\ [RestNext]_restVars => RestIInv'
<1> SUFFICES ASSUME RestIInv, [RestNext]_restVars PROVE RestIInv'
  OBVIOUS
<1>2. ASSUME NEW a \in Actors, Follow(a) PROVE RestIInv'
  BY <1>2, StateStep, RunStep, ForwardToStep DEF Follow
<1>1. ASSUME NEW d \in Dms, Call(d) PROVE RestIInv'
  BY <1>1, <1>2, StartStep, ScheduleStep DEF Call, Actors
<1>3. ASSUME NEW t \in Threads, Serve(t) \/ Lock(t) PROVE RestIInv'
  BY <1>2, <1>3, TakeStep, RequestStep, LoadStep, StoreStep, MakeReadyStep, DropStep, LockStep
     DEF Serve, Actors
<1>4. CASE UNCHANGED restVars
  <2>1. UNCHANGED <<queue, actor, holder, linked, own, kept, task, cell, outer, accepted, crashed>>
    BY <1>4 DEF restVars, futureVars
  <2>2. crashed' \in BOOLEAN
    BY <2>1 DEF RestIInv, RestTyped
  <2>3. Queued' = Queued /\ (Distinct' <=> Distinct)
    BY <2>1, SameQueue
  <2>4. /\ \A u \in Threads, c \in Calls : Performs(u, c)' <=> Performs(u, c)
        /\ \A b \in Actors, d \in Dms : Runs(b, d)' <=> Runs(b, d)
        /\ \A d \in Dms : /\ WithCaller(d)' <=> WithCaller(d)
                          /\ Late(d)' <=> Late(d)
                          /\ PostedBehind(d)' <=> PostedBehind(d)
    BY <2>1 DEF Performs, Runs, WithCaller, Late, PostedBehind
  <2>5. /\ \A c \in Calls : (Pending(c)' <=> Pending(c)) /\ (Unasked(c)' <=> Unasked(c))
        /\ \A d \in Dms : (ToRun(d)' <=> ToRun(d)) /\ (ToRunNow(d)' <=> ToRunNow(d))
    BY <2>1, <2>3, <2>4 DEF Pending, Unasked, ToRun, ToRunNow
  <2>6. RestTyped'
    BY <2>1, <2>2 DEF RestIInv, RestTyped, ActorsTyped, ActorTyped, WithCaller, RestTypeOK
  <2>7. CallsOnce' /\ NotRepeated'
    BY <2>1, <2>3, <2>4, <2>5, CallFacts DEF RestIInv, CallsOnce, NotRepeated
  <2>8. RunsOnce' /\ AnswerKept'
    BY <2>1, <2>3, <2>4, <2>5, CallFacts DEF RestIInv, RunsOnce, RunsOnceAt, AnswerKept, AnswerAt
  <2>9. Handed'
    BY <2>1, <2>3, <2>4, <2>5, CallFacts DEF RestIInv, Handed, HandedAt
  <2> QED
    BY <2>6, <2>7, <2>8, <2>9 DEF RestIInv
<1> QED
  BY <1>1, <1>2, <1>3, <1>4 DEF RestNext

\* The strengthened invariant of requests and futures.
THEOREM RestInvariance == RestSpec => []RestIInv
<1> QED
  BY RestInitInv, RestNextInv, PTL DEF RestSpec

\* The states are those named, and a thread holds a bucket exactly while it
\* waits for the answer to a call of that bucket: http_call() keeps the mutex
\* over the request and its repetition.
THEOREM RestTypeCorrect == RestSpec => []RestTypeOK
<1>1. RestIInv => RestTypeOK
  BY DEF RestIInv, RestTyped
<1> QED
  BY <1>1, RestInvariance, PTL

\* No channel is opened twice and no message is sent twice: a request is
\* repeated only when it was refused, and a continuation is run once.
THEOREM MessagesSentOnce == RestSpec => []SentOnce
<1>1. RestIInv => SentOnce
  BY DEF RestIInv, RestTyped, SentOnce
<1> QED
  BY <1>1, RestInvariance, PTL

\* A continuation misses its value in two ways only: it was registered while
\* the answer was being stored, or it was posted through a pointer to a state
\* that had been handed over to the future meanwhile.  Only in the first way is
\* it forgotten altogether.
THEOREM ContinuationsLostInRaces == RestSpec => []LostOnlyInRaces
<1>1. RestIInv => LostOnlyInRaces
  BY DEF RestIInv, AnswerKept, AnswerAt, LostOnlyInRaces
<1> QED
  BY <1>1, RestInvariance, PTL
=============================================================================
