--------------------------- MODULE SessionProofs ---------------------------
(***************************************************************************)
(* The safety of a session, for every set of keys, every number of tries   *)
(* and every length of the timers.                                         *)
(***************************************************************************)
EXTENDS Session, TLAPS

\* What is on the wire and at the server under the key of this session came
\* about in this session: Restart takes a key nobody uses.
WireIsOwn ==
    /\ Reply(sentKey) \in toBot \/ srv.key = sentKey => seen # "nothing"
    /\ Answer(sentKey, "accept") \in toBot => seen = "accepted"

\* Every answer that asks to try again has cost a try.
TriesAreCounted == numTries + refused <= MaxTries

\* The inductive invariant.
IInv == TypeOK /\ WireIsOwn /\ OwnSession /\ TriesAreCounted /\ TriesRunOut

USE DEF Disc, Conn, Pwd, Reply, Answer, Traffic, Answers, NoSession
-----------------------------------------------------------------------------
LEMMA InitInv == Init => IInv
<1> SUFFICES ASSUME Init PROVE IInv
  OBVIOUS
<1>1. /\ sentKey \in Key /\ NoKey \notin Key
      /\ phase = "bare" /\ connecting = TRUE /\ killMe = FALSE
      /\ numTries = MaxTries /\ silent = 0 /\ waited = 0 /\ alive = TRUE
      /\ srv = NoSession /\ toSrv = {Conn(sentKey)} /\ toBot = {} /\ calm = FALSE
      /\ seen = "nothing" /\ refused = 0
  BY SessionAssumption DEF Init
<1>2. MaxTries \in Nat /\ MaxTries # 0 /\ 0 \in 0..SilenceLimit /\ 0 \in 0..RetryAfter
  BY SessionAssumption
<1>3. srv \in SrvSession /\ srv.key = NoKey
  BY <1>1 DEF SrvSession
<1>4. toSrv \in SUBSET ToSrv
  BY <1>1 DEF ToSrv
<1>5. numTries \in 0..MaxTries /\ refused \in Nat
      /\ silent \in 0..SilenceLimit /\ waited \in 0..RetryAfter
  BY <1>1, <1>2
<1>6. TypeOK
  BY <1>1, <1>3, <1>4, <1>5, Zenon DEF TypeOK
<1>7. WireIsOwn
  BY <1>1, <1>3 DEF WireIsOwn
<1>8. TriesAreCounted /\ TriesRunOut
  BY <1>1, <1>2 DEF TriesAreCounted, TriesRunOut
<1> QED
  BY <1>1, <1>6, <1>7, <1>8 DEF IInv, OwnSession

\* A new session starts from nothing.
LEMMA TimeoutStep == ASSUME IInv, Running, Timeout PROVE IInv'
<1>1. PICK k \in Key :
          /\ k # srv.key
          /\ \A p \in toSrv \cup toBot : p.key # k
          /\ sentKey' = k
          /\ toSrv' = toSrv \cup {Conn(k)}
  BY DEF Timeout, Restart
<1>2. /\ seen' = "nothing" /\ phase' = "bare" /\ connecting' = TRUE
      /\ silent' = 0 /\ waited' = 0
      /\ UNCHANGED <<killMe, numTries, alive, srv, toBot, calm, refused>>
  BY DEF Timeout, Restart
<1>3. TypeOK'
  BY <1>1, <1>2, SessionAssumption DEF IInv, TypeOK, ToSrv
<1>4. WireIsOwn'
  <2>1. Reply(k) \notin toBot /\ Answer(k, "accept") \notin toBot
    BY <1>1
  <2> QED BY <1>1, <1>2, <2>1 DEF WireIsOwn
<1> QED
  BY <1>2, <1>3, <1>4 DEF IInv, OwnSession, TriesAreCounted, TriesRunOut

LEMMA RetryStep == ASSUME IInv, Running, Retry PROVE IInv'
<1>1. /\ toSrv' = toSrv \cup {Disc, Conn(sentKey)} /\ waited' = 0
      /\ UNCHANGED <<sentKey, phase, connecting, killMe, numTries, silent, alive,
                     srv, toBot, calm, seen, refused>>
  BY DEF Retry
<1>2. TypeOK'
  BY <1>1, SessionAssumption DEF IInv, TypeOK, ToSrv
<1> QED
  BY <1>1, <1>2 DEF IInv, WireIsOwn, OwnSession, TriesAreCounted, TriesRunOut

LEMMA TimeStep == ASSUME IInv, SlowIteration \/ Tick PROVE IInv'
<1>1. /\ silent' \in 0..SilenceLimit /\ waited' \in 0..RetryAfter
      /\ UNCHANGED <<sentKey, phase, connecting, killMe, numTries, alive,
                     netVars, seen, refused>>
  BY SessionAssumption DEF SlowIteration, Tick, IInv, TypeOK
<1> QED
  BY <1>1 DEF IInv, TypeOK, WireIsOwn, OwnSession, TriesAreCounted, TriesRunOut, netVars

\* What every datagram does, whatever it is.
LEMMA GotPacketFrame ==
    ASSUME IInv, NEW p \in toBot, GotPacket(p)
    PROVE  /\ toBot' \in SUBSET toBot /\ silent' = 0 /\ 0 \in 0..SilenceLimit
           /\ UNCHANGED <<srv, calm>> /\ p \in ToBot
BY SessionAssumption DEF GotPacket, Took, IInv, TypeOK

LEMMA GotEncryptResponseStep ==
    ASSUME IInv, NEW p \in toBot, GotPacket(p), GotEncryptResponse(p)
    PROVE  IInv'
<1>1. /\ toBot' \in SUBSET toBot /\ silent' = 0 /\ 0 \in 0..SilenceLimit
      /\ UNCHANGED <<srv, calm>> /\ p \in ToBot
  BY GotPacketFrame
<1>2. /\ phase = "bare" /\ p.kind = "reply" /\ connecting' = FALSE
      /\ UNCHANGED <<killMe, numTries, alive, sentKey, waited, seen, refused>>
  BY DEF GotEncryptResponse
<1>3. CASE p.key = sentKey
  <2>1. p = Reply(sentKey)
    BY <1>1, <1>2, <1>3 DEF ToBot
  <2>2. seen # "nothing"
    BY <2>1 DEF IInv, WireIsOwn
  <2>3. phase' = "login" /\ toSrv' = toSrv \cup {Pwd(sentKey)}
    BY <1>3 DEF GotEncryptResponse
  <2>4. toSrv' \in SUBSET ToSrv
    BY <2>3 DEF IInv, TypeOK, ToSrv
  <2>5. TypeOK'
    BY <1>1, <1>2, <2>3, <2>4 DEF IInv, TypeOK
  <2> QED
    BY <1>1, <1>2, <2>2, <2>3, <2>5
    DEF IInv, WireIsOwn, OwnSession, TriesAreCounted, TriesRunOut
<1>4. CASE p.key # sentKey
  <2>1. UNCHANGED <<phase, toSrv>>
    BY <1>4 DEF GotEncryptResponse
  <2> QED
    BY <1>1, <1>2, <2>1
    DEF IInv, TypeOK, WireIsOwn, OwnSession, TriesAreCounted, TriesRunOut
<1> QED BY <1>3, <1>4

LEMMA PasswordAcceptedStep ==
    ASSUME IInv, NEW p \in toBot, GotPacket(p), PasswordAccepted(p)
    PROVE  IInv'
<1>1. /\ toBot' \in SUBSET toBot /\ silent' = 0 /\ 0 \in 0..SilenceLimit
      /\ UNCHANGED <<srv, calm>>
  BY GotPacketFrame
<1>2. /\ p = Answer(sentKey, "accept") /\ phase' = "game" /\ refused' = 0
      /\ numTries' \in {TriesLeft, MaxTries}
      /\ UNCHANGED <<sentKey, connecting, killMe, waited, alive, toSrv, seen>>
  BY DEF PasswordAccepted
<1>3. numTries' \in 0..MaxTries
  BY <1>2, SessionAssumption DEF TriesLeft, IInv, TypeOK
<1>4. seen = "accepted"
  BY <1>2 DEF IInv, WireIsOwn
<1>5. TypeOK'
  BY <1>1, <1>2, <1>3 DEF IInv, TypeOK
<1>6. \A n \in 0..MaxTries : n + 0 <= MaxTries /\ 0 <= MaxTries /\ 0 # MaxTries
  BY SessionAssumption
<1>7. numTries' + refused' <= MaxTries /\ refused' <= MaxTries /\ refused' # MaxTries
  <2>1. refused' = 0
    BY <1>2
  <2> QED
    BY <1>3, <1>6, <2>1, Zenon
<1>8. TriesAreCounted' /\ TriesRunOut'
  BY <1>7 DEF TriesAreCounted, TriesRunOut
<1> QED
  BY <1>1, <1>2, <1>4, <1>5, <1>8 DEF IInv, WireIsOwn, OwnSession

\* An answer that asks to try again: the last one it may be closes the session.
LEMMA PasswordAgainStep ==
    ASSUME IInv, Running, NEW p \in toBot, GotPacket(p), PasswordAgain(p)
    PROVE  IInv'
<1>1. /\ toBot' \in SUBSET toBot /\ silent' = 0 /\ 0 \in 0..SilenceLimit
      /\ UNCHANGED <<srv, calm>>
  BY GotPacketFrame
<1>2. /\ numTries' = TriesLeft /\ refused' = refused + 1
      /\ killMe' = (TriesLeft = 0)
      /\ toSrv' \in SUBSET (toSrv \cup {Disc, Pwd(sentKey)})
      /\ UNCHANGED <<sentKey, phase, connecting, waited, alive, seen>>
  BY DEF PasswordAgain
<1>3. TypeOK'
  <2>1. numTries' \in 0..MaxTries /\ refused' \in Nat
    BY <1>2, SessionAssumption DEF TriesLeft, IInv, TypeOK
  <2>2. toSrv' \in SUBSET ToSrv
    BY <1>2 DEF IInv, TypeOK, ToSrv
  <2> QED
    BY <1>1, <1>2, <2>1, <2>2 DEF IInv, TypeOK
<1>4. TriesAreCounted' /\ TriesRunOut'
  <2>1. /\ numTries \in Nat /\ refused \in Nat /\ MaxTries \in Nat
        /\ numTries + refused <= MaxTries /\ refused # MaxTries /\ refused <= MaxTries
    BY SessionAssumption
    DEF IInv, TypeOK, Running, TriesAreCounted, TriesRunOut
  <2>2. /\ numTries' = (IF numTries > 0 THEN numTries - 1 ELSE 0)
        /\ refused' = refused + 1 /\ (numTries' = 0 => killMe')
    BY <1>2 DEF TriesLeft
  <2>3. numTries' + refused' <= MaxTries /\ refused' <= MaxTries
        /\ (refused' = MaxTries => numTries' = 0)
    BY <2>1, <2>2
  <2> QED BY <2>2, <2>3 DEF TriesAreCounted, TriesRunOut
<1> QED
  BY <1>1, <1>2, <1>3, <1>4 DEF IInv, WireIsOwn, OwnSession

LEMMA PasswordRefusedStep ==
    ASSUME IInv, NEW p \in toBot, GotPacket(p), PasswordRefused(p)
    PROVE  IInv'
<1>1. /\ toBot' \in SUBSET toBot /\ silent' = 0 /\ 0 \in 0..SilenceLimit
      /\ UNCHANGED <<srv, calm>>
  BY GotPacketFrame
<1>2. /\ numTries' = TriesLeft /\ killMe' = TRUE /\ toSrv' = toSrv \cup {Disc}
      /\ UNCHANGED <<sentKey, phase, connecting, waited, alive, seen, refused>>
  BY DEF PasswordRefused
<1>3. numTries' \in 0..numTries /\ numTries \in 0..MaxTries /\ refused \in Nat
  BY <1>2 DEF TriesLeft, IInv, TypeOK
<1>4. TypeOK'
  BY <1>1, <1>2, <1>3, SessionAssumption DEF IInv, TypeOK, ToSrv
<1>5. TriesAreCounted' /\ TriesRunOut'
  BY <1>2, <1>3, SessionAssumption DEF IInv, TriesAreCounted, TriesRunOut
<1> QED
  BY <1>1, <1>2, <1>4, <1>5 DEF IInv, WireIsOwn, OwnSession

LEMMA OtherPacketStep ==
    ASSUME IInv, NEW p \in toBot, GotPacket(p), GotDisconnect(p) \/ Ignored(p)
    PROVE  IInv'
<1>1. /\ toBot' \in SUBSET toBot /\ silent' = 0 /\ 0 \in 0..SilenceLimit
      /\ UNCHANGED <<srv, calm>>
  BY GotPacketFrame
<1>2. /\ alive' \in BOOLEAN
      /\ UNCHANGED <<sentKey, phase, connecting, killMe, numTries, waited, toSrv, seen, refused>>
  BY DEF GotDisconnect, Ignored, IInv, TypeOK
<1> QED
  BY <1>1, <1>2
  DEF IInv, TypeOK, WireIsOwn, OwnSession, TriesAreCounted, TriesRunOut
-----------------------------------------------------------------------------
LEMMA SrvGotConnectStep == ASSUME IInv, NEW k \in Key, SrvGotConnect(k) PROVE IInv'
<1>1. /\ toSrv' \in SUBSET toSrv
      /\ srv' = [key |-> k, stage |-> "open"]
      /\ toBot' = toBot \cup {Reply(k)}
      /\ seen' = IF k = sentKey /\ seen = "nothing" THEN "opened" ELSE seen
      /\ UNCHANGED <<botVars, calm, refused>>
  BY DEF SrvGotConnect, SrvSends, Took
<1>2. TypeOK'
  BY <1>1 DEF IInv, TypeOK, SrvSession, ToBot, botVars
<1>3. WireIsOwn' /\ OwnSession'
  BY <1>1 DEF IInv, TypeOK, WireIsOwn, OwnSession, botVars
<1> QED
  BY <1>1, <1>2, <1>3 DEF IInv, TriesAreCounted, TriesRunOut, botVars

LEMMA SrvAnswersStep ==
    ASSUME IInv, NEW k \in Key, NEW a \in Answers, SrvAnswers(k, a)
    PROVE  IInv'
<1>1. /\ srv = [key |-> k, stage |-> "open"]
      /\ toSrv' \in SUBSET toSrv
      /\ toBot' = toBot \cup {Answer(k, a)}
      /\ UNCHANGED <<botVars, calm, refused>>
  BY DEF SrvAnswers, SrvSends
<1>2. CASE a = "accept"
  <2>1. /\ srv' = [key |-> k, stage |-> "in"]
        /\ seen' = IF k = sentKey THEN "accepted" ELSE seen
    BY <1>1, <1>2 DEF SrvAnswers
  <2>2. TypeOK'
    BY <1>1, <2>1 DEF IInv, TypeOK, SrvSession, ToBot, botVars
  <2>3. WireIsOwn' /\ OwnSession'
    BY <1>1, <2>1 DEF IInv, TypeOK, WireIsOwn, OwnSession, botVars
  <2> QED
    BY <1>1, <2>2, <2>3 DEF IInv, TriesAreCounted, TriesRunOut, botVars
<1>3. CASE a # "accept"
  <2>1. UNCHANGED <<srv, seen>>
    BY <1>3 DEF SrvAnswers
  <2>2. TypeOK'
    BY <1>1, <2>1 DEF IInv, TypeOK, ToBot, botVars
  <2>3. WireIsOwn' /\ OwnSession'
    BY <1>1, <1>3, <2>1 DEF IInv, WireIsOwn, OwnSession, botVars
  <2> QED
    BY <1>1, <2>1, <2>2, <2>3 DEF IInv, TriesAreCounted, TriesRunOut, botVars
<1> QED BY <1>2, <1>3

\* The server closes a session or sends what no key protects, the network
\* loses datagrams or becomes calm.
LEMMA OtherNetworkStep ==
    ASSUME IInv, SrvGotDisconnect \/ SrvTraffic \/ SrvDrops \/ Lose \/ BecomeCalm
    PROVE  IInv'
<1>1. /\ srv' \in {srv, NoSession} /\ calm' \in BOOLEAN
      /\ toSrv' \in SUBSET toSrv /\ toBot' \in SUBSET (toBot \cup {Disc, Traffic})
      /\ UNCHANGED <<botVars, seen, refused>>
  BY DEF SrvGotDisconnect, SrvTraffic, SrvDrops, Lose, BecomeCalm, SrvSends, Took,
         IInv, TypeOK
<1>2. TypeOK'
  BY <1>1 DEF IInv, TypeOK, SrvSession, ToBot, botVars
<1>3. sentKey # NoKey /\ sentKey' = sentKey
  BY <1>1, SessionAssumption DEF IInv, TypeOK, botVars
<1>4. WireIsOwn'
  BY <1>1, <1>3 DEF IInv, WireIsOwn
<1> QED
  BY <1>1, <1>2, <1>4 DEF IInv, OwnSession, TriesAreCounted, TriesRunOut, botVars
-----------------------------------------------------------------------------
\* The inductive invariant holds in every state of every behaviour.
THEOREM Invariance == Spec => []IInv
<1>1. IInv /\ [Next]_vars => IInv'
  <2> SUFFICES ASSUME IInv, [Next]_vars PROVE IInv'
    OBVIOUS
  <2>1. ASSUME Running, HostStep PROVE IInv'
    <3>1. ASSUME NEW p \in toBot, GotPacket(p) PROVE IInv'
      BY <2>1, <3>1, GotEncryptResponseStep, PasswordAcceptedStep, PasswordAgainStep,
         PasswordRefusedStep, OtherPacketStep
      DEF GotPacket
    <3> QED
      BY <2>1, <3>1, TimeoutStep, RetryStep, TimeStep DEF HostStep
  <2>2. ASSUME ServerStep PROVE IInv'
    BY <2>2, SrvGotConnectStep, SrvAnswersStep, OtherNetworkStep DEF ServerStep
  <2>3. CASE Lose \/ BecomeCalm
    BY <2>3, OtherNetworkStep
  <2>4. CASE Tick
    BY <2>4, TimeStep
  <2>5. CASE UNCHANGED vars
    BY <2>5 DEF vars, botVars, netVars, IInv, TypeOK, WireIsOwn, OwnSession,
                TriesAreCounted, TriesRunOut
  <2> QED
    BY <2>1, <2>2, <2>3, <2>4, <2>5 DEF Next
<1> QED
  BY InitInv, <1>1, PTL DEF Spec

\* Type correctness of the session.
THEOREM TypeCorrect == Spec => []TypeOK
BY Invariance, PTL DEF IInv

\* No leftover of an earlier session logs the bot in.
THEOREM OwnSessionOnly == Spec => []OwnSession
BY Invariance, PTL DEF IInv

\* The bot does not try to log in for ever.
THEOREM TriesDoRunOut == Spec => []TriesRunOut
BY Invariance, PTL DEF IInv
=============================================================================
