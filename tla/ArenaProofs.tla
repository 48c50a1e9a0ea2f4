---------------------------- MODULE ArenaProofs -----------------------------
(***************************************************************************)
(* No pointer into the list of players outlives its player, the index      *)
(* agrees with the list, and a bot with nothing in flight knows itself and *)
(* everybody in its arena: for any number of players, arenas and messages. *)
(***************************************************************************)
EXTENDS Arena, SequenceTheorems, TLAPS

\* Me, once set, is the player found under my ident: this is why a player who
\* leaves, who is never me, does not take Me along.
MeIsMine == Me # NoPlayer => me = Self /\ qal[Self] = Me

IInv == TypeOK /\ PointersLive /\ IndexAgrees /\ MeIsMine

kept(i) == playerlist \ killed(i)

\* What the arguments of killPlayer() leave behind: the players kept, without
\* a pointer to the one killed, and the index of everyone else.
LEMMA KillPlayer ==
    ASSUME IInv, NEW i \in Ident
    PROVE  /\ \A q \in kept(i) : mem[q].ident # i
           /\ killFields(i) \in [Player -> Fields]
           /\ \A q \in kept(i) : /\ killFields(i)[q].ident = mem[q].ident
                                 /\ killFields(i)[q].turret \in kept(i) \cup {NoPlayer}
           /\ killFollow(i) \in kept(i) \cup {NoPlayer}
           /\ \A j \in Ident \ {i} : qal[j] # NoPlayer => qal[j] \in kept(i)
           /\ i # Self => Me \in kept(i) \cup {NoPlayer}
<1> USE DEF IInv, kept, killed
<1>0. NoPlayer \notin Player /\ Self \in Ident
  BY ArenaAssumption DEF Ident
<1>1. \A q \in kept(i) : mem[q].ident # i
  BY <1>0 DEF IndexAgrees, TypeOK
<1> DEFINE Detached(q) == [ident |-> mem[q].ident, ship |-> mem[q].ship,
                           turret |-> IF mem[q].turret \in killed(i) THEN NoPlayer ELSE mem[q].turret]
<1>2. killFields(i) = [q \in Player |-> IF q \in killed(i) THEN Blank ELSE Detached(q)]
  BY DEF killFields, killTurret
<1>3. killFields(i) \in [Player -> Fields]
  <2>1. Blank \in Fields
    BY DEF Blank, Fields, Ship
  <2>2. \A q \in Player : mem[q] \in Fields
    BY DEF TypeOK
  <2>3. \A q \in Player : Detached(q) \in Fields
    BY <2>2 DEF Fields
  <2>4. QED BY <1>2, <2>1, <2>3
<1>4. ASSUME NEW q \in kept(i)
      PROVE  /\ killFields(i)[q].ident = mem[q].ident
             /\ killFields(i)[q].turret \in kept(i) \cup {NoPlayer}
  <2>1. q \in Player /\ q \notin killed(i)
    BY DEF TypeOK
  <2>2. killFields(i)[q] = Detached(q)
    BY <1>2, <2>1
  <2>3. mem[q].turret \in playerlist \cup {NoPlayer}
    BY DEF PointersLive
  <2>4. QED BY <2>2, <2>3
<1>5. killFollow(i) \in kept(i) \cup {NoPlayer}
  BY DEF killFollow, PointersLive
<1>6. \A j \in Ident \ {i} : qal[j] # NoPlayer => qal[j] \in kept(i)
  BY DEF IndexAgrees
<1>7. i # Self => Me \in kept(i) \cup {NoPlayer}
  BY <1>0, <1>6 DEF MeIsMine, PointersLive
<1>8. QED BY <1>1, <1>3, <1>4, <1>5, <1>6, <1>7

LEMMA InitInv == Init => IInv
<1> SUFFICES ASSUME Init PROVE IInv
  OBVIOUS
<1> USE ArenaAssumption DEF Init
<1>1. TypeOK
  <2>1. Blank \in Fields
    BY DEF Fields, Blank, Ship
  <2>2. toBot \in Seq(Message) /\ toSrv \in Seq(ArenaName)
    OBVIOUS
  <2>3. QED BY <2>1, <2>2 DEF TypeOK
<1>2. PointersLive /\ IndexAgrees /\ MeIsMine
  BY DEF PointersLive, IndexAgrees, MeIsMine
<1>3. QED BY <1>1, <1>2 DEF IInv

\* An emptied arena satisfies everything the invariant says of the players.
LEMMA Emptied ==
    ASSUME resetArena
    PROVE  /\ PointersLive' /\ IndexAgrees' /\ MeIsMine'
           /\ playerlist' \subseteq Player
           /\ qal' \in [Ident -> Player \cup {NoPlayer}]
           /\ mem' \in [Player -> Fields]
           /\ me' \in {NoIdent, Self} /\ Me' = NoPlayer /\ follow' = NoPlayer /\ position' \in BOOLEAN
  BY DEF resetArena, PointersLive, IndexAgrees, MeIsMine, Blank, Fields, Ship

\* What a handler takes off the link leaves messages on it.
LEMMA HeadIsMessage ==
    ASSUME TypeOK, toBot # <<>>
    PROVE  /\ Head(toBot) \in Message /\ Tail(toBot) \in Seq(Message)
           /\ Head(toBot).who \subseteq Ident
           /\ Head(toBot).kind = "leave" => Head(toBot).who \subseteq Other
<1>1. Head(toBot) \in Message /\ Tail(toBot) \in Seq(Message)
  BY DEF TypeOK
<1>2. \A m \in Message : m.who \subseteq Ident /\ (m.kind = "leave" => m.who \subseteq Other)
  BY DEF Message, IdentMsg, InGameFlag, Sync, Enter, Leave, Act, Ident
<1>3. QED BY <1>1, <1>2

LEMMA EnteringInv ==
    ASSUME IInv, GotEntering
    PROVE  IInv'
<1> USE DEF IInv
<1>0. PICK i \in Head(toBot).who :
        \E p \in Player \ kept(i), ship \in Ship, turretee \in kept(i) \cup {NoPlayer} :
          /\ toBot' = IF Head(toBot).who \ {i} = {} THEN Tail(toBot) ELSE <<Enter(Head(toBot).who \ {i})>> \o Tail(toBot)
          /\ playerlist' = kept(i) \cup {p}
          /\ qal' = [qal EXCEPT ![i] = p]
          /\ mem' = [killFields(i) EXCEPT ![p] = [ident |-> i, ship |-> ship, turret |-> turretee]]
          /\ Me' = IF i = me THEN p ELSE Me
          /\ follow' = killFollow(i)
  BY DEF GotEntering, kept
<1>1. PICK p \in Player \ kept(i), ship \in Ship, turretee \in kept(i) \cup {NoPlayer} :
        /\ toBot' = IF Head(toBot).who \ {i} = {} THEN Tail(toBot) ELSE <<Enter(Head(toBot).who \ {i})>> \o Tail(toBot)
        /\ playerlist' = kept(i) \cup {p}
        /\ qal' = [qal EXCEPT ![i] = p]
        /\ mem' = [killFields(i) EXCEPT ![p] = [ident |-> i, ship |-> ship, turret |-> turretee]]
        /\ Me' = IF i = me THEN p ELSE Me
        /\ follow' = killFollow(i)
  BY <1>0
<1>2. /\ me' = me /\ toBot # <<>>
      /\ UNCHANGED <<position, inArena, alive, pluginMe, where, srvArena, toSrv, inGame>>
  BY DEF GotEntering, Got, srvVars
<1>3. i \in Ident /\ Head(toBot).who \subseteq Ident /\ Tail(toBot) \in Seq(Message)
  BY <1>2, HeadIsMessage
<1>4. p \in Player /\ p \notin kept(i) /\ NoPlayer \notin Player /\ kept(i) \subseteq Player
  BY ArenaAssumption DEF kept, TypeOK
<1>5. TypeOK'
  <2>1. toBot' \in Seq(Message)
    <3>1. Enter(Head(toBot).who \ {i}) \in Message
      BY <1>3 DEF Message
    <3>2. QED BY <1>1, <1>3, <3>1
  <2>2. [ident |-> i, ship |-> ship, turret |-> turretee] \in Fields
    BY <1>3, <1>4 DEF Fields
  <2>3. mem' \in [Player -> Fields]
    BY <1>1, <1>3, <2>2, KillPlayer
  <2>4. follow' \in Player \cup {NoPlayer} /\ Me' \in Player \cup {NoPlayer}
    BY <1>1, <1>3, <1>4, KillPlayer DEF TypeOK
  <2>5. QED BY <1>1, <1>2, <1>4, <2>1, <2>3, <2>4 DEF TypeOK
<1>6. mem'[p] = [ident |-> i, ship |-> ship, turret |-> turretee]
  BY <1>1, <1>3, KillPlayer
<1>7. \A q \in kept(i) : mem'[q] = killFields(i)[q]
  BY <1>1, <1>3, <1>4, KillPlayer
<1>8. qal'[i] = p /\ \A j \in Ident \ {i} : qal'[j] = qal[j]
  BY <1>1, <1>3 DEF TypeOK
<1>9. IndexAgrees'
  <2>1. ASSUME NEW q \in playerlist' PROVE mem'[q].ident \in Ident /\ qal'[mem'[q].ident] = q
    <3>1. CASE q = p
      BY <1>3, <1>6, <1>8, <3>1
    <3>2. CASE q \in kept(i)
      <4>1. mem'[q].ident = mem[q].ident /\ mem[q].ident # i
        BY <1>3, <1>7, <3>2, KillPlayer
      <4>2. mem[q].ident \in Ident /\ qal[mem[q].ident] = q
        BY <3>2 DEF IndexAgrees, kept
      <4>3. QED BY <1>8, <4>1, <4>2
    <3>3. QED BY <1>1, <2>1, <3>1, <3>2
  <2>2. ASSUME NEW j \in Ident, qal'[j] # NoPlayer PROVE qal'[j] \in playerlist' /\ mem'[qal'[j]].ident = j
    <3>1. CASE j = i
      BY <1>1, <1>6, <1>8, <3>1
    <3>2. CASE j # i
      <4>1. qal'[j] = qal[j] /\ qal[j] \in kept(i)
        BY <1>3, <1>8, <2>2, <3>2, KillPlayer
      <4>2. mem'[qal[j]].ident = mem[qal[j]].ident
        BY <1>3, <1>7, <4>1, KillPlayer
      <4>3. mem[qal[j]].ident = j
        BY <2>2, <4>1 DEF IndexAgrees
      <4>4. QED BY <1>1, <4>1, <4>2, <4>3
    <3>3. QED BY <3>1, <3>2
  <2>3. QED BY <2>1, <2>2 DEF IndexAgrees
<1>10. PointersLive'
  <2>1. follow' \in playerlist' \cup {NoPlayer}
    BY <1>1, <1>3, KillPlayer
  <2>2. Me' \in playerlist' \cup {NoPlayer}
    <3>1. CASE i = me
      BY <1>1, <3>1
    <3>2. CASE i # me
      <4>1. Me # NoPlayer => i # Self
        BY <3>2 DEF MeIsMine
      <4>2. Me \in kept(i) \cup {NoPlayer}
        BY <1>3, <4>1, KillPlayer
      <4>3. QED BY <1>1, <3>2, <4>2
    <3>3. QED BY <3>1, <3>2
  <2>3. ASSUME NEW q \in playerlist' PROVE mem'[q].turret \in playerlist' \cup {NoPlayer}
    <3>1. CASE q = p
      BY <1>1, <1>6, <3>1
    <3>2. CASE q \in kept(i)
      BY <1>1, <1>3, <1>7, <3>2, KillPlayer
    <3>3. QED BY <1>1, <2>3, <3>1, <3>2
  <2>4. QED BY <2>1, <2>2, <2>3 DEF PointersLive
<1>11. MeIsMine'
  <2>1. CASE i = me
    <3>1. me = Self
      BY <1>3, <2>1, ArenaAssumption DEF TypeOK, Ident
    <3>2. QED BY <1>1, <1>2, <1>8, <2>1, <3>1 DEF MeIsMine
  <2>2. CASE i # me
    <3>1. Self \in Ident
      BY DEF Ident
    <3>2. QED BY <1>1, <1>2, <1>8, <2>2, <3>1 DEF MeIsMine
  <2>3. QED BY <2>1, <2>2
<1>12. QED BY <1>5, <1>9, <1>10, <1>11

LEMMA LeavingInv ==
    ASSUME IInv, GotLeaving
    PROVE  IInv'
<1> USE DEF IInv
<1>1. PICK i \in Head(toBot).who :
        /\ playerlist' = kept(i)
        /\ mem' = killFields(i)
        /\ qal' = killIndex(i)
        /\ follow' = killFollow(i)
  BY DEF GotLeaving, kept
<1>2. /\ toBot # <<>> /\ Head(toBot).kind = "leave" /\ toBot' = Tail(toBot)
      /\ UNCHANGED <<me, Me, position, inArena, alive, pluginMe, where, srvArena, toSrv, inGame>>
  BY DEF GotLeaving, Got, Taken, srvVars
<1>3. i \in Other /\ i \in Ident /\ i # Self /\ Tail(toBot) \in Seq(Message)
  BY <1>2, HeadIsMessage, ArenaAssumption DEF Ident
<1>4. qal'[i] = NoPlayer /\ \A j \in Ident \ {i} : qal'[j] = qal[j]
  BY <1>1, <1>3 DEF killIndex, TypeOK
<1>5. TypeOK'
  <2>1. qal' \in [Ident -> Player \cup {NoPlayer}]
    BY <1>1 DEF killIndex, TypeOK
  <2>2. follow' \in Player \cup {NoPlayer} /\ playerlist' \subseteq Player /\ mem' \in [Player -> Fields]
    BY <1>1, <1>3, KillPlayer DEF TypeOK, kept
  <2>3. QED BY <1>2, <1>3, <2>1, <2>2 DEF TypeOK
<1>6. IndexAgrees'
  <2>1. ASSUME NEW q \in playerlist' PROVE mem'[q].ident \in Ident /\ qal'[mem'[q].ident] = q
    <3>1. mem'[q].ident = mem[q].ident /\ mem[q].ident # i
      BY <1>1, <1>3, KillPlayer
    <3>2. mem[q].ident \in Ident /\ qal[mem[q].ident] = q
      BY <1>1 DEF IndexAgrees, kept
    <3>3. QED BY <1>4, <3>1, <3>2
  <2>2. ASSUME NEW j \in Ident, qal'[j] # NoPlayer PROVE qal'[j] \in playerlist' /\ mem'[qal'[j]].ident = j
    <3>1. qal'[j] = qal[j] /\ qal[j] \in kept(i)
      BY <1>3, <1>4, <2>2, KillPlayer
    <3>2. mem'[qal[j]].ident = mem[qal[j]].ident
      BY <1>1, <1>3, <3>1, KillPlayer
    <3>3. mem[qal[j]].ident = j
      BY <2>2, <3>1 DEF IndexAgrees
    <3>4. QED BY <1>1, <3>1, <3>2, <3>3
  <2>3. QED BY <2>1, <2>2 DEF IndexAgrees
<1>7. PointersLive'
  BY <1>1, <1>2, <1>3, KillPlayer DEF PointersLive
<1>8. MeIsMine'
  <2>1. Self \in Ident
    BY DEF Ident
  <2>2. QED BY <1>2, <1>3, <1>4, <2>1 DEF MeIsMine
<1>9. QED BY <1>5, <1>6, <1>7, <1>8

\* Messages about one player touch ships and turrets, never the list.
LEMMA AboutInv ==
    ASSUME IInv, NEW p, About(p), alive' \in BOOLEAN,
           follow' \in playerlist \cup {NoPlayer},
           mem' \in [Player -> Fields],
           \A q \in playerlist : /\ mem'[q].ident = mem[q].ident
                                 /\ mem'[q].turret \in playerlist \cup {NoPlayer}
    PROVE  IInv'
<1> USE DEF IInv
<1>1. /\ toBot # <<>> /\ toBot' = Tail(toBot)
      /\ UNCHANGED <<playerlist, qal, me, Me, position, inArena, pluginMe, where, srvArena, toSrv, inGame>>
  BY DEF About, Got, Taken, srvVars
<1>2. TypeOK'
  <2>1. toBot' \in Seq(Message) /\ follow' \in Player \cup {NoPlayer}
    BY <1>1, HeadIsMessage DEF TypeOK
  <2>2. QED BY <1>1, <2>1 DEF TypeOK
<1>3. IndexAgrees'
  BY <1>1 DEF IndexAgrees
<1>4. PointersLive'
  BY <1>1 DEF PointersLive
<1>5. MeIsMine'
  BY <1>1 DEF MeIsMine
<1>6. QED BY <1>2, <1>3, <1>4, <1>5

\* The step of the invariant, one case per action.
LEMMA NextInv == IInv /\ [Next]_vars => IInv'
<1> SUFFICES ASSUME IInv, [Next]_vars PROVE IInv'
  OBVIOUS
<1> USE DEF IInv
<1>0. playerlist \subseteq Player /\ NoPlayer \notin Player /\ mem \in [Player -> Fields]
      /\ follow \in playerlist \cup {NoPlayer} /\ alive \in BOOLEAN
      /\ \A q \in playerlist : mem[q].turret \in playerlist \cup {NoPlayer}
  BY ArenaAssumption DEF TypeOK, PointersLive
<1>1. CASE UNCHANGED vars
  BY <1>1 DEF vars, botVars, srvVars, TypeOK, PointersLive, IndexAgrees, MeIsMine
<1>2. CASE Login \/ Go
  <2>1. PICK a \in ArenaName : changeArena(a)
    BY <1>2 DEF Login, Go
  <2>2. inGame' \in BOOLEAN /\ UNCHANGED <<alive, where, srvArena, toBot>>
    BY <1>2 DEF Login, Go, srvVars, TypeOK
  <2>3. resetArena /\ inArena' = FALSE /\ pluginMe' \in {NoPlayer, pluginMe} /\ toSrv' \in Seq(ArenaName)
    BY <2>1 DEF changeArena, TypeOK
  <2>4. QED BY <2>2, <2>3, Emptied DEF TypeOK
<1>4. CASE Reconnect
  <2>1. /\ resetArena /\ inGame' = FALSE /\ inArena' = FALSE
        /\ srvArena' = Nowhere /\ UNCHANGED <<alive, pluginMe, where>>
    BY <1>4 DEF Reconnect
  <2>2. toBot' \in Seq(Message) /\ toSrv' \in Seq(ArenaName)
    BY <1>4 DEF Reconnect
  <2>3. QED BY <2>1, <2>2, Emptied DEF TypeOK
<1>5. CASE GotIdent
  <2>1. toBot' \in Seq(Message)
    BY <1>5, HeadIsMessage DEF GotIdent, Got, Taken
  <2>2. TypeOK'
    BY <1>5, <2>1 DEF GotIdent, Got, srvVars, TypeOK
  <2>3. QED BY <1>5, <2>2 DEF GotIdent, PointersLive, IndexAgrees, MeIsMine
<1>6. CASE GotEntering
  BY <1>6, EnteringInv
<1>7. CASE GotLeaving
  BY <1>7, LeavingInv
<1>8. CASE GotInGame
  <2>1. toBot' \in Seq(Message)
    BY <1>8, HeadIsMessage DEF GotInGame, Got, Taken
  <2>2. TypeOK'
    BY <1>8, <2>1 DEF GotInGame, Got, srvVars, TypeOK
  <2>3. QED BY <1>8, <2>2 DEF GotInGame, PointersLive, IndexAgrees, MeIsMine
<1>9. CASE GotSync
  <2>1. toBot' \in Seq(Message)
    BY <1>9, HeadIsMessage DEF GotSync, Got, Taken
  <2>2. TypeOK'
    BY <1>9, <2>1 DEF GotSync, Got, srvVars, TypeOK
  <2>3. QED BY <1>9, <2>2 DEF GotSync, PointersLive, IndexAgrees, MeIsMine
<1>10. CASE GotUnknown
  BY <1>0, <1>10, AboutInv DEF GotUnknown
<1>11. CASE GotShip
  <2>1. PICK p \in playerlist, ship \in Ship :
          /\ About(p) /\ UNCHANGED alive
          /\ mem' = [mem EXCEPT ![p].ship = ship]
          /\ follow' \in {follow, NoPlayer}
    BY <1>11 DEF GotShip
  <2>2. mem' \in [Player -> Fields] /\ \A q \in playerlist : mem'[q].ident = mem[q].ident /\ mem'[q].turret = mem[q].turret
    BY <1>0, <2>1 DEF Fields
  <2>3. QED BY <1>0, <2>1, <2>2, AboutInv
<1>12. CASE GotSpec
  <2>1. PICK p \in playerlist :
          /\ About(p) /\ UNCHANGED <<follow, alive>>
          /\ mem' = [mem EXCEPT ![p].ship = "spec"]
    BY <1>12 DEF GotSpec
  <2>2. mem' \in [Player -> Fields] /\ \A q \in playerlist : mem'[q].ident = mem[q].ident /\ mem'[q].turret = mem[q].turret
    BY <1>0, <2>1 DEF Fields, Ship
  <2>3. QED BY <1>0, <2>1, <2>2, AboutInv
<1>13. CASE GotCreateTurret
  <2>1. PICK p \in playerlist, turretee \in playerlist \cup {NoPlayer} :
          /\ About(p) /\ UNCHANGED <<follow, alive>>
          /\ mem' = [mem EXCEPT ![p].turret = turretee]
    BY <1>13 DEF GotCreateTurret
  <2>2. mem' \in [Player -> Fields]
        /\ \A q \in playerlist : mem'[q].ident = mem[q].ident /\ mem'[q].turret \in {turretee, mem[q].turret}
    BY <1>0, <2>1 DEF Fields
  <2>3. QED BY <1>0, <2>1, <2>2, AboutInv
<1>14. CASE GotDeleteTurret
  <2>1. PICK p \in playerlist :
          /\ About(p) /\ UNCHANGED <<follow, alive>>
          /\ mem' = killTurret(mem, {p})
    BY <1>14 DEF GotDeleteTurret
  <2>2. mem' = [q \in Player |-> [ident |-> mem[q].ident, ship |-> mem[q].ship,
                                  turret |-> IF mem[q].turret \in {p} THEN NoPlayer ELSE mem[q].turret]]
    BY <2>1 DEF killTurret
  <2>3. \A q \in Player : mem[q] \in Fields
    BY <1>0
  <2>4. mem' \in [Player -> Fields]
    BY <2>2, <2>3 DEF Fields
  <2>5. \A q \in playerlist : mem'[q].ident = mem[q].ident /\ mem'[q].turret \in {NoPlayer, mem[q].turret}
    BY <1>0, <2>2
  <2>6. QED BY <1>0, <2>1, <2>4, <2>5, AboutInv
<1>15. CASE GotFollow
  <2>1. PICK p \in playerlist, xp \in playerlist \cup {NoPlayer} :
          About(p) /\ follow' = xp /\ UNCHANGED <<mem, alive>>
    BY <1>15 DEF GotFollow
  <2>2. QED BY <1>0, <2>1, AboutInv
<1>16. CASE GotAttach
  <2>1. PICK p \in playerlist, xp \in playerlist \cup {NoPlayer} :
          /\ About(p)
          /\ follow' \in {follow, xp}
          /\ alive' \in BOOLEAN
          /\ \/ Me # NoPlayer /\ mem' = [mem EXCEPT ![Me].turret = xp]
             \/ UNCHANGED mem
    BY <1>0, <1>16 DEF GotAttach
  <2>2. mem' \in [Player -> Fields]
        /\ \A q \in playerlist : mem'[q].ident = mem[q].ident /\ mem'[q].turret \in {xp, mem[q].turret}
    <3>1. mem \in [Player -> Fields] /\ playerlist \subseteq Player /\ xp \in Player \cup {NoPlayer}
      BY <1>0 DEF TypeOK
    <3>2. CASE Me # NoPlayer /\ mem' = [mem EXCEPT ![Me].turret = xp]
      <4>1. ASSUME NEW r \in Player
            PROVE  /\ [mem[r] EXCEPT !.turret = xp] \in Fields
                   /\ [mem[r] EXCEPT !.turret = xp].ident = mem[r].ident
                   /\ [mem[r] EXCEPT !.turret = xp].turret = xp
        BY <3>1 DEF Fields
      <4>2. mem' = [mem EXCEPT ![Me] = [mem[Me] EXCEPT !.turret = xp]]
        BY <3>2
      <4> HIDE DEF Fields
      <4> QED
        BY <3>1, <4>1, <4>2
    <3>3. CASE UNCHANGED mem
      BY <3>1, <3>3
    <3> QED
      BY <2>1, <3>2, <3>3
  <2>3. QED BY <1>0, <2>1, <2>2, AboutInv
<1>17. CASE spectateNext
  <2>1. follow' \in playerlist /\ UNCHANGED <<playerlist, qal, mem, me, Me, position, inArena, inGame, alive, pluginMe, where, srvArena, toBot, toSrv>>
    BY <1>17 DEF spectateNext, srvVars
  <2>2. QED BY <1>0, <2>1 DEF TypeOK, PointersLive, IndexAgrees, MeIsMine
<1>18. CASE SrvLogin \/ SrvMove \/ SrvSays
  <2>1. UNCHANGED botVars
    BY <1>18 DEF SrvLogin, SrvMove, SrvSays
  <2>2. toSrv' \in Seq(ArenaName) /\ srvArena' \in ArenaName \cup {Nowhere} /\ where' \in [Other -> ArenaName \cup {Nowhere}]
    <3>1. CASE SrvLogin
      BY <3>1 DEF SrvLogin, TypeOK
    <3>2. CASE SrvMove
      BY <3>2 DEF SrvMove, TypeOK
    <3>3. CASE SrvSays
      BY <3>3 DEF SrvSays, srvVars, TypeOK
    <3>4. QED BY <1>18, <3>1, <3>2, <3>3
  <2>3. toBot' \in Seq(Message)
    <3>1. CASE SrvLogin
      <4>1. Enter(Present(Head(toSrv)) \cup {Self}) \in Message
        BY DEF Message, Present, Ident
      <4>2. <<IdentMsg, Enter(Present(Head(toSrv)) \cup {Self}), InGameFlag>> \in Seq(Message)
        BY <4>1 DEF Message
      <4>3. QED BY <3>1, <4>2 DEF SrvLogin, Say, TypeOK
    <3>2. CASE SrvMove
      <4>1. PICK i \in Other, a \in ArenaName \cup {Nowhere} : Say(News(i, a))
        BY <3>2 DEF SrvMove
      <4>2. Leave(i) \in Message /\ Enter({i}) \in Message
        BY DEF Message, Ident
      <4>3. News(i, a) \in Seq(Message)
        BY <4>2 DEF News
      <4>4. QED BY <4>1, <4>3 DEF Say, TypeOK
    <3>3. CASE SrvSays
      <4>1. \A i \in Present(srvArena) \cup {Self} : Act(i) \in Message
        BY DEF Message, Present, Ident
      <4>2. PICK m \in Message : Say(<<m>>)
        BY <3>3, <4>1 DEF SrvSays, Message
      <4>3. QED BY <4>2 DEF Say, TypeOK
    <3>4. QED BY <1>18, <3>1, <3>2, <3>3
  <2>4. QED BY <2>1, <2>2, <2>3 DEF botVars, TypeOK, PointersLive, IndexAgrees, MeIsMine
<1>19. QED
  BY <1>1, <1>2, <1>4, <1>5, <1>6, <1>7, <1>8, <1>9, <1>10, <1>11, <1>12, <1>13, <1>14, <1>15, <1>16, <1>17, <1>18
  DEF Next, Players, Turrets, Presence, Server

LEMMA Invariance == Spec => []IInv
<1>1. QED BY InitInv, NextInv, PTL DEF Spec

\* Every variable of the arena keeps its type.
THEOREM TypeCorrect == Spec => []TypeOK
<1>1. IInv => TypeOK
  BY DEF IInv
<1>2. QED BY <1>1, Invariance, PTL

\* No pointer of the host leads to a freed player, however players come, go,
\* attach and are followed while the arena changes (killPlayer()).
THEOREM NoDanglingPointer == Spec => []PointersLive
<1>1. IInv => PointersLive
  BY DEF IInv
<1>2. QED BY <1>1, Invariance, PTL

\* The index by ident and the list hold the same players, one per ident.
THEOREM IndexIsExact == Spec => []IndexAgrees
<1>1. IInv => IndexAgrees
  BY DEF IInv
<1>2. QED BY <1>1, Invariance, PTL
-----------------------------------------------------------------------------
\* What the bot knows once it is logged in

Coming == 1..Len(toBot)    \* places of the messages in flight to the bot
Enters(m, i) == m.kind = "enter" /\ i \in m.who
Leaves(m, i) == m.kind = "leave" /\ i \in m.who

\* Player i of the bot's arena is listed or about to be, and whatever says that
\* he left is old: he is said to enter after it.
PlayerKnown(i) ==
    /\ qal[i] # NoPlayer \/ \E l \in Coming : Enters(toBot[l], i)
    /\ \A k \in Coming : Leaves(toBot[k], i) => \E l \in Coming : k < l /\ Enters(toBot[l], i)

\* The bot knows itself, or enters after it hears its ident.
MeKnown ==
    \/ Me # NoPlayer
    \/ \E l \in Coming :
         /\ Enters(toBot[l], Self)
         /\ me = Self \/ \E k \in Coming : k < l /\ toBot[k].kind = "ident"

\* Whenever Me may still change the plugin hears of it afterwards.
PluginKnows ==
    /\ pluginMe = Me \/ \E k \in Coming : toBot[k].kind = "ingame"
    /\ \A l \in Coming : Enters(toBot[l], Self) => \E k \in Coming : l < k /\ toBot[k].kind = "ingame"

\* Once the server has handled the last login, and not before: what the bot
\* still hears of an earlier arena proves nothing.
LoggedIn ==
    inGame /\ toSrv = <<>> =>
        /\ srvArena # Nowhere
        /\ \A i \in Present(srvArena) : PlayerKnown(i)
        /\ MeKnown /\ PluginKnows

LEMMA Places ==
    ASSUME TypeOK, toBot # <<>>
    PROVE  /\ Len(toBot) \in Nat /\ Len(toBot) > 0
           /\ Head(toBot) = toBot[1] /\ 1 \in Coming
           /\ Len(Tail(toBot)) = Len(toBot) - 1
           /\ \A k \in 1..(Len(toBot) - 1) : Tail(toBot)[k] = toBot[k + 1]
<1>1. toBot \in Seq(Message)
  BY DEF TypeOK
<1>2. QED BY <1>1, HeadTailProperties DEF Coming

\* A handler that takes a whole message: an ident it hears is its own, Me does
\* not change, and only who leaves goes out of the index.
LEMMA TakenKnown ==
    ASSUME TypeOK, LoggedIn, toBot # <<>>, Taken, Head(toBot).kind # "enter",
           Me' = Me,
           Head(toBot).kind = "ident" => me' = Self,
           me = Self => me' = Self,
           pluginMe' = IF Head(toBot).kind = "ingame" THEN Me ELSE pluginMe,
           \A i \in Ident : qal'[i] = qal[i] \/ Leaves(Head(toBot), i),
           UNCHANGED <<where, srvArena, toSrv, inGame>>
    PROVE  LoggedIn'
<1> SUFFICES ASSUME inGame, toSrv = <<>>
             PROVE  /\ srvArena' # Nowhere
                    /\ \A i \in Present(srvArena) : PlayerKnown(i)'
                    /\ MeKnown' /\ PluginKnows'
  BY DEF LoggedIn, Present
<1>1. /\ Head(toBot) = toBot[1] /\ Len(toBot) \in Nat
      /\ Len(toBot') = Len(toBot) - 1
      /\ \A k \in Coming : k # 1 => k - 1 \in Coming' /\ toBot'[k - 1] = toBot[k]
      /\ \A k \in Coming' : k + 1 \in Coming /\ toBot'[k] = toBot[k + 1]
  BY Places DEF Coming, Taken
<1>2. ASSUME NEW i \in Present(srvArena)
      PROVE  PlayerKnown(i)'
  <2>1. PlayerKnown(i) /\ i \in Ident
    BY DEF LoggedIn, Present, Ident
  <2>2. qal'[i] # NoPlayer \/ \E l \in Coming' : Enters(toBot'[l], i)
    <3>1. CASE \E l \in Coming : Enters(toBot[l], i)
      <4>1. PICK l \in Coming : Enters(toBot[l], i)
        BY <3>1
      <4>2. l # 1
        BY <1>1, <4>1 DEF Enters
      <4>3. QED BY <1>1, <4>1, <4>2
    <3>2. CASE ~ \E l \in Coming : Enters(toBot[l], i)
      <4>1. qal[i] # NoPlayer /\ ~Leaves(toBot[1], i)
        BY <2>1, <3>2, Places DEF PlayerKnown
      <4>2. QED BY <1>1, <2>1, <4>1
    <3>3. QED BY <3>1, <3>2
  <2>3. ASSUME NEW k \in Coming', Leaves(toBot'[k], i)
        PROVE  \E l \in Coming' : k < l /\ Enters(toBot'[l], i)
    <3>1. k + 1 \in Coming /\ Leaves(toBot[k + 1], i)
      BY <1>1, <2>3
    <3>2. PICK l \in Coming : k + 1 < l /\ Enters(toBot[l], i)
      BY <2>1, <3>1 DEF PlayerKnown
    <3>3. l # 1 /\ k < l - 1
      BY <3>2 DEF Coming
    <3>4. QED BY <1>1, <3>2, <3>3
  <2>4. QED BY <2>2, <2>3 DEF PlayerKnown
<1>3. MeKnown'
  <2>1. CASE Me # NoPlayer
    BY <2>1 DEF MeKnown
  <2>2. CASE Me = NoPlayer
    <3>1. PICK l \in Coming :
            /\ Enters(toBot[l], Self)
            /\ me = Self \/ \E k \in Coming : k < l /\ toBot[k].kind = "ident"
      BY <2>2 DEF LoggedIn, MeKnown
    <3>2. l # 1
      BY <1>1, <3>1 DEF Enters
    <3>3. l - 1 \in Coming' /\ Enters(toBot'[l - 1], Self)
      BY <1>1, <3>1, <3>2
    <3>4. me' = Self \/ \E k \in Coming' : k < l - 1 /\ toBot'[k].kind = "ident"
      <4>1. CASE me = Self
        BY <4>1
      <4>2. CASE me # Self
        <5>1. PICK k \in Coming : k < l /\ toBot[k].kind = "ident"
          BY <3>1, <4>2
        <5>2. CASE k = 1
          BY <1>1, <5>1, <5>2
        <5>3. CASE k # 1
          <6>1. k - 1 \in Coming' /\ toBot'[k - 1].kind = "ident" /\ k - 1 < l - 1
            BY <1>1, <5>1, <5>3 DEF Coming
          <6>2. QED BY <6>1
        <5>4. QED BY <5>2, <5>3
      <4>3. QED BY <4>1, <4>2
    <3>5. QED BY <3>3, <3>4 DEF MeKnown
  <2>3. QED BY <2>1, <2>2
<1>4. PluginKnows'
  <2>1. pluginMe' = Me' \/ \E k \in Coming' : toBot'[k].kind = "ingame"
    <3>1. CASE Head(toBot).kind = "ingame"
      BY <3>1
    <3>2. CASE Head(toBot).kind # "ingame"
      <4>1. CASE pluginMe = Me
        BY <3>2, <4>1
      <4>2. CASE pluginMe # Me
        <5>1. PICK k \in Coming : toBot[k].kind = "ingame"
          BY <4>2 DEF LoggedIn, PluginKnows
        <5>2. k # 1
          BY <1>1, <3>2, <5>1
        <5>3. QED BY <1>1, <5>1, <5>2
      <4>3. QED BY <4>1, <4>2
    <3>3. QED BY <3>1, <3>2
  <2>2. ASSUME NEW l \in Coming', Enters(toBot'[l], Self)
        PROVE  \E k \in Coming' : l < k /\ toBot'[k].kind = "ingame"
    <3>1. l + 1 \in Coming /\ Enters(toBot[l + 1], Self)
      BY <1>1, <2>2
    <3>2. PICK k \in Coming : l + 1 < k /\ toBot[k].kind = "ingame"
      BY <3>1 DEF LoggedIn, PluginKnows
    <3>3. k # 1 /\ l < k - 1
      BY <3>2 DEF Coming
    <3>4. QED BY <1>1, <3>2, <3>3
  <2>3. QED BY <2>1, <2>2 DEF PluginKnows
<1>5. QED BY <1>2, <1>3, <1>4 DEF LoggedIn

\* One player of the first message enters; the message is done with him.
LEMMA EnteringKnown ==
    ASSUME TypeOK, LoggedIn, GotEntering
    PROVE  LoggedIn'
<1> SUFFICES ASSUME inGame, toSrv = <<>>
             PROVE  /\ srvArena' # Nowhere
                    /\ \A i \in Present(srvArena) : PlayerKnown(i)'
                    /\ MeKnown' /\ PluginKnows'
  BY DEF LoggedIn, Present, GotEntering, Got, srvVars
<1>1. PICK i \in Head(toBot).who : \E p \in Player :
          /\ toBot' = IF Head(toBot).who \ {i} = {} THEN Tail(toBot) ELSE <<Enter(Head(toBot).who \ {i})>> \o Tail(toBot)
          /\ qal' = [qal EXCEPT ![i] = p]
          /\ Me' = IF i = me THEN p ELSE Me
  BY DEF GotEntering
<1>2. PICK p \in Player :
          /\ toBot' = IF Head(toBot).who \ {i} = {} THEN Tail(toBot) ELSE <<Enter(Head(toBot).who \ {i})>> \o Tail(toBot)
          /\ qal' = [qal EXCEPT ![i] = p]
          /\ Me' = IF i = me THEN p ELSE Me
  BY <1>1
<1>3. /\ toBot # <<>> /\ Head(toBot).kind = "enter" /\ p # NoPlayer /\ i \in Ident
      /\ UNCHANGED <<me, pluginMe, srvArena>>
  BY HeadIsMessage, ArenaAssumption DEF GotEntering, Got, srvVars
<1>4. qal'[i] = p /\ \A j \in Ident \ {i} : qal'[j] = qal[j]
  BY <1>2, <1>3 DEF TypeOK
\* The place a message moves to, and what is left of the first one.
<1>5. PICK d \in {0, 1} :
        /\ \A k \in Coming : k # 1 => k - d \in Coming' /\ toBot'[k - d] = toBot[k]
        /\ \A k \in Coming' : /\ k + d \in Coming
                              /\ k + d # 1 => toBot'[k] = toBot[k + d]
                              /\ k + d = 1 => toBot'[k].kind = "enter" /\ toBot'[k].who = Head(toBot).who \ {i}
        /\ \A j \in Head(toBot).who : j # i => d = 0 /\ 1 \in Coming' /\ Enters(toBot'[1], j)
  <2> DEFINE rest == Head(toBot).who \ {i}
  <2>1. CASE rest = {}
    <3>1. toBot' = Tail(toBot)
      BY <1>2, <2>1
    <3>2. /\ \A k \in Coming : k # 1 => k - 1 \in Coming' /\ toBot'[k - 1] = toBot[k]
          /\ \A k \in Coming' : k + 1 \in Coming /\ k + 1 # 1 /\ toBot'[k] = toBot[k + 1]
      BY <1>3, <3>1, Places DEF Coming
    <3>3. QED BY <2>1, <3>2
  <2>2. CASE rest # {}
    <3>1. toBot' = <<Enter(rest)>> \o Tail(toBot)
      BY <1>2, <2>2
    <3>2. Tail(toBot) \in Seq(Message) /\ Enter(rest) \in Message
      BY <1>3, HeadIsMessage DEF Message
    <3>3. PICK t \in Seq(Message) : t = Tail(toBot)
      BY <3>2
    <3>4. /\ Len(toBot') = 1 + Len(t)
          /\ toBot'[1] = Enter(rest)
          /\ \A k \in 1..Len(t) : toBot'[k + 1] = t[k]
      BY <3>1, <3>2, <3>3
    <3>5. Coming' = Coming /\ 1 \in Coming
      BY <1>3, <3>3, <3>4, Places DEF Coming
    <3>6. \A k \in Coming : k # 1 => toBot'[k] = toBot[k]
      <4>1. ASSUME NEW k \in Coming, k # 1 PROVE toBot'[k] = toBot[k]
        <5>1. k - 1 \in 1..(Len(toBot) - 1) /\ Len(t) = Len(toBot) - 1 /\ (k - 1) + 1 = k
          BY <1>3, <3>3, <4>1, Places DEF Coming
        <5>2. toBot'[(k - 1) + 1] = t[k - 1] /\ t[k - 1] = toBot[(k - 1) + 1]
          BY <1>3, <3>3, <3>4, <5>1, Places
        <5>3. QED BY <5>1, <5>2
      <4>2. QED BY <4>1
    <3>7. \A k \in Coming : k - 0 = k /\ k + 0 = k
      BY DEF Coming
    <3>8. toBot'[1].kind = "enter" /\ toBot'[1].who = rest
      BY <3>4 DEF Enter
    <3>9. QED BY <3>5, <3>6, <3>7, <3>8 DEF Enters
  <2>3. QED BY <2>1, <2>2
<1>6. \A k \in Coming : k \in Nat /\ k >= 1
  BY DEF Coming
<1>7. \A k \in Coming' : k \in Nat /\ k >= 1
  BY DEF Coming
<1>8. ASSUME NEW j \in Present(srvArena)
      PROVE  PlayerKnown(j)'
  <2>1. PlayerKnown(j) /\ j \in Ident
    BY DEF LoggedIn, Present, Ident
  <2>2. qal'[j] # NoPlayer \/ \E l \in Coming' : Enters(toBot'[l], j)
    <3>1. CASE j = i \/ qal[j] # NoPlayer
      BY <1>3, <1>4, <2>1, <3>1
    <3>2. CASE j # i /\ qal[j] = NoPlayer
      <4>1. PICK l \in Coming : Enters(toBot[l], j)
        BY <2>1, <3>2 DEF PlayerKnown
      <4>2. CASE l = 1
        BY <1>3, <1>5, <3>2, <4>1, <4>2, Places DEF Enters
      <4>3. CASE l # 1
        <5>1. l - d \in Coming' /\ Enters(toBot'[l - d], j)
          BY <1>5, <4>1, <4>3 DEF Enters
        <5>2. QED BY <5>1
      <4>4. QED BY <4>2, <4>3
    <3>3. QED BY <3>1, <3>2
  <2>3. ASSUME NEW k \in Coming', Leaves(toBot'[k], j)
        PROVE  \E l \in Coming' : k < l /\ Enters(toBot'[l], j)
    <3>1. k + d \in Coming /\ Leaves(toBot[k + d], j)
      BY <1>5, <2>3 DEF Leaves
    <3>2. PICK l \in Coming : k + d < l /\ Enters(toBot[l], j)
      BY <2>1, <3>1 DEF PlayerKnown
    <3>3. l # 1 /\ k < l - d
      BY <1>6, <1>7, <3>1, <3>2
    <3>4. l - d \in Coming' /\ Enters(toBot'[l - d], j)
      BY <1>5, <3>2, <3>3 DEF Enters
    <3>5. QED BY <3>3, <3>4
  <2>4. QED BY <2>2, <2>3 DEF PlayerKnown
<1>9. MeKnown'
  <2>1. CASE Me # NoPlayer \/ i = me
    <3>1. Me' # NoPlayer
      BY <1>2, <1>3, <2>1
    <3>2. QED BY <3>1 DEF MeKnown
  <2>2. CASE Me = NoPlayer /\ i # me
    <3>1. PICK l \in Coming :
            /\ Enters(toBot[l], Self)
            /\ me = Self \/ \E k \in Coming : k < l /\ toBot[k].kind = "ident"
      BY <2>2 DEF LoggedIn, MeKnown
    <3>2. CASE l = 1
      <4>1. me = Self
        BY <1>6, <3>1, <3>2
      <4>2. Self \in Head(toBot).who /\ Self # i
        BY <1>3, <2>2, <3>1, <3>2, <4>1, Places DEF Enters
      <4>3. 1 \in Coming' /\ Enters(toBot'[1], Self)
        BY <1>5, <4>2
      <4>4. QED BY <1>3, <4>1, <4>3 DEF MeKnown
    <3>3. CASE l # 1
      <4>1. l - d \in Coming' /\ Enters(toBot'[l - d], Self)
        BY <1>5, <3>1, <3>3 DEF Enters
      <4>2. me' = Self \/ \E k \in Coming' : k < l - d /\ toBot'[k].kind = "ident"
        <5>1. CASE me = Self
          BY <1>3, <5>1
        <5>2. CASE me # Self
          <6>1. PICK k \in Coming : k < l /\ toBot[k].kind = "ident"
            BY <3>1, <5>2
          <6>2. k # 1
            BY <1>3, <6>1, Places
          <6>3. k - d \in Coming' /\ toBot'[k - d].kind = "ident"
            BY <1>5, <6>1, <6>2
          <6>4. k - d < l - d
            BY <1>6, <6>1
          <6>5. QED BY <6>3, <6>4
        <5>3. QED BY <5>1, <5>2
      <4>3. QED BY <4>1, <4>2 DEF MeKnown
    <3>4. QED BY <3>2, <3>3
  <2>3. QED BY <2>1, <2>2
<1>10. PluginKnows'
  <2>0. \A k \in Coming : toBot[k].kind = "ingame" => k # 1 /\ k - d \in Coming' /\ toBot'[k - d].kind = "ingame"
    BY <1>3, <1>5, Places
  <2>1. pluginMe' = Me' \/ \E k \in Coming' : toBot'[k].kind = "ingame"
    <3>1. CASE \E k \in Coming : toBot[k].kind = "ingame"
      BY <2>0, <3>1
    <3>2. CASE ~ \E k \in Coming : toBot[k].kind = "ingame"
      <4>1. pluginMe = Me /\ ~Enters(toBot[1], Self)
        BY <1>3, <3>2, Places DEF LoggedIn, PluginKnows
      <4>2. i # Self /\ Self \in Ident
        BY <1>3, <4>1, Places DEF Enters, Ident
      <4>3. i # me
        BY <1>3, <4>2, ArenaAssumption DEF TypeOK, Ident
      <4>4. Me' = Me
        BY <1>2, <4>3
      <4>5. QED BY <1>3, <4>1, <4>4
    <3>3. QED BY <3>1, <3>2
  <2>2. ASSUME NEW l \in Coming', Enters(toBot'[l], Self)
        PROVE  \E k \in Coming' : l < k /\ toBot'[k].kind = "ingame"
    <3>1. l + d \in Coming /\ Enters(toBot[l + d], Self)
      BY <1>3, <1>5, <2>2, Places DEF Enters
    <3>2. PICK k \in Coming : l + d < k /\ toBot[k].kind = "ingame"
      BY <3>1 DEF LoggedIn, PluginKnows
    <3>3. l < k - d
      BY <1>6, <1>7, <3>2
    <3>4. QED BY <2>0, <3>2, <3>3
  <2>3. QED BY <2>1, <2>2 DEF PluginKnows
<1>11. QED BY <1>3, <1>8, <1>9, <1>10 DEF LoggedIn

\* A message put on the link behind the others.
LEMMA SaidKnown ==
    ASSUME TypeOK, NEW m, toBot' = toBot \o <<m>>, ~Enters(m, Self),
           UNCHANGED <<qal, me, Me, pluginMe>>
    PROVE  /\ \A i : (PlayerKnown(i) /\ ~Leaves(m, i)) \/ Enters(m, i) => PlayerKnown(i)'
           /\ MeKnown => MeKnown'
           /\ PluginKnows => PluginKnows'
<1>1. PICK n \in Nat : n = Len(toBot)
  BY DEF TypeOK
<1>2. /\ Coming = 1..n /\ Coming' = 1..(n + 1)
      /\ toBot'[n + 1] = m /\ \A k \in 1..n : toBot'[k] = toBot[k]
  <2>1. PICK S : m \in S /\ Message \subseteq S
    <3>1. m \in Message \cup {m} /\ Message \subseteq Message \cup {m}
      OBVIOUS
    <3>2. QED BY <3>1
  <2>2. toBot \in Seq(S)
    BY <2>1 DEF TypeOK
  <2>3. QED BY <1>1, <2>1, <2>2 DEF Coming
<1>3. Coming \subseteq Coming' /\ \A k \in Coming : toBot'[k] = toBot[k]
  <2>1. 1..n \subseteq 1..(n + 1)
    OBVIOUS
  <2>2. QED BY <1>2, <2>1
<1>4. \A k \in Coming' : k \notin Coming => k = n + 1
  <2>1. \A k \in 1..(n + 1) : k \notin 1..n => k = n + 1
    OBVIOUS
  <2>2. QED BY <1>2, <2>1
<1>5. n + 1 \in Coming' /\ \A k \in Coming : k < n + 1
  BY <1>2
<1>6. ASSUME NEW i, PlayerKnown(i), ~Leaves(m, i)
      PROVE  PlayerKnown(i)'
  <2>1. qal'[i] # NoPlayer \/ \E l \in Coming' : Enters(toBot'[l], i)
    BY <1>3, <1>6 DEF PlayerKnown
  <2>2. ASSUME NEW k \in Coming', Leaves(toBot'[k], i)
        PROVE  \E l \in Coming' : k < l /\ Enters(toBot'[l], i)
    <3>1. k \in Coming
      BY <1>2, <1>4, <1>6, <2>2
    <3>2. QED BY <1>3, <1>6, <2>2, <3>1 DEF PlayerKnown
  <2>3. QED BY <2>1, <2>2 DEF PlayerKnown
<1>7. ASSUME NEW i, Enters(m, i)
      PROVE  PlayerKnown(i)'
  <2>1. \A k \in Coming' : Leaves(toBot'[k], i) => k \in Coming
    BY <1>2, <1>4, <1>7 DEF Enters, Leaves
  <2>2. QED BY <1>2, <1>5, <1>7, <2>1 DEF PlayerKnown
<1>8. MeKnown => MeKnown'
  BY <1>3 DEF MeKnown
<1>9. PluginKnows => PluginKnows'
  <2> SUFFICES ASSUME PluginKnows PROVE PluginKnows'
    OBVIOUS
  <2>1. pluginMe' = Me' \/ \E k \in Coming' : toBot'[k].kind = "ingame"
    BY <1>3 DEF PluginKnows
  <2>2. ASSUME NEW l \in Coming', Enters(toBot'[l], Self)
        PROVE  \E k \in Coming' : l < k /\ toBot'[k].kind = "ingame"
    <3>1. l \in Coming
      BY <1>2, <1>4, <2>2
    <3>2. QED BY <1>3, <2>2, <3>1 DEF PluginKnows
  <2>3. QED BY <2>1, <2>2 DEF PluginKnows
<1>10. QED BY <1>6, <1>7, <1>8, <1>9

\* The answer to a login tells the bot everything, whatever came before.
LEMMA LoginKnown ==
    ASSUME TypeOK, SrvLogin
    PROVE  LoggedIn'
<1> DEFINE all == Present(Head(toSrv)) \cup {Self}
<1>1. PICK n \in Nat : n = Len(toBot)
  BY DEF TypeOK
<1>2. /\ Head(toSrv) \in ArenaName
      /\ srvArena' = Head(toSrv) /\ where' = where
      /\ toBot' = toBot \o <<IdentMsg, Enter(all), InGameFlag>>
  BY DEF SrvLogin, Say, TypeOK
<1>3. /\ Coming' = 1..(n + 3)
      /\ toBot'[n + 1] = IdentMsg /\ toBot'[n + 2] = Enter(all) /\ toBot'[n + 3] = InGameFlag
      /\ \A k \in 1..n : toBot'[k] = toBot[k]
  <2>1. Enter(all) \in Message /\ IdentMsg \in Message /\ InGameFlag \in Message
    BY DEF Message, Present, Ident
  <2>2. toBot \in Seq(Message)
    BY DEF TypeOK
  <2>3. QED BY <1>1, <1>2, <2>1, <2>2 DEF Coming
<1>4. toBot'[n + 1].kind = "ident" /\ toBot'[n + 3].kind = "ingame" /\ ~Leaves(toBot'[n + 3], Self)
  BY <1>3 DEF IdentMsg, InGameFlag, Leaves
<1>5. \A i \in all : Enters(toBot'[n + 2], i)
  BY <1>3 DEF Enter, Enters
<1>6. ASSUME NEW i \in Present(srvArena)'
      PROVE  PlayerKnown(i)'
  <2>1. i \in all
    BY <1>2 DEF Present
  <2>2. n + 2 \in Coming' /\ Enters(toBot'[n + 2], i)
    <3>1. n + 2 \in 1..(n + 3)
      OBVIOUS
    <3>2. QED BY <1>3, <1>5, <2>1, <3>1
  <2>3. \A k \in Coming' : Leaves(toBot'[k], i) => k < n + 2
    <3>1. ASSUME NEW k \in Coming', Leaves(toBot'[k], i) PROVE k # n + 2 /\ k # n + 3
      BY <1>3, <3>1 DEF Leaves, Enter, InGameFlag
    <3>2. QED BY <1>3, <3>1
  <2>4. QED BY <2>2, <2>3 DEF PlayerKnown
<1>7. MeKnown'
  <2>1. n + 2 \in Coming' /\ Enters(toBot'[n + 2], Self)
    <3>1. n + 2 \in 1..(n + 3) /\ Self \in all
      OBVIOUS
    <3>2. QED BY <1>3, <1>5, <3>1
  <2>2. n + 1 \in Coming' /\ n + 1 < n + 2 /\ toBot'[n + 1].kind = "ident"
    BY <1>3, <1>4
  <2>3. QED BY <2>1, <2>2 DEF MeKnown
<1>8. PluginKnows'
  <2>1. n + 3 \in Coming' /\ toBot'[n + 3].kind = "ingame"
    BY <1>3, <1>4
  <2>2. \A l \in Coming' : Enters(toBot'[l], Self) => l < n + 3
    <3>1. ASSUME NEW l \in Coming', Enters(toBot'[l], Self) PROVE l # n + 3
      BY <1>3, <3>1 DEF Enters, InGameFlag
    <3>2. QED BY <1>3, <3>1
  <2>3. QED BY <2>1, <2>2 DEF PluginKnows
<1>9. srvArena' # Nowhere
  BY <1>2, ArenaAssumption
<1>10. QED BY <1>6, <1>7, <1>8, <1>9 DEF LoggedIn

\* A player who comes is announced, and one who goes is not present any more.
LEMMA MoveKnown ==
    ASSUME TypeOK, LoggedIn, SrvMove
    PROVE  LoggedIn'
<1> SUFFICES ASSUME inGame, toSrv = <<>>
             PROVE  /\ srvArena' # Nowhere
                    /\ \A j \in Present(srvArena)' : PlayerKnown(j)'
                    /\ MeKnown' /\ PluginKnows'
  BY DEF LoggedIn, SrvMove, botVars
<1>1. PICK i \in Other, a \in ArenaName \cup {Nowhere} :
        /\ where[i] # a /\ where' = [where EXCEPT ![i] = a]
        /\ toBot' = toBot \o News(i, a)
        /\ UNCHANGED <<qal, me, Me, pluginMe, srvArena, toSrv>>
  BY DEF SrvMove, Say, botVars
<1>2. i # Self /\ srvArena # Nowhere /\ MeKnown /\ PluginKnows
  BY ArenaAssumption DEF LoggedIn
<1>3. /\ where'[i] = a
      /\ \A j \in Other : j # i => where'[j] = where[j]
  BY <1>1 DEF TypeOK
<1>4. \A j \in Present(srvArena)' : j # i => j \in Present(srvArena) /\ PlayerKnown(j)
  BY <1>1, <1>3 DEF Present, LoggedIn
<1>5. i \in Present(srvArena)' => a = srvArena
  BY <1>1, <1>3 DEF Present
<1>6. CASE srvArena \notin {where[i], a}
  <2>1. toBot' = toBot
    <3>1. News(i, a) = <<>>
      BY <1>6 DEF News
    <3>2. QED BY <1>1, <3>1 DEF TypeOK
  <2>2. \A j \in Present(srvArena)' : PlayerKnown(j)
    BY <1>4, <1>5, <1>6
  <2>3. QED BY <1>1, <1>2, <2>1, <2>2 DEF PlayerKnown, MeKnown, PluginKnows, Coming
<1>7. CASE where[i] = srvArena
  <2>1. toBot' = toBot \o <<Leave(i)>>
    BY <1>1, <1>2, <1>7 DEF News
  <2>2. ~Enters(Leave(i), Self) /\ \A j : j # i => ~Leaves(Leave(i), j)
    BY DEF Leave, Enters, Leaves
  <2>3. \A j \in Present(srvArena)' : j # i
    BY <1>1, <1>5, <1>7
  <2>4. QED BY <1>1, <1>2, <1>4, <2>1, <2>2, <2>3, SaidKnown
<1>8. CASE where[i] # srvArena /\ a = srvArena
  <2>1. toBot' = toBot \o <<Enter({i})>>
    BY <1>1, <1>2, <1>8 DEF News
  <2>2. ~Enters(Enter({i}), Self) /\ Enters(Enter({i}), i) /\ \A j : ~Leaves(Enter({i}), j)
    BY <1>2 DEF Enter, Enters, Leaves
  <2>3. QED BY <1>1, <1>2, <1>4, <2>1, <2>2, SaidKnown
<1>9. QED BY <1>6, <1>7, <1>8

\* The step of what is known, one case per action.
LEMMA NextLoggedIn == IInv /\ LoggedIn /\ [Next]_vars => LoggedIn'
<1> SUFFICES ASSUME IInv, LoggedIn, [Next]_vars PROVE LoggedIn'
  OBVIOUS
<1>0. TypeOK /\ IndexAgrees
  BY DEF IInv
<1>1. CASE UNCHANGED <<qal, me, Me, inGame, pluginMe, where, srvArena, toBot, toSrv>>
  BY <1>1 DEF LoggedIn, Present, PlayerKnown, MeKnown, PluginKnows, Coming
<1>2. CASE Login \/ Go \/ Reconnect
  <2>1. inGame' = FALSE \/ toSrv' # <<>>
    <3>1. CASE Reconnect
      BY <3>1 DEF Reconnect
    <3>2. CASE Login \/ Go
      <4>1. PICK a : toSrv' = Append(toSrv, a)
        BY <3>2 DEF Login, Go, changeArena
      <4>2. QED BY <1>0, <4>1 DEF TypeOK
    <3>3. QED BY <1>2, <3>1, <3>2
  <2>2. QED BY <2>1 DEF LoggedIn
<1>3. CASE GotEntering
  BY <1>0, <1>3, EnteringKnown
<1>4. CASE GotIdent
  BY <1>0, <1>4, TakenKnown DEF GotIdent, Got, srvVars
<1>5. CASE GotLeaving
  <2>1. PICK i \in Head(toBot).who : qal' = killIndex(i)
    BY <1>5 DEF GotLeaving
  <2>2. \A j \in Ident : qal'[j] = qal[j] \/ Leaves(Head(toBot), j)
    BY <1>0, <1>5, <2>1 DEF killIndex, Leaves, TypeOK, GotLeaving, Got
  <2>3. QED BY <1>0, <1>5, <2>2, TakenKnown DEF GotLeaving, Got, srvVars
<1>6. CASE GotInGame
  BY <1>0, <1>6, TakenKnown DEF GotInGame, Got, srvVars
<1>7. CASE GotSync
  BY <1>0, <1>7, TakenKnown DEF GotSync, Got, srvVars
<1>8. CASE GotUnknown \/ GotShip \/ GotSpec \/ GotCreateTurret \/ GotDeleteTurret \/ GotFollow \/ GotAttach
  <2>1. PICK p : About(p)
    BY <1>8 DEF GotUnknown, GotShip, GotSpec, GotCreateTurret, GotDeleteTurret, GotFollow, GotAttach
  <2>2. QED BY <1>0, <2>1, TakenKnown DEF About, Got, srvVars
<1>9. CASE SrvLogin
  BY <1>0, <1>9, LoginKnown
<1>10. CASE SrvMove
  BY <1>0, <1>10, MoveKnown
<1>11. CASE SrvSays
  <2>1. PICK m \in {Sync} \cup {Act(i) : i \in Present(srvArena) \cup {Self}} : toBot' = toBot \o <<m>>
    BY <1>11 DEF SrvSays, Say
  <2>2. \A i : ~Enters(m, i) /\ ~Leaves(m, i)
    BY DEF Sync, Act, Enters, Leaves
  <2>3. UNCHANGED <<qal, me, Me, inGame, pluginMe, where, srvArena, toSrv>>
    BY <1>11 DEF SrvSays, botVars, srvVars
  <2>4. QED BY <1>0, <2>1, <2>2, <2>3, SaidKnown DEF LoggedIn, Present
<1>12. CASE spectateNext
  BY <1>1, <1>12 DEF spectateNext, srvVars
<1>13. QED
  BY <1>1, <1>2, <1>3, <1>4, <1>5, <1>6, <1>7, <1>8, <1>9, <1>10, <1>11, <1>12
  DEF Next, Players, Turrets, Presence, Server, vars, botVars, srvVars

LEMMA LoginInvariance == Spec => [](IInv /\ LoggedIn)
<1>1. Init => IInv /\ LoggedIn
  BY InitInv DEF Init, LoggedIn
<1>2. IInv /\ LoggedIn /\ [Next]_vars => (IInv /\ LoggedIn)'
  BY NextInv, NextLoggedIn
<1>3. QED BY <1>1, <1>2, PTL DEF Spec

\* With nothing in flight the bot knows itself, and lists everybody the server
\* has in the arena of the last login, whatever earlier logins overtook
\* (handlePlayerEntering(), changeArena()).
THEOREM EverybodyListed == Spec => []SettledIsComplete
<1>1. IInv /\ LoggedIn => SettledIsComplete
  <2> SUFFICES ASSUME IInv, LoggedIn, Settled
               PROVE  Me # NoPlayer /\ Me = qal[Self] /\ \A i \in Present(srvArena) : qal[i] # NoPlayer
    BY DEF SettledIsComplete
  <2>1. Coming = {} /\ MeKnown /\ \A i \in Present(srvArena) : PlayerKnown(i)
    BY DEF Settled, LoggedIn, Coming
  <2>2. QED BY <2>1 DEF MeKnown, PlayerKnown, IInv, MeIsMine
<1>2. QED BY <1>1, LoginInvariance, PTL

\* With nothing in flight the plugin holds the Me of the host (handleInGameFlag()).
THEOREM PluginHoldsMe == Spec => []PluginSettled
<1>1. IInv /\ LoggedIn => PluginSettled
  <2> SUFFICES ASSUME LoggedIn, Settled PROVE pluginMe = Me
    BY DEF PluginSettled
  <2>1. Coming = {} /\ PluginKnows
    BY DEF Settled, LoggedIn, Coming
  <2>2. QED BY <2>1 DEF PluginKnows
<1>2. QED BY <1>1, LoginInvariance, PTL
=============================================================================
