------------------------------- MODULE Arena --------------------------------
(***************************************************************************)
(* What one Host knows of the arena it is in (src/mervbot/host.cpp and     *)
(* clientprot.cpp): the players, the index by ident, the pointers into the *)
(* list (Me, follow, turrets) and the one the plugin keeps; and how they   *)
(* survive players coming and going, a change of arena and a reconnect.    *)
(*                                                                         *)
(* The server is external: it knows where everybody is, moves the bot when *)
(* it handles a login, and tells the bot of the arena it believes the bot  *)
(* to be in, over the FIFO link that ReliableIn implements.  A Player is   *)
(* the address of an object: `new` may return the address of a freed one.  *)
(* Order inside playerlist is abstracted away; the index decides lookups.  *)
(***************************************************************************)
EXTENDS Naturals, Sequences, FiniteSets

CONSTANTS Player,         \* addresses of Player objects
          NoPlayer,       \* NULL
          Other,          \* idents the server gives to the other players
          Self,           \* the ident it gives to the bot
          NoIdent,        \* UNASSIGNED
          ArenaName, Nowhere,
          MaxWire,        \* bound on the messages in flight to the bot
          MaxLogins       \* bound on the arena logins in flight to the server

ASSUME ArenaAssumption ==
    /\ NoPlayer \notin Player
    /\ Self \notin Other
    /\ NoIdent \notin Other \cup {Self}
    /\ Nowhere \notin ArenaName
    /\ IsFiniteSet(Player)
    /\ MaxWire \in Nat /\ MaxLogins \in Nat

Ident == Other \cup {Self}
Ship == {"spec", "fly"}    \* SHIP_Spectator or one of the eight ships

VARIABLES
    playerlist,   \* the listed players
    qal,          \* index of playerlist by ident (COSTLY_SPEEDUP)
    mem,          \* the fields of the listed players
    me, Me,       \* my ident, my state
    follow,       \* followed player
    position,     \* sending position update messages
    inArena,      \* "always tracks whether bot is in arena or not"
    inGame,       \* the game's handlers are installed
    alive,        \* FALSE once the process is lost in a command
    pluginMe,     \* botInfo::me of the plugin
    where,        \* server: the arena of each other player
    srvArena,     \* server: the arena of the bot
    toBot,        \* messages in flight to the bot
    toSrv         \* arena logins in flight to the server

botVars == <<playerlist, qal, mem, me, Me, follow, position, inArena, inGame, alive, pluginMe>>
srvVars == <<where, srvArena>>
vars == <<botVars, srvVars, toBot, toSrv>>

Blank == [ident |-> NoIdent, ship |-> "spec", turret |-> NoPlayer]
Fields == [ident : Ident \cup {NoIdent}, ship : Ship, turret : Player \cup {NoPlayer}]

\* Messages of the server.
IdentMsg == [kind |-> "ident", who |-> {Self}]
Enter(S) == [kind |-> "enter", who |-> S]       \* one entry per player of S
Leave(i) == [kind |-> "leave", who |-> {i}]
InGameFlag == [kind |-> "ingame", who |-> {}]
Sync == [kind |-> "sync", who |-> {}]
Act(i) == [kind |-> "act", who |-> {i}]         \* i changes ship, attaches, speaks

Message == {IdentMsg, InGameFlag, Sync} \cup {Enter(S) : S \in SUBSET Ident}
           \cup {Leave(i) : i \in Other} \cup {Act(i) : i \in Ident}

Init ==
    /\ playerlist = {} /\ qal = [i \in Ident |-> NoPlayer] /\ mem = [p \in Player |-> Blank]
    /\ me = NoIdent /\ Me = NoPlayer /\ follow = NoPlayer
    /\ position = FALSE /\ inArena = FALSE /\ inGame = FALSE /\ alive = TRUE
    /\ pluginMe = NoPlayer
    /\ where \in [Other -> ArenaName \cup {Nowhere}]
    /\ srvArena = Nowhere
    /\ toBot = <<>> /\ toSrv = <<>>
-----------------------------------------------------------------------------
\* Host: a new arena, a new session

\* resetArena(): clears the list and every pointer into it; the plugin is not
\* told here.
resetArena ==
    /\ playerlist' = {} /\ qal' = [i \in Ident |-> NoPlayer] /\ mem' = [p \in Player |-> Blank]
    /\ me' = NoIdent /\ Me' = NoPlayer /\ follow' = NoPlayer
    /\ position' = FALSE

\* changeArena(): the plugin hears EVENT_ArenaLeave, and forgets itself, when
\* inArena says that the bot was in an arena.
changeArena(a) ==
    /\ pluginMe' = IF inArena THEN NoPlayer ELSE pluginMe
    /\ inArena' = FALSE
    /\ resetArena
    /\ toSrv' = Append(toSrv, a)

\* The password was accepted (Session): activateGameProtocol(), changeArena().
Login ==
    /\ ~inGame
    /\ inGame' = TRUE
    /\ \E a \in ArenaName : changeArena(a)
    /\ UNCHANGED <<alive, srvVars, toBot>>

\* !go of an operator, by remote message.
Go ==
    /\ inGame
    /\ Len(toSrv) < MaxLogins
    /\ \E a \in ArenaName : changeArena(a)
    /\ UNCHANGED <<inGame, alive, srvVars, toBot>>

\* Silence or a disconnect: resetSession(), resetArena().  resetSession()
\* clears inArena without a word to the plugin.  What was in flight belonged to
\* the old session.
Reconnect ==
    /\ inGame
    /\ inGame' = FALSE /\ inArena' = FALSE
    /\ resetArena
    /\ srvArena' = Nowhere /\ toBot' = <<>> /\ toSrv' = <<>>
    /\ UNCHANGED <<alive, pluginMe, where>>
-----------------------------------------------------------------------------
\* Host: players

\* killPlayer(p) for the player of ident i, if it is listed: nothing follows
\* him, nobody rides on him, he leaves the list and the index.
killed(i) == {qal[i]} \ {NoPlayer}

\* Mutant of killFollow: following is not stopped.
keptFollow(i) == follow
killFollow(i) == IF follow \in killed(i) THEN NoPlayer ELSE follow
killTurret(m, K) ==
    [q \in Player |-> [ident |-> m[q].ident, ship |-> m[q].ship,
                       turret |-> IF m[q].turret \in K THEN NoPlayer ELSE m[q].turret]]
killFields(i) == [q \in Player |-> IF q \in killed(i) THEN Blank ELSE killTurret(mem, killed(i))[q]]

\* Mutant of killIndex: the index keeps the freed player.
keptIndex(i) == qal
killIndex(i) == [qal EXCEPT ![i] = NoPlayer]

\* A handler takes the first message in flight.
Got(kind) ==
    /\ toBot # <<>> /\ Head(toBot).kind = kind
    /\ UNCHANGED <<srvVars, toSrv, inGame>>
Taken == toBot' = Tail(toBot)

\* handleIdent.
GotIdent ==
    /\ Got("ident") /\ Taken
    /\ me' = Self
    /\ UNCHANGED <<playerlist, qal, mem, Me, follow, position, inArena, alive, pluginMe>>

\* Mutant of GotEntering: the player listed under the ident already is kept.
EnteringKeepsOld ==
    /\ Got("enter")
    /\ \E i \in Head(toBot).who :
         LET rest == Head(toBot).who \ {i}
         IN /\ toBot' = IF rest = {} THEN Tail(toBot) ELSE <<Enter(rest)>> \o Tail(toBot)
            /\ IF qal[i] # NoPlayer
               THEN UNCHANGED <<playerlist, qal, mem, Me>>
               ELSE \E p \in Player \ playerlist, ship \in Ship :
                      /\ playerlist' = playerlist \cup {p}
                      /\ qal' = [qal EXCEPT ![i] = p]
                      /\ mem' = [mem EXCEPT ![p] = [ident |-> i, ship |-> ship, turret |-> NoPlayer]]
                      /\ Me' = IF i = me THEN p ELSE Me
    /\ UNCHANGED <<follow, me, position, inArena, alive, pluginMe>>

\* handlePlayerEntering, one entry: a duplicate ident is killed, the new object
\* is listed and indexed; the one with my ident is Me.  A ship that entered
\* riding on another shows it in its entry.  The entries of a message come one
\* by one: the server may as well send them as messages of one entry.
GotEntering ==
    /\ Got("enter")
    /\ \E i \in Head(toBot).who :
         LET rest == Head(toBot).who \ {i}
             kept == playerlist \ killed(i)
         IN /\ toBot' = IF rest = {} THEN Tail(toBot) ELSE <<Enter(rest)>> \o Tail(toBot)
            /\ \E p \in Player \ kept, ship \in Ship, turretee \in kept \cup {NoPlayer} :
                 /\ playerlist' = kept \cup {p}
                 /\ qal' = [qal EXCEPT ![i] = p]
                 /\ mem' = [killFields(i) EXCEPT ![p] = [ident |-> i, ship |-> ship, turret |-> turretee]]
                 /\ Me' = IF i = me THEN p ELSE Me
            /\ follow' = killFollow(i)
    /\ UNCHANGED <<me, position, inArena, alive, pluginMe>>

\* handlePlayerLeaving: EVENT_PlayerLeaving, then killPlayer().
GotLeaving ==
    /\ Got("leave") /\ Taken
    /\ \E i \in Head(toBot).who :
         /\ playerlist' = playerlist \ killed(i)
         /\ mem' = killFields(i)
         /\ qal' = killIndex(i)
         /\ follow' = killFollow(i)
    /\ UNCHANGED <<me, Me, position, inArena, alive, pluginMe>>

\* Mutant of GotInGame: the plugin hears nothing while inArena is set.
InGameOnce ==
    /\ Got("ingame") /\ Taken
    /\ pluginMe' = IF inArena THEN pluginMe ELSE Me
    /\ UNCHANGED <<playerlist, qal, mem, me, Me, follow, position, inArena, alive>>

\* handleInGameFlag: EVENT_ArenaEnter hands Me to the plugin.
GotInGame ==
    /\ Got("ingame") /\ Taken
    /\ pluginMe' = Me
    /\ UNCHANGED <<playerlist, qal, mem, me, Me, follow, position, inArena, alive>>

\* handleSynchronization.
GotSync ==
    /\ Got("sync") /\ Taken
    /\ position' = TRUE /\ inArena' = TRUE
    /\ UNCHANGED <<playerlist, qal, mem, me, Me, follow, alive, pluginMe>>

\* A message about player p, found by his ident (or not: nothing happens).
About(p) ==
    /\ Got("act") /\ Taken
    /\ \E i \in Head(toBot).who : p = qal[i]
    /\ UNCHANGED <<playerlist, qal, me, Me, position, inArena, pluginMe>>

GotUnknown == About(NoPlayer) /\ UNCHANGED <<mem, follow, alive>>

\* handleSetTeam, handleSetTeamAndShip: no following of a player who goes to
\* spectate.
GotShip ==
    \E p \in playerlist, ship \in Ship :
        /\ About(p)
        /\ mem' = [mem EXCEPT ![p].ship = ship]
        /\ follow' = IF ship = "spec" /\ mem[p].ship # ship /\ follow = p THEN NoPlayer ELSE follow
        /\ UNCHANGED alive

\* handleSpecPlayer.
GotSpec ==
    \E p \in playerlist :
        /\ About(p)
        /\ mem' = [mem EXCEPT ![p].ship = "spec"]
        /\ UNCHANGED <<follow, alive>>

\* handleCreateTurret: p attaches to another listed player or, with
\* UNASSIGNED, lets go.
GotCreateTurret ==
    \E p \in playerlist : \E turretee \in (playerlist \ {p}) \cup {NoPlayer} :
        /\ About(p)
        /\ mem' = [mem EXCEPT ![p].turret = turretee]
        /\ UNCHANGED <<follow, alive>>

\* handleDeleteTurret: p shakes off his turrets.
GotDeleteTurret ==
    \E p \in playerlist :
        /\ About(p)
        /\ mem' = killTurret(mem, {p})
        /\ UNCHANGED <<follow, alive>>

\* !follow of player p: another player's name, or no one's.
GotFollow ==
    \E p \in playerlist \ {Me} : \E xp \in playerlist \cup {NoPlayer} :
        /\ About(p)
        /\ follow' = xp
        /\ UNCHANGED <<mem, alive>>

\* !attach of player p: follows xp and attaches to him, or detaches.  Me is
\* written without a test that there is one: without, the write is undefined,
\* and the process dies or "catch (...)" ends the command.
GotAttach ==
    \E p \in playerlist \ {Me} : \E xp \in playerlist \cup {NoPlayer} :
        /\ About(p)
        /\ follow' = IF xp = NoPlayer THEN follow ELSE xp
        /\ \/ Me # NoPlayer /\ mem' = [mem EXCEPT ![Me].turret = xp] /\ UNCHANGED alive
           \/ Me = NoPlayer /\ alive' \in BOOLEAN /\ UNCHANGED mem

\* doUpdates(): a spectator without anyone to follow takes the first player,
\* and goes on to the next one with a ship.
spectateNext ==
    /\ position /\ Me # NoPlayer /\ mem[Me].ship = "spec"
    /\ \E f \in playerlist :
         /\ follow \in {f, NoPlayer}
         /\ LET flying == {q \in playerlist \ {f} : mem[q].ship # "spec"}
            IN follow' \in IF flying = {} THEN {f} ELSE flying
    /\ UNCHANGED <<playerlist, qal, mem, me, Me, position, inArena, inGame, alive, pluginMe, srvVars, toBot, toSrv>>
-----------------------------------------------------------------------------
\* The server

Present(a) == {i \in Other : where[i] = a}
Say(msgs) ==
    /\ Len(toBot) + Len(msgs) <= MaxWire
    /\ toBot' = toBot \o msgs

\* Handles an arena login: from now on the bot hears of that arena only.
SrvLogin ==
    /\ toSrv # <<>> /\ toSrv' = Tail(toSrv)
    /\ srvArena' = Head(toSrv)
    /\ Say(<<IdentMsg, Enter(Present(Head(toSrv)) \cup {Self}), InGameFlag>>)
    /\ UNCHANGED <<botVars, where>>

\* What the bot hears when player i goes to arena a.
News(i, a) ==
    IF srvArena = Nowhere \/ srvArena \notin {where[i], a} THEN <<>>
    ELSE IF where[i] = srvArena THEN <<Leave(i)>> ELSE <<Enter({i})>>

\* Another player goes to some arena, or leaves the zone.
SrvMove ==
    /\ \E i \in Other, a \in ArenaName \cup {Nowhere} :
         /\ where[i] # a
         /\ where' = [where EXCEPT ![i] = a]
         /\ Say(News(i, a))
    /\ UNCHANGED <<botVars, srvArena, toSrv>>

\* Sends a synchronization, or word of somebody in the bot's arena.
SrvSays ==
    /\ srvArena # Nowhere
    /\ \E m \in {Sync} \cup {Act(i) : i \in Present(srvArena) \cup {Self}} : Say(<<m>>)
    /\ UNCHANGED <<botVars, srvVars, toSrv>>
-----------------------------------------------------------------------------
Players == GotEntering \/ GotLeaving \/ GotShip \/ GotSpec \/ GotUnknown
Turrets == GotCreateTurret \/ GotDeleteTurret \/ GotAttach \/ GotFollow \/ spectateNext
Presence == Login \/ Go \/ Reconnect \/ GotIdent \/ GotInGame \/ GotSync
Server == SrvLogin \/ SrvMove \/ SrvSays

\* Without the process nothing happens that matters here.
Next == alive /\ (Players \/ Turrets \/ Presence \/ Server)

Spec == Init /\ [][Next]_vars
-----------------------------------------------------------------------------
\* Properties

\* Every variable keeps its type.
TypeOK ==
    /\ playerlist \subseteq Player
    /\ qal \in [Ident -> Player \cup {NoPlayer}]
    /\ mem \in [Player -> Fields]
    /\ me \in {NoIdent, Self}
    /\ Me \in Player \cup {NoPlayer} /\ follow \in Player \cup {NoPlayer}
    /\ position \in BOOLEAN /\ inArena \in BOOLEAN /\ inGame \in BOOLEAN /\ alive \in BOOLEAN
    /\ pluginMe \in Player \cup {NoPlayer}
    /\ where \in [Other -> ArenaName \cup {Nowhere}]
    /\ srvArena \in ArenaName \cup {Nowhere}
    /\ toBot \in Seq(Message) /\ toSrv \in Seq(ArenaName)

\* No pointer of the host leads to a freed player: neither Me, nor the player
\* followed, nor the one a listed player is attached to (host.cpp:1220-1240).
PointersLive ==
    /\ {Me, follow} \subseteq playerlist \cup {NoPlayer}
    /\ \A p \in playerlist : mem[p].turret \in playerlist \cup {NoPlayer}

\* List and index agree: a listed player is found under his ident, and
\* whatever the index finds is listed.  Idents handed out twice ("happens
\* quite often", clientprot.cpp:870) leave no second player behind.
IndexAgrees ==
    /\ \A p \in playerlist : mem[p].ident \in Ident /\ qal[mem[p].ident] = p
    /\ \A i \in Ident : qal[i] # NoPlayer => qal[i] \in playerlist /\ mem[qal[i]].ident = i

\* Once the server and the bot have nothing more to tell each other the bot is
\* in the arena it last asked for and knows itself and everybody there, also
\* when logins overtook each other, and the plugin knows the same Me.  (It may
\* list more players than are there: one who entered the old arena while a
\* login was on its way stays.)
Settled == inGame /\ toBot = <<>> /\ toSrv = <<>>
SettledIsComplete ==
    Settled => /\ Me # NoPlayer /\ Me = qal[Self]
               /\ \A i \in Present(srvArena) : qal[i] # NoPlayer
PluginSettled == Settled => pluginMe = Me
=============================================================================
