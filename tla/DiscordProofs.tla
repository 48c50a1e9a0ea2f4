--------------------------- MODULE DiscordProofs ----------------------------
(***************************************************************************)
(* Members know their guilds, for any number of guilds, users and threads; *)
(* and the shard of an attempt is in front and no shard is forgotten, for  *)
(* any number of shards and any limits, until attempts meet.               *)
(***************************************************************************)
EXTENDS GuildCache, Gateway, SequenceTheorems, TLAPS

\* A second object of a guild, wherever it is known, is one of a guild that
\* the bot has left before.
SecondIsLater ==
    \A g \in Guild \ stale :
        /\ guilds[g] # 2
        /\ \A t \in Thread : job[t].obj # <<g, 2>>
        /\ \A c \in Channel : chanGuild[c] # <<g, 2>>

\* The inductive invariant.
IInv == TypeOK /\ SecondIsLater /\ MembersJoined


\* The parts of TypeOK: where the threads are, and the rest.
ThreadsOK ==
    /\ pc \in [Thread -> {"idle", "GUILD_DELETE"} \cup AboutGuild \cup AboutMember
                             \cup AboutChannel \cup Spoken \cup Waits]
    /\ job \in [Thread -> Event]
    /\ \A t \in Thread : pc[t] \in Waits => job[t].obj \in Object
CacheOK ==
    /\ guilds \in [Guild -> 0..2] /\ stale \in SUBSET Guild
    /\ channels \in SUBSET Channel /\ known \in SUBSET User
    /\ members \in [Object -> SUBSET User] /\ listed \in [Object -> SUBSET Channel]
    /\ infos \in [User -> SUBSET Guild]
    /\ chanGuild \in [Channel -> Object \cup {NoObject}]
    /\ guildLock \in [Object -> Thread \cup {Nobody}] /\ channelLock \in Thread \cup {Nobody}
    /\ events \in 0..MaxEvents /\ alive \in BOOLEAN

USE DEF Event, AboutGuild, AboutMember, AboutChannel, Spoken, Waits
-----------------------------------------------------------------------------
\* Objects are numbered guilds.

LEMMA Objects ==
    /\ \A g \in Guild : <<g, 1>> \in Object /\ <<g, 2>> \in Object
    /\ \A o \in Object : o[1] \in Guild
BY DEF Object

LEMMA FoundIsObject ==
    ASSUME TypeOK, NEW t \in Thread, Found(t) PROVE FoundObject(t) \in Object
<1>1. job[t].guild \in Guild
  BY DEF TypeOK
<1>2. guilds[job[t].guild] \in 0..2
  BY <1>1 DEF TypeOK
<1>3. guilds[job[t].guild] # 0
  BY DEF Found
<1>4. guilds[job[t].guild] \in {1, 2}
  BY <1>2, <1>3
<1> QED
  BY <1>1, <1>4, Objects DEF FoundObject

\* A thread that changes the object of its event, or the members and channels
\* that are left to load, has an event as before, and the others keep theirs.
LEMMA HoldsType ==
    ASSUME job \in [Thread -> Event], NEW t \in Thread, NEW o \in Object, Holds(t, o)
    PROVE  job' \in [Thread -> Event] /\ \A s \in Thread : job'[s].obj = IF s = t THEN o ELSE job[s].obj
<1>1. [job[t] EXCEPT !.obj = o] \in Event /\ [job[t] EXCEPT !.obj = o].obj = o
  OBVIOUS
<1>2. job' = [job EXCEPT ![t] = [job[t] EXCEPT !.obj = o]]
  BY DEF Holds
<1> HIDE DEF Event
<1> QED
  BY <1>1, <1>2

LEMMA UsersType ==
    ASSUME job \in [Thread -> Event], NEW t \in Thread, NEW u,
           job' = [job EXCEPT ![t].users = @ \ {u}]
    PROVE  job' \in [Thread -> Event] /\ \A s \in Thread : job'[s].obj = job[s].obj
<1> DEFINE e == [job[t] EXCEPT !.users = @ \ {u}]
<1>1. e \in Event /\ e.obj = job[t].obj
  OBVIOUS
<1>2. job' = [job EXCEPT ![t] = e]
  OBVIOUS
<1> HIDE DEF Event, e
<1> QED
  BY <1>1, <1>2

LEMMA ChansType ==
    ASSUME job \in [Thread -> Event], NEW t \in Thread, NEW c,
           job' = [job EXCEPT ![t].chans = @ \ {c}]
    PROVE  job' \in [Thread -> Event] /\ \A s \in Thread : job'[s].obj = job[s].obj
<1> DEFINE e == [job[t] EXCEPT !.chans = @ \ {c}]
<1>1. e \in Event /\ e.obj = job[t].obj
  OBVIOUS
<1>2. job' = [job EXCEPT ![t] = e]
  OBVIOUS
<1> HIDE DEF Event, e
<1> QED
  BY <1>1, <1>2

\* What find_guild leaves behind is of the right type.
LEMMA FindGuildType ==
    ASSUME TypeOK, NEW t \in Thread, NEW where \in Waits, FindGuild(t, where)
    PROVE  ThreadsOK'
<1>1. CASE Found(t)
  <2>1. Goto(t, where) /\ Holds(t, FoundObject(t)) /\ FoundObject(t) \in Object
    BY <1>1, FoundIsObject DEF FindGuild
  <2>2. job' \in [Thread -> Event]
        /\ \A s \in Thread : job'[s].obj = IF s = t THEN FoundObject(t) ELSE job[s].obj
    BY <2>1, HoldsType DEF TypeOK
  <2> QED
    BY <2>1, <2>2 DEF Goto, TypeOK, ThreadsOK
<1>2. CASE ~Found(t)
  BY <1>2 DEF FindGuild, Goto, Holds, TypeOK, ThreadsOK
<1> QED
  BY <1>1, <1>2
-----------------------------------------------------------------------------
LEMMA CreatedIsObject ==
    ASSUME TypeOK, NEW t \in Thread, WsGuildCreate(t)
    PROVE  guilds' \in [Guild -> 0..2] /\ <<job[t].guild, guilds'[job[t].guild]>> \in Object
<1> DEFINE g == job[t].guild
           n == IF guilds[g] # 0 THEN guilds[g] ELSE IF g \in stale THEN 2 ELSE 1
<1>1. g \in Guild /\ guilds \in [Guild -> 0..2]
  BY DEF TypeOK
<1>2. n \in {1, 2}
  <2>1. guilds[g] \in 0..2
    BY <1>1
  <2> QED
    BY <2>1
<1>3. guilds' = [guilds EXCEPT ![g] = n]
  BY DEF WsGuildCreate
<1> HIDE DEF g, n
<1>4. guilds' \in [Guild -> 0..2] /\ guilds'[g] = n
  BY <1>1, <1>2, <1>3
<1>5. <<g, guilds'[g]>> \in Object
  BY <1>1, <1>2, <1>4, Objects
<1> QED
  BY <1>4, <1>5 DEF g

\* A message is loaded with the guild of its channel, if that is known.
LEMMA SpokenInGuild ==
    ASSUME TypeOK, NEW t \in Thread, WsMessageCreate(t)
    PROVE  \/ UNCHANGED job /\ Goto(t, "idle")
           \/ Goto(t, "add") /\ \E c \in Channel : chanGuild[c] # NoObject /\ Holds(t, chanGuild[c])
<1>1. job[t].chans \in SUBSET Channel
  BY DEF TypeOK
<1> USE DEF WsMessageCreate
<1>2. CASE \E c \in job[t].chans : c \in channels /\ chanGuild[c] # NoObject
  <2>1. CASE job[t].users \subseteq known
    BY <2>1
  <2>2. CASE ~ job[t].users \subseteq known
    <3>1. Goto(t, "add") /\ \E c \in job[t].chans : chanGuild[c] # NoObject /\ Holds(t, chanGuild[c])
      BY <1>2, <2>2
    <3> QED
      BY <3>1, <1>1
  <2> QED
    BY <2>1, <2>2
<1> QED
  BY <1>2

LEMMA InitIInv == Init => IInv
<1> SUFFICES ASSUME Init PROVE IInv
  OBVIOUS
<1>1. TypeOK
  BY CacheAssumption DEF Init, TypeOK
<1>2. SecondIsLater
  BY Objects DEF Init, SecondIsLater, NoObject
<1>3. MembersJoined
  BY Objects DEF Init, MembersJoined
<1> QED
  BY <1>1, <1>2, <1>3 DEF IInv

\* Every step keeps the types of what the threads do ...
LEMMA ThreadsStep == ASSUME TypeOK, NEW t \in Thread, Step(t) PROVE ThreadsOK'
<1> USE DEF TypeOK, ThreadsOK, maps, links, locks
<1>1. CASE WsGuildCreate(t)
  <2> DEFINE o == <<job[t].guild, guilds'[job[t].guild]>>
  <2>1. o \in Object
    BY <1>1, CreatedIsObject
  <2>2. job' \in [Thread -> Event]
        /\ \A s \in Thread : job'[s].obj = IF s = t THEN o ELSE job[s].obj
    BY <1>1, <2>1, HoldsType DEF WsGuildCreate
  <2> HIDE DEF o
  <2> QED
    BY <1>1, <2>1, <2>2 DEF WsGuildCreate, Goto
<1>2. CASE WsGuildUpdate(t)
  BY <1>2, FindGuildType DEF WsGuildUpdate
<1>3. CASE Load(t)
  BY <1>3 DEF Load, Goto, Holds
<1>4. CASE LoadMember(t)
  <2>1. job' \in [Thread -> Event] /\ \A s \in Thread : job'[s].obj = job[s].obj
    BY <1>4, UsersType DEF LoadMember
  <2> QED
    BY <1>4, <2>1 DEF LoadMember
<1>5. CASE LoadChannel(t)
  <2>1. job' \in [Thread -> Event] /\ \A s \in Thread : job'[s].obj = job[s].obj
    BY <1>5, ChansType DEF LoadChannel
  <2> QED
    BY <1>5, <2>1 DEF LoadChannel
<1>6. CASE Loaded(t)
  BY <1>6 DEF Loaded, Goto, Holds
<1>7. CASE WsGuildDelete(t)
  BY <1>7, FindGuildType DEF WsGuildDelete
<1>8. CASE RemoveGuild(t)
  BY <1>8 DEF RemoveGuild, Goto, Holds
<1>9. CASE WsMemberAdd(t)
  BY <1>9, FindGuildType DEF WsMemberAdd
<1>10. CASE WsMemberUpdate(t)
  BY <1>10, FindGuildType DEF WsMemberUpdate
<1>11. CASE Enlist(t)
  BY <1>11 DEF Enlist, Goto, Holds
<1>12. CASE WsMemberRemove(t)
  BY <1>12, FindGuildType DEF WsMemberRemove
<1>13. CASE RemoveMember(t)
  BY <1>13 DEF RemoveMember, Goto, Holds
<1>14. CASE WsMessageCreate(t)
  <2>1. CASE UNCHANGED job /\ Goto(t, "idle")
    BY <2>1 DEF Goto
  <2>2. CASE Goto(t, "add") /\ \E c \in Channel : chanGuild[c] # NoObject /\ Holds(t, chanGuild[c])
    <3>1. PICK o \in Object : Holds(t, o)
      BY <2>2
    <3>2. job' \in [Thread -> Event]
          /\ \A s \in Thread : job'[s].obj = IF s = t THEN o ELSE job[s].obj
      BY <3>1, HoldsType
    <3> QED
      BY <2>2, <3>2 DEF Goto
  <2> QED
    BY <1>14, <2>1, <2>2, SpokenInGuild
<1>15. CASE WsMessageUpdate(t)
  BY <1>15 DEF WsMessageUpdate, Goto, Holds
<1>16. CASE AddMember(t)
  BY <1>16 DEF AddMember, Goto, Holds
<1>17. CASE Join(t)
  BY <1>17 DEF Join, Goto, Holds
<1>18. CASE WsChannel(t)
  BY <1>18, FindGuildType DEF WsChannel
<1>19. CASE CreateChannel(t)
  BY <1>19 DEF CreateChannel, Goto, Holds
<1>20. CASE UpdateChannel(t)
  BY <1>20 DEF UpdateChannel, Goto, Holds
<1>21. CASE WsChannelDelete(t)
  BY <1>21, FindGuildType DEF WsChannelDelete
<1>22. CASE LockChannels(t)
  BY <1>22 DEF LockChannels, Goto, Holds
<1>23. CASE RemoveChannel(t)
  BY <1>23 DEF RemoveChannel, Goto, Holds
<1> QED
  BY <1>1, <1>2, <1>3, <1>4, <1>5, <1>6, <1>7, <1>8, <1>9, <1>10, <1>11, <1>12, <1>13, <1>14, <1>15, <1>16, <1>17, <1>18, <1>19, <1>20, <1>21, <1>22, <1>23
     DEF Step, Loads, Leaves, Membership, Messages, Channels

\* ... and of the cache.
LEMMA CacheStep == ASSUME TypeOK, NEW t \in Thread, Step(t) PROVE CacheOK'
<1> USE Objects DEF TypeOK, CacheOK, maps, links, locks
<1>1. CASE WsGuildCreate(t)
  BY <1>1, CreatedIsObject DEF WsGuildCreate
<1>2. CASE WsGuildUpdate(t)
  BY <1>2 DEF WsGuildUpdate, Found
<1>3. CASE Load(t)
  BY <1>3 DEF Load, Found
<1>4. CASE LoadMember(t)
  <2>1. job[t].users \in SUBSET User /\ job[t].obj \in Object
    BY <1>4 DEF LoadMember
  <2>2. PICK u \in job[t].users :
            /\ known' = known \cup {u}
            /\ members' = [members EXCEPT ![job[t].obj] = @ \cup {u}]
            /\ infos' = [infos EXCEPT ![u] = @ \cup {job[t].obj[1]}]
    BY <1>4 DEF LoadMember
  <2> HIDE DEF Event
  <2>3. known' \in SUBSET User /\ members' \in [Object -> SUBSET User] /\ infos' \in [User -> SUBSET Guild]
    BY <2>1, <2>2
  <2> QED
    BY <1>4, <2>3 DEF LoadMember
<1>5. CASE LoadChannel(t)
  <2>1. job[t].chans \in SUBSET Channel /\ job[t].obj \in Object
    BY <1>5 DEF LoadChannel
  <2>2. PICK c \in job[t].chans :
            /\ channels' = channels \cup {c}
            /\ listed' = [listed EXCEPT ![job[t].obj] = @ \cup {c}]
            /\ chanGuild' = [chanGuild EXCEPT ![c] = job[t].obj]
    BY <1>5 DEF LoadChannel
  <2> HIDE DEF Event
  <2>3. channels' \in SUBSET Channel /\ listed' \in [Object -> SUBSET Channel]
        /\ chanGuild' \in [Channel -> Object \cup {NoObject}]
    BY <2>1, <2>2
  <2> QED
    BY <1>5, <2>3 DEF LoadChannel
<1>6. CASE Loaded(t)
  BY <1>6 DEF Loaded, Found
<1>7. CASE WsGuildDelete(t)
  BY <1>7 DEF WsGuildDelete, Found
<1>8. CASE RemoveGuild(t)
  <2>1. job[t].guild \in Guild
    BY <1>8
  <2> HIDE DEF Event
  <2>2. stale' \in SUBSET Guild /\ guilds' \in [Guild -> 0..2]
    <3>1. CASE Found(t)
      <4>1. stale' = stale \cup {job[t].guild} /\ guilds' = [guilds EXCEPT ![job[t].guild] = 0]
        BY <1>8, <3>1 DEF RemoveGuild
      <4>2. guilds \in [Guild -> 0..2] /\ stale \in SUBSET Guild
        OBVIOUS
      <4> HIDE DEF TypeOK
      <4>3. \A g \in Guild : guilds'[g] \in 0..2
        BY <4>1, <4>2, <2>1
      <4> QED
        BY <4>1, <4>2, <4>3, <2>1
    <3>2. CASE ~Found(t)
      BY <1>8, <3>2 DEF RemoveGuild
    <3> QED
      BY <3>1, <3>2
  <2> QED
    BY <1>8, <2>2 DEF RemoveGuild
<1>9. CASE WsMemberAdd(t)
  BY <1>9 DEF WsMemberAdd, Found
<1>10. CASE WsMemberUpdate(t)
  BY <1>10 DEF WsMemberUpdate, Found
<1>11. CASE Enlist(t)
  BY <1>11 DEF Enlist, Found
<1>12. CASE WsMemberRemove(t)
  BY <1>12 DEF WsMemberRemove, Found
<1>13. CASE RemoveMember(t)
  BY <1>13 DEF RemoveMember, Found
<1>14. CASE WsMessageCreate(t)
  BY <1>14 DEF WsMessageCreate, Found
<1>15. CASE WsMessageUpdate(t)
  BY <1>15 DEF WsMessageUpdate, Found
<1>16. CASE AddMember(t)
  BY <1>16 DEF AddMember, Found
<1>17. CASE Join(t)
  BY <1>17 DEF Join, Found
<1>18. CASE WsChannel(t)
  BY <1>18 DEF WsChannel, Found
<1>19. CASE CreateChannel(t)
  BY <1>19 DEF CreateChannel, Found
<1>20. CASE UpdateChannel(t)
  BY <1>20 DEF UpdateChannel, Found
<1>21. CASE WsChannelDelete(t)
  BY <1>21 DEF WsChannelDelete, Found
<1>22. CASE LockChannels(t)
  BY <1>22 DEF LockChannels, Found
<1>23. CASE RemoveChannel(t)
  BY <1>23 DEF RemoveChannel, Found
<1> QED
  BY <1>1, <1>2, <1>3, <1>4, <1>5, <1>6, <1>7, <1>8, <1>9, <1>10, <1>11, <1>12, <1>13, <1>14, <1>15, <1>16, <1>17, <1>18, <1>19, <1>20, <1>21, <1>22, <1>23
     DEF Step, Loads, Leaves, Membership, Messages, Channels

LEMMA TypeStep == ASSUME TypeOK, Next PROVE TypeOK'
<1>1. ASSUME NEW t \in Thread, NEW type \in AboutGuild \cup AboutMember \cup AboutChannel
                                            \cup Spoken \cup {"GUILD_DELETE"},
             NEW e \in Event, Dispatch(t, type, e)
      PROVE  TypeOK'
  <2>1. ThreadsOK'
    BY <1>1 DEF Dispatch, TypeOK, ThreadsOK
  <2>2. CacheOK'
    <3>1. events' \in 0..MaxEvents
      <4>1. events < MaxEvents /\ events' = events + 1
        BY <1>1 DEF Dispatch
      <4>2. events \in 0..MaxEvents
        BY DEF TypeOK
      <4> QED
        BY <4>1, <4>2, CacheAssumption DEF CacheAssumption
    <3> QED
      BY <1>1, <3>1 DEF Dispatch, TypeOK, CacheOK, maps, links, locks
  <2> QED
    BY <2>1, <2>2 DEF TypeOK, ThreadsOK, CacheOK
<1>2. ASSUME NEW t \in Thread, Step(t) PROVE TypeOK'
  BY <1>2, ThreadsStep, CacheStep DEF TypeOK, ThreadsOK, CacheOK
<1> QED
  BY <1>1, <1>2 DEF Next

LEMMA TypeStutter == ASSUME TypeOK, UNCHANGED vars PROVE TypeOK'
BY DEF TypeOK, vars, maps, links, locks

\* The names, objects, members and channels of the cache are always of the
\* right kind, and a thread that is at work on a guild holds an object of it.
THEOREM TypeCorrect == Spec => []TypeOK
<1>1. Init => TypeOK
  BY InitIInv DEF IInv
<1>2. TypeOK /\ [Next]_vars => TypeOK'
  BY TypeStep, TypeStutter
<1> QED
  BY <1>1, <1>2, PTL DEF Spec
-----------------------------------------------------------------------------
\* A thread's step leaves the others where they are.

LEMMA OthersStay ==
    ASSUME TypeOK, NEW t \in Thread, Step(t)
    PROVE  \A s \in Thread \ {t} : pc'[s] = pc[s] /\ job'[s] = job[s]
<1> USE DEF TypeOK, Goto, Holds, FindGuild
<1> HIDE DEF Event
<1>1. CASE WsGuildCreate(t)
  BY <1>1 DEF WsGuildCreate
<1>2. CASE WsGuildUpdate(t)
  BY <1>2 DEF WsGuildUpdate
<1>3. CASE Load(t)
  BY <1>3 DEF Load
<1>4. CASE LoadMember(t)
  BY <1>4 DEF LoadMember
<1>5. CASE LoadChannel(t)
  BY <1>5 DEF LoadChannel
<1>6. CASE Loaded(t)
  BY <1>6 DEF Loaded
<1>7. CASE WsGuildDelete(t)
  BY <1>7 DEF WsGuildDelete
<1>8. CASE RemoveGuild(t)
  BY <1>8 DEF RemoveGuild
<1>9. CASE WsMemberAdd(t)
  BY <1>9 DEF WsMemberAdd
<1>10. CASE WsMemberUpdate(t)
  BY <1>10 DEF WsMemberUpdate
<1>11. CASE Enlist(t)
  BY <1>11 DEF Enlist
<1>12. CASE WsMemberRemove(t)
  BY <1>12 DEF WsMemberRemove
<1>13. CASE RemoveMember(t)
  BY <1>13 DEF RemoveMember
<1>14. CASE WsMessageCreate(t)
  BY <1>14 DEF WsMessageCreate
<1>15. CASE WsMessageUpdate(t)
  BY <1>15 DEF WsMessageUpdate
<1>16. CASE AddMember(t)
  BY <1>16 DEF AddMember
<1>17. CASE Join(t)
  BY <1>17 DEF Join
<1>18. CASE WsChannel(t)
  BY <1>18 DEF WsChannel
<1>19. CASE CreateChannel(t)
  BY <1>19 DEF CreateChannel
<1>20. CASE UpdateChannel(t)
  BY <1>20 DEF UpdateChannel
<1>21. CASE WsChannelDelete(t)
  BY <1>21 DEF WsChannelDelete
<1>22. CASE LockChannels(t)
  BY <1>22 DEF LockChannels
<1>23. CASE RemoveChannel(t)
  BY <1>23 DEF RemoveChannel
<1> QED
  BY <1>1, <1>2, <1>3, <1>4, <1>5, <1>6, <1>7, <1>8, <1>9, <1>10, <1>11, <1>12, <1>13, <1>14, <1>15, <1>16, <1>17, <1>18, <1>19, <1>20, <1>21, <1>22, <1>23
     DEF Step, Loads, Leaves, Membership, Messages, Channels
-----------------------------------------------------------------------------
\* Second objects

\* The parts of SecondIsLater.
NoSecondCached == \A g \in Guild \ stale : guilds[g] # 2
NoSecondHeld == \A g \in Guild \ stale : \A t \in Thread : job[t].obj # <<g, 2>>
NoSecondLinked == \A g \in Guild \ stale : \A c \in Channel : chanGuild[c] # <<g, 2>>

LEMMA SecondParts == SecondIsLater <=> NoSecondCached /\ NoSecondHeld /\ NoSecondLinked
BY DEF SecondIsLater, NoSecondCached, NoSecondHeld, NoSecondLinked

LEMMA StaleGrows == ASSUME NEW t \in Thread, Step(t) PROVE stale \subseteq stale'
<1> USE DEF maps, links, locks
<1>1. CASE WsGuildCreate(t)
  BY <1>1 DEF WsGuildCreate
<1>2. CASE WsGuildUpdate(t)
  BY <1>2 DEF WsGuildUpdate
<1>3. CASE Load(t)
  BY <1>3 DEF Load
<1>4. CASE LoadMember(t)
  BY <1>4 DEF LoadMember
<1>5. CASE LoadChannel(t)
  BY <1>5 DEF LoadChannel
<1>6. CASE Loaded(t)
  BY <1>6 DEF Loaded
<1>7. CASE WsGuildDelete(t)
  BY <1>7 DEF WsGuildDelete
<1>8. CASE RemoveGuild(t)
  BY <1>8 DEF RemoveGuild
<1>9. CASE WsMemberAdd(t)
  BY <1>9 DEF WsMemberAdd
<1>10. CASE WsMemberUpdate(t)
  BY <1>10 DEF WsMemberUpdate
<1>11. CASE Enlist(t)
  BY <1>11 DEF Enlist
<1>12. CASE WsMemberRemove(t)
  BY <1>12 DEF WsMemberRemove
<1>13. CASE RemoveMember(t)
  BY <1>13 DEF RemoveMember
<1>14. CASE WsMessageCreate(t)
  BY <1>14 DEF WsMessageCreate
<1>15. CASE WsMessageUpdate(t)
  BY <1>15 DEF WsMessageUpdate
<1>16. CASE AddMember(t)
  BY <1>16 DEF AddMember
<1>17. CASE Join(t)
  BY <1>17 DEF Join
<1>18. CASE WsChannel(t)
  BY <1>18 DEF WsChannel
<1>19. CASE CreateChannel(t)
  BY <1>19 DEF CreateChannel
<1>20. CASE UpdateChannel(t)
  BY <1>20 DEF UpdateChannel
<1>21. CASE WsChannelDelete(t)
  BY <1>21 DEF WsChannelDelete
<1>22. CASE LockChannels(t)
  BY <1>22 DEF LockChannels
<1>23. CASE RemoveChannel(t)
  BY <1>23 DEF RemoveChannel
<1> QED
  BY <1>1, <1>2, <1>3, <1>4, <1>5, <1>6, <1>7, <1>8, <1>9, <1>10, <1>11, <1>12, <1>13, <1>14, <1>15, <1>16, <1>17, <1>18, <1>19, <1>20, <1>21, <1>22, <1>23
     DEF Step, Loads, Leaves, Membership, Messages, Channels

LEMMA OnlyTwoChangeGuilds ==
    ASSUME NEW t \in Thread, Step(t)
    PROVE  WsGuildCreate(t) \/ RemoveGuild(t) \/ UNCHANGED <<guilds, stale>>
<1> USE DEF maps, links, locks
<1>1. CASE WsGuildCreate(t)
  BY <1>1
<1>2. CASE WsGuildUpdate(t)
  BY <1>2 DEF WsGuildUpdate
<1>3. CASE Load(t)
  BY <1>3 DEF Load
<1>4. CASE LoadMember(t)
  BY <1>4 DEF LoadMember
<1>5. CASE LoadChannel(t)
  BY <1>5 DEF LoadChannel
<1>6. CASE Loaded(t)
  BY <1>6 DEF Loaded
<1>7. CASE WsGuildDelete(t)
  BY <1>7 DEF WsGuildDelete
<1>8. CASE RemoveGuild(t)
  BY <1>8
<1>9. CASE WsMemberAdd(t)
  BY <1>9 DEF WsMemberAdd
<1>10. CASE WsMemberUpdate(t)
  BY <1>10 DEF WsMemberUpdate
<1>11. CASE Enlist(t)
  BY <1>11 DEF Enlist
<1>12. CASE WsMemberRemove(t)
  BY <1>12 DEF WsMemberRemove
<1>13. CASE RemoveMember(t)
  BY <1>13 DEF RemoveMember
<1>14. CASE WsMessageCreate(t)
  BY <1>14 DEF WsMessageCreate
<1>15. CASE WsMessageUpdate(t)
  BY <1>15 DEF WsMessageUpdate
<1>16. CASE AddMember(t)
  BY <1>16 DEF AddMember
<1>17. CASE Join(t)
  BY <1>17 DEF Join
<1>18. CASE WsChannel(t)
  BY <1>18 DEF WsChannel
<1>19. CASE CreateChannel(t)
  BY <1>19 DEF CreateChannel
<1>20. CASE UpdateChannel(t)
  BY <1>20 DEF UpdateChannel
<1>21. CASE WsChannelDelete(t)
  BY <1>21 DEF WsChannelDelete
<1>22. CASE LockChannels(t)
  BY <1>22 DEF LockChannels
<1>23. CASE RemoveChannel(t)
  BY <1>23 DEF RemoveChannel
<1> QED
  BY <1>1, <1>2, <1>3, <1>4, <1>5, <1>6, <1>7, <1>8, <1>9, <1>10, <1>11, <1>12, <1>13, <1>14, <1>15, <1>16, <1>17, <1>18, <1>19, <1>20, <1>21, <1>22, <1>23
     DEF Step, Loads, Leaves, Membership, Messages, Channels

LEMMA CachedStep ==
    ASSUME TypeOK, NoSecondCached, NEW t \in Thread, Step(t) PROVE NoSecondCached'
<1> USE DEF TypeOK, NoSecondCached, maps
<1>1. CASE WsGuildCreate(t)
  <2>1. ASSUME NEW g \in Guild \ stale PROVE guilds'[g] # 2
    <3> DEFINE n == IF guilds[g] # 0 THEN guilds[g] ELSE IF g \in stale THEN 2 ELSE 1
    <3>1. n # 2 /\ guilds[g] # 2
      <4>1. guilds[g] # 2 /\ g \notin stale
        BY <2>1
      <4> HIDE DEF TypeOK, NoSecondCached
      <4> QED
        BY <4>1
    <3>2. guilds'[g] \in {guilds[g], n}
      BY <1>1, <2>1 DEF WsGuildCreate
    <3> QED
      BY <3>1, <3>2
  <2> QED
    BY <1>1, <2>1 DEF WsGuildCreate
<1>2. CASE RemoveGuild(t)
  <2>1. CASE Found(t)
    BY <1>2, <2>1 DEF RemoveGuild
  <2>2. CASE ~Found(t)
    BY <1>2, <2>2 DEF RemoveGuild
  <2> QED
    BY <2>1, <2>2
<1>3. CASE UNCHANGED <<guilds, stale>>
  BY <1>3
<1> QED
  BY <1>1, <1>2, <1>3, OnlyTwoChangeGuilds

LEMMA FoundTakenUp ==
    ASSUME TypeOK, NEW t \in Thread, NEW where \in Waits, FindGuild(t, where), guilds' = guilds
    PROVE  \/ \A s \in Thread : job'[s].obj = job[s].obj
           \/ /\ \A s \in Thread \ {t} : job'[s].obj = job[s].obj
              /\ \E g \in Guild : job'[t].obj = <<g, guilds'[g]>>
<1>1. CASE Found(t)
  <2>1. Holds(t, FoundObject(t)) /\ FoundObject(t) \in Object /\ job[t].guild \in Guild
    BY <1>1, FoundIsObject DEF FindGuild, TypeOK
  <2>2. \A s \in Thread : job'[s].obj = IF s = t THEN FoundObject(t) ELSE job[s].obj
    BY <2>1, HoldsType DEF TypeOK
  <2> QED
    BY <2>1, <2>2 DEF FoundObject
<1>2. CASE ~Found(t)
  BY <1>2 DEF FindGuild
<1> QED
  BY <1>1, <1>2

\* The object a thread takes up is the one that is cached, or a channel's.
LEMMA TakenUp ==
    ASSUME TypeOK, NEW t \in Thread, Step(t)
    PROVE  \/ \A s \in Thread : job'[s].obj = job[s].obj
           \/ /\ \A s \in Thread \ {t} : job'[s].obj = job[s].obj
              /\ \/ \E g \in Guild : job'[t].obj = <<g, guilds'[g]>>
                 \/ \E c \in Channel : job'[t].obj = chanGuild[c]
<1> USE DEF TypeOK
<1>1. CASE WsGuildCreate(t)
  <2> DEFINE o == <<job[t].guild, guilds'[job[t].guild]>>
  <2>1. o \in Object /\ job[t].guild \in Guild
    BY <1>1, CreatedIsObject
  <2>2. \A s \in Thread : job'[s].obj = IF s = t THEN o ELSE job[s].obj
    BY <1>1, <2>1, HoldsType DEF WsGuildCreate
  <2> QED
    BY <2>1, <2>2
<1>2. CASE WsGuildUpdate(t)
  BY <1>2, FoundTakenUp DEF WsGuildUpdate, maps
<1>3. CASE Load(t)
  BY <1>3 DEF Load
<1>4. CASE LoadMember(t)
  BY <1>4, UsersType DEF LoadMember
<1>5. CASE LoadChannel(t)
  BY <1>5, ChansType DEF LoadChannel
<1>6. CASE Loaded(t)
  BY <1>6 DEF Loaded
<1>7. CASE WsGuildDelete(t)
  BY <1>7, FoundTakenUp DEF WsGuildDelete, maps
<1>8. CASE RemoveGuild(t)
  BY <1>8 DEF RemoveGuild
<1>9. CASE WsMemberAdd(t)
  BY <1>9, FoundTakenUp DEF WsMemberAdd, maps
<1>10. CASE WsMemberUpdate(t)
  BY <1>10, FoundTakenUp DEF WsMemberUpdate, maps
<1>11. CASE Enlist(t)
  BY <1>11 DEF Enlist
<1>12. CASE WsMemberRemove(t)
  BY <1>12, FoundTakenUp DEF WsMemberRemove, maps
<1>13. CASE RemoveMember(t)
  BY <1>13 DEF RemoveMember
<1>14. CASE WsMessageCreate(t)
  <2>1. CASE UNCHANGED job
    BY <2>1
  <2>2. CASE \E c \in Channel : chanGuild[c] # NoObject /\ Holds(t, chanGuild[c])
    <3>1. PICK c \in Channel : chanGuild[c] # NoObject /\ Holds(t, chanGuild[c])
      BY <2>2
    <3>2. chanGuild[c] \in Object /\ job \in [Thread -> Event]
      BY <3>1
    <3>3. \A s \in Thread : job'[s].obj = IF s = t THEN chanGuild[c] ELSE job[s].obj
      BY <3>1, <3>2, HoldsType
    <3> QED
      BY <3>3
  <2> QED
    BY <1>14, <2>1, <2>2, SpokenInGuild
<1>15. CASE WsMessageUpdate(t)
  BY <1>15 DEF WsMessageUpdate
<1>16. CASE AddMember(t)
  BY <1>16 DEF AddMember
<1>17. CASE Join(t)
  BY <1>17 DEF Join
<1>18. CASE WsChannel(t)
  BY <1>18, FoundTakenUp DEF WsChannel, maps
<1>19. CASE CreateChannel(t)
  BY <1>19 DEF CreateChannel
<1>20. CASE UpdateChannel(t)
  BY <1>20 DEF UpdateChannel
<1>21. CASE WsChannelDelete(t)
  BY <1>21, FoundTakenUp DEF WsChannelDelete, maps
<1>22. CASE LockChannels(t)
  BY <1>22 DEF LockChannels
<1>23. CASE RemoveChannel(t)
  BY <1>23 DEF RemoveChannel
<1> QED
  BY <1>1, <1>2, <1>3, <1>4, <1>5, <1>6, <1>7, <1>8, <1>9, <1>10, <1>11, <1>12, <1>13, <1>14, <1>15, <1>16, <1>17, <1>18, <1>19, <1>20, <1>21, <1>22, <1>23
     DEF Step, Loads, Leaves, Membership, Messages, Channels

LEMMA HeldStep ==
    ASSUME TypeOK, SecondIsLater, NEW t \in Thread, Step(t) PROVE NoSecondHeld'
<1> SUFFICES ASSUME NEW g \in Guild \ stale', NEW s \in Thread PROVE job'[s].obj # <<g, 2>>
  BY DEF NoSecondHeld
<1>1. g \notin stale
  BY StaleGrows
<1>2. job[s].obj # <<g, 2>> /\ \A c \in Channel : chanGuild[c] # <<g, 2>>
  BY <1>1 DEF SecondIsLater
<1>3. guilds'[g] # 2
  BY CachedStep, SecondParts DEF NoSecondCached
<1>4. \A h \in Guild : <<h, guilds'[h]>> # <<g, 2>>
  BY <1>3
<1> QED
  BY <1>2, <1>4, TakenUp

LEMMA ChannelLinks ==
    ASSUME TypeOK, NEW t \in Thread, Step(t), NEW c \in Channel
    PROVE  chanGuild'[c] \in {chanGuild[c], job[t].obj, NoObject}
<1> USE DEF TypeOK, maps, links, locks
<1> HIDE DEF Event
<1>1. CASE WsGuildCreate(t)
  BY <1>1 DEF WsGuildCreate
<1>2. CASE WsGuildUpdate(t)
  BY <1>2 DEF WsGuildUpdate
<1>3. CASE Load(t)
  BY <1>3 DEF Load
<1>4. CASE LoadMember(t)
  BY <1>4 DEF LoadMember
<1>5. CASE LoadChannel(t)
  BY <1>5 DEF LoadChannel
<1>6. CASE Loaded(t)
  BY <1>6 DEF Loaded
<1>7. CASE WsGuildDelete(t)
  BY <1>7 DEF WsGuildDelete
<1>8. CASE RemoveGuild(t)
  BY <1>8 DEF RemoveGuild
<1>9. CASE WsMemberAdd(t)
  BY <1>9 DEF WsMemberAdd
<1>10. CASE WsMemberUpdate(t)
  BY <1>10 DEF WsMemberUpdate
<1>11. CASE Enlist(t)
  BY <1>11 DEF Enlist
<1>12. CASE WsMemberRemove(t)
  BY <1>12 DEF WsMemberRemove
<1>13. CASE RemoveMember(t)
  BY <1>13 DEF RemoveMember
<1>14. CASE WsMessageCreate(t)
  BY <1>14 DEF WsMessageCreate
<1>15. CASE WsMessageUpdate(t)
  BY <1>15 DEF WsMessageUpdate
<1>16. CASE AddMember(t)
  BY <1>16 DEF AddMember
<1>17. CASE Join(t)
  BY <1>17 DEF Join
<1>18. CASE WsChannel(t)
  BY <1>18 DEF WsChannel
<1>19. CASE CreateChannel(t)
  BY <1>19 DEF CreateChannel
<1>20. CASE UpdateChannel(t)
  BY <1>20 DEF UpdateChannel
<1>21. CASE WsChannelDelete(t)
  BY <1>21 DEF WsChannelDelete
<1>22. CASE LockChannels(t)
  BY <1>22 DEF LockChannels
<1>23. CASE RemoveChannel(t)
  BY <1>23 DEF RemoveChannel
<1> QED
  BY <1>1, <1>2, <1>3, <1>4, <1>5, <1>6, <1>7, <1>8, <1>9, <1>10, <1>11, <1>12, <1>13, <1>14, <1>15, <1>16, <1>17, <1>18, <1>19, <1>20, <1>21, <1>22, <1>23
     DEF Step, Loads, Leaves, Membership, Messages, Channels

\* A channel is linked to the object of the thread that links it.
LEMMA LinkedStep ==
    ASSUME TypeOK, SecondIsLater, NEW t \in Thread, Step(t) PROVE NoSecondLinked'
<1> SUFFICES ASSUME NEW g \in Guild \ stale', NEW c \in Channel PROVE chanGuild'[c] # <<g, 2>>
  BY DEF NoSecondLinked
<1>1. g \notin stale
  BY StaleGrows
<1>2. job[t].obj # <<g, 2>> /\ chanGuild[c] # <<g, 2>> /\ NoObject # <<g, 2>>
  BY <1>1 DEF SecondIsLater, NoObject
<1>3. chanGuild'[c] \in {chanGuild[c], job[t].obj, NoObject}
  BY ChannelLinks
<1> QED
  BY <1>2, <1>3
-----------------------------------------------------------------------------
\* Members

\* A step that does not make the thread leave "join" keeps every half join.
LEMMA JoiningStays ==
    ASSUME TypeOK, NEW t \in Thread, Step(t), pc[t] # "join", NEW u \in User, NEW g \in Guild, Joining(u, g)
    PROVE  Joining(u, g)'
<1>1. PICK s \in Thread : pc[s] = "join" /\ u \in job[s].users /\ job[s].obj[1] = g
  BY DEF Joining
<1>2. pc'[s] = pc[s] /\ job'[s] = job[s]
  BY <1>1, OthersStay
<1> QED
  BY <1>1, <1>2 DEF Joining

\* Only these five actions change members, and what their members know.
LEMMA OnlyFiveChangeMembers ==
    ASSUME NEW t \in Thread, Step(t)
    PROVE  \/ LoadMember(t) \/ Enlist(t) \/ RemoveMember(t) \/ AddMember(t) \/ Join(t)
           \/ UNCHANGED <<members, infos>> /\ pc[t] # "join"
<1> USE DEF maps, links, locks
<1>1. CASE WsGuildCreate(t)
  BY <1>1 DEF WsGuildCreate
<1>2. CASE WsGuildUpdate(t)
  BY <1>2 DEF WsGuildUpdate
<1>3. CASE Load(t)
  BY <1>3 DEF Load
<1>4. CASE LoadMember(t)
  BY <1>4
<1>5. CASE LoadChannel(t)
  BY <1>5 DEF LoadChannel
<1>6. CASE Loaded(t)
  BY <1>6 DEF Loaded
<1>7. CASE WsGuildDelete(t)
  BY <1>7 DEF WsGuildDelete
<1>8. CASE RemoveGuild(t)
  BY <1>8 DEF RemoveGuild
<1>9. CASE WsMemberAdd(t)
  BY <1>9 DEF WsMemberAdd
<1>10. CASE WsMemberUpdate(t)
  BY <1>10 DEF WsMemberUpdate
<1>11. CASE Enlist(t)
  BY <1>11
<1>12. CASE WsMemberRemove(t)
  BY <1>12 DEF WsMemberRemove
<1>13. CASE RemoveMember(t)
  BY <1>13
<1>14. CASE WsMessageCreate(t)
  BY <1>14 DEF WsMessageCreate
<1>15. CASE WsMessageUpdate(t)
  BY <1>15 DEF WsMessageUpdate
<1>16. CASE AddMember(t)
  BY <1>16
<1>17. CASE Join(t)
  BY <1>17
<1>18. CASE WsChannel(t)
  BY <1>18 DEF WsChannel
<1>19. CASE CreateChannel(t)
  BY <1>19 DEF CreateChannel
<1>20. CASE UpdateChannel(t)
  BY <1>20 DEF UpdateChannel
<1>21. CASE WsChannelDelete(t)
  BY <1>21 DEF WsChannelDelete
<1>22. CASE LockChannels(t)
  BY <1>22 DEF LockChannels
<1>23. CASE RemoveChannel(t)
  BY <1>23 DEF RemoveChannel
<1> QED
  BY <1>1, <1>2, <1>3, <1>4, <1>5, <1>6, <1>7, <1>8, <1>9, <1>10, <1>11, <1>12, <1>13, <1>14, <1>15, <1>16, <1>17, <1>18, <1>19, <1>20, <1>21, <1>22, <1>23
     DEF Step, Loads, Leaves, Membership, Messages, Channels

\* An object that is not a second one is the first of its guild.
LEMMA FirstObject ==
    ASSUME SecondIsLater, NEW t \in Thread, job[t].obj \in Object, job[t].obj[1] \notin stale
    PROVE  job[t].obj = <<job[t].obj[1], 1>>
<1>1. PICK g \in Guild, n \in {1, 2} : job[t].obj = <<g, n>>
  BY DEF Object
<1>2. job[t].obj # <<g, 2>>
  BY <1>1 DEF SecondIsLater
<1> QED
  BY <1>1, <1>2

LEMMA MembersStep ==
    ASSUME IInv, NEW t \in Thread, Step(t) PROVE MembersJoined'
<1> SUFFICES ASSUME NEW g \in Guild \ stale', NEW u \in members'[<<g, 1>>]
             PROVE  g \in infos'[u] \/ Joining(u, g)'
  BY DEF MembersJoined
<1> DEFINE o == job[t].obj
<1>1. g \in Guild \ stale /\ <<g, 1>> \in Object
  BY StaleGrows, Objects
<1>2. TypeOK /\ SecondIsLater /\ MembersJoined
  BY DEF IInv
<1>3. u \in User
  BY TypeStep, <1>1, <1>2 DEF Next, TypeOK
<1>4. u \in members[<<g, 1>>] => g \in infos[u] \/ Joining(u, g)
  BY <1>1, <1>2 DEF MembersJoined
<1>6. pc[t] # "join" /\ Joining(u, g) => Joining(u, g)'
  BY <1>2, <1>3, JoiningStays
<1>7. o = <<g, 1>> => o[1] = g
  OBVIOUS
<1>8. job[t].users \in SUBSET User /\ (pc[t] \in Waits => o \in Object)
  BY <1>2 DEF TypeOK
<1>9. members \in [Object -> SUBSET User] /\ infos \in [User -> SUBSET Guild]
  BY <1>2 DEF TypeOK
<1> HIDE DEF Event
<1>10. CASE LoadMember(t)
  <2>1. PICK v \in job[t].users :
            /\ members' = [members EXCEPT ![o] = @ \cup {v}]
            /\ infos' = [infos EXCEPT ![v] = @ \cup {o[1]}]
    BY <1>10 DEF LoadMember
  <2>2. pc[t] # "join" /\ v \in User /\ o \in Object
    BY <1>10, <1>8 DEF LoadMember
  <2>3. infos[u] \subseteq infos'[u]
    BY <2>1, <2>2, <1>3, <1>9
  <2>4. CASE u \in members[<<g, 1>>]
    BY <2>2, <2>3, <2>4, <1>4, <1>6
  <2>5. CASE u \notin members[<<g, 1>>]
    <3>1. o = <<g, 1>> /\ u = v
      BY <2>1, <2>2, <2>5, <1>1, <1>9
    <3> QED
      BY <3>1, <2>1, <1>3, <1>7, <1>9
  <2> QED
    BY <2>4, <2>5
<1>11. CASE Enlist(t)
  <2> USE DEF Enlist
  <2>1. pc[t] # "join" /\ o \in Object
    BY <1>11, <1>8
  <2>2. infos[u] \subseteq infos'[u] /\ (u \in job[t].users => o[1] \in infos'[u])
    BY <1>11, <1>3
  <2>3. CASE u \in members[<<g, 1>>]
    BY <2>1, <2>2, <2>3, <1>4, <1>6
  <2>4. CASE u \notin members[<<g, 1>>]
    <3>1. o = <<g, 1>> /\ u \in job[t].users
      BY <1>11, <2>1, <2>4, <1>1, <1>9
    <3> QED
      BY <3>1, <2>2, <1>7
  <2> QED
    BY <2>3, <2>4
<1>12. CASE RemoveMember(t)
  <2> DEFINE gone == members[o] \cap job[t].users
  <2> USE DEF RemoveMember
  <2>1. pc[t] # "join" /\ o \in Object
    BY <1>12, <1>8
  <2>2. members' = [members EXCEPT ![o] = @ \ gone]
        /\ infos'[u] = IF u \in gone THEN infos[u] \ {o[1]} ELSE infos[u]
    BY <1>12, <1>3
  <2>3. u \in members[<<g, 1>>]
    BY <2>1, <2>2, <1>1, <1>9
  <2>4. CASE u \in gone /\ o[1] = g
    <3>1. o = <<g, 1>>
      BY <2>1, <2>4, <1>1, <1>2, FirstObject
    <3>2. members'[<<g, 1>>] = members[o] \ gone
      BY <3>1, <2>1, <2>2, <1>9
    <3> QED
      BY <3>2, <2>4
  <2>5. CASE ~(u \in gone /\ o[1] = g)
    BY <2>1, <2>2, <2>3, <2>5, <1>4, <1>6
  <2> QED
    BY <2>4, <2>5
<1>13. CASE AddMember(t)
  <2> USE DEF AddMember
  <2>1. pc[t] # "join" /\ o \in Object /\ infos' = infos
    BY <1>13, <1>8
  <2>2. CASE u \in members[<<g, 1>>]
    BY <2>1, <2>2, <1>4, <1>6
  <2>3. CASE u \notin members[<<g, 1>>]
    <3>1. o = <<g, 1>> /\ u \in job[t].users
      BY <1>13, <2>1, <2>3, <1>1, <1>9
    <3>2. pc'[t] = "join" /\ job' = job
      BY <1>13, <1>2 DEF Goto, TypeOK
    <3> QED
      BY <3>1, <3>2, <1>7 DEF Joining
  <2> QED
    BY <2>2, <2>3
<1>14. CASE Join(t)
  <2> USE DEF Join
  <2>1. members' = members /\ infos[u] \subseteq infos'[u]
    BY <1>14, <1>3
  <2>2. CASE g \in infos[u]
    BY <2>1, <2>2
  <2>3. CASE Joining(u, g)
    <3>1. PICK s \in Thread : pc[s] = "join" /\ u \in job[s].users /\ job[s].obj[1] = g
      BY <2>3 DEF Joining
    <3>2. CASE s = t
      BY <1>14, <3>1, <3>2, <1>3
    <3>3. CASE s # t
      <4>1. pc'[s] = pc[s] /\ job'[s] = job[s]
        BY <3>3, <1>2, OthersStay
      <4> QED
        BY <3>1, <4>1 DEF Joining
    <3> QED
      BY <3>2, <3>3
  <2> QED
    BY <2>1, <2>2, <2>3, <1>4
<1>15. CASE UNCHANGED <<members, infos>> /\ pc[t] # "join"
  BY <1>15, <1>4, <1>6
<1> QED
  BY <1>10, <1>11, <1>12, <1>13, <1>14, <1>15, OnlyFiveChangeMembers

LEMMA IInvStep == ASSUME IInv, [Next]_vars PROVE IInv'
<1>1. TypeOK /\ SecondIsLater /\ MembersJoined
  BY DEF IInv
<1>2. TypeOK'
  BY <1>1, TypeStep, TypeStutter
<1>3. ASSUME NEW t \in Thread, Step(t) PROVE IInv'
  <2>1. SecondIsLater'
    BY <1>1, <1>3, CachedStep, HeldStep, LinkedStep, SecondParts
       DEF SecondIsLater, NoSecondCached, NoSecondHeld, NoSecondLinked
  <2> QED
    BY <1>2, <1>3, <2>1, MembersStep DEF IInv
<1>4. ASSUME NEW t \in Thread, NEW type, NEW e \in Event, e.obj = NoObject, Dispatch(t, type, e)
      PROVE  IInv'
  <2>1. /\ UNCHANGED <<maps, links>> /\ pc[t] = "idle"
        /\ job' = [job EXCEPT ![t] = e] /\ \A s \in Thread \ {t} : pc'[s] = pc[s]
    BY <1>1, <1>4 DEF Dispatch, TypeOK
  <2>2. \A s \in Thread \ {t} : job'[s] = job[s]
    BY <2>1, <1>1 DEF TypeOK
  <2>3. job'[t].obj = NoObject
    BY <2>1, <1>1, <1>4 DEF TypeOK
  <2>4. SecondIsLater'
    BY <1>1, <2>1, <2>2, <2>3 DEF SecondIsLater, maps, links, NoObject
  <2>5. \A u \in User, g \in Guild : Joining(u, g) => Joining(u, g)'
    BY <2>1, <2>2 DEF Joining
  <2>6. MembersJoined'
    <3>1. \A g \in Guild : members[<<g, 1>>] \subseteq User
      BY <1>1, Objects DEF TypeOK
    <3> QED
      BY <1>1, <2>1, <2>5, <3>1 DEF MembersJoined, maps, links
  <2> QED
    BY <1>2, <2>4, <2>6 DEF IInv
<1>5. CASE UNCHANGED vars
  BY <1>1, <1>2, <1>5 DEF IInv, SecondIsLater, MembersJoined, Joining, vars, maps, links
<1> QED
  BY <1>3, <1>4, <1>5 DEF Next

\* A member of a guild the bot has not left knows that he is one, however many
\* threads handle whatever events: the cache can always be left as it was joined.
THEOREM MembersKnowTheirGuild == Spec => []MembersJoined
<1>1. Init => IInv
  BY InitIInv
<1>2. IInv /\ [Next]_vars => IInv'
  BY IInvStep
<1>3. IInv => MembersJoined
  BY DEF IInv
<1> QED
  BY <1>1, <1>2, <1>3, PTL DEF Spec
-----------------------------------------------------------------------------
\* Gateway: one attempt at a time, no shard forgotten, identifies apart.

\* What the queue's operators do to what is in it.
Has(q, s) == \E i \in 1..Len(q) : q[i] = s
EachOnce(q) == \A i, j \in 1..Len(q) : q[i] = q[j] => i = j

LEMMA RequeuedQueue ==
    ASSUME NEW q \in Seq(Shards), NEW s \in Shards
    PROVE  /\ Requeued(q, s) \in Seq(Shards)
           /\ \A t : Has(Requeued(q, s), t) <=> Has(q, t) \/ t = s
           /\ EachOnce(q) => EachOnce(Requeued(q, s))
           /\ q # <<>> => Requeued(q, s) # <<>> /\ Head(Requeued(q, s)) = Head(q)
<1>1. CASE Has(q, s)
    BY <1>1 DEF Requeued, Has
<1>2. CASE ~Has(q, s)
    <2>1. Requeued(q, s) = Append(q, s)
        BY <1>2 DEF Requeued, Has
    <2>2. /\ Append(q, s) \in Seq(Shards) /\ Len(Append(q, s)) = Len(q) + 1
          /\ Append(q, s)[Len(q) + 1] = s
          /\ \A i \in 1..Len(q) : Append(q, s)[i] = q[i]
          /\ Len(q) \in Nat
        BY AppendProperties, LenProperties
    <2>3. ASSUME NEW t PROVE Has(Append(q, s), t) <=> Has(q, t) \/ t = s
        <3>1. 1..(Len(q) + 1) = (1..Len(q)) \cup {Len(q) + 1}
            BY <2>2
        <3> QED
            BY <2>2, <3>1 DEF Has
    <2>4. ASSUME EachOnce(q) PROVE EachOnce(Append(q, s))
        BY <2>2, <2>4, <1>2 DEF EachOnce, Has
    <2>5. q # <<>> => Append(q, s) # <<>> /\ Head(Append(q, s)) = Head(q)
        BY <2>2, AppendProperties, EmptySeq
    <2> QED
        BY <2>1, <2>2, <2>3, <2>4, <2>5
<1> QED
    BY <1>1, <1>2

LEMMA TailQueue ==
    ASSUME NEW q \in Seq(Shards), q # <<>>
    PROVE  /\ Head(q) \in Shards /\ Tail(q) \in Seq(Shards)
           /\ Has(q, Head(q))
           /\ \A t : Has(Tail(q), t) => Has(q, t)
           /\ \A t : Has(q, t) /\ t # Head(q) => Has(Tail(q), t)
           /\ EachOnce(q) => EachOnce(Tail(q)) /\ ~Has(Tail(q), Head(q))
<1>1. /\ Len(q) \in Nat /\ Len(q) > 0
      /\ Head(q) = q[1] /\ Head(q) \in Shards /\ Tail(q) \in Seq(Shards)
      /\ Len(Tail(q)) = Len(q) - 1
      /\ \A i \in 1..Len(q) - 1 : Tail(q)[i] = q[i + 1]
    BY HeadTailProperties, LenProperties, EmptySeq
<1>2. Has(q, Head(q))
    BY <1>1 DEF Has
<1>3. ASSUME NEW t, Has(Tail(q), t) PROVE Has(q, t)
    <2>1. PICK i \in 1..Len(q) - 1 : q[i + 1] = t
        BY <1>1, <1>3 DEF Has
    <2>2. i + 1 \in 1..Len(q)
        BY <1>1
    <2> QED
        BY <2>1, <2>2 DEF Has
<1>4. ASSUME NEW t, Has(q, t), t # Head(q) PROVE Has(Tail(q), t)
    <2>1. PICK i \in 1..Len(q) : q[i] = t
        BY <1>4 DEF Has
    <2>2. i - 1 \in 1..Len(q) - 1 /\ i - 1 + 1 = i
        BY <1>1, <1>4, <2>1
    <2> QED
        BY <1>1, <2>1, <2>2 DEF Has
<1>5. ASSUME EachOnce(q) PROVE EachOnce(Tail(q)) /\ ~Has(Tail(q), Head(q))
    <2>1. \A i, j \in 1..Len(q) : q[i] = q[j] => i = j
        BY <1>5 DEF EachOnce
    <2>2. ASSUME NEW i \in 1..Len(q) - 1, NEW j \in 1..Len(q) - 1, q[i + 1] = q[j + 1]
          PROVE  i = j
        <3>1. i + 1 \in 1..Len(q) /\ j + 1 \in 1..Len(q)
            BY <1>1
        <3> QED
            BY <2>1, <2>2, <3>1
    <2>3. ASSUME NEW i \in 1..Len(q) - 1 PROVE q[i + 1] # q[1]
        <3>1. i + 1 \in 1..Len(q) /\ 1 \in 1..Len(q) /\ i + 1 # 1
            BY <1>1
        <3> QED
            BY <2>1, <3>1
    <2> QED
        BY <1>1, <2>2, <2>3 DEF EachOnce, Has
<1> QED
    BY <1>1, <1>2, <1>3, <1>4, <1>5
-----------------------------------------------------------------------------
\* The types.

USE DEF Off, IdentifyGap

LEMMA GwInitType == GwInit => GwTypeOK
BY GatewayAssumption DEF GwInit, GwTypeOK, States, Conns, Asks, Causes

LEMMA Limits ==
    /\ NoShard \notin Shards
    /\ ConnectLimit \in Nat /\ ConnectLimit > 0 /\ AuthDelay \in Nat /\ AuthDelay > 0
    /\ BeatLimit \in Nat /\ MaxResets \in Nat /\ MaxResets > 0
BY GatewayAssumption

LEMMA SocketType ==
    ASSUME GwTypeOK, NEW s \in Shards,
           \/ Fails(s) \/ ProcessWrites(s) \/ Hello(s) \/ KeepAlive(s) \/ HeartbeatAck(s)
           \/ ServerCloses(s)
    PROVE  GwTypeOK'
<1> USE Limits DEF GwTypeOK, States, Conns, Asks
<1>1. CASE Fails(s)
    BY <1>1, SMTT(20) DEF Fails, gatewayVars, attemptVars
<1>2. CASE ProcessWrites(s)
    <2>1. /\ outbox[s] \in Asks /\ outbox' = [outbox EXCEPT ![s] = "nothing"]
          /\ UNCHANGED <<state, conn, dropped, resets, auth, waited, beating, session, queue,
                         connecting, connectTime, identifyAge, jobs, crossed>>
        BY <1>2 DEF ProcessWrites, Received, linkVars, attemptVars
    <2>2. asked' \in [Shards -> Asks] /\ gatewayAge' \in 0..1
        <3>1. CASE conn[s] = "open"
            <4>1. asked' = [asked EXCEPT ![s] = outbox[s]] /\ gatewayAge' \in {0, gatewayAge}
                BY <1>2, <3>1 DEF ProcessWrites, Received
            <4> QED
                BY <4>1, <2>1
        <3>2. CASE conn[s] # "open"
            BY <1>2, <3>2 DEF ProcessWrites, Received
        <3> QED
            BY <3>1, <3>2
    <2> QED
        BY <2>1, <2>2
<1>3. CASE Hello(s)
    <2>1. waited' \in [Shards -> Off..(BeatLimit + 1)] /\ beating' \in SUBSET Shards
        BY <1>3 DEF Hello
    <2>2. UNCHANGED <<state, linkVars, outbox, auth, session, queue, attemptVars, identifyAge,
                      gatewayVars, crossed>>
        BY <1>3 DEF Hello
    <2> QED
        BY <2>1, <2>2, SMTT(20) DEF linkVars, attemptVars, gatewayVars
<1>4. CASE KeepAlive(s) \/ HeartbeatAck(s)
    <2>1. waited' \in [Shards -> Off..(BeatLimit + 1)]
        <3>1. PICK age \in {Off, 0} : waited' = [waited EXCEPT ![s] = age]
            BY <1>4 DEF KeepAlive, HeartbeatAck
        <3> QED
            BY <3>1
    <2>2. UNCHANGED <<state, linkVars, outbox, auth, beating, session, queue, attemptVars,
                      identifyAge, gatewayVars, crossed>>
        BY <1>4, SMTT(20) DEF KeepAlive, HeartbeatAck
    <2> QED
        BY <2>1, <2>2, SMTT(20) DEF linkVars, attemptVars, gatewayVars
<1>5. CASE ServerCloses(s)
    BY <1>5 DEF ServerCloses, gatewayVars, attemptVars
<1> QED
    BY <1>1, <1>2, <1>3, <1>4, <1>5

\* The parts of a reset.
LEMMA TimersType ==
    ASSUME GwTypeOK, NEW s \in Shards, DropTimers(s)
    PROVE  /\ state' \in [Shards -> States] /\ outbox' \in [Shards -> Asks]
           /\ auth' \in [Shards -> Off..AuthDelay] /\ beating' \in SUBSET Shards
BY Limits, SMTT(20) DEF DropTimers, GwTypeOK, States, Asks

LEMMA AnswerType ==
    ASSUME GwTypeOK, NEW s \in Shards,
           OnConnect(s) \/ Accept(s) \/ InvalidSession(s) \/ DelayedAuth(s) \/ HandleReady(s)
    PROVE  GwTypeOK'
<1> USE Limits DEF GwTypeOK, States, Conns, Asks
<1>1. CASE OnConnect(s)
    <2>1. queue' \in Seq(Shards)
        BY <1>1, TailQueue DEF OnConnect
    <2>2. conn' \in [Shards -> Conns] /\ state' \in [Shards -> States]
        BY <1>1 DEF OnConnect
    <2>3. outbox' \in [Shards -> Asks] /\ identifyAge' \in 0..1
        <3>1. Identify(s) \/ UNCHANGED <<outbox, identifyAge>>
            BY <1>1 DEF OnConnect
        <3>2. CASE Identify(s)
            <4>1. PICK what \in {"resume", "identify"} : outbox' = [outbox EXCEPT ![s] = what]
                BY <3>2 DEF Identify
            <4>2. identifyAge' \in {0, identifyAge}
                BY <3>2 DEF Identify
            <4> QED
                BY <4>1, <4>2
        <3> QED
            BY <3>1, <3>2
    <2>4. UNCHANGED <<dropped, resets, auth, waited, beating, session, connecting, connectTime,
                      asked, jobs, gatewayAge, crossed>>
        BY <1>1 DEF OnConnect, gatewayVars, attemptVars
    <2> QED
        BY <2>1, <2>2, <2>3, <2>4
<1>2. CASE Accept(s)
    BY <1>2, SMTT(20) DEF Accept, socketVars, linkVars, attemptVars
<1>3. CASE InvalidSession(s)
    <2>1. crossed' \in SUBSET Causes
        BY <1>3 DEF InvalidSession, Causes
    <2> QED
        BY <1>3, <2>1, SMTT(20) DEF InvalidSession, Delay, linkVars, attemptVars
<1>4. CASE DelayedAuth(s)
    <2>1. /\ auth' \in [Shards -> Off..AuthDelay]
          /\ UNCHANGED <<conn, dropped, resets, outbox, waited, beating, queue, connecting,
                         connectTime, crossed>>
        BY <1>4, SMTT(20) DEF DelayedAuth, linkVars, attemptVars
    <2>2. CASE conn[s] = "none"
        <3>1. state' \in [Shards -> States] /\ session' \in SUBSET Shards
            BY <1>4, <2>2 DEF DelayedAuth
        <3>2. UNCHANGED <<identifyAge, asked, jobs, gatewayAge>>
            BY <1>4, <2>2 DEF DelayedAuth, gatewayVars
        <3> QED
            BY <2>1, <3>1, <3>2
    <2>3. CASE conn[s] # "none" /\ IsConnected(s) /\ conn[s] = "open"
        <3>1. /\ asked' \in [Shards -> Asks] /\ gatewayAge' = 0 /\ identifyAge' = 0
              /\ UNCHANGED <<jobs, state, session>>
            BY <1>4, <2>3 DEF DelayedAuth, Received
        <3> HIDE DEF States, Conns, Asks
        <3> QED
            BY <2>1, <3>1, SMTT(20)
    <2>4. CASE conn[s] # "none" /\ ~(IsConnected(s) /\ conn[s] = "open")
        <3>1. identifyAge' = 0 /\ UNCHANGED <<asked, gatewayAge, jobs, state, session>>
            BY <1>4, <2>4 DEF DelayedAuth, Received, gatewayVars
        <3> HIDE DEF States, Conns, Asks
        <3> QED
            BY <2>1, <3>1, SMTT(20)
    <2> QED
        BY <2>2, <2>3, <2>4
<1>5. CASE HandleReady(s)
    <2>1. /\ jobs' \in [Shards -> Asks] /\ state' \in [Shards -> States]
          /\ beating' \in SUBSET Shards /\ session' \in SUBSET Shards
        BY <1>5, SMTT(20) DEF HandleReady, WsReady, WsResumed
    <2>2. /\ connecting' = NoShard /\ connectTime' = Off
          /\ UNCHANGED <<linkVars, outbox, auth, waited, queue, identifyAge, asked, gatewayAge,
                         crossed>>
        BY <1>5, SMTT(20) DEF HandleReady
    <2> QED
        BY <2>1, <2>2, SMTT(20) DEF linkVars
<1> QED
    BY <1>1, <1>2, <1>3, <1>4, <1>5

LEMMA CloseType ==
    ASSUME GwTypeOK, NEW s \in Shards, OnClose(s) \/ Reset(s)
    PROVE  GwTypeOK'
<1>1. CASE OnClose(s)
    <2>1. queue' \in Seq(Shards)
        BY <1>1, RequeuedQueue DEF OnClose, GwTypeOK
    <2>2. conn' \in [Shards -> Conns] /\ dropped' \in SUBSET Shards
        BY <1>1 DEF OnClose, CloseHandled, GwTypeOK, Conns
    <2>3. /\ state' \in [Shards -> States] /\ outbox' \in [Shards -> Asks]
          /\ auth' \in [Shards -> Off..AuthDelay] /\ beating' \in SUBSET Shards
          /\ resets' \in [Shards -> 0..MaxResets]
        <3>1. CASE conn[s] = "none"
            BY <1>1, <3>1, TimersType DEF OnClose, DoReset, GwTypeOK
        <3>2. CASE conn[s] # "none"
            <4>1. resets[s] < MaxResets /\ resets' = [resets EXCEPT ![s] = @ + 1]
                BY <1>1, <3>2 DEF OnClose, DoReset
            <4>2. UNCHANGED <<state, outbox, auth, beating>>
                BY <1>1, <3>2 DEF OnClose, DoReset
            <4> QED
                BY <4>1, <4>2, Limits, SMTT(20) DEF GwTypeOK
        <3> QED
            BY <3>1, <3>2
    <2>4. connectTime' \in Off..ConnectLimit
        BY <1>1, Limits DEF OnClose, GwTypeOK
    <2> QED
        BY <1>1, <2>1, <2>2, <2>3, <2>4 DEF OnClose, gatewayVars, GwTypeOK
<1>2. CASE Reset(s)
    <2>1. /\ conn' \in [Shards -> Conns] /\ dropped' \in SUBSET Shards
          /\ resets' \in [Shards -> 0..MaxResets]
        BY <1>2, Limits DEF Reset, GwTypeOK, Conns
    <2> QED
        BY <1>2, <2>1, TimersType DEF Reset, gatewayVars, attemptVars, GwTypeOK
<1> QED
    BY <1>1, <1>2

LEMMA TimerType ==
    ASSUME GwTypeOK, WsStatus \/ Tick
    PROVE  GwTypeOK'
<1> USE Limits DEF GwTypeOK, States, Conns, Asks
<1>1. CASE WsStatusDrop
    <2>1. conn' \in [Shards -> Conns] /\ state' \in [Shards -> States]
        BY <1>1 DEF WsStatusDrop, Shut
    <2>2. resets' \in [Shards -> 0..MaxResets]
        BY <1>1 DEF WsStatusDrop
    <2> QED
        BY <1>1, <2>1, <2>2 DEF WsStatusDrop, gatewayVars, attemptVars
<1>2. CASE WsStatusTimeout
    <2>1. connecting \in Shards /\ Abandon(connecting) /\ queue # <<>>
        BY <1>2 DEF WsStatusTimeout, MayAttempt
    <2>2. queue' \in Seq(Shards)
        BY <2>1, TailQueue, RequeuedQueue DEF Abandon
    <2>3. conn' \in [Shards -> Conns] /\ state' \in [Shards -> States]
        BY <2>1 DEF Abandon, Shut
    <2>4. crossed' \in SUBSET Causes
        BY <2>1 DEF Abandon, Causes
    <2>5. connectTime' = Off
        BY <1>2 DEF WsStatusTimeout
    <2> QED
        <3>1. /\ connecting' = NoShard
              /\ UNCHANGED <<dropped, resets, outbox, auth, waited, beating, session,
                             identifyAge, asked, jobs, gatewayAge>>
            BY <2>1 DEF Abandon, gatewayVars
        <3> HIDE DEF Abandon
        <3> QED
            BY <2>2, <2>3, <2>4, <2>5, <3>1
<1>3. CASE WsStatusConnect
    <2>1. Head(queue) \in Shards /\ Tail(queue) \in Seq(Shards)
        BY <1>3, TailQueue DEF WsStatusConnect, MayAttempt
    <2>2. crossed' \in SUBSET Causes
        BY <1>3 DEF WsStatusConnect, Causes
    <2>3. CASE IsConnected(Head(queue))
        BY <1>3, <2>1, <2>2, <2>3 DEF WsStatusConnect, socketVars, linkVars, attemptVars
    <2>4. CASE ~IsConnected(Head(queue))
        <3>1. PICK s \in Shards : s = Head(queue)
            BY <2>1
        <3>2. /\ state' = [state EXCEPT ![s] = "connecting"]
              /\ conn' = [conn EXCEPT ![s] = "opening"]
              /\ dropped' \in SUBSET Shards
            BY <1>3, <2>4, <3>1, SMTT(20) DEF WsStatusConnect
        <3>3. /\ waited' = [waited EXCEPT ![s] = IF @ = Off THEN Off ELSE 0]
              /\ asked' = [asked EXCEPT ![s] = "nothing"]
            BY <1>3, <2>4, <3>1, SMTT(20) DEF WsStatusConnect
        <3>4. /\ connecting' = s /\ connectTime' = 0
              /\ UNCHANGED <<resets, outbox, auth, beating, queue, session, identifyAge, jobs,
                             gatewayAge>>
            BY <1>3, <2>4, <3>1, SMTT(20) DEF WsStatusConnect
        <3>5. state' \in [Shards -> States] /\ conn' \in [Shards -> Conns]
            BY <3>2
        <3>6. /\ waited' \in [Shards -> Off..(BeatLimit + 1)]
              /\ asked' \in [Shards -> Asks]
            BY <3>3
        <3> HIDE DEF States, Conns, Asks
        <3> QED
            BY <2>2, <3>2, <3>4, <3>5, <3>6, SMTT(20)
    <2> QED
        BY <2>3, <2>4
<1>4. CASE Tick
    <2>1. auth' \in [Shards -> Off..AuthDelay]
        BY <1>4 DEF Tick
    <2>2. waited' \in [Shards -> Off..(BeatLimit + 1)]
        BY <1>4 DEF Tick
    <2>3. connectTime' \in Off..ConnectLimit /\ identifyAge' \in 0..1 /\ gatewayAge' \in 0..1
        BY <1>4 DEF Tick
    <2> QED
        BY <1>4, <2>1, <2>2, <2>3 DEF Tick, linkVars
<1> QED
    BY <1>1, <1>2, <1>3, <1>4 DEF WsStatus

LEMMA TypeNext ==
    ASSUME GwTypeOK, [GwNext]_gwVars
    PROVE  GwTypeOK'
<1>1. CASE UNCHANGED gwVars
    BY <1>1 DEF GwTypeOK, gwVars, socketVars, linkVars, attemptVars, gatewayVars
<1> QED
    BY <1>1, SocketType, AnswerType, CloseType, TimerType DEF GwNext, Callback

\* Type correctness: every shard's connection, timers and posted resets, the
\* queue and the attempt are what shard_mgr declares them to be.
THEOREM GwTypeCorrect == GwSpec => []GwTypeOK
BY GwInitType, TypeNext, PTL DEF GwSpec
-----------------------------------------------------------------------------
\* What holds of an attempt however attempts meet, and what holds of every
\* shard until they do.

\* A connection that is being opened is that of the front shard, and of the
\* attempt while its time runs; nothing else takes the shard for connected.
FrontAt(s) ==
    conn[s] \in {"opening", "failed"} =>
        /\ state[s] = "connecting" /\ jobs[s] = "nothing"
        /\ queue # <<>> /\ Head(queue) = s
        /\ connectTime # Off => connecting = s

\* The shard of an attempt is known, and opened or failed at the time-out.
TimedAt ==
    connectTime # Off =>
        /\ connecting # NoShard
        /\ connectTime = ConnectLimit => conn[connecting] # "opening"

FrontInv == GwTypeOK /\ TimedAt /\ ("pending" \notin crossed => \A s \in Shards : FrontAt(s))

\* A connection begins with nothing left of an earlier one.
Opening(s) ==
    conn[s] \in {"opening", "failed"} =>
        /\ Attempt(s) /\ resets[s] = 0
        /\ auth[s] = Off /\ asked[s] = "nothing" /\ gatewayAge > 0

\* Only the shard of the attempt has an answer to come, and at most one.
Asking(s) ==
    conn[s] = "open" =>
        /\ state[s] \in {"preready", "online"}
        /\ outbox[s] # "nothing" \/ asked[s] # "nothing" \/ auth[s] # Off
              => Attempt(s) /\ jobs[s] = "nothing"
        /\ outbox[s] # "nothing" => asked[s] = "nothing" /\ auth[s] = Off
        /\ asked[s] # "nothing" => auth[s] = Off

\* An identify about to be sent has its distance to the last one.
Spaced(s) ==
    conn[s] = "open" =>
        /\ outbox[s] = "identify" => identifyAge = 0 /\ gatewayAge > 0
        /\ auth[s] = 0 => gatewayAge > 0

\* What is left of a connection: its handler, its delayed identify, its resets.
Leftover(s) ==
    /\ jobs[s] # "nothing" => connecting = s
    /\ auth[s] > 0 => conn[s] \notin {"none", "opening", "failed"}
    /\ resets[s] > 0 => conn[s] \in {"leaving", "closed", "none"}

\* Where a shard may wait: in the queue, for its close handler, for its reset.
Waiting(s) ==
    /\ Has(queue, s) => conn[s] \notin {"open", "leaving"}
    /\ s \in dropped => conn[s] = "none" /\ ~Has(queue, s)
    /\ Attempt(s) => conn[s] \notin {"none", "closed"} \/ s \in dropped
    /\ conn[s] = "closed" => resets[s] > 0 /\ Has(queue, s)

\* NeverLost, of one shard.
Known(s) ==
    IsOnline(s) \/ Has(queue, s) \/ conn[s] = "leaving" \/ s \in dropped \/ Attempt(s)

ShardInv(s) == Opening(s) /\ Asking(s) /\ Spaced(s) /\ Leftover(s) /\ Waiting(s) /\ Known(s)

\* What holds while attempts have not met, and the inductive invariant.
Clear ==
    /\ EachOnce(queue)
    /\ gatewayAge = 0 => identifyAge = 0
    /\ \A s \in Shards : ShardInv(s)
GwInv == FrontInv /\ (crossed = {} => Clear)

USE DEF Attempt

\* What a step does that leaves connections being opened alone.
Stays ==
    /\ crossed \subseteq crossed'
    /\ queue # <<>> => queue' # <<>> /\ Head(queue') = Head(queue)
    /\ connectTime' = Off \/ UNCHANGED <<connectTime, connecting>>
    /\ \A t \in Shards : conn'[t] \in {"opening", "failed"} =>
          /\ conn[t] = conn'[t] \/ conn[t] = "opening"
          /\ "pending" \notin crossed => state'[t] = state[t] /\ jobs'[t] = jobs[t]

LEMMA FrontStays ==
    ASSUME FrontInv, GwTypeOK', Stays
    PROVE  FrontInv'
<1>1. TimedAt'
    <2>1. connecting' \in Shards \cup {NoShard}
        BY DEF GwTypeOK
    <2> QED
        BY <2>1, Limits DEF FrontInv, TimedAt, Stays
<1>2. ASSUME "pending" \notin crossed', NEW t \in Shards PROVE FrontAt(t)'
    <2>1. "pending" \notin crossed /\ FrontAt(t)
        BY <1>2 DEF FrontInv, Stays
    <2> QED
        BY <2>1 DEF FrontAt, Stays
<1> QED
    BY <1>1, <1>2 DEF FrontInv

LEMMA SocketStays ==
    ASSUME FrontInv, NEW s \in Shards,
           \/ Fails(s) \/ ProcessWrites(s) \/ Hello(s) \/ KeepAlive(s) \/ HeartbeatAck(s)
           \/ ServerCloses(s) \/ Accept(s) \/ InvalidSession(s)
    PROVE  Stays
<1>1. GwTypeOK
    BY DEF FrontInv
<1>2. CASE Fails(s)
    <2>1. /\ conn[s] = "opening" /\ conn' = [conn EXCEPT ![s] = "failed"]
          /\ UNCHANGED <<crossed, queue, connecting, connectTime, state, jobs>>
        BY <1>2 DEF Fails, attemptVars, gatewayVars
    <2> QED
        BY <1>1, <2>1 DEF Stays, GwTypeOK
<1>3. CASE ServerCloses(s)
    <2>1. /\ conn' = [conn EXCEPT ![s] = "leaving"]
          /\ \A t \in Shards : t # s => state'[t] = state[t]
          /\ UNCHANGED <<crossed, queue, connecting, connectTime, jobs>>
        BY <1>1, <1>3 DEF ServerCloses, attemptVars, gatewayVars, GwTypeOK
    <2> QED
        BY <1>1, <2>1 DEF Stays, GwTypeOK
<1>4. CASE Accept(s)
    <2>1. /\ conn[s] = "open" /\ \A t \in Shards : t # s => jobs'[t] = jobs[t]
          /\ UNCHANGED <<crossed, queue, connecting, connectTime, conn, state>>
        BY <1>1, <1>4 DEF Accept, socketVars, linkVars, attemptVars, GwTypeOK
    <2> QED
        BY <2>1 DEF Stays
<1>5. CASE ProcessWrites(s) \/ Hello(s) \/ KeepAlive(s) \/ HeartbeatAck(s) \/ InvalidSession(s)
    <2>1. /\ crossed \subseteq crossed'
          /\ UNCHANGED <<queue, connecting, connectTime, conn, state, jobs>>
        BY <1>5 DEF ProcessWrites, Received, Hello, KeepAlive, HeartbeatAck, InvalidSession,
                    linkVars, attemptVars, gatewayVars
    <2> QED
        BY <2>1 DEF Stays
<1> QED
    BY <1>2, <1>3, <1>4, <1>5

LEMMA EndStays ==
    ASSUME FrontInv, NEW s \in Shards,
           DelayedAuth(s) \/ HandleReady(s) \/ OnClose(s) \/ Reset(s)
    PROVE  Stays
<1>1. GwTypeOK
    BY DEF FrontInv
<1>2. CASE DelayedAuth(s)
    <2>1. /\ conn[s] = "none" \/ UNCHANGED state
          /\ \A t \in Shards : t # s => state'[t] = state[t]
          /\ UNCHANGED <<crossed, queue, connecting, connectTime, conn, jobs>>
        BY <1>1, <1>2 DEF DelayedAuth, Received, linkVars, attemptVars, gatewayVars, GwTypeOK
    <2> QED
        BY <2>1 DEF Stays
<1>3. CASE HandleReady(s)
    <2>1. /\ jobs[s] # "nothing" /\ connectTime' = Off
          /\ \A t \in Shards : t # s => jobs'[t] = jobs[t] /\ state'[t] = state[t]
          /\ UNCHANGED <<crossed, queue, conn>>
        BY <1>1, <1>3 DEF HandleReady, WsReady, WsResumed, linkVars, GwTypeOK
    <2>2. "pending" \notin crossed => conn[s] \notin {"opening", "failed"}
        BY <2>1 DEF FrontInv, FrontAt
    <2> QED
        BY <2>1, <2>2 DEF Stays
<1>4. CASE OnClose(s)
    <2>1. /\ \A t \in Shards : conn'[t] # conn[t] => conn'[t] = "closed"
          /\ \A t \in Shards : state'[t] # state[t] => conn'[t] \notin {"opening", "failed"}
        <3>1. conn' = [conn EXCEPT ![s] = "closed"] \/ conn' = conn
            BY <1>4 DEF OnClose, CloseHandled
        <3>2. \/ UNCHANGED state
              \/ conn[s] = "none" /\ state' = [state EXCEPT ![s] = "closing"]
            BY <1>4 DEF OnClose, DoReset, DropTimers
        <3> QED
            BY <1>1, <3>1, <3>2 DEF GwTypeOK
    <2>2. queue # <<>> => queue' # <<>> /\ Head(queue') = Head(queue)
        BY <1>1, <1>4, RequeuedQueue DEF OnClose, GwTypeOK
    <2>3. connectTime' \in {Off, connectTime} /\ UNCHANGED <<crossed, connecting, jobs>>
        BY <1>4 DEF OnClose, gatewayVars
    <2> QED
        BY <2>1, <2>2, <2>3 DEF Stays
<1>5. CASE Reset(s)
    <2>1. /\ conn' = [conn EXCEPT ![s] = "none"]
          /\ state' = [state EXCEPT ![s] = "closing"]
          /\ UNCHANGED <<crossed, queue, connecting, connectTime, jobs>>
        BY <1>5 DEF Reset, DropTimers, attemptVars, gatewayVars
    <2> QED
        BY <1>1, <2>1 DEF Stays, GwTypeOK
<1> QED
    BY <1>2, <1>3, <1>4, <1>5

LEMMA WsStatusDropStays ==
    ASSUME FrontInv, WsStatusDrop
    PROVE  Stays
<1>1. /\ \A t \in Shards : conn'[t] = IF t \in Silent THEN Shut(conn[t]) ELSE conn[t]
      /\ \A t \in Shards : t \notin Silent => state'[t] = state[t]
      /\ UNCHANGED <<crossed, queue, connecting, connectTime, jobs>>
    BY DEF WsStatusDrop, attemptVars, gatewayVars
<1>2. ASSUME "pending" \notin crossed, NEW t \in Silent PROVE conn[t] \notin {"opening", "failed"}
    BY <1>2 DEF FrontInv, FrontAt, Silent, IsConnected
<1> QED
    BY <1>1, <1>2 DEF Stays, Shut

\* The front of the queue is taken off with its connection open.
LEMMA OnConnectFront ==
    ASSUME FrontInv, GwTypeOK', NEW s \in Shards, OnConnect(s)
    PROVE  FrontInv'
<1>1. /\ conn[s] = "opening" /\ conn' = [conn EXCEPT ![s] = "open"]
      /\ UNCHANGED <<connecting, connectTime, crossed>>
      /\ GwTypeOK
    BY DEF OnConnect, attemptVars, FrontInv
<1>2. TimedAt'
    <2>1. \A t \in Shards : conn'[t] = "opening" => conn[t] = "opening"
        BY <1>1 DEF GwTypeOK
    <2> QED
        BY <1>1, <2>1 DEF FrontInv, TimedAt, GwTypeOK
<1>3. ASSUME "pending" \notin crossed, NEW t \in Shards PROVE FrontAt(t)'
    BY <1>1, <1>3 DEF FrontInv, FrontAt, GwTypeOK
<1> QED
    BY <1>1, <1>2, <1>3 DEF FrontInv

\* Whoever is still being opened is the shard of the attempt, whose time is up.
LEMMA WsStatusTimeoutFront ==
    ASSUME FrontInv, GwTypeOK', WsStatusTimeout
    PROVE  FrontInv'
<1>1. PICK s \in Shards : s = connecting /\ Abandon(s)
    BY DEF WsStatusTimeout, FrontInv, GwTypeOK
<1>2. connectTime = ConnectLimit /\ connectTime # Off
    <2>1. connectTime >= ConnectLimit
        BY DEF WsStatusTimeout
    <2>2. connectTime \in Off..ConnectLimit
        BY DEF FrontInv, GwTypeOK
    <2> QED
        BY <2>1, <2>2, Limits
<1>3. conn[s] # "opening"
    BY <1>1, <1>2 DEF FrontInv, TimedAt
<1>4. /\ conn' = [conn EXCEPT ![s] = IF @ = "failed" THEN "none" ELSE Shut(@)]
      /\ crossed \subseteq crossed' /\ connectTime' = Off
    BY <1>1 DEF Abandon, WsStatusTimeout
<1>5. ASSUME "pending" \notin crossed', NEW t \in Shards PROVE FrontAt(t)'
    <2>1. FrontAt(t)
        BY <1>4, <1>5 DEF FrontInv
    <2>2. conn'[t] \notin {"opening", "failed"}
        BY <1>1, <1>2, <1>3, <1>4, <2>1 DEF FrontAt, Shut, FrontInv, GwTypeOK
    <2> QED
        BY <2>2 DEF FrontAt
<1> QED
    BY <1>4, <1>5 DEF FrontInv, TimedAt

\* A shard in front that is connected is not one that is being opened.
LEMMA WsStatusConnectFront ==
    ASSUME FrontInv, GwTypeOK', WsStatusConnect
    PROVE  FrontInv'
<1>1. PICK s \in Shards : s = Head(queue)
    BY TailQueue DEF WsStatusConnect, MayAttempt, FrontInv, GwTypeOK
<1>2. /\ queue # <<>> /\ connectTime = Off /\ jobs' = jobs
      /\ "pending" \notin crossed' => "pending" \notin crossed
      /\ "pending" \notin crossed' => IsConnected(s) \/ jobs[s] = "nothing"
    BY <1>1 DEF WsStatusConnect, MayAttempt, PoolIdle
<1>3. GwTypeOK
    BY DEF FrontInv
<1>4. CASE IsConnected(s)
    <2>1. UNCHANGED <<conn, state, connecting, connectTime>>
        BY <1>1, <1>4 DEF WsStatusConnect, socketVars, linkVars, attemptVars
    <2>2. ASSUME "pending" \notin crossed', NEW t \in Shards PROVE FrontAt(t)'
        <3>1. FrontAt(t) /\ FrontAt(s)
            BY <1>2, <2>2 DEF FrontInv
        <3> QED
            BY <1>1, <1>4, <2>1, <3>1 DEF FrontAt, IsConnected
    <2> QED
        BY <1>2, <2>1, <2>2 DEF FrontInv, TimedAt
<1>5. CASE ~IsConnected(s)
    <2>1. /\ connecting' = s /\ connectTime' = 0 /\ queue' = queue
          /\ state' = [state EXCEPT ![s] = "connecting"]
          /\ conn' = [conn EXCEPT ![s] = "opening"]
        BY <1>1, <1>5 DEF WsStatusConnect
    <2>2. ASSUME "pending" \notin crossed', NEW t \in Shards PROVE FrontAt(t)'
        <3>1. FrontAt(t)
            BY <1>2, <2>2 DEF FrontInv
        <3> QED
            BY <1>1, <1>2, <1>3, <1>5, <2>1, <2>2, <3>1 DEF FrontAt, GwTypeOK
    <2> QED
        BY <2>1, <2>2, Limits DEF FrontInv, TimedAt
<1> QED
    BY <1>4, <1>5

LEMMA TickFront ==
    ASSUME FrontInv, GwTypeOK', Tick
    PROVE  FrontInv'
<1>1. /\ \A s \in Shards : connecting = s /\ connectTime = ConnectLimit - 1 => conn[s] # "opening"
      /\ UNCHANGED <<conn, state, queue, connecting, jobs, crossed>>
      /\ connectTime' = IF connectTime = Off THEN Off
                        ELSE IF connectTime < ConnectLimit THEN connectTime + 1 ELSE connectTime
    BY DEF Tick, linkVars
<1>2. connectTime \in Off..ConnectLimit /\ connecting \in Shards \cup {NoShard}
    BY DEF FrontInv, GwTypeOK
<1>3. connectTime' # Off <=> connectTime # Off
    BY <1>1, <1>2, Limits
<1>4. connectTime' = ConnectLimit =>
            connectTime = ConnectLimit \/ connectTime = ConnectLimit - 1
    BY <1>1, <1>2, Limits
<1>5. TimedAt'
    BY <1>1, <1>2, <1>3, <1>4, Limits DEF FrontInv, TimedAt
<1>6. ASSUME "pending" \notin crossed', NEW t \in Shards PROVE FrontAt(t)'
    BY <1>1, <1>3, <1>6 DEF FrontInv, FrontAt
<1> QED
    BY <1>5, <1>6 DEF FrontInv

LEMMA FrontStep ==
    ASSUME FrontInv, [GwNext]_gwVars
    PROVE  FrontInv'
<1>1. GwTypeOK'
    BY TypeNext DEF FrontInv
<1>2. CASE UNCHANGED gwVars
    <2>1. Stays
        BY <1>2 DEF Stays, gwVars, socketVars, linkVars, attemptVars, gatewayVars
    <2> QED
        BY <1>1, <2>1, FrontStays
<1>3. CASE WsStatus \/ Tick
    BY <1>1, <1>3, FrontStays, WsStatusDropStays, WsStatusTimeoutFront, WsStatusConnectFront,
       TickFront DEF WsStatus
<1>4. CASE \E s \in Shards : Callback(s)
    <2>1. PICK s \in Shards : Callback(s)
        BY <1>4
    <2> QED
        BY <1>1, <2>1, FrontStays, SocketStays, EndStays, OnConnectFront DEF Callback
<1> QED
    BY <1>2, <1>3, <1>4 DEF GwNext

LEMMA FrontInit == GwInit => FrontInv
BY GwInitType DEF GwInit, FrontInv, TimedAt, FrontAt

\* The shard of the attempt is in front until its connection opens: ws_status()
\* and _on_connect() take off the queue the shard they mean, as long as no
\* attempt began with something left of an earlier one in the pool.
THEOREM AttemptAlwaysFront == GwSpec => []AttemptIsFront
<1>1. ASSUME FrontInv PROVE AttemptIsFront
    BY <1>1, Limits DEF FrontInv, GwTypeOK, TimedAt, FrontAt, AttemptIsFront
<1> QED
    BY <1>1, FrontInit, FrontStep, PTL DEF GwSpec
-----------------------------------------------------------------------------
\* Until attempts meet.

LEMMA CrossedGrows ==
    ASSUME [GwNext]_gwVars
    PROVE  crossed \subseteq crossed'
<1>1. CASE UNCHANGED gwVars
    BY <1>1 DEF gwVars
<1>2. CASE WsStatus \/ Tick
    BY <1>2 DEF WsStatus, WsStatusDrop, WsStatusTimeout, Abandon, WsStatusConnect, Tick
<1>3. ASSUME NEW s \in Shards, Callback(s) PROVE crossed \subseteq crossed'
    BY <1>3 DEF Callback, OnConnect, Fails, ProcessWrites, Hello, KeepAlive, HeartbeatAck, Accept,
                InvalidSession, DelayedAuth, HandleReady, ServerCloses, OnClose, Reset
<1> QED
    BY <1>1, <1>2, <1>3 DEF GwNext

LEMMA Clearly ==
    ASSUME GwInv, crossed = {}
    PROVE  /\ GwTypeOK /\ TimedAt /\ EachOnce(queue)
           /\ gatewayAge = 0 => identifyAge = 0
           /\ \A s \in Shards :
                 /\ FrontAt(s) /\ Opening(s) /\ Asking(s) /\ Spaced(s) /\ Leftover(s) /\ Waiting(s)
                 /\ Known(s)
BY DEF GwInv, FrontInv, Clear, ShardInv

LEMMA ClearInit == GwInit => Clear
<1> SUFFICES ASSUME GwInit PROVE Clear
    OBVIOUS
<1>1. EachOnce(queue) /\ \A s \in Shards : Has(queue, s)
    BY GatewayAssumption DEF GwInit, EachOnce, Has
<1> QED
    BY <1>1, Limits
       DEF GwInit, Clear, ShardInv, Opening, Asking, Spaced, Leftover, Waiting, Known

\* Heartbeats.
LEMMA BeatClear ==
    ASSUME GwInv, crossed = {}, NEW s \in Shards, Hello(s) \/ KeepAlive(s) \/ HeartbeatAck(s)
    PROVE  Clear'
<1>1. UNCHANGED <<state, conn, dropped, resets, outbox, auth, queue, connecting, connectTime,
                  identifyAge, asked, jobs, gatewayAge>>
    BY DEF Hello, KeepAlive, HeartbeatAck, linkVars, attemptVars, gatewayVars
<1> QED
    BY <1>1, Clearly DEF Clear, ShardInv, Opening, Asking, Spaced, Leftover, Waiting, Known, IsOnline

LEMMA FailsClear ==
    ASSUME GwInv, crossed = {}, NEW s \in Shards, Fails(s)
    PROVE  Clear'
<1>1. /\ conn[s] = "opening" /\ conn' = [conn EXCEPT ![s] = "failed"]
      /\ UNCHANGED <<state, dropped, resets, outbox, auth, queue, connecting, connectTime,
                     identifyAge, asked, jobs, gatewayAge>>
    BY DEF Fails, attemptVars, gatewayVars
<1>2. conn \in [Shards -> Conns]
    BY Clearly DEF GwTypeOK
<1>3. ASSUME NEW t \in Shards PROVE ShardInv(t)'
    BY <1>1, <1>2, Clearly
       DEF ShardInv, Opening, Asking, Spaced, Leftover, Waiting, Known, IsOnline
<1> QED
    BY <1>1, <1>3, Clearly DEF Clear

LEMMA ServerClosesClear ==
    ASSUME GwInv, crossed = {}, NEW s \in Shards, ServerCloses(s)
    PROVE  Clear'
<1>1. /\ conn[s] = "open" /\ conn' = [conn EXCEPT ![s] = "leaving"]
      /\ \A t \in Shards : t # s => state'[t] = state[t]
      /\ UNCHANGED <<dropped, resets, outbox, auth, queue, connecting, connectTime,
                     identifyAge, asked, jobs, gatewayAge>>
    BY Clearly DEF ServerCloses, attemptVars, gatewayVars, GwTypeOK
<1>2. conn \in [Shards -> Conns]
    BY Clearly DEF GwTypeOK
<1>3. ASSUME NEW t \in Shards PROVE ShardInv(t)'
    BY <1>1, <1>2, Clearly
       DEF ShardInv, Opening, Asking, Spaced, Leftover, Waiting, Known, IsOnline
<1> QED
    BY <1>1, <1>3, Clearly DEF Clear

\* The front of the queue is the shard of the attempt, and is taken off.
LEMMA OnConnectClear ==
    ASSUME GwInv, crossed = {}, NEW s \in Shards, OnConnect(s)
    PROVE  Clear'
<1>1. /\ conn[s] = "opening" /\ conn' = [conn EXCEPT ![s] = "open"]
      /\ state' = [state EXCEPT ![s] = "preready"]
      /\ UNCHANGED <<dropped, resets, auth, connecting, connectTime, asked, jobs, gatewayAge>>
    BY DEF OnConnect, attemptVars, gatewayVars
<1>2. /\ Attempt(s) /\ resets[s] = 0 /\ queue # <<>> /\ Head(queue) = s
      /\ jobs[s] = "nothing" /\ auth[s] = Off /\ asked[s] = "nothing"
      /\ gatewayAge > 0 /\ s \notin dropped
    BY <1>1, Clearly DEF Opening, FrontAt, Waiting
<1>3. queue' = Tail(queue) /\ Identify(s)
    BY <1>2, Limits DEF OnConnect
<1>4. /\ EachOnce(queue') /\ ~Has(queue', s)
      /\ \A t : Has(queue', t) => Has(queue, t)
      /\ \A t : Has(queue, t) /\ t # s => Has(queue', t)
    BY <1>2, <1>3, TailQueue, Clearly DEF GwTypeOK
<1>5. /\ conn \in [Shards -> Conns] /\ state \in [Shards -> States]
      /\ outbox \in [Shards -> Asks] /\ gatewayAge \in 0..1 /\ identifyAge \in 0..1
    BY Clearly DEF GwTypeOK
<1>6. /\ \A t \in Shards : t # s => outbox'[t] = outbox[t]
      /\ outbox'[s] = "identify" => identifyAge' = 0
    BY <1>3, <1>5 DEF Identify
<1>7. ShardInv(s)'
    BY <1>1, <1>2, <1>4, <1>5, <1>6
       DEF ShardInv, Opening, Asking, Spaced, Leftover, Waiting, Known, IsOnline
<1>8. ASSUME NEW t \in Shards, t # s PROVE ShardInv(t)'
    <2>1. ~(Attempt(t))
        BY <1>2, <1>8
    <2>2. outbox[t] = "nothing" \/ conn[t] # "open"
        BY <2>1, Clearly DEF Asking
    <2> QED
        BY <1>1, <1>2, <1>4, <1>5, <1>6, <1>8, <2>1, <2>2, Clearly
           DEF ShardInv, Opening, Asking, Spaced, Leftover, Waiting, Known, IsOnline
<1> QED
    BY <1>1, <1>2, <1>4, <1>7, <1>8 DEF Clear

LEMMA AcceptClear ==
    ASSUME GwInv, crossed = {}, NEW s \in Shards, Accept(s)
    PROVE  Clear'
<1>1. /\ conn[s] = "open" /\ asked[s] # "nothing"
      /\ \A t \in Shards : t # s => asked'[t] = asked[t] /\ jobs'[t] = jobs[t]
      /\ asked'[s] = "nothing"
      /\ UNCHANGED <<state, conn, dropped, resets, outbox, auth, queue, connecting, connectTime,
                     identifyAge, gatewayAge>>
    BY Clearly DEF Accept, socketVars, linkVars, attemptVars, GwTypeOK
<1>2. Attempt(s) /\ outbox[s] = "nothing" /\ auth[s] = Off
    BY <1>1, Clearly DEF Asking
<1>3. ASSUME NEW t \in Shards PROVE ShardInv(t)'
    <2>1. CASE t = s
        BY <1>1, <1>2, <2>1, Clearly
           DEF ShardInv, Opening, Asking, Spaced, Leftover, Waiting, Known, IsOnline
    <2>2. CASE t # s
        BY <1>1, <2>2, Clearly
           DEF ShardInv, Opening, Asking, Spaced, Leftover, Waiting, Known, IsOnline
    <2> QED
        BY <2>1, <2>2
<1> QED
    BY <1>1, <1>3, Clearly DEF Clear

\* A session is invalid only in an attempt that has asked.
LEMMA InvalidSessionClear ==
    ASSUME GwInv, crossed = {}, NEW s \in Shards, InvalidSession(s), crossed' = {}
    PROVE  Clear'
<1>1. /\ conn[s] = "open" /\ asked[s] # "nothing" /\ Attempt(s)
      /\ \A t \in Shards : t # s => asked'[t] = asked[t] /\ auth'[t] = auth[t]
      /\ asked'[s] = "nothing" /\ auth'[s] = AuthDelay
      /\ UNCHANGED <<state, conn, dropped, resets, outbox, jobs, queue, connecting, connectTime,
                     identifyAge, gatewayAge>>
    BY Clearly DEF InvalidSession, Delay, linkVars, attemptVars, GwTypeOK
<1>2. outbox[s] = "nothing" /\ jobs[s] = "nothing"
    BY <1>1, Clearly DEF Asking
<1>3. ASSUME NEW t \in Shards PROVE ShardInv(t)'
    <2>1. CASE t = s
        BY <1>1, <1>2, <2>1, Limits, Clearly
           DEF ShardInv, Opening, Asking, Spaced, Leftover, Waiting, Known, IsOnline
    <2>2. CASE t # s
        BY <1>1, <2>2, Clearly
           DEF ShardInv, Opening, Asking, Spaced, Leftover, Waiting, Known, IsOnline
    <2> QED
        BY <2>1, <2>2
<1> QED
    BY <1>1, <1>3, Clearly DEF Clear

\* Nothing else of the shard is still to come when its handler runs; a shard
\* whose connection has been lost waits for its close handler or in the queue.
LEMMA HandleReadyClear ==
    ASSUME GwInv, crossed = {}, NEW s \in Shards, HandleReady(s)
    PROVE  Clear'
<1>1. /\ jobs[s] # "nothing" /\ jobs'[s] = "nothing" /\ state'[s] = "online"
      /\ \A t \in Shards : t # s => jobs'[t] = jobs[t] /\ state'[t] = state[t]
      /\ connecting' = NoShard /\ connectTime' = Off
      /\ UNCHANGED <<conn, dropped, resets, outbox, auth, queue, identifyAge, asked, gatewayAge>>
    BY Clearly DEF HandleReady, WsReady, WsResumed, linkVars, GwTypeOK
<1>2. /\ connecting = s /\ conn[s] \notin {"opening", "failed"}
      /\ conn[s] = "open" => outbox[s] = "nothing" /\ asked[s] = "nothing" /\ auth[s] = Off
    BY <1>1, Clearly DEF FrontAt, Asking, Leftover
<1>3. Known(s)'
    <2>1. conn[s] \in Conns
        BY Clearly DEF GwTypeOK
    <2> QED
        BY <1>1, <1>2, <2>1, Limits, Clearly DEF Waiting, Known, IsOnline, Conns
<1>4. ShardInv(s)'
    BY <1>1, <1>2, <1>3, Limits, Clearly
       DEF ShardInv, Opening, Asking, Spaced, Leftover, Waiting
<1>5. ASSUME NEW t \in Shards, t # s PROVE ShardInv(t)'
    BY <1>1, <1>2, <1>5, Limits, Clearly
       DEF ShardInv, Opening, Asking, Spaced, Leftover, Waiting, Known, IsOnline
<1> QED
    BY <1>1, <1>4, <1>5, Clearly DEF Clear

LEMMA ProcessWritesClear ==
    ASSUME GwInv, crossed = {}, NEW s \in Shards, ProcessWrites(s)
    PROVE  Clear'
<1>1. /\ outbox[s] # "nothing" /\ outbox'[s] = "nothing"
      /\ \A t \in Shards : t # s => outbox'[t] = outbox[t]
      /\ UNCHANGED <<state, conn, dropped, resets, auth, queue, connecting, connectTime,
                     identifyAge, jobs>>
    BY Clearly DEF ProcessWrites, MayWrite, Received, linkVars, attemptVars, GwTypeOK
<1>2. CASE conn[s] # "open"
    <2>1. UNCHANGED <<asked, gatewayAge>>
        BY <1>2 DEF ProcessWrites, Received
    <2>2. ASSUME NEW t \in Shards PROVE ShardInv(t)'
        BY <1>1, <1>2, <2>1, Clearly
           DEF ShardInv, Opening, Asking, Spaced, Leftover, Waiting, Known, IsOnline
    <2> QED
        BY <1>1, <2>1, <2>2, Clearly DEF Clear
<1>3. CASE conn[s] = "open"
    <2>1. /\ Attempt(s) /\ asked[s] = "nothing" /\ auth[s] = Off /\ jobs[s] = "nothing"
          /\ outbox[s] = "identify" => identifyAge = 0
        BY <1>1, <1>3, Clearly DEF Asking, Spaced
    <2>2. /\ \A t \in Shards : t # s => asked'[t] = asked[t]
          /\ outbox[s] # "identify" => gatewayAge' = gatewayAge
        BY <1>3, Clearly DEF ProcessWrites, Received, GwTypeOK
    <2>3. ShardInv(s)'
        BY <1>1, <1>3, <2>1, Clearly
           DEF ShardInv, Opening, Asking, Spaced, Leftover, Waiting, Known, IsOnline
    <2>4. ASSUME NEW t \in Shards, t # s PROVE ShardInv(t)'
        <3>1. ~Attempt(t)
            BY <2>1, <2>4
        <3>2. conn[t] = "open" => outbox[t] = "nothing" /\ asked[t] = "nothing" /\ auth[t] = Off
            BY <3>1, Clearly DEF Asking
        <3> QED
            BY <1>1, <2>2, <2>4, <3>1, <3>2, Clearly
               DEF ShardInv, Opening, Asking, Spaced, Leftover, Waiting, Known, IsOnline
    <2> QED
        BY <1>1, <2>1, <2>2, <2>3, <2>4, Clearly DEF Clear
<1> QED
    BY <1>2, <1>3

LEMMA DelayedAuthClear ==
    ASSUME GwInv, crossed = {}, NEW s \in Shards, DelayedAuth(s)
    PROVE  Clear'
<1>1. /\ auth[s] = 0 /\ auth'[s] = Off /\ \A t \in Shards : t # s => auth'[t] = auth[t]
      /\ UNCHANGED <<conn, dropped, resets, outbox, queue, connecting, connectTime, jobs>>
    BY Clearly DEF DelayedAuth, Received, linkVars, attemptVars, gatewayVars, GwTypeOK
<1>2. CASE conn[s] = "open"
    <2>1. /\ Attempt(s) /\ outbox[s] = "nothing" /\ asked[s] = "nothing" /\ jobs[s] = "nothing"
          /\ state[s] \in {"preready", "online"}
        BY <1>1, <1>2, Clearly DEF Asking
    <2>2. /\ identifyAge' = 0 /\ UNCHANGED state
          /\ \A t \in Shards : t # s => asked'[t] = asked[t]
        BY <1>2, <2>1, Clearly DEF DelayedAuth, Received, IsConnected, GwTypeOK
    <2>3. ShardInv(s)'
        BY <1>1, <1>2, <2>1, <2>2, Clearly
           DEF ShardInv, Opening, Asking, Spaced, Leftover, Waiting, Known, IsOnline
    <2>4. ASSUME NEW t \in Shards, t # s PROVE ShardInv(t)'
        <3>1. ~Attempt(t)
            BY <2>1, <2>4
        <3>2. conn[t] = "open" => outbox[t] = "nothing" /\ asked[t] = "nothing" /\ auth[t] = Off
            BY <3>1, Clearly DEF Asking
        <3> QED
            BY <1>1, <2>2, <2>4, <3>1, <3>2, Clearly
               DEF ShardInv, Opening, Asking, Spaced, Leftover, Waiting, Known, IsOnline
    <2> QED
        BY <1>1, <2>2, <2>3, <2>4, Clearly DEF Clear
<1>3. CASE conn[s] # "open"
    <2>1. /\ \A t \in Shards : conn[t] = "open" => state'[t] = state[t]
          /\ identifyAge' \in {0, identifyAge}
          /\ UNCHANGED <<asked, gatewayAge>>
        BY <1>3, Clearly DEF DelayedAuth, Received, gatewayVars, GwTypeOK
    <2>2. ASSUME NEW t \in Shards PROVE ShardInv(t)'
        <3>1. CASE t = s
            BY <1>1, <1>3, <2>1, <3>1, Clearly
               DEF ShardInv, Opening, Asking, Spaced, Leftover, Waiting, Known, IsOnline
        <3>2. CASE t # s
            BY <1>1, <2>1, <3>2, Clearly
               DEF ShardInv, Opening, Asking, Spaced, Leftover, Waiting, Known, IsOnline
        <3> QED
            BY <3>1, <3>2
    <2> QED
        BY <1>1, <2>1, <2>2, Clearly DEF Clear
<1> QED
    BY <1>2, <1>3

\* The shard is queued, and the reset it owes is posted.
LEMMA OnCloseClear ==
    ASSUME GwInv, crossed = {}, NEW s \in Shards, OnClose(s)
    PROVE  Clear'
<1>1. /\ s \notin dropped'
      /\ conn[s] = "leaving" => conn'[s] = "closed" /\ resets'[s] > 0 /\ auth'[s] = auth[s]
      /\ conn[s] # "leaving" =>
            conn[s] = "none" /\ conn'[s] = "none" /\ auth'[s] \in {Off, 0}
    <2>1. CASE conn[s] = "leaving"
        <3>1. s \notin dropped
            BY <2>1, Clearly DEF Waiting
        <3>2. conn'[s] = "closed" /\ dropped' = dropped
            BY <2>1, <3>1, Clearly DEF OnClose, CloseHandled, GwTypeOK
        <3>3. resets' = [resets EXCEPT ![s] = @ + 1] /\ UNCHANGED auth
            BY <2>1 DEF OnClose, DoReset
        <3>4. resets'[s] > 0
            BY <3>3, Limits, Clearly DEF GwTypeOK
        <3> QED
            BY <2>1, <3>1, <3>2, <3>3, <3>4
    <2>2. CASE conn[s] # "leaving"
        <3>1. s \in dropped /\ conn[s] = "none" /\ conn' = conn /\ dropped' = dropped \ {s}
            BY <2>2, Clearly DEF OnClose, CloseHandled, Waiting
        <3>2. auth'[s] \in {Off, 0}
            BY <3>1, Clearly DEF OnClose, DoReset, DropTimers, GwTypeOK
        <3> QED
            BY <2>2, <3>1, <3>2
    <2> QED
        BY <2>1, <2>2
<1>2. \A t \in Shards : t # s =>
            /\ conn'[t] = conn[t] /\ outbox'[t] = outbox[t] /\ auth'[t] = auth[t]
            /\ state'[t] = state[t] /\ resets'[t] = resets[t]
            /\ t \in dropped' <=> t \in dropped
    <2>1. \A t \in Shards : t # s => conn'[t] = conn[t] /\ (t \in dropped' <=> t \in dropped)
        BY Clearly DEF OnClose, CloseHandled, GwTypeOK
    <2>2. \A t \in Shards : t # s =>
            /\ outbox'[t] = outbox[t] /\ auth'[t] = auth[t]
            /\ state'[t] = state[t] /\ resets'[t] = resets[t]
        BY Clearly DEF OnClose, DoReset, DropTimers, GwTypeOK
    <2> QED
        BY <2>1, <2>2
<1>3. /\ UNCHANGED <<connecting, identifyAge, asked, jobs, gatewayAge>>
      /\ connecting = s => connectTime' = Off
      /\ connecting # s => connectTime' = connectTime
    BY DEF OnClose, gatewayVars
<1>4. EachOnce(queue') /\ \A t : Has(queue', t) <=> Has(queue, t) \/ t = s
    BY RequeuedQueue, Clearly DEF OnClose, GwTypeOK
<1>5. ShardInv(s)'
    BY <1>1, <1>3, <1>4, Clearly
       DEF ShardInv, Opening, Asking, Spaced, Leftover, Waiting, Known
<1>6. ASSUME NEW t \in Shards, t # s PROVE ShardInv(t)'
    BY <1>2, <1>3, <1>4, <1>6, Clearly
       DEF ShardInv, Opening, Asking, Spaced, Leftover, Waiting, Known, IsOnline
<1> QED
    BY <1>3, <1>4, <1>5, <1>6, Clearly DEF Clear

\* The shard lets go of a connection that is being closed or has closed.
LEMMA ResetClear ==
    ASSUME GwInv, crossed = {}, NEW s \in Shards, Reset(s)
    PROVE  Clear'
<1>1. /\ resets[s] > 0 /\ conn[s] \in {"leaving", "closed", "none"}
    BY Clearly DEF Reset, Leftover
<1>2. /\ conn'[s] = "none" /\ auth'[s] \in {Off, 0}
      /\ \A t \in Shards : t # s =>
            /\ conn'[t] = conn[t] /\ outbox'[t] = outbox[t] /\ auth'[t] = auth[t]
            /\ state'[t] = state[t] /\ resets'[t] = resets[t]
      /\ UNCHANGED <<queue, connecting, connectTime, identifyAge, asked, jobs, gatewayAge>>
    BY Clearly DEF Reset, DropTimers, attemptVars, gatewayVars, GwTypeOK
<1>3. dropped' = IF conn[s] = "leaving" THEN dropped \cup {s} ELSE dropped
    BY <1>1 DEF Reset
<1>4. ShardInv(s)'
    BY <1>1, <1>2, <1>3, Clearly
       DEF ShardInv, Opening, Asking, Spaced, Leftover, Waiting, Known, IsOnline
<1>5. ASSUME NEW t \in Shards, t # s PROVE ShardInv(t)'
    <2>1. t \in dropped' <=> t \in dropped
        BY <1>3, <1>5
    <2> QED
        BY <1>2, <1>5, <2>1, Clearly
           DEF ShardInv, Opening, Asking, Spaced, Leftover, Waiting, Known, IsOnline
<1> QED
    BY <1>2, <1>4, <1>5, Clearly DEF Clear

\* The close handler of a silent shard will run, or has queued it.
LEMMA WsStatusDropClear ==
    ASSUME GwInv, crossed = {}, WsStatusDrop
    PROVE  Clear'
<1>1. UNCHANGED <<dropped, outbox, auth, queue, connecting, connectTime, identifyAge, asked, jobs,
                  gatewayAge>>
    BY DEF WsStatusDrop, attemptVars, gatewayVars
<1>2. ASSUME NEW t \in Shards PROVE ShardInv(t)'
    <2>1. CASE t \in Silent
        <3>1. conn[t] \in {"open", "leaving", "closed"}
            BY <2>1, Clearly DEF Silent, IsConnected, FrontAt
        <3>2. /\ conn'[t] = IF conn[t] = "open" THEN "leaving" ELSE conn[t]
              /\ resets'[t] > 0
            BY <2>1, Clearly DEF WsStatusDrop, Shut, GwTypeOK
        <3> QED
            BY <1>1, <3>1, <3>2, Clearly
               DEF ShardInv, Opening, Asking, Spaced, Leftover, Waiting, Known, IsOnline
    <2>2. CASE t \notin Silent
        <3>1. conn'[t] = conn[t] /\ state'[t] = state[t] /\ resets'[t] = resets[t]
            BY <2>2 DEF WsStatusDrop
        <3> QED
            BY <1>1, <3>1, Clearly
               DEF ShardInv, Opening, Asking, Spaced, Leftover, Waiting, Known, IsOnline
    <2> QED
        BY <2>1, <2>2
<1> QED
    BY <1>1, <1>2, Clearly DEF Clear

\* An attempt that lasted too long has failed, and its shard is still in front.
LEMMA WsStatusTimeoutClear ==
    ASSUME GwInv, crossed = {}, WsStatusTimeout, crossed' = {}
    PROVE  Clear'
<1>1. PICK s \in Shards : s = connecting /\ Abandon(s)
    BY Clearly DEF WsStatusTimeout, GwTypeOK
<1>2. conn[s] = "failed" /\ connectTime' = Off
    BY <1>1 DEF Abandon, WsStatusTimeout
<1>3. /\ queue # <<>> /\ Head(queue) = s /\ jobs[s] = "nothing"
      /\ resets[s] = 0 /\ auth[s] = Off /\ s \notin dropped
    BY <1>2, Clearly DEF FrontAt, Opening, Waiting
<1>4. /\ conn'[s] = "none"
      /\ \A t \in Shards : t # s => conn'[t] = conn[t] /\ state'[t] = state[t]
      /\ queue' = Requeued(Tail(queue), s) /\ connecting' = NoShard
      /\ UNCHANGED <<dropped, resets, outbox, auth, identifyAge, asked, jobs, gatewayAge>>
    BY <1>1, <1>2, Clearly DEF Abandon, gatewayVars, GwTypeOK
<1>5. EachOnce(queue') /\ Has(queue', s) /\ \A t : Has(queue', t) <=> Has(queue, t)
    <2>1. queue \in Seq(Shards) /\ EachOnce(queue)
        BY Clearly DEF GwTypeOK
    <2>2. /\ Tail(queue) \in Seq(Shards) /\ EachOnce(Tail(queue)) /\ Has(queue, s)
          /\ \A t : Has(Tail(queue), t) \/ t = s <=> Has(queue, t)
        BY <1>3, <2>1, TailQueue
    <2> QED
        BY <1>4, <2>2, RequeuedQueue
<1>6. ShardInv(s)'
    BY <1>2, <1>3, <1>4, <1>5 DEF ShardInv, Opening, Asking, Spaced, Leftover, Waiting, Known
<1>7. ASSUME NEW t \in Shards, t # s PROVE ShardInv(t)'
    BY <1>1, <1>2, <1>4, <1>5, <1>7, Clearly
       DEF ShardInv, Opening, Asking, Spaced, Leftover, Waiting, Known, IsOnline
<1> QED
    BY <1>4, <1>5, <1>6, <1>7, Clearly DEF Clear

\* Nobody else's attempt is under way, and nothing is left of the connection
\* before.
LEMMA WsStatusConnectClear ==
    ASSUME GwInv, crossed = {}, WsStatusConnect, crossed' = {}
    PROVE  Clear'
<1>1. PICK s \in Shards : s = Head(queue) /\ Has(queue, s)
    BY TailQueue, Clearly DEF WsStatusConnect, MayAttempt, GwTypeOK
<1>2. /\ connectTime = Off /\ queue # <<>> /\ identifyAge > 0 /\ resets[s] = 0
    <2>1. connectTime = Off /\ queue # <<>> /\ identifyAge >= 1
        BY DEF WsStatusConnect, MayAttempt
    <2>2. ~(resets[s] > 0)
        BY <1>1 DEF WsStatusConnect
    <2> QED
        BY <2>1, <2>2, Limits, Clearly DEF GwTypeOK
<1>3. /\ conn[s] = "none" /\ s \notin dropped
      /\ \A t \in Shards : ~Attempt(t) /\ conn[t] \notin {"opening", "failed"}
    <2>1. \A t \in Shards : ~Attempt(t) /\ conn[t] \notin {"opening", "failed"}
        BY <1>2, Clearly DEF Opening
    <2>2. s \notin dropped /\ conn[s] \notin {"open", "leaving", "closed"}
        BY <1>1, <1>2, Clearly DEF Waiting
    <2>3. conn[s] \in Conns
        BY Clearly DEF GwTypeOK
    <2> QED
        BY <2>1, <2>2, <2>3 DEF Conns
<1>4. ~IsConnected(s)
    BY <1>3 DEF IsConnected
<1>5. \A t \in Shards : jobs[t] = "nothing" /\ auth[t] # 0
    BY <1>1, <1>4 DEF WsStatusConnect, PoolIdle
<1>6. auth[s] = Off
    BY <1>3, <1>5, Clearly DEF Leftover, GwTypeOK
<1>7. /\ connecting' = s /\ connectTime' = 0
      /\ conn'[s] = "opening" /\ state'[s] = "connecting" /\ asked'[s] = "nothing"
      /\ \A t \in Shards : t # s =>
            conn'[t] = conn[t] /\ state'[t] = state[t] /\ asked'[t] = asked[t]
      /\ UNCHANGED <<dropped, resets, outbox, auth, queue, identifyAge, jobs, gatewayAge>>
    <2>1. /\ connecting' = s /\ connectTime' = 0
          /\ state' = [state EXCEPT ![s] = "connecting"]
          /\ conn' = [conn EXCEPT ![s] = "opening"]
          /\ asked' = [asked EXCEPT ![s] = "nothing"]
          /\ UNCHANGED <<resets, outbox, auth, queue>>
        BY <1>1, <1>4 DEF WsStatusConnect
    <2>2. UNCHANGED <<dropped, identifyAge, jobs, gatewayAge>>
        BY <1>1, <1>3, <1>4 DEF WsStatusConnect
    <2> QED
        BY <2>1, <2>2, Clearly DEF GwTypeOK
<1>8. gatewayAge > 0
    BY <1>2, Clearly DEF GwTypeOK
<1>9. ShardInv(s)'
    BY <1>1, <1>2, <1>3, <1>5, <1>6, <1>7, <1>8
       DEF ShardInv, Opening, Asking, Spaced, Leftover, Waiting, Known
<1>10. ASSUME NEW t \in Shards, t # s PROVE ShardInv(t)'
    BY <1>3, <1>5, <1>7, <1>10, Clearly
       DEF ShardInv, Opening, Asking, Spaced, Leftover, Waiting, Known, IsOnline
<1> QED
    BY <1>7, <1>8, <1>9, <1>10, Clearly DEF Clear

\* Time does not pass while something is due.
LEMMA TickClear ==
    ASSUME GwInv, crossed = {}, Tick
    PROVE  Clear'
<1>1. /\ \A t \in Shards : auth[t] # 0 /\ ~MayWrite(t)
      /\ UNCHANGED <<state, conn, dropped, resets, outbox, queue, connecting, asked, jobs>>
      /\ \A t \in Shards : auth'[t] = IF auth[t] = Off THEN Off ELSE auth[t] - 1
    BY DEF Tick, linkVars
<1>2. identifyAge' > 0 /\ gatewayAge' > 0
    BY Clearly DEF Tick, GwTypeOK
<1>3. connectTime' # Off <=> connectTime # Off
    BY Limits, Clearly DEF Tick, GwTypeOK
<1>4. ASSUME NEW t \in Shards PROVE ShardInv(t)'
    <2>1. /\ auth[t] \in Int /\ (auth'[t] # Off <=> auth[t] # Off)
          /\ auth'[t] > 0 => auth[t] > 0
        BY <1>1, Clearly DEF GwTypeOK
    <2>2. conn[t] = "open" => outbox[t] = "nothing"
        BY <1>1, Clearly DEF MayWrite, Asking
    <2>3. Opening(t)' /\ Asking(t)' /\ Spaced(t)'
        BY <1>1, <1>2, <1>3, <2>1, <2>2, Clearly DEF Opening, Asking, Spaced
    <2>4. Leftover(t)' /\ Waiting(t)' /\ Known(t)'
        BY <1>1, <1>3, <2>1, Clearly DEF Leftover, Waiting, Known, IsOnline
    <2> QED
        BY <2>3, <2>4 DEF ShardInv
<1> QED
    BY <1>1, <1>2, <1>4, Clearly DEF Clear

LEMMA GwStep ==
    ASSUME GwInv, [GwNext]_gwVars
    PROVE  GwInv'
<1>1. FrontInv'
    BY FrontStep DEF GwInv
<1>2. ASSUME crossed' = {} PROVE Clear'
    <2>1. crossed = {}
        BY <1>2, CrossedGrows
    <2>2. CASE UNCHANGED gwVars
        BY <2>1, <2>2, Clearly
           DEF Clear, ShardInv, Opening, Asking, Spaced, Leftover, Waiting, Known, IsOnline,
               gwVars, socketVars, linkVars, attemptVars, gatewayVars
    <2>3. CASE WsStatus \/ Tick
        BY <1>2, <2>1, <2>3, WsStatusDropClear, WsStatusTimeoutClear, WsStatusConnectClear,
           TickClear DEF WsStatus
    <2>4. ASSUME NEW s \in Shards, Callback(s) PROVE Clear'
        BY <1>2, <2>1, <2>4, BeatClear, FailsClear, ServerClosesClear, OnConnectClear, AcceptClear,
           InvalidSessionClear, HandleReadyClear, ProcessWritesClear, DelayedAuthClear,
           OnCloseClear, ResetClear DEF Callback
    <2> QED
        BY <2>2, <2>3, <2>4 DEF GwNext
<1> QED
    BY <1>1, <1>2 DEF GwInv

\* The inductive invariant: what holds of every attempt, and of every shard
\* while attempts have not met.
THEOREM GwInvariance == GwSpec => []GwInv
<1>1. GwInit => GwInv
    BY FrontInit, ClearInit DEF GwInv
<1> QED
    BY <1>1, GwStep, PTL DEF GwSpec

\* shard_mgr forgets no shard while attempts have not met: whoever is not
\* online is queued, is being connected or has its close handler to come.
THEOREM NoShardForgotten == GwSpec => []NeverLost
<1>1. ASSUME GwInv PROVE NeverLost
    BY <1>1 DEF GwInv, Clear, ShardInv, Known, NeverLost, Lost, InQueue, Has
<1> QED
    BY <1>1, GwInvariance, PTL

\* The gateway does not receive two identifies within one tick while attempts
\* have not met.
THEOREM IdentifiesSpaced == GwSpec => IdentifySpaced
<1> DEFINE Apart(s) ==
        asked'[s] = "identify" /\ asked[s] # "identify" => gatewayAge > 0 \/ crossed # {}
<1>1. ASSUME GwInv, GwNext, NEW s \in Shards PROVE Apart(s)
    <2> SUFFICES ASSUME asked'[s] = "identify", asked[s] # "identify", crossed = {}
                 PROVE  gatewayAge > 0
        OBVIOUS
    <2>1. \/ ProcessWrites(s) /\ conn[s] = "open" /\ outbox[s] = "identify"
          \/ DelayedAuth(s) /\ conn[s] = "open" /\ auth[s] = 0
        <3>1. asked \in [Shards -> Asks]
            BY <1>1, Clearly DEF GwTypeOK
        <3>2. ASSUME WsStatus \/ Tick PROVE FALSE
            BY <3>1, <3>2 DEF WsStatus, WsStatusDrop, WsStatusTimeout, Abandon, WsStatusConnect,
                              Tick, gatewayVars
        <3>3. PICK t \in Shards : Callback(t)
            BY <1>1, <3>2 DEF GwNext
        <3> QED
            BY <3>1, <3>3
               DEF Callback, OnConnect, Fails, ProcessWrites, Hello, KeepAlive, HeartbeatAck,
                   Accept, InvalidSession, DelayedAuth, HandleReady, ServerCloses, OnClose, Reset,
                   Received, gatewayVars
    <2> QED
        BY <1>1, <2>1, Clearly DEF Spaced
<1>2. ASSUME GwInv, [GwNext]_gwVars PROVE [\A s \in Shards : Apart(s)]_gwVars
    BY <1>1, <1>2
<1> HIDE DEF Apart
<1>3. GwSpec => [][\A s \in Shards : Apart(s)]_gwVars
    BY <1>2, GwInvariance, PTL DEF GwSpec
<1> QED
    BY <1>3 DEF IdentifySpaced, Apart
=============================================================================
