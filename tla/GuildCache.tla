----------------------------- MODULE GuildCache -----------------------------
(***************************************************************************)
(* The cache of the Discord library (src/include/aegis): class core maps   *)
(* ids to guilds, channels and users; a guild lists its members and its    *)
(* channels, a user the guilds he is a member of, a channel points to its  *)
(* guild.  Every event of the gateway is handled by a thread of a pool, so *)
(* that handlers overlap and overtake each other.                          *)
(*                                                                         *)
(* A step ends where a thread waits for a mutex that may be held for long: *)
(* the guild's, which _load() holds while it loads members and channels,   *)
(* and core's _channel_m, which ws_channel_delete() holds, with the        *)
(* channel's own, while it waits for the guild's.  The mutexes of users,   *)
(* and those of the other maps of core, are held within a step.            *)
(*                                                                         *)
(* The gateway is external.  A guild the bot has left stays in             *)
(* stale_guilds; the same guild, joined again, is another object.          *)
(***************************************************************************)
EXTENDS Naturals, FiniteSets

CONSTANTS Guild, Channel, User,   \* ids
          Thread, Nobody,         \* threads of the pool; no holder of a mutex
          MaxEvents               \* bound on the events of the gateway

ASSUME CacheAssumption == Guild # {} /\ Nobody \notin Thread /\ MaxEvents \in Nat

VARIABLES
    guilds,      \* core.guilds: which object a guild is, 0 if it is not cached
    stale,       \* core.stale_guilds
    channels,    \* core.channels
    known,       \* core.users, those with a name
    members,     \* guild.members, of each object
    listed,      \* guild.channels, of each object
    infos,       \* user.guilds
    chanGuild,   \* channel._guild
    guildLock,   \* the mutex of each guild object: its holder
    channelLock, \* core._channel_m: its holder
    pc, job,     \* of each thread: where it is, the event it handles
    events,      \* number of events so far
    alive        \* the process has not run into undefined behaviour

maps == <<guilds, stale, channels, known>>
links == <<members, listed, infos, chanGuild>>
locks == <<guildLock, channelLock>>
vars == <<maps, links, locks, pc, job, events, alive>>

Object == Guild \X {1, 2}
NoObject == <<>>
Event == [guild : Guild, obj : Object \cup {NoObject},
          users : SUBSET User, chans : SUBSET Channel]

Init ==  \* after READY, whose handler creates the guilds the bot is in
    /\ guilds = [g \in Guild |-> 1] /\ stale = {} /\ channels = {} /\ known = {}
    /\ members = [o \in Object |-> {}] /\ listed = [o \in Object |-> {}]
    /\ infos = [u \in User |-> {}]
    /\ chanGuild = [c \in Channel |-> NoObject]
    /\ guildLock = [o \in Object |-> Nobody] /\ channelLock = Nobody
    /\ pc = [t \in Thread |-> "idle"]
    /\ job = [t \in Thread |-> [guild |-> CHOOSE g \in Guild : TRUE, obj |-> NoObject,
                                users |-> {}, chans |-> {}]]
    /\ events = 0 /\ alive = TRUE
-----------------------------------------------------------------------------
\* What the gateway sends and a thread takes on.  The members and channels are
\* those the event names: several for a guild, one for any other event.
AboutGuild == {"GUILD_CREATE", "GUILD_UPDATE"}
AboutMember == {"MEMBER_ADD", "MEMBER_UPDATE", "MEMBER_REMOVE"}
AboutChannel == {"CHANNEL_CREATE", "CHANNEL_UPDATE", "CHANNEL_DELETE"}
Spoken == {"MESSAGE_CREATE", "MESSAGE_UPDATE"}

\* The bot leaves a guild at most once, a bound: what a handler does with the
\* second object after that is gone too, which stale_guilds does not keep, is
\* not modelled.
Left(g) ==
    g \in stale \/ \E t \in Thread : pc[t] \in {"GUILD_DELETE", "leave"} /\ job[t].guild = g

Dispatch(t, type, e) ==
    /\ pc[t] = "idle" /\ events < MaxEvents
    /\ \/ type \in AboutGuild
       \/ type = "GUILD_DELETE" /\ ~Left(e.guild) /\ e.users = {} /\ e.chans = {}
       \/ type \in AboutMember /\ Cardinality(e.users) = 1 /\ e.chans = {}
       \/ type \in AboutChannel /\ e.users = {} /\ Cardinality(e.chans) = 1
       \/ type \in Spoken /\ Cardinality(e.users) = 1 /\ Cardinality(e.chans) = 1
    /\ events' = events + 1
    /\ pc' = [pc EXCEPT ![t] = type]
    /\ job' = [job EXCEPT ![t] = e]
    /\ UNCHANGED <<maps, links, locks, alive>>

Goto(t, where) == pc' = [pc EXCEPT ![t] = where]
Found(t) == guilds[job[t].guild] # 0
FoundObject(t) == <<job[t].guild, guilds[job[t].guild]>>
Holds(t, o) == job' = [job EXCEPT ![t].obj = o]

\* find_guild: a handler that finds no guild returns.
FindGuild(t, where) ==
    IF Found(t) THEN Goto(t, where) /\ Holds(t, FoundObject(t)) ELSE Goto(t, "idle") /\ UNCHANGED job
-----------------------------------------------------------------------------
\* ws_guild_create, ws_guild_update: _load() under the mutex of the guild

WsGuildCreate(t) ==
    /\ pc[t] = "GUILD_CREATE"
    /\ guilds' = [guilds EXCEPT ![job[t].guild] =
                     IF @ # 0 THEN @ ELSE IF job[t].guild \in stale THEN 2 ELSE 1]
    /\ Holds(t, <<job[t].guild, guilds'[job[t].guild]>>)
    /\ Goto(t, "load")
    /\ UNCHANGED <<stale, channels, known, links, locks, events, alive>>

WsGuildUpdate(t) ==
    /\ pc[t] = "GUILD_UPDATE"
    /\ FindGuild(t, "load")
    /\ UNCHANGED <<maps, links, locks, events, alive>>

Load(t) ==
    /\ pc[t] = "load" /\ guildLock[job[t].obj] = Nobody
    /\ guildLock' = [guildLock EXCEPT ![job[t].obj] = t]
    /\ Goto(t, "loading")
    /\ UNCHANGED <<maps, links, channelLock, job, events, alive>>

\* Mutant of LoadMember: the member is listed, but does not join.
LoadMemberOnly(t) ==
    /\ pc[t] = "loading"
    /\ \E u \in job[t].users :
          /\ known' = known \cup {u}
          /\ members' = [members EXCEPT ![job[t].obj] = @ \cup {u}]
          /\ job' = [job EXCEPT ![t].users = @ \ {u}]
    /\ UNCHANGED <<guilds, stale, channels, infos, listed, chanGuild, locks, pc, events, alive>>

LoadMember(t) ==
    /\ pc[t] = "loading"
    /\ \E u \in job[t].users :
          /\ known' = known \cup {u}
          /\ members' = [members EXCEPT ![job[t].obj] = @ \cup {u}]
          /\ infos' = [infos EXCEPT ![u] = @ \cup {job[t].obj[1]}]
          /\ job' = [job EXCEPT ![t].users = @ \ {u}]
    /\ UNCHANGED <<guilds, stale, channels, listed, chanGuild, locks, pc, events, alive>>

\* channel_create and _load_with_guild, for the next channel
LoadChannel(t) ==
    /\ pc[t] = "loading" /\ job[t].users = {} /\ channelLock = Nobody
    /\ \E c \in job[t].chans :
          /\ channels' = channels \cup {c}
          /\ listed' = [listed EXCEPT ![job[t].obj] = @ \cup {c}]
          /\ chanGuild' = [chanGuild EXCEPT ![c] = job[t].obj]
          /\ job' = [job EXCEPT ![t].chans = @ \ {c}]
    /\ UNCHANGED <<guilds, stale, known, members, infos, locks, pc, events, alive>>

Loaded(t) ==
    /\ pc[t] = "loading" /\ job[t].users = {} /\ job[t].chans = {}
    /\ guildLock' = [guildLock EXCEPT ![job[t].obj] = Nobody]
    /\ Goto(t, "idle")
    /\ UNCHANGED <<maps, links, channelLock, job, events, alive>>
-----------------------------------------------------------------------------
\* ws_guild_delete: the callbacks of the application run before the guild is
\* moved to the stale ones, if it is still there then.

WsGuildDelete(t) ==
    /\ pc[t] = "GUILD_DELETE"
    /\ FindGuild(t, "leave")
    /\ UNCHANGED <<maps, links, locks, events, alive>>

RemoveGuild(t) ==
    /\ pc[t] = "leave"
    /\ IF Found(t)
       THEN /\ stale' = stale \cup {job[t].guild}
            /\ guilds' = [guilds EXCEPT ![job[t].guild] = 0]
       ELSE UNCHANGED <<guilds, stale>>
    /\ Goto(t, "idle")
    /\ UNCHANGED <<channels, known, links, locks, job, events, alive>>
-----------------------------------------------------------------------------
\* Members

\* ws_guild_member_add does not test the guild it has found.
WsMemberAdd(t) ==
    /\ pc[t] = "MEMBER_ADD"
    /\ FindGuild(t, "enlist")
    /\ alive' = Found(t)
    /\ UNCHANGED <<maps, links, locks, events>>

\* ws_guild_member_update, ws_presence_update, ws_guild_members_chunk
WsMemberUpdate(t) ==
    /\ pc[t] = "MEMBER_UPDATE"
    /\ FindGuild(t, "enlist")
    /\ UNCHANGED <<maps, links, locks, events, alive>>

\* _load_nolock, the mutexes of the user and the guild held; a presence may
\* have no name.
Enlist(t) ==
    /\ pc[t] = "enlist" /\ guildLock[job[t].obj] = Nobody
    /\ known' \in {known, known \cup job[t].users}
    /\ members' = [members EXCEPT ![job[t].obj] = @ \cup job[t].users]
    /\ infos' = [u \in User |->
                   IF u \in job[t].users THEN infos[u] \cup {job[t].obj[1]} ELSE infos[u]]
    /\ Goto(t, "idle")
    /\ UNCHANGED <<guilds, stale, channels, listed, chanGuild, locks, job, events, alive>>

WsMemberRemove(t) ==
    /\ pc[t] = "MEMBER_REMOVE"
    /\ FindGuild(t, "strike")
    /\ UNCHANGED <<maps, links, locks, events, alive>>

\* _remove_member and leave, which erases what it finds without a test.
RemoveMember(t) ==
    /\ pc[t] = "strike" /\ guildLock[job[t].obj] = Nobody
    /\ LET gone == members[job[t].obj] \cap job[t].users
       IN  /\ alive' = (\A u \in gone : job[t].obj[1] \in infos[u])
           /\ infos' = [u \in User |-> IF u \in gone THEN infos[u] \ {job[t].obj[1]} ELSE infos[u]]
           /\ members' = [members EXCEPT ![job[t].obj] = @ \ gone]
    /\ Goto(t, "idle")
    /\ UNCHANGED <<maps, listed, chanGuild, locks, job, events>>

\* ws_message_create, of a user who has no name yet: he is loaded without a
\* mutex, so that _add_member and _join are two steps.
WsMessageCreate(t) ==
    /\ pc[t] = "MESSAGE_CREATE" /\ channelLock = Nobody
    /\ IF (\E c \in job[t].chans : c \in channels /\ chanGuild[c] # NoObject)
          /\ ~ job[t].users \subseteq known
       THEN /\ \E c \in job[t].chans : chanGuild[c] # NoObject /\ Holds(t, chanGuild[c])
            /\ Goto(t, "add")
            /\ known' = known \cup job[t].users
       ELSE Goto(t, "idle") /\ UNCHANGED <<known, job>>
    /\ UNCHANGED <<guilds, stale, channels, links, locks, events, alive>>

\* ws_message_update creates the channel first; the typing, deletion and
\* reaction handlers do only that.
WsMessageUpdate(t) ==
    /\ pc[t] = "MESSAGE_UPDATE" /\ channelLock = Nobody
    /\ channels' = channels \cup job[t].chans
    /\ Goto(t, "MESSAGE_CREATE")
    /\ UNCHANGED <<guilds, stale, known, links, locks, job, events, alive>>

AddMember(t) ==
    /\ pc[t] = "add" /\ guildLock[job[t].obj] = Nobody
    /\ members' = [members EXCEPT ![job[t].obj] = @ \cup job[t].users]
    /\ Goto(t, "join")
    /\ UNCHANGED <<maps, listed, infos, chanGuild, locks, job, events, alive>>

Join(t) ==
    /\ pc[t] = "join"
    /\ infos' = [u \in User |->
                   IF u \in job[t].users THEN infos[u] \cup {job[t].obj[1]} ELSE infos[u]]
    /\ Goto(t, "idle")
    /\ UNCHANGED <<maps, members, listed, chanGuild, locks, job, events, alive>>
-----------------------------------------------------------------------------
\* Channels

\* ws_channel_create, ws_channel_update: find_guild, then channel_create
WsChannel(t) ==
    /\ pc[t] \in {"CHANNEL_CREATE", "CHANNEL_UPDATE"} /\ channelLock = Nobody
    /\ FindGuild(t, IF pc[t] = "CHANNEL_CREATE" THEN "create channel" ELSE "update channel")
    /\ channels' = IF Found(t) THEN channels \cup job[t].chans ELSE channels
    /\ UNCHANGED <<guilds, stale, known, links, locks, events, alive>>

\* Mutant of CreateChannel: the mutexes are taken one after the other.
CreateChannelNested(t) ==
    \/ /\ pc[t] = "create channel" /\ channelLock = Nobody
       /\ channelLock' = t
       /\ UNCHANGED <<maps, links, guildLock, pc, job, events, alive>>
    \/ /\ pc[t] = "create channel" /\ channelLock = t /\ guildLock[job[t].obj] = Nobody
       /\ channelLock' = Nobody
       /\ listed' = [listed EXCEPT ![job[t].obj] = @ \cup job[t].chans]
       /\ chanGuild' = [c \in Channel |-> IF c \in job[t].chans THEN job[t].obj ELSE chanGuild[c]]
       /\ Goto(t, "idle")
       /\ UNCHANGED <<maps, members, infos, guildLock, job, events, alive>>

\* std::lock takes three mutexes or none.
CreateChannel(t) ==
    /\ pc[t] = "create channel" /\ channelLock = Nobody /\ guildLock[job[t].obj] = Nobody
    /\ listed' = [listed EXCEPT ![job[t].obj] = @ \cup job[t].chans]
    /\ chanGuild' = [c \in Channel |-> IF c \in job[t].chans THEN job[t].obj ELSE chanGuild[c]]
    /\ Goto(t, "idle")
    /\ UNCHANGED <<maps, members, infos, locks, job, events, alive>>

\* The guild's mutex is not taken: a load that writes the same list is a race.
UpdateChannel(t) ==
    /\ pc[t] = "update channel" /\ channelLock = Nobody
    /\ listed' = [listed EXCEPT ![job[t].obj] = @ \cup job[t].chans]
    /\ alive' \in {TRUE, guildLock[job[t].obj] = Nobody}
    /\ Goto(t, "idle")
    /\ UNCHANGED <<maps, members, infos, chanGuild, locks, job, events>>

\* ws_channel_delete takes _channel_m and the channel's mutex, and then, in
\* _remove_channel, the guild's.
WsChannelDelete(t) ==
    /\ pc[t] = "CHANNEL_DELETE" /\ channelLock = Nobody
    /\ FindGuild(t, "find channel")
    /\ UNCHANGED <<maps, links, locks, events, alive>>

LockChannels(t) ==
    /\ pc[t] = "find channel" /\ channelLock = Nobody
    /\ IF job[t].chans \subseteq channels
       THEN Goto(t, "remove") /\ channelLock' = t
       ELSE Goto(t, "idle") /\ UNCHANGED channelLock
    /\ UNCHANGED <<maps, links, guildLock, job, events, alive>>

RemoveChannel(t) ==
    /\ pc[t] = "remove" /\ guildLock[job[t].obj] = Nobody
    /\ listed' = [listed EXCEPT ![job[t].obj] = @ \ job[t].chans]
    /\ channels' = channels \ job[t].chans
    /\ chanGuild' = [c \in Channel |-> IF c \in job[t].chans THEN NoObject ELSE chanGuild[c]]
    /\ channelLock' = Nobody
    /\ Goto(t, "idle")
    /\ UNCHANGED <<guilds, stale, known, members, infos, guildLock, job, events, alive>>
-----------------------------------------------------------------------------
Loads(t) == WsGuildCreate(t) \/ WsGuildUpdate(t) \/ Load(t) \/ LoadMember(t) \/ LoadChannel(t) \/ Loaded(t)
Leaves(t) == WsGuildDelete(t) \/ RemoveGuild(t)
Membership(t) == WsMemberAdd(t) \/ WsMemberUpdate(t) \/ Enlist(t) \/ WsMemberRemove(t) \/ RemoveMember(t)
Messages(t) == WsMessageCreate(t) \/ WsMessageUpdate(t) \/ AddMember(t) \/ Join(t)
Channels(t) == WsChannel(t) \/ CreateChannel(t) \/ UpdateChannel(t)
               \/ WsChannelDelete(t) \/ LockChannels(t) \/ RemoveChannel(t)

Step(t) == alive /\ (Loads(t) \/ Leaves(t) \/ Membership(t) \/ Messages(t) \/ Channels(t))

Next ==
    \/ alive /\ \E t \in Thread, type \in AboutGuild \cup AboutMember \cup AboutChannel
                                          \cup Spoken \cup {"GUILD_DELETE"}, e \in Event :
                    e.obj = NoObject /\ Dispatch(t, type, e)
    \/ \E t \in Thread : Step(t)

Spec == Init /\ [][Next]_vars

\* The operating system runs every thread that can run.
FairSpec == Spec /\ \A t \in Thread : WF_vars(Step(t))
-----------------------------------------------------------------------------
\* Properties

Waits == {"add", "load", "enlist", "strike", "leave", "loading", "join",
          "create channel", "update channel", "find channel", "remove"}
TypeOK ==
    /\ guilds \in [Guild -> 0..2] /\ stale \in SUBSET Guild
    /\ channels \in SUBSET Channel /\ known \in SUBSET User
    /\ members \in [Object -> SUBSET User] /\ listed \in [Object -> SUBSET Channel]
    /\ infos \in [User -> SUBSET Guild]
    /\ chanGuild \in [Channel -> Object \cup {NoObject}]
    /\ guildLock \in [Object -> Thread \cup {Nobody}] /\ channelLock \in Thread \cup {Nobody}
    /\ pc \in [Thread -> {"idle", "GUILD_DELETE"} \cup AboutGuild \cup AboutMember
                             \cup AboutChannel \cup Spoken \cup Waits]
    /\ job \in [Thread -> Event]
    /\ \A t \in Thread : pc[t] \in Waits => job[t].obj \in Object
    /\ events \in 0..MaxEvents /\ alive \in BOOLEAN

\* What leave() takes for granted when it erases without a test: a member of a
\* guild knows that he is one, in whatever order guilds are loaded and members
\* come, go and speak, unless the bot has left the guild, or a message has
\* loaded the user half way.
Joining(u, g) == \E t \in Thread : pc[t] = "join" /\ u \in job[t].users /\ job[t].obj[1] = g
MembersJoined ==
    \A g \in Guild \ stale :
        \A u \in members[<<g, 1>>] : g \in infos[u] \/ Joining(u, g)

\* Handlers do not wait for each other for ever, unless a channel is deleted
\* while its guild is loaded: then either may hold the mutex the other needs.
Collide ==
    \E t, u \in Thread :
        pc[t] = "remove" /\ pc[u] = "loading" /\ job[t].obj = job[u].obj /\ job[u].chans # {}
HandlersEnd ==
    []~Collide => \A t \in Thread : pc[t] # "idle" ~> (pc[t] = "idle" \/ ~alive)
=============================================================================
