# Subspatial and MERVBot in TLA+

A verification project for the sources beside it: the MERVBot host program
(`src/mervbot`), the Subspatial plugin (`src/subspatial`) and the Discord
library the plugin uses (`src/include/aegis`). It holds TLA+ modules translated
from the source, TLC configurations that check them on small instances, and
proofs checked by TLAPS. Paths below are relative to `src/`.

    tlc -config MCReliableOut.cfg MCReliableOut      model-check one run
    tlapm ReliableOutProofs.tla                      check the proofs

## The system

One process of MERVBot runs many bots. Each bot is a `Host`, a client of a zone
server over UDP. `hostList` gives every `Host` its turn in a single thread.
Plugins (DLLs) receive the events of a `Host` and may send messages through it.
The Subspatial plugin also runs a Discord bot, whose callbacks and detached
threads share the plugin's state with the thread of the main loop. Its library
keeps websocket sessions (shards), a cache of Discord's objects, and a pool of
io threads that handle events and perform REST requests.

| component | state | operations | who it talks to |
|---|---|---|---|
| outbox (`mervbot/host.cpp`) | `localStep`, `localSent`, `sent`, `queued`, `clustered` | `post`, `queue`, `sendQueued`, `endCluster`, `gotACK`/`checkSent`/`sendNext` | server, by datagrams |
| inbox (`mervbot/host.cpp`) | `remoteStep`, `received` | `gotReliable`, `sendACK`, `checkReceived` | server; packet handlers |
| transfers (`chunk.cpp`, `host.cpp`) | chunk buffers, length of the file in progress | `gotChunkBody`, `gotChunkTail`, `gotBigChunk`, `gotCancelDownload` | inbox, file handlers |
| session (`host.cpp`, `clientprot.cpp`, `encrypt.cpp`) | routers, `connecting`, keys, `numTries`, `killMe`, timers | `connect`, `gotEncryptResponse`, `handlePasswordResponse`, `gotDisconnect`, `resetSession`, the timers of `doEvents` | server; `hostList` |
| process list (`hostlist.cpp`, `client.cpp`) | `list`, each `killMe` | `doEvents`, `connectHost`, `massDisconnect`, `massRestart` | every `Host`; commands |
| arena state (`host.cpp`, `clientprot.cpp`, `player.cpp`) | players, turrets, flags, balls, bricks, teams | packet handlers, `resetArena`, `changeArena` | plugin events |
| operators (`command.cpp`, `botdb.cpp`, `player.cpp`) | operator list, `Operators.txt`, access of players, limiter | `gotCommand`, `loadOperators`, `saveOperators` | players, the biller's answer |
| plugin loader (`dllcore.cpp`, `botdll.cpp`) | loaded DLLs | `talk`, `tell` | `Host`, plugin |
| linked accounts (`subspatial/discord.cpp`, `events.cpp`, `command.cpp`) | outstanding codes, `elite.dat`, the account cache, Discord roles | `--link`, `!link`, `!unlink`, `--unlink`, reloads | several threads |
| chat relay (`subspatial/spawn.cpp`, `events.cpp`) | cooldowns, the answer to `?find`, open PMs, game results | `gotEvent`, Discord callbacks | Discord, arena |
| REST (`rest_controller`, `ratelimit`, `futures.hpp`, `core.hpp`) | buckets, posted tasks, promises and futures | `async`, `post_task`, `then`, `get`, `set_value` | Discord, by HTTPS |
| gateway (`shards`, `core.cpp`) | connection queue, connection state, session ids | `ws_status`, `_on_connect`, `_on_close`, READY, RESUMED | Discord, by websocket |
| object cache (`core.cpp`, `guild.cpp`, `user.cpp`, `channel.cpp`) | guilds, channels, users and their links | the handlers of gateway events | io threads |

What makes it hard: datagrams are lost, duplicated and reordered; a session may
end at any moment and leave its packets behind on the wire; commands change the
list of bots while the list is being walked; plugin threads share unprotected
state; a pool of threads handles events out of order and waits for mutexes and
for its own work. There are no tests in the repository. `PROJECT.json` lists the
hazards one by one, each at its line.

What makes each component correct:

- transport: messages are handled once, in order, and none is lost; the window
  is respected and never idles; everything is acknowledged in the end.
- transfers: what is assembled is what was sent, or is dropped whole.
- session: packets of an earlier session have no effect; logging in stops after
  `MaxConnectionTries`; otherwise the bot comes back by itself.
- process list: the walk survives what bots do in it; every bot is served; the
  last bot is not closed.
- arena: no pointer refers to a player that left; the bot's view, the server's and
  the plugin's agree once nothing is on its way.
- operators: a name nobody checked gives no powers; nobody is raised above those
  who raise him; the file follows the list.
- linked accounts: the cache follows the file in spite of loads that overlap.
- lookups: what is reported was not said before the command; an answer makes room for
  the next; a cooldown ends.
- REST: a request is performed once and its answer reaches who asked.
- gateway: no shard is forgotten; identifies keep their distance.
- object cache: links between objects agree, handlers do not block each other.

## Modules

| module | models | extends / instantiates |
|---|---|---|
| `FifoLink` | abstract: what one direction of the reliable transport promises | |
| `ReliableOut` | the outbox of `Host` against an external server | instantiates `FifoLink` |
| `ReliableIn` | the inbox of `Host` against an external server | instantiates `FifoLink` |
| `Delivery` | abstract: what long messages come to | |
| `Transfers` | the two chunk buffers over the FIFO link and over sessions | instantiates `Delivery` |
| `Session` | one `Host` over many sessions, external server and network | |
| `HostList` | `hostList`, the main loop and the commands that change the list | |
| `Arena` | the players a `Host` knows of, its pointers to them, the plugin's pointer | |
| `Operators` | the operator list, its file, and the access of players | |
| `Elite` | linked accounts: codes, file, cache, role, threads | |
| `Lookups` | cooldowns and `--find` in detached threads | |
| `Gateway` | the shards of the Discord library and their manager | |
| `GuildCache` | guilds, members, channels and users, with their mutexes | |
| `Rest` | requests, buckets, promises, futures and continuations | |
| `MC...` | model values, symmetry and constraints for TLC | the module of that name |
| `ReliableOutProofs`, `SessionProofs`, `ArenaProofs`, `HostListProofs` | theorems and proofs | the module of that name, `TLAPS` |
| `InboundProofs` | theorems and proofs | `ReliableIn`, `Transfers`, `TLAPS` |
| `RequestProofs` | theorems and proofs | `Lookups`, `Rest`, `TLAPS` |
| `DatabaseProofs` | theorems and proofs | `Elite`, `Operators`, `TLAPS` |
| `DiscordProofs` | theorems and proofs | `GuildCache`, `Gateway`, `TLAPS` |

Definitions that begin with the word *Mutant* in their comment are not part of
any specification. Each is a plausible mistake in the definition that follows;
with it in place, the property `PROJECT.json` names beside it fails.

### ReliableOut

A message is its body: the transport never looks into it. One action for each
entry point: `Post` (`post(..., true)` with `queue`), `Resend` (`sendQueued`,
for any set of messages that are due), `EndCluster`, `GotACK` (`checkSent` with
`sendNext`). `PostAll` is what `post` and `queue` do to the state for one or
several bodies in a row; a long message is the sequence of its fragments.
`sent` and `queued` are sets, since the code finds messages by ACK_ID.
Timers are left out: a message may be due at any time. The wire is a set from
which a message may be received without being removed, which makes duplicates
and every order. The server acknowledges what it receives and handles it in
order, as the bot itself does.

`Long` names the bodies of 503 to 508 bytes. `post` lets them through whole, but
its stored copy carries six more bytes and exceeds the limit of the next `post`, which
fragments it. `Whole` says that this has not happened yet. The discipline of window and
queue holds until then, and is proved so for every `Long`; the types and the refinement of
`FifoLink` hold for ever. The run takes `Long` to be empty; `MCReliableOutLong.cfg` does
not ("Statements the code does not keep").

`post` is the main loop's. Detached threads of the plugin call it too, through
`sendPublic` (`subspatial/events.cpp:324`, `discord.cpp:451`); what two threads make of
unprotected lists is outside the model.

### ReliableIn

`GotReliable` is the whole handler: the acknowledgement, then one of
`HandleInTurn`, `KeepEarly`, `IgnoreOld`. `HandleInTurn` includes the loop that
handles whatever was waiting.

### Transfers

A buffer is the sequence of the units it holds, each named by the message and the
place it comes from, so that a hole, a repetition or a mixture shows. The
server cuts its messages into pieces of any size, in any interleaving of one small
message and one file, cancels downloads and waits for the answer, and may lose the
session. `GotBigChunk` is `gotBigChunk` with the lengths it compares. The
refinement of `Delivery` maps a piece that completes a message within its limit to
a pending message; a message over its limit is invisible there, which is the claim
that it does no harm. `HandledOnce` says that no message is handled twice and that those of a
kind are handled in the order they were begun.

### Session

The phase is which packet handlers are installed: none but the key exchange
(`bare`), those of `gotEncryptResponse` (`login`), those of
`activateGameProtocol` (`game`). A datagram carries the key it was encrypted
with, and under another key it is garbage without a handler (`Ignored`). Keys
are fresh: `Restart` takes one that nobody uses. Reliable messages of the live
session are not lost here, which the two transport modules justify. The server
opens, answers, closes and drops sessions as it likes until `calm`.

`GotDisconnect` ends the model (`alive`), since the call of `massRestart` in it
does not return, which `HostList` shows.

### HostList

One turn of a `Host` is a sequence of packets (`Polls` and what the packet does)
and an end (`EndTurn`, or `EndTurnSilent` when the silence timeout fires).
`next` is the local variable `parse`, read before the turn. `calls` is the stack
of `massRestart` activations, each with the Hosts it has left to restart; when
it is full the process has crashed, and it always gets there: `RestartNeverReturns`.

### Arena

A `Player` is an address; `mem` holds the fields of the object there, and `new` may
return a freed address. One action for each packet handler that changes the list of
players or a pointer into it, with `resetArena`, `changeArena`, the login, the
reconnect, `!go`, `!follow`, `!attach` and `spectateNext`. `killed`, `killFollow`,
`killTurret`, `killFields` and `killIndex` are together what `killPlayer` does. The
order of the list is abstracted: lookups go through the index (`qal`, with
`COSTLY_SPEEDUP` defined in `host.h`), `playerlist.head` is any listed player. What a
message about a player says is chosen when it is handled. The server knows the arena
of everybody, speaks only of the arena it believes the bot in, and its news and the
bot's logins pass each other on two FIFO links, which is where the hard cases come
from: after `resetArena` the bot still hears of the old arena, and after two quick
changes it hears of both. `!attach` writes through `Me` without a test; when it is null
the model goes on without the write, as after a caught exception, or stops (`alive`).

Unloading a plugin and the end of a `Host` are left out; both tell or free the plugin.

### Operators

`opList` and `opFile` map names to a level and a password. One action for each
command of `gotCommand` that touches the list, the limit, a claim or an access
level, with its guards: `MayCommand` is the limiter (which also looks at the list)
and the switch over the player's access. Players come, go, and log in with their
own password or with the wrong one; the arena is cleared by `!go` and by each new
session, whose password answer says whether the biller checked names. `!save` and
`!read` write and load the file, `Restart` ends the program and starts it again.
`given` and `dropped` are history: who has given a password since he came, and
whether a change escaped the mark `operatorsUpdated`, from which on `UnmarkedIsSaved`
says nothing. A save is one step: `saveOperators` truncates the file and writes entry by
entry without looking at errors (`botdb.cpp:378-399`), and a crash or a full disk within
it is outside.

### Elite

`file` is `elite.dat` and `accounts` the vector read in its place. The file begins with
what earlier runs left in it (`Earlier`), which nobody has loaded yet. The game thread
runs `!link` and `!unlink`; the pool and detached threads run `--link`, `--unlink`, its
confirmation, and the reloads, which clear the vector, read the file and append one
account at a time. A vector that two threads change at once may lose an entry: `torn`
says that the cache owes the file something, at the start because nothing is loaded, later
because loads have overlapped since one ran alone. The role is changed by requests that
Discord performs in any order (`Perform`).

### Lookups

One step is one operation of a vector or a string, or one round of a loop over the
vector, so that another thread may act between the search for an entry and `push_back` or
`erase` at the position found (`Seek`, `Erase`), between the test that no answer is kept
and the question (`Look`, `SendFind`), and between `find()` and `substr()` on the answer
(`Locate`, `Cut`). An `erase` past the end is undefined: the last entry goes or the process
ends (`alive`). `substr()` at a position the string no longer has throws in a thread that
catches nothing, and the process ends. What two threads make of a single operation at the
same moment is outside: each is atomic.

`--find` and the other commands check the cooldown in one thread and enter it in another;
the answer to `?find` is kept in one place and recognized by its text, so that any answer
may be taken for any question's, an answer to another player's question too.

### Gateway

One tick is six seconds, one more than Discord asks for between two identifies; the
timer `ws_status` runs at any time between ticks. The close handler, the open handler
and the READY handler (in a pool thread, `jobs`) run later than what caused them. The
gateway answers an identify or a resume in its own time, closes what it likes, and says op 9
(`InvalidSession`) whenever a connection is open, asked or not.

`do_reset()` posts its work if there is a connection: `resets` counts the resets that have
yet to run, and `Reset` is one of them. A shard that lets go of an open connection leaves
its close handler behind (`dropped`). A connection that was closed keeps its socket, and
`is_connected()`, until the shard lets go of it. The time-out of an attempt (`Abandon`)
works on a failed, an open and a closing connection. `ws_status` looks neither at pending
READY handlers nor at delayed identifies that are due; `HandleReady` ends whatever attempt
is under way, of whichever shard.

All of this goes wrong when something of one attempt meets another. `crossed` is a
history variable that remembers how: an invalid session outside an attempt or before it asked
("session"), an attempt begun with a handler of the pool pending ("pending"), the time-out of
one whose connection is not failed ("timeout"), one begun before a posted reset has run
("reset"). No guard reads it. `AttemptIsFront` holds until "pending" happens; the other
properties hold until any of the four does, and the configurations
`MCGatewayForgotten.cfg` and `MCGatewayWrongFront.cfg` show what the code then does. `PoolIdle`
only feeds this history.

Coarser than the code: an operation on the queue (a `std::deque` under no lock) is atomic; the
three assignments of `HandleReady` are one step, as are the two posts of `connect()`; a shard
has one handler in the pool at a time. `Tick` takes a connection that is being opened to have
opened or failed before the attempt times out, because websocketpp gives up each of its
four steps after five seconds.

### GuildCache

An object is a guild's id with the number of the object made for it: a guild that is
left stays in `stale_guilds`, and joined again is another object, while threads may still
hold the first. A step ends where a handler waits for a mutex that may be held for long.
Handlers run in any order, whatever the order of their events. `alive` becomes false
when a null guild is dereferenced or an iterator at the end is erased: the removal of a
member whose join is half way does that (`user.hpp:221`), so that `MembersJoined`, which
does not speak of half-joined members, does not catch it.

The model starts after READY. The load of an available guild by READY itself
(`core.cpp:705-708`) is outside: it calls `_load` under the guild's mutex, which `_load`
takes again (`guild.cpp:372`).

### Rest

The path of one private message to a user without a channel: two requests, the second
made by the continuation of the first. `state()`, `then()`, `schedule()` and `set_value()` are
split into the steps between which another thread may run: `See` is the test of the pointer to
the promise, `Read` what happens under the locks, which yields a pointer to the promise's
state, and `Use` what the caller does with that pointer when it holds no lock any more;
`Test`, `Unlink` and `MoveOut` are the same of `get_available_state`. A promise is moved with
the request that is posted and to the thread that takes it (`Home`), and hands its state over
when it is destroyed: a pointer from before shows "unset", or memory that is gone
(`crashed`). So a continuation misses its value in two ways: it is registered between the two
halves of `set_value()` (`Late`), or posted with a state the promise has handed over
meanwhile (`PostedBehind`).

A bucket is held by a thread from before the wait for the limit until the answer. Answers
may be errors although Discord has done what it was asked, at the first call and at the
repetition after 429.

Coarser than the code: the first `state()` of `schedule()`, whose result is not used, is left
out, since a crash is all it adds and the next one has it; the last part of `get()` is one step
under its locks; the destructor of a future belongs to the step that posts.

## Runs

| run | bounds | passes |
|---|---|---|
| `out` | window 2, 3 ACK_IDs, 2 bodies, 2 fragments, one order of bodies | `QueueDiscipline NothingForgotten LinkFairSpec AllAcknowledged` |
| `in` | 3 ACK_IDs, 2 bodies | `AckedIsHeld WaitsForLost LinkSpec AllAcknowledged` |
| `transfers` | 2 small messages and 2 files, one of each over its limit (2 and 4 units), pieces of up to 2, 3 messages, 2 sessions, 3 pieces on their way | `TrTypeOK NeverMixed HandledOnce ChannelFairSpec` |
| `session` | 2 keys, 2 tries, retry after 1 tick, silence after 2, 2 datagrams from the server | `OwnSession TriesRunOut Reconnects` |
| `hostlist` | 4 bots, all commands, stack of 5 calls | `WalkIsSound CloseLeavesOne EveryHostServed` |
| `arena` | 3 addresses, the bot and one other player, 2 arenas, 3 messages to the bot, 2 logins | `PointersLive IndexAgrees SettledIsComplete PluginSettled` |
| `operators` | 2 names, 2 changes of the list, 4 levels asked for | `OpTypeOK NamesAreChecked UnmarkedIsSaved TopNeverRises` |
| `elite` | 2 accounts, 2 names, the game thread and 2 others, 3 jobs, 1 code, none, one or both accounts in the file at the start | `CacheIsFile` |
| `lookups` | 2 users, 3 commands, each with its thread, 2 answers | `FreshAnswers AnswersMakeRoom CooldownsEnd` |
| `gateway` | 2 shards, an attempt of 4 ticks, a heartbeat of 1, 2 posted resets of a shard, up to the step in which attempts meet | `AttemptIsFront NeverLost IdentifySpaced BackOnline` |
| `guildcache` | 1 guild, channel and user, 2 threads, 5 events | `MembersJoined HandlersEnd` |
| `rest` | 2 private messages, 2 io threads, errors for the calls of one message, up to the step that crashes or forgets a continuation | `RestTypeOK SentOnce LostOnlyInRaces EveryMessageEnds` |

Why the bounds suffice. `out`: with a window of two and three ACK_IDs one message
waits, so that a message starts on an acknowledgement, after acknowledgements in
either order, and two-fragment messages split over the window's edge; bodies are
distinguishable, and the constraint leaves one order of them, which loses nothing
because the transport does not look into a body. `in`: two messages may be early, in
either order, which is the least for which the loop of `checkReceived` matters.
`transfers`: a message within and one over each limit, a limit that is not a multiple of
the piece, a file after a cancelled one and a session after a lost one.
`session`: with two keys there is always a past session whose packets are still
there; the next restart waits until one key is free. `hostlist`: a bot before, at and
after the turn, and one more. `arena`: two logins in flight are the least for which the
bot enters an arena it no longer wants; two listed players and a third address let an
object be replaced by a new one or at the same address. `operators`: two operators of
different or the same rank, each of whom can raise the other and come back. `elite`: two
loads overlap while a third thread writes. `lookups`: two lookups, of one user or of two,
and a third command, no lookup, whose entry is moved by, or moves, that of another or
equals it; of the orders in which the three can be given `OneOrder` leaves one, which loses
nothing, since each does nothing until it looks at the cooldowns.
`gateway`: one shard is being connected while the other waits, fails or is online. Of the
states `NotCrossed` leaves out only `AttemptIsFront` says something, and that is proved.
`guildcache`: the guild is left and joined again and three more events overlap.
`rest`: both io threads may run a continuation at once. `MayEnd` leaves out what follows
a step of which `EveryMessageEnds` says nothing from then on, errors for the second of two
messages that are alike, and the easier of two errors that no guard tells apart (a message
that was not sent, a channel that was opened); the theorems about the invariants have none
of these limits.
Where a theorem states the same property the bounds no longer matter. Symmetry is used
in `arena` and `elite` only, where no liveness is checked.

`CHECK_DEADLOCK FALSE` stands in every configuration: a bounded model with
nothing left to do stops, and so does a process whose bots have gone.

## Fairness

- `Host::doEvents` runs for ever: it resends what is due and ends the cluster in
  every iteration (weak fairness of `Resend` for each ACK_ID and `EndCluster`), and
  handles what has arrived (`transfers`, weak fairness of `GotMessage`).
- A datagram that is sent again and again gets through again and again (strong
  fairness of receiving, for each ACK_ID). Without it the network may lose
  everything, and nothing could be promised.
- `session`: the network becomes calm some day and delivers from then on, between
  two ticks of the clock; timers that have run out fire before the next tick.
  Safety does not depend on it.
- `hostlist`: a turn ends, because a socket has only so many packets, and a call of
  `massRestart` goes on. `EveryHostServed` supposes that bots are not spawned for
  ever: new ones go to the end of the list, before the walk comes round.
- `gateway`: timers and callbacks run, and the gateway answers on a connection that
  stays open. `BackOnline` supposes that nothing fails any more from some time on, and
  that attempts have never met: after that the code may lose a shard for good.
- `lookups`, `guildcache`: the operating system runs every thread, and sleeping ends.
  `CooldownsEnd` supposes that no two timers look through the vector at a time, and both
  properties that the process has not ended.
  `HandlersEnd` supposes that no channel is deleted while its guild is loaded, since
  those two handlers do block each other.
- `rest`: threads run (weak fairness); a mutex that is free again and again is
  obtained (strong fairness of `Lock`). `EveryMessageEnds` supposes that no pointer is
  followed too late, that no continuation is registered while its answer is stored,
  and that the io threads are not for ever all waiting for one another: each
  of these does happen in the model, and each is described below.

## Noticed

What the code does and its authors may not want. Where a model has the behaviour, its
name is given; where it contradicts a line of the repository, that line is
quoted in the next section.

Transport. A queued or repeated message within six bytes of the chunk limit is
fragmented when its stored copy is posted (`host.cpp:362`), because `post`
compares the length before it adds the header. The fragments take ACK_IDs and places
of the window, `localSent` runs past what waits, and messages behind are never
started (`MCReliableOutLong.cfg`). The file parts
of `clientprot.cpp:328` can have such lengths. Two files over the limit with the
same length mix in the buffer, which is dropped (`Transfers`).

Process. `gotDisconnect` calls `massRestart`, which calls `gotDisconnect` of the first
bot, and so on until the stack is used up: `!restart` and each 00 07 from the server
end there (`MCHostListRestart.cfg`; proved as `RestartNeverReturns`). `resetSession`
clears `killMe`: a bot whose silence timeout
fires between `!closeall` and its clean-up reconnects and stays (`EndTurnSilent`). While
bots are spawned in every round, those at the front wait (`SpawningEnds`). The remote
`!close` (`mervbot/command.cpp:2291`) does not count the bots, unlike the local one.
`logLogin` gives no tries back when it cannot open its file; an 00 02 that is refused
still ends `connecting`. With encryption off, nothing tells sessions apart.

Arena. On an automatic reconnect the players are deleted but the plugin, which is told
of every other change of arena, keeps its `me` until it is told of the next one. A
player who enters the old arena after `resetArena` stays listed in the new one
(`Arena`). `handleMapFile` never calls `loadTurfFlags`; `handleSetTeam` tests `p->team`
after it has assigned it; arena settings and flags of the old arena stay until
overwritten.

Operators. `setAccess` and `setPassword` never mark the list, so that what `!editop` and
`!setlogin` change is not saved unless something else marks it, and `!read` drops the
mark (`Operators`, `dropped`). `!autosave` sets an interval nobody reads. A level
above God (an Owner's `!addop` takes any number) has no command, not even `!logout`, and is
ignored at the next load. A deleted operator who is present keeps his powers and can
add himself again. Owners can delete one another and leave no operator. `!ownbot` off
leaves `limitedOwner`, and `!give` clears it without naming the new owner. `!setlogin`
after `!deleteop` and `gotRemote` without a remote operator dereference null.
`billerOnline` is set at the login only.

Plugin. The role is granted and removed by threads that may overtake each other, so
that an unlinked account may keep it, and two codes of one account can be claimed by two
players (`Elite`). An answer to `?find` that comes when no lookup waits is kept for ever and
silences every `--find` (`MCLookupsSilent.cfg`); one that comes between the test and the
question, or to another player's question, is reported. Timers erase by a position that
another one has shifted: the wrong cooldown ends and one stays for ever
(`MCLookupsBarred.cfg`), or the erase is past the end. `substr()` on an answer that was
cleared throws through a detached thread (`Lookups`, `alive`). Detached threads send through
the outbox of the bot while the main loop uses it.

Gateway. Four things of one attempt meet another (`Gateway`, `crossed`), and each may lose a
shard or bring identifies together. The READY handler of a shard ends the attempt of
whichever shard is being connected, so that `_on_connect` of that one returns without an
identify. Op 9 makes `delayedauth` identify without regard to `_last_identify`. A reset that
was posted runs on the connection of the next attempt. The time-out of an attempt whose
connection is open takes another shard off the queue. A shard that is neither connected
nor queued is not looked for: the code for it is commented out (`shard_mgr.cpp:318`).

Object cache. `ws_channel_delete` waits for the guild while it holds `_channel_m`, and
`guild::_load` for `_channel_m` while it holds the guild (`Collide`, which `HandlersEnd`
excludes). `ws_channel_update`
writes `guild.channels` without the guild's mutex and never sets the channel's guild.
`ws_guild_member_add`, role creation and role update use a guild they have not found;
the removal of a member who is half joined erases the end of a map; a guild left
twice is destroyed under whoever still uses it. `_remove_role` changes copies.
`base_permissions` takes a shared mutex it already has.

Futures. `state()` tests the pointer to the promise before it locks and returns a pointer
that is used after the locks, when the promise may have moved or gone (`Rest`, `crashed`,
`PostedBehind`); between the two halves of `set_value` a continuation can be registered that is
never run, or run too early (`Late`). `get_value()` then fails its assertion
(`MCRestValueless.cfg`). All io threads can wait in `get()` for requests that only they perform. A
bucket that is missing is inserted in an unordered map without a mutex. An error of
`msg_fut.get()` (`discord.cpp:571`) is thrown through the caller.

## Statements the code does not keep

Each of these configurations checks one property that a line of the repository states, and
TLC finds a behaviour of the model that violates it. They are meant to fail; none is among
the runs above.

| `tlc -config` | property | the statement | what happens |
|---|---|---|---|
| `MCReliableOutLong.cfg MCReliableOut` | `WaitsUnsent` | "Last ACK_ID to be sent" (`mervbot/host.h:131`, of `localSent`) | a long body is fragmented when its copy is posted; `localSent` passes messages that still wait, and they are never sent |
| `MCHostListRestart.cfg MCHostList` | `RestartReturns` | "!restart (relogs all the bots that are currently in a zone)" (`mervbot/command.cpp:162`) | `massRestart` and `gotDisconnect` call each other until the stack is used up |
| `MCLookupsBarred.cfg MCLookups` | `CooldownIsOver` | "There is a 10 second cooldown until you can use this command again." (`subspatial/events.cpp:317`) | of two timers that end together one shifts the entry the other has found, and it stays |
| `MCLookupsSilent.cfg MCLookups` | `FindAsks` | "runs a ?find search in SSC" (`subspatial/events.cpp:258`) | an answer nobody waited for is kept, and no `--find` asks any more |
| `MCGatewayForgotten.cfg MCGateway` | `NoneForgotten` | "shard is not connected. do a check if shard is in connection queue or if it needs adding to it" (`shard_mgr.cpp:318`) | a shard is neither, and nothing adds it |
| `MCGatewayWrongFront.cfg MCGateway` | `FrontHasConnected` | "_shards_to_connect.front wrong shard id" (an error logged at `shard_mgr.cpp:206`) | another shard is in front and loses its place |
| `MCRestValueless.cfg MCRest` | `RunsWithItsValue` | "assert(_s == state::result);" (`futures.hpp:272`) | a continuation is run without its value |

## Proofs

Each `...Proofs` module defines the inductive invariant of its component, proves that
`Init` implies it and that every action preserves it, one lemma or step per action, and
concludes with a temporal step. A module about two components proves about each on its
own; the definitions of the second carry a prefix (`TrIInv` of `Transfers`). What an
invariant adds to the properties it is for:

- `ReliableOut` (`OutInv`): `LinkInv`, that a message anywhere (in `sent`, in `queued`, in the
  cluster, on the wire, at the server) has the body `posted` has at its ACK_ID, and that
  `delivered` is the first `peerStep` bodies of `posted`, holds for bodies of every length and
  carries `ImplementsLink`, which shows that each step is a `Post`, a `Deliver` or a stutter of
  `FifoLink`. While `Whole`, `IInv` adds that what was started is below `localSent` and that
  what the server acknowledges it has, for the window, the queue and `NothingForgotten`.
- `ReliableIn`: the same of bodies on the wire and in `received`, and that every
  acknowledgement anywhere belongs to a message that was handled or is kept.
  `HandleInTurn` delivers the next n + 1 bodies of `posted`.
- `Transfers` (`TrIInv`): the server and the bot agree through what is on its way. The
  pieces of a kind continue one another without a hole, the first continues what the
  buffer holds, and the server goes on where the last one ends (`InStep`); after a cancel
  one answer is on its way and no file is sent until it has come (`CancelOK`). `NeverMixed` alone is not
  inductive: a buffer stays whole because of what is still on its way. `Order`
  adds that what is handled, on its way and half way at the server follow one another
  in one sequence of names without a repetition, which gives `HandledOnce`.
- `Session`: a reply or an acceptance under the session's key implies that the
  server acted under that key in this session (`WireIsOwn`, which holds because
  `Restart` draws an unused key), and tries left and refusals together stay within
  `MaxTries` (`TriesAreCounted`).
- `Arena`: `MeIsMine`, once set, `Me` is the player found under the bot's ident.
  It is needed because `killPlayer` does not look at `Me`: what saves `Me` is that the
  server never says the bot left, and that a second entry under its ident sets `Me`
  anew. `KillPlayer` is the lemma about what `killPlayer` leaves behind.
  `SettledIsComplete` and `PluginSettled` need `LoggedIn`: once nothing the bot sent is
  on its way, what its index holds, changed by the messages still to come, is what
  the server knows of the arena; the same of `Me`, and of what the plugin was told.
- `HostList`: `CloseCounted`, a bot told to leave by `!close` is the one whose turn
  it is, and the list has another. `RemoveAtProperties` is the lemma the walk rests on.
  `RestartNeverReturns` is why the configuration for `RestartReturns` fails: the stack of
  `massRestart` only deepens, because the activation on top always has
  the whole list before it when the next one begins (`JustCalled`).
- `Elite`: a link in hand is in the file (`LinkInHand`), a load that ran alone is
  the only one (`LonersAreAlone`), what it has appended and has left to append is the
  file (`LonersReadAll`), and with no load at work and nothing torn cache and file agree
  (`RestIsFile`).
- `Operators` (`OpIInv`): `NamesAreChecked` and `UnmarkedIsSaved` are inductive with the
  type invariant. `TopNeverRises`, a property of steps, follows from the guards of the
  commands that change the list.
- `Lookups`: no thread has counted more answers than have come (`CountedBefore`), and with
  it `FreshAnswers` is inductive: whatever is kept after a lookup found nothing came later.
- `Rest` (`RestIInv`): a call is performed by one thread at most (`CallsOnce`), a call
  that is queued or about to be performed has not been accepted (`NotRepeated`), a
  continuation is in one place and what it will send was not sent (`RunsOnce`), the
  answer to the first call is where its continuation will find it (`AnswerKept`), and what a
  thread that is about to post reads through its pointer differs from that only if the
  promise has handed it over (`Handed`), which gives `LostOnlyInRaces`.
- `GuildCache`: the second object of a guild exists only after the first was
  left (`SecondIsLater`), so that a member of the first object of a guild that is not
  stale is a member of the guild in force.
- `Gateway` (`GwInv`) has two parts. `FrontInv`: the attempt whose time runs is always known
  (`TimedAt`), and until one begins with a handler pending, a shard whose connection has not
  opened is in front (`FrontAt`). The other holds until attempts meet (`crossed = {}`): the queue
  holds a shard once, and for each shard the state of its connection, the handlers and
  resets pending for it, its place in the queue and the clocks of the manager fit together
  (`Clear`, of which `Opening`, `Asking`, `Spaced`, `Leftover`, `Waiting` and `Known` are the parts):
  what is pending belongs to the attempt under way, and whoever is neither up nor attempted is
  queued or will be by a handler to come.

Proved for every value of the constants:

- the type invariant of every component (the runs leave those out that they need not
  repeat);
- transport: `WindowRespected`, `QueueDiscipline` and `NothingForgotten` while `Whole`;
  `AckedIsHeld`,
  `WaitsForLost`, both refinements of `FifoLink`'s `Spec`; `NeverMixed`, `HandledOnce`;
- host: `OwnSession`, `TriesRunOut`; `WalkIsSound`, `CloseLeavesOne`,
  `RestartNeverReturns`; `PointersLive`, `IndexAgrees`, `SettledIsComplete`,
  `PluginSettled`; `NamesAreChecked`, `UnmarkedIsSaved`, `TopNeverRises`;
- plugin and library: `CacheIsFile`; `FreshAnswers`; `SentOnce`, `LostOnlyInRaces`;
  `MembersJoined`; `AttemptIsFront`, `NeverLost`, `IdentifySpaced`.

Every invariant and every property of steps that a run checks is thereby proved.
Checked by TLC only:

- Liveness, which needs fairness and ENABLED: `LinkFairSpec`, `AllAcknowledged`,
  `Reconnects`, `EveryHostServed`, `CooldownsEnd`, `AnswersMakeRoom`, `BackOnline`,
  `HandlersEnd`, `EveryMessageEnds`, `ChannelFairSpec`.
- The safety half of the refinement of `Delivery` by `Transfers`. Its mapping selects a
  subsequence of what is on its way, so that a proof needs induction over sequences.
  `NeverMixed` and `HandledOnce` are the part of it that is proved.

Assumptions: the one named in each module (`OutAssumption`, `InAssumption`,
`SessionAssumption`, and so on), which TLC evaluates, and nothing else: no theorem has a
hypothesis about the lengths of messages or the speed of the gateway. Where the code
keeps a promise only until something happens, the property says so itself (`Whole`,
`crossed`, `Late` and `PostedBehind`, `dropped`), and the sections above say what that is.

## Not modelled, and why

- Ciphers, checksums, random numbers, map and settings formats and LVZ objects
  transform bytes and keep no state that interacts. Sockets, console, INI files and
  compression are input and output.
- ACK_IDs do not wrap: no session lasts 2^32 messages. Clock synchronisation sets
  `syncPing`, and the models let every timer that depends on it fire at any time.
- Turf flags, bricks, balls, scores and positions are copies of what the server says; no
  code of the bot relates them to another state it keeps. Carried flags are related to
  their carriers and are planned.
- A reset of the session from inside the handler of a reliable message: the only
  handler that resets is `gotDisconnect`, and `massRestart` does not let it return.
- The remote commands, aliases and the commands that only print or set an option.
- What is done with a finished file; the plain-text mode of a session.
- Loading and unloading of plugins, beyond what a plugin's own pointer sees.
- Relayed chat, open private messages and the results of games.
- The numbers of the rate limits, the HTTPS connection, void futures, JSON objects and
  streams; roles, permissions, emojis and voice states, which are again copies.
- A hand that edits `Operators.txt` or `elite.dat` while the program runs, after the
  first start.
- The economy and the updater of the plugin are stubs.

## Plan

What is left, in the order of its weight:

1. The chat relay: open private messages, game results that are read five seconds after
   the game ended, and the detached threads that keep a `Player*`.
2. The flags of an arena on top of `Arena`: that `flagList` "only lists uncarried
   flags" (`mervbot/host.h:295`) while players enter, die, change ships and carry them.
3. The plugin loader: a plugin that is unloaded with events on their way.
4. The refinement of `Delivery` with a history of what was sent in place of the
   selection, so that its safety half can be proved step by step.
