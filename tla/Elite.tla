------------------------------- MODULE Elite --------------------------------
(***************************************************************************)
(* The linked accounts of the plugin (src/subspatial): the file elite.dat, *)
(* the vector _cache.discord.elite.accounts that is read in its place, the *)
(* codes that link a Discord account to a player, and the role that goes   *)
(* with a link.                                                            *)
(*                                                                         *)
(* The game thread runs the commands of players; the Discord library runs  *)
(* its callbacks in a pool of threads, and both start detached threads.    *)
(* None of them takes a lock.  A load clears the vector, reads the file    *)
(* and appends what it read, one account at a time, while other threads    *)
(* look into it; loads that overlap can lose an append (`torn`).           *)
(***************************************************************************)
EXTENDS Naturals, Sequences, SequencesExt

CONSTANTS Id,            \* Discord accounts
          NoId,          \* the empty string getKnownAccount returns
          Name,          \* Continuum players
          Thread,        \* detached threads and threads of the Discord pool
          Game,          \* the thread of the bot
          Earlier,       \* what earlier runs may have left in elite.dat
          MaxCodes,      \* bound on the codes that are outstanding
          MaxJobs        \* bound on the number of jobs begun

ASSUME EliteAssumption ==
    /\ NoId \notin Id /\ Game \notin Thread
    /\ Earlier \subseteq Seq([id : Id, name : Name])
    /\ MaxCodes \in Nat /\ MaxJobs \in Nat

VARIABLES
    file,       \* elite.dat: the linked accounts, in its order
    accounts,   \* the cache
    hash,       \* outstanding codes, each with the account it was made for
    prompts,    \* accounts asked to confirm --unlink
    pc, todo,   \* of each thread: where it is in its job, what it has read and not yet appended
    arg,        \* of each thread: the account or the player its job is about
    role,       \* Discord: accounts that have the role
    calls,      \* requests to grant and to remove the role, on their way
    torn,       \* no load has run alone yet, or some have overlapped since one did
    alone,      \* of each thread: no other load has run since it began its own
    jobs        \* number of jobs begun

elite == <<file, accounts, torn>>
discord == <<role, calls, prompts>>
threads == <<pc, todo, arg, alone, jobs>>
vars == <<elite, discord, threads, hash>>

All == Thread \cup {Game}
Account == [id : Id, name : Name]
Call == [op : {"grant"}, id : Id] \cup [op : {"remove"}, id : Id \cup {NoId}]

IsLinkedName(name) == \E i \in DOMAIN accounts : accounts[i].name = name
IsLinkedId(id) == \E i \in DOMAIN accounts : accounts[i].id = id

\* getKnownAccount of a player: the last entry that has his name.
KnownAccount(name, id) ==
    \/ \E i \in DOMAIN accounts :
          /\ accounts[i] = [id |-> id, name |-> name]
          /\ \A j \in (i + 1)..Len(accounts) : accounts[j].name # name
    \/ id = NoId /\ ~IsLinkedName(name)

Init ==
    /\ file \in Earlier /\ accounts = <<>> /\ hash = <<>> /\ prompts = {}
    /\ pc = [t \in All |-> "idle"] /\ todo = [t \in All |-> <<>>] /\ arg = [t \in All |-> NoId]
    /\ role = {} /\ calls = {}
    /\ torn = (file # <<>>) /\ alone = [t \in All |-> TRUE] /\ jobs = 0

Goto(t, where) == pc' = [pc EXCEPT ![t] = where]
Begin(t, where, what) ==
    /\ pc[t] = "idle" /\ jobs < MaxJobs /\ jobs' = jobs + 1
    /\ Goto(t, where)
    /\ arg' = [arg EXCEPT ![t] = what]
-----------------------------------------------------------------------------
\* loadLists(2), by thread t

Loading(t) == pc[t] \in {"read", "append"}
OthersLoad(t) == \E u \in All \ {t} : Loading(u)

LoadClear(t) ==
    /\ pc[t] = "load"
    /\ accounts' = <<>>
    /\ alone' = [u \in All |-> IF u = t THEN ~OthersLoad(t) ELSE alone[u] /\ ~Loading(u)]
    /\ torn' = (torn \/ OthersLoad(t))
    /\ Goto(t, "read")
    /\ UNCHANGED <<file, todo, arg, jobs, discord, hash>>

\* The file is not there to be read while another thread writes it: the load
\* ends, with nothing in the cache.
Writing(t) == \E u \in All \ {t} : pc[u] = "load" /\ arg[u] # NoId
LoadRead(t) ==
    /\ pc[t] = "read"
    /\ \/ todo' = [todo EXCEPT ![t] = file]
       \/ Writing(t) /\ todo' = [todo EXCEPT ![t] = <<>>]
    /\ Goto(t, "append")
    /\ UNCHANGED <<elite, arg, alone, jobs, discord, hash>>

LoadAppend(t) ==
    /\ pc[t] = "append" /\ todo[t] # <<>>
    /\ \/ accounts' = Append(accounts, Head(todo[t]))
       \/ OthersLoad(t) /\ accounts' = accounts
    /\ todo' = [todo EXCEPT ![t] = Tail(@)]
    /\ UNCHANGED <<file, torn, pc, arg, alone, jobs, discord, hash>>

\* What the threads do after a load.  The game thread links an account: then
\* the role is granted and the code is used up.
LoadDone(t) ==
    /\ pc[t] = "append" /\ todo[t] = <<>>
    /\ torn' = (torn /\ ~alone[t])
    /\ Goto(t, "idle")
    /\ arg' = [arg EXCEPT ![t] = NoId]
    /\ IF t = Game
       THEN /\ calls' = calls \cup {[op |-> "grant", id |-> arg[t]]}
            /\ \E i \in DOMAIN hash : hash[i] = arg[t] /\ hash' = RemoveAt(hash, i)
       ELSE UNCHANGED <<calls, hash>>
    /\ UNCHANGED <<file, accounts, todo, alone, jobs, role, prompts>>

\* !read, --refresh, and every READY of the gateway.
Reload(t) ==
    /\ t # Game /\ Begin(t, "load", NoId)
    /\ UNCHANGED <<elite, todo, alone, discord, hash>>
-----------------------------------------------------------------------------
\* Linking

\* --link
IssueCode(id) ==
    /\ ~IsLinkedId(id) /\ Len(hash) < MaxCodes
    /\ hash' = Append(hash, id)
    /\ UNCHANGED <<elite, threads, discord>>

\* WritePrivateProfileString in [Accounts]: one line per account.
Without(id) ==
    IF \E i \in DOMAIN file : file[i].id = id
    THEN RemoveAt(file, CHOOSE i \in DOMAIN file : file[i].id = id)
    ELSE file
Written(id, name) ==
    IF \E i \in DOMAIN file : file[i].id = id
    THEN [i \in DOMAIN file |-> IF file[i].id = id THEN [id |-> id, name |-> name] ELSE file[i]]
    ELSE Append(file, [id |-> id, name |-> name])

\* !link of a player with a valid code; linkAccount goes on to load.
Claim(name, id) ==
    /\ id \in Range(hash)
    /\ ~IsLinkedName(name)
    /\ Begin(Game, "load", id)
    /\ file' = Written(id, name)
    /\ UNCHANGED <<accounts, torn, todo, alone, discord, hash>>
-----------------------------------------------------------------------------
\* Unlinking

\* !unlink of a player who gave the account the cache has for him: a thread
\* looks the account up again.
UnlinkCommand(name, t) ==
    /\ pc[Game] = "idle" /\ IsLinkedName(name)
    /\ t # Game /\ Begin(t, "lookup", name)
    /\ UNCHANGED <<elite, todo, alone, discord, hash>>

\* Mutant of UnlinkAccount: the cache is not loaded again.
UnlinkAccountOnly(t, id) ==
    /\ file' = Without(id)
    /\ calls' = calls \cup {[op |-> "remove", id |-> id]}
    /\ arg' = [arg EXCEPT ![t] = NoId]
    /\ Goto(t, "idle")
    /\ UNCHANGED <<accounts, torn, todo, alone, role, hash>>

UnlinkAccount(t, id) ==
    /\ file' = Without(id)
    /\ calls' = calls \cup {[op |-> "remove", id |-> id]}
    /\ arg' = [arg EXCEPT ![t] = id]
    /\ Goto(t, "load")
    /\ UNCHANGED <<accounts, torn, todo, alone, role, hash>>

UnlinkThread(t) ==
    /\ pc[t] = "lookup"
    /\ \E id \in Id \cup {NoId} : KnownAccount(arg[t], id) /\ UnlinkAccount(t, id)
    /\ UNCHANGED <<jobs, prompts>>

\* --unlink: the account is asked to confirm.
AskUnlink(id) ==
    /\ IsLinkedId(id) /\ id \notin prompts
    /\ prompts' = prompts \cup {id}
    /\ UNCHANGED <<elite, threads, role, calls, hash>>

\* checkUnlinker: the pointer kept for the question dangles, what it shows may
\* not be the question any more.
Confirm(t, id) ==
    /\ t # Game /\ id \in prompts /\ pc[t] = "idle" /\ jobs < MaxJobs /\ jobs' = jobs + 1
    /\ UnlinkAccount(t, id)
    /\ prompts' = prompts \ {id}
-----------------------------------------------------------------------------
\* Discord

Perform(c) ==
    /\ c \in calls
    /\ calls' = calls \ {c}
    /\ role' = IF c.op = "grant" THEN role \cup {c.id} ELSE role \ {c.id}
    /\ UNCHANGED <<elite, threads, hash, prompts>>

\* guild_member_add: a linked account that returns gets its role back.
Return(id) ==
    /\ IsLinkedId(id)
    /\ role' = role \ {id}
    /\ calls' = calls \cup {[op |-> "grant", id |-> id]}
    /\ UNCHANGED <<elite, threads, hash, prompts>>

Next ==
    \/ \E t \in All : LoadClear(t) \/ LoadRead(t) \/ LoadAppend(t) \/ LoadDone(t)
    \/ \E t \in Thread : Reload(t) \/ UnlinkThread(t)
    \/ \E id \in Id : IssueCode(id) \/ AskUnlink(id) \/ Return(id)
    \/ \E id \in Id, name \in Name : Claim(name, id)
    \/ \E name \in Name, t \in Thread : UnlinkCommand(name, t)
    \/ \E t \in Thread, id \in Id : Confirm(t, id)
    \/ \E c \in calls : Perform(c)

Spec == Init /\ [][Next]_vars
-----------------------------------------------------------------------------
\* Properties

TypeOK ==
    /\ file \in Seq(Account) /\ accounts \in Seq(Account) /\ hash \in Seq(Id)
    /\ prompts \in SUBSET Id /\ role \in SUBSET Id /\ calls \in SUBSET Call
    /\ pc \in [All -> {"idle", "lookup", "load", "read", "append"}]
    /\ todo \in [All -> Seq(Account)]
    /\ arg \in [All -> Id \cup Name \cup {NoId}]
    /\ torn \in BOOLEAN /\ alone \in [All -> BOOLEAN] /\ jobs \in 0..MaxJobs

\* Whatever is written while others load, the cache ends up with the accounts
\* of the file, neither more nor fewer: every writer loads after it has
\* written, so the file read before the last write is never the last one read.
\* What overlapping loads tear, the first load that runs alone repairs.
Busy(t) == pc[t] \in {"load", "read", "append"}
Quiet == ~torn /\ \A t \in All : ~Busy(t)
CacheIsFile == Quiet => accounts = file
=============================================================================
