------------------------------ MODULE Lookups -------------------------------
(***************************************************************************)
(* The commands of Discord users that have a cooldown, and --find, which   *)
(* asks the game server for a player and reports the answer it finds three *)
(* seconds later (src/subspatial/events.cpp and spawn.cpp).                *)
(*                                                                         *)
(* A callback of the Discord library looks at the cooldowns; what follows  *)
(* runs in detached threads, and nothing is locked.  The answers are lines *)
(* of arena chat that the thread of the bot recognizes and keeps in one    *)
(* place, _cache.discord.find.  The server is external: it answers late,   *)
(* or not at all, and others make it say the same lines.  A step is one    *)
(* operation of a vector or a string, or one round of a loop over the      *)
(* vector.                                                                 *)
(***************************************************************************)
EXTENDS Naturals, Sequences, SequencesExt

CONSTANTS User,                     \* Discord users
          MaxCommands, MaxAnswers   \* bounds on commands and answers

ASSUME LookupsAssumption == User # {} /\ MaxCommands \in Nat /\ MaxAnswers \in Nat

VARIABLES
    cooldown,    \* entries of user and command
    find,        \* the last answer, by its number, or Nothing: it was cleared
    answers,     \* number of answers that have come
    pc,          \* of each thread: where it is
    about,       \* of each thread: the command it runs
    at,          \* of each thread: the index its loop over the vector has come to
    seen,        \* of each thread: number of answers when it found none kept
    got,         \* of each thread: the answer in which it has located what it wants
    commands,    \* number of commands given; each has a thread of its number
    alive        \* FALSE: an exception in a thread has ended the process

threads == <<pc, about, at, seen, got>>
vars == <<cooldown, find, answers, threads, commands, alive>>

Thread == 1..MaxCommands
Nothing == 0
Command == [user : User, cmd : {"find", "help"}]

\* Where a lookup is at work: from the test that no answer is kept to its clear.
Asking == {"ask", "wait", "locate", "cut", "clear"}

Init ==
    /\ cooldown = <<>> /\ find = Nothing /\ answers = 0
    /\ pc = [t \in Thread |-> "unused"]
    /\ about = [t \in Thread |-> CHOOSE c \in Command : TRUE]
    /\ at = [t \in Thread |-> 1]
    /\ seen = [t \in Thread |-> 0] /\ got = [t \in Thread |-> Nothing]
    /\ commands = 0 /\ alive = TRUE

Goto(t, where) == pc' = [pc EXCEPT ![t] = where]
-----------------------------------------------------------------------------
\* One round of a loop over the vector: at an entry of the command, at another
\* entry, or past the last.
Matches(t) == at[t] <= Len(cooldown) /\ cooldown[at[t]] = about[t]
Differs(t) == at[t] <= Len(cooldown) /\ cooldown[at[t]] # about[t]
Past(t) == at[t] > Len(cooldown)

Round(t, where) ==
    \/ Matches(t) /\ Goto(t, where.found) /\ UNCHANGED at
    \/ Differs(t) /\ at' = [at EXCEPT ![t] = @ + 1] /\ UNCHANGED pc
    \/ Past(t) /\ Goto(t, where.none) /\ at' = [at EXCEPT ![t] = 1]

\* A user gives a command.
Give(c) ==
    /\ commands < MaxCommands
    /\ commands' = commands + 1
    /\ about' = [about EXCEPT ![commands'] = c]
    /\ Goto(commands', "check")
    /\ UNCHANGED <<cooldown, find, answers, at, seen, got>>

\* onCooldown: "Slow down!", or the command is let through: --find goes to its
\* thread, another one does its work and starts its cooldown in a thread.
Check(t) ==
    /\ pc[t] = "check"
    /\ Round(t, [found |-> "over", none |-> IF about[t].cmd = "find" THEN "look" ELSE "start"])
    /\ UNCHANGED <<cooldown, find, answers, about, seen, got, commands>>

\* startCooldown: an entry is made when there is none.
StartCooldown(t) ==
    /\ pc[t] = "start"
    /\ Round(t, [found |-> "sleep", none |-> "push"])
    /\ UNCHANGED <<cooldown, find, answers, about, seen, got, commands>>

EnterCooldown(t) ==
    /\ pc[t] = "push"
    /\ cooldown' = Append(cooldown, about[t])
    /\ Goto(t, "sleep")
    /\ UNCHANGED <<find, answers, about, at, seen, got, commands>>

\* 10 seconds or more later the first entry of the user and command is searched,
Wake(t) ==
    /\ pc[t] = "sleep"
    /\ at' = [at EXCEPT ![t] = 1]
    /\ Goto(t, "seek")
    /\ UNCHANGED <<cooldown, find, answers, about, seen, got, commands>>

\* Mutant of Seek: the last entry is not looked at.
SeekShort(t) ==
    /\ pc[t] = "seek"
    /\ IF at[t] >= Len(cooldown)
       THEN Goto(t, "over") /\ UNCHANGED at
       ELSE Round(t, [found |-> "erase", none |-> "over"])
    /\ UNCHANGED <<cooldown, find, answers, about, seen, got, commands>>

Seek(t) ==
    /\ pc[t] = "seek"
    /\ Round(t, [found |-> "erase", none |-> "over"])
    /\ UNCHANGED <<cooldown, find, answers, about, seen, got, commands>>

\* and erased by its position.  Past the end that is undefined: the last entry
\* goes, or the process.
Erase(t) ==
    /\ pc[t] = "erase"
    /\ Goto(t, "over")
    /\ \/ ~Past(t) /\ cooldown' = RemoveAt(cooldown, at[t]) /\ UNCHANGED alive
       \/ Past(t) /\ cooldown # <<>> /\ cooldown' = Front(cooldown) /\ UNCHANGED alive
       \/ Past(t) /\ alive' = FALSE /\ UNCHANGED cooldown
    /\ UNCHANGED <<find, answers, about, at, seen, got, commands>>
-----------------------------------------------------------------------------
\* --find

\* Mutant of Look: the answer to somebody else does not stop it.
LookAnyway(t) ==
    /\ pc[t] = "look"
    /\ seen' = [seen EXCEPT ![t] = answers]
    /\ Goto(t, "ask")
    /\ UNCHANGED <<cooldown, find, answers, about, at, got, commands>>

\* When an answer is kept the user gets no reply.
Look(t) ==
    /\ pc[t] = "look"
    /\ IF find = Nothing
       THEN seen' = [seen EXCEPT ![t] = answers] /\ Goto(t, "ask")
       ELSE Goto(t, "start") /\ UNCHANGED seen
    /\ UNCHANGED <<cooldown, find, answers, about, at, got, commands>>

\* sendPublic("?find ...")
SendFind(t) ==
    /\ pc[t] = "ask"
    /\ Goto(t, "wait")
    /\ UNCHANGED <<cooldown, find, answers, about, at, seen, got, commands>>

\* Three seconds later it compares what `find` holds: "Unknown" and nothing
\* need no further look.
Compare(t) ==
    /\ pc[t] = "wait"
    /\ \/ find # Nothing /\ Goto(t, "locate")
       \/ Goto(t, "clear")
    /\ UNCHANGED <<cooldown, find, answers, about, at, seen, got, commands>>

\* find.find(...), then find.substr(...): a position in a string that was
\* cleared or replaced since may lie past its end, and an exception nobody
\* catches ends the process.
Locate(t) ==
    /\ pc[t] = "locate"
    /\ got' = [got EXCEPT ![t] = find]
    /\ Goto(t, "cut")
    /\ UNCHANGED <<cooldown, find, answers, about, at, seen, commands>>

Cut(t) ==
    /\ pc[t] = "cut"
    /\ \/ find # Nothing /\ Goto(t, "clear") /\ UNCHANGED alive
       \/ (find = Nothing \/ find # got[t]) /\ alive' = FALSE /\ UNCHANGED pc
    /\ UNCHANGED <<cooldown, find, answers, about, at, seen, got, commands>>

\* Mutant of Clear: the answer is kept.
ClearNothing(t) ==
    /\ pc[t] = "clear"
    /\ Goto(t, "start")
    /\ UNCHANGED <<cooldown, find, answers, about, at, seen, got, commands>>

\* It has replied and clears the answer, whichever is there by now.
Clear(t) ==
    /\ pc[t] = "clear"
    /\ find' = Nothing
    /\ Goto(t, "start")
    /\ UNCHANGED <<cooldown, answers, about, at, seen, got, commands>>

\* A line of arena chat that looks like an answer: to a question of a thread,
\* in time or late, or to a ?find of anybody else who made the bot hear it.
GotAnswer ==
    /\ answers < MaxAnswers
    /\ answers' = answers + 1
    /\ find' = answers + 1
    /\ UNCHANGED <<cooldown, threads, commands>>
-----------------------------------------------------------------------------
\* The steps that cannot end the process.
Steady(t) ==
    \/ Check(t) \/ StartCooldown(t) \/ EnterCooldown(t) \/ Wake(t) \/ Seek(t)
    \/ Look(t) \/ SendFind(t) \/ Compare(t) \/ Locate(t) \/ Clear(t)

Step(t) ==
    /\ alive
    /\ \/ Erase(t) \/ Cut(t)
       \/ Steady(t) /\ UNCHANGED alive

Next ==
    \/ alive /\ UNCHANGED alive /\ \E c \in Command : Give(c)
    \/ \E t \in Thread : Step(t)
    \/ alive /\ UNCHANGED alive /\ GotAnswer

Spec == Init /\ [][Next]_vars

\* The operating system runs the threads, and sleeping ends.
FairSpec == Spec /\ \A t \in Thread : WF_vars(Step(t))
-----------------------------------------------------------------------------
\* Properties

Where == {"unused", "over", "check", "look", "start", "push", "sleep", "seek", "erase"} \cup Asking

TypeOK ==
    /\ cooldown \in Seq(Command)
    /\ find \in 0..MaxAnswers /\ answers \in 0..MaxAnswers
    /\ pc \in [Thread -> Where]
    /\ about \in [Thread -> Command]
    /\ at \in [Thread -> Nat \ {0}]
    /\ seen \in [Thread -> 0..MaxAnswers] /\ got \in [Thread -> 0..MaxAnswers]
    /\ commands \in 0..MaxCommands
    /\ alive \in BOOLEAN

\* No news from before the command: what a lookup reports, or is about to, if
\* there is anything, was said after it looked, also when lookups overlap, clear
\* each other's answers and read an answer that is replaced as they read it.
\* (It may be the answer to another question, or older than its own.)
FreshAnswers ==
    \A t \in Thread :
        /\ pc[t] \in Asking /\ find # Nothing => find > seen[t]
        /\ pc[t] = "cut" /\ got[t] # Nothing => got[t] > seen[t]

\* An answer that comes while a lookup is at work makes room for the next: the
\* last lookup to clear it does so after it came.
AnswersMakeRoom ==
    (find # Nothing /\ \E t \in Thread : pc[t] \in Asking) ~> (find = Nothing \/ ~alive)

\* Nobody is barred for good while no two timers end at the same time: an entry
\* is erased, also when the check and the entry, made by different threads, let
\* the same command through twice, and when entries move as others are sought.
TimersCross == \E t, u \in Thread : t # u /\ {pc[t], pc[u]} \subseteq {"seek", "erase"}
OnCooldown(c) == \E i \in DOMAIN cooldown : cooldown[i] = c
CooldownsEnd ==
    [](~TimersCross) => \A c \in Command : OnCooldown(c) ~> (~OnCooldown(c) \/ ~alive)
-----------------------------------------------------------------------------
\* What the program says of itself, and does not keep.

\* "There is a 10 second cooldown until you can use this command again"
\* (events.cpp:317): the cooldown of a process that goes on does end.  Two timers
\* that end at the same time shift the entries under each other, and what neither
\* erases nobody erases.
CooldownIsOver == \A c \in Command : OnCooldown(c) ~> (~OnCooldown(c) \/ ~alive)

\* "find <PlayerName> (runs a ?find search in SSC)" (events.cpp:258): with no
\* other lookup at work nothing keeps one from asking.  An answer that comes when
\* nobody waits for it is kept, and no lookup asks or clears any more.
FindAsks ==
    \A t \in Thread :
        pc[t] = "look" /\ (\A u \in Thread : pc[u] \notin Asking) => find = Nothing
=============================================================================
