--------------------------------- MODULE Rest ---------------------------------
(***************************************************************************)
(* Requests to Discord: core::async() posts each to the pool of io threads,  *)
(* the thread that runs it holds the bucket of its path while it waits for    *)
(* the rate limit and for the answer, and the answer reaches whoever asked    *)
(* through a promise and a future.                                          *)
(*                                                                         *)
(* The client is create_dm_message() for a user who has no channel yet: the   *)
(* first request opens the channel, and the continuation registered with     *)
(* then() makes the second, which sends the message, and waits for its       *)
(* answer.  The continuation is run by the caller when the first answer is   *)
(* there already, and otherwise by an io thread.                            *)
(*                                                                         *)
(* future::state() tests the pointer to the promise before it locks anything, *)
(* follows it under the locks, and returns a pointer to the promise's state   *)
(* that the caller uses without them; the promise may be moved or destroyed    *)
(* between any two of these.  promise::set_value() locks nothing.  All of it   *)
(* is split into its steps here.  A null pointer that is followed, memory of   *)
(* a promise that is gone, and a state that is consumed but holds something    *)
(* else may end the program (`crashed`).                                     *)
(***************************************************************************)
EXTENDS Integers, Sequences

CONSTANTS Dms,                \* private messages, each with a thread that sends it
          Threads,            \* the io threads
          None                \* nobody

ASSUME RestAssumption == Dms \cap Threads = {} /\ None \notin Dms \cup Threads

Actors == Dms \cup Threads
Calls == Dms \X {"open", "send"}
Open(d) == <<d, "open">>
Send(d) == <<d, "send">>

\* The bucket of a call: all channels are opened through one path.
Path(c) == IF c[2] = "open" THEN "users" ELSE c[1]
Paths == Dms \cup {"users"}

VARIABLES
    queue,                    \* what is posted to the io threads
    actor,                    \* what each thread is doing, and for which call
    holder,                   \* who holds the mutex of a bucket
    linked,                   \* future and promise of a call know each other
    own, kept,                \* the state in the promise, in the future
    task, cell,               \* the continuation of a message, and its state
    outer,                    \* what the future of create_dm_message() says
    accepted,                 \* how often Discord did what a call asks for
    crashed

futureVars == <<linked, own, kept, task, cell>>
restVars == <<queue, actor, holder, futureVars, outer, accepted, crashed>>

States == {"unset", "ok", "error"}

\* What a thread is at while it performs a call of the queue.
Serving == {"perform", "request", "again", "load", "store", "ready", "drop"}

\* What a thread is at while it asks for the state of a future.
Inquiring == {"see", "read", "use", "test", "unlink", "move"}

\* A thread with no call in hand and no pointer.
Doing(place) == [at |-> place, call |-> None, why |-> "", value |-> "unset", ptr |-> "none"]

RestInit ==
    /\ queue = <<>>
    /\ actor = [a \in Actors |-> Doing(IF a \in Dms THEN "start" ELSE "idle")]
    /\ holder = [b \in Paths |-> None]
    /\ linked = [c \in Calls |-> FALSE]
    /\ own = [c \in Calls |-> "unset"] /\ kept = [c \in Calls |-> "unset"]
    /\ task = [d \in Dms |-> "none"] /\ cell = [d \in Dms |-> "unset"]
    /\ outer = [d \in Dms |-> "unset"]
    /\ accepted = [c \in Calls |-> 0]
    /\ crashed = FALSE

At(a, place) == ~crashed /\ actor[a].at = place
Move(a, place) == actor' = [actor EXCEPT ![a].at = place]
Ask(a, c, why) ==
    actor' = [actor EXCEPT ![a] = [Doing("see") EXCEPT !.call = c, !.why = why]]
Retire(a) == actor' = [actor EXCEPT ![a] = Doing(IF a \in Dms THEN "end" ELSE "idle")]
Crash == crashed' = TRUE /\ UNCHANGED <<queue, actor, holder, futureVars, outer, accepted>>

Work(c) == [kind |-> "call", call |-> c]
Continuation(d) == [kind |-> "continuation", call |-> Open(d)]

\* Where the promise of call c is: in the request that is posted, with the
\* thread that took the request, or destroyed.
Queued == {queue[i] : i \in DOMAIN queue}
Performs(t, c) == actor[t].at \in Serving /\ actor[t].call = c
Home(c) == IF Work(c) \in Queued THEN "queue"
           ELSE IF \E t \in Threads : Performs(t, c) THEN "thread" ELSE "gone"

\* async(): a promise, its future, and the request posted.
Async(a, c, why) ==
    /\ queue' = Append(queue, Work(c))
    /\ linked' = [linked EXCEPT ![c] = TRUE]
    /\ Ask(a, c, why)
-----------------------------------------------------------------------------
\* The thread that sends a message: create_dm_message(), then(), schedule()

Start(d) ==
    /\ At(d, "start")
    /\ Async(d, Open(d), "then")
    /\ UNCHANGED <<holder, own, kept, task, cell, outer, accepted, crashed>>

\* then() consumes the state as a value or as an exception, as failed() said
\* when it asked on its own, and the state holds something else.
Clash(a, value) ==
    actor[a].why = "take" /\ (value = "unset" \/ (value = "error") # (actor[a].value = "error"))

\* What follows when the state of the future is read: value is what it holds.
\* then() asks whether there is a value, then whether it is an exception, and
\* then takes it; schedule() asks again, and once more for the value it posts.
Found(a, value) ==
    LET c == actor[a].call
        d == c[1]
        why == actor[a].why
    IN  /\ ~Clash(a, value)
        /\ \/ /\ \/ why = "then" /\ value = "unset" /\ Ask(a, c, "schedule")
                 \/ why = "then" /\ value # "unset" /\ Ask(a, c, "failed")
                 \/ /\ why = "failed"
                    /\ actor' = [actor EXCEPT ![a] =
                         [Doing("see") EXCEPT !.call = c, !.why = "take", !.value = value]]
                 \/ /\ why = "schedule" /\ value = "unset"
                    /\ actor' = [actor EXCEPT ![a] = [Doing("lock") EXCEPT !.call = c]]
                 \/ why = "schedule" /\ value # "unset" /\ Ask(a, c, "post")
                 \/ why = "get" /\ value = "unset" /\ Ask(a, c, "get")
              /\ UNCHANGED <<queue, linked, cell, task>>
           \/ /\ why = "post"
              /\ queue' = Append(queue, Continuation(d))
              /\ cell' = [cell EXCEPT ![d] = value]
              /\ task' = [task EXCEPT ![d] = "posted"]
              /\ linked' = [linked EXCEPT ![c] = FALSE]
              /\ Retire(a)
           \/ /\ why = "take"
              /\ cell' = [cell EXCEPT ![d] = value]
              /\ actor' = [actor EXCEPT ![a] = [Doing("run") EXCEPT !.call = c]]
              /\ UNCHANGED <<queue, linked, task>>
           \/ /\ why = "get" /\ value # "unset"
              /\ linked' = [linked EXCEPT ![c] = FALSE]
              /\ actor' = [actor EXCEPT ![a] =
                   [Doing("answer") EXCEPT !.call = c, !.value = value]]
              /\ UNCHANGED <<queue, cell, task>>
        /\ UNCHANGED <<holder, own, kept, outer, accepted, crashed>>

\* state(), before it locks: is there a promise?  Without one the state is in
\* the future, where nobody else touches it.
See(a) ==
    /\ At(a, "see")
    /\ LET c == actor[a].call
       IN  \/ /\ linked[c]
              /\ Move(a, "read")
              /\ UNCHANGED <<queue, holder, futureVars, outer, accepted, crashed>>
           \/ ~linked[c] /\ Found(a, kept[c])
           \/ ~linked[c] /\ Clash(a, kept[c]) /\ Crash

\* state(), under the locks: the pointer to the promise is followed, which
\* abandoned() may have cleared.
Read(a) ==
    /\ At(a, "read")
    /\ LET c == actor[a].call
       IN  \/ /\ linked[c]
              /\ actor' = [actor EXCEPT ![a].at = IF actor[a].why = "take" THEN "test" ELSE "use",
                                        ![a].ptr = Home(c)]
              /\ UNCHANGED <<queue, holder, futureVars, outer, accepted, crashed>>
           \/ ~linked[c] /\ Crash

\* The pointer that state() returned is used, the locks released: what it
\* points to may have been moved away, or be memory of something else.
Overtaken(a) == actor[a].ptr # Home(actor[a].call)
Use(a) ==
    /\ At(a, "use")
    /\ \/ ~Overtaken(a) /\ Found(a, own[actor[a].call])
       \/ Overtaken(a) /\ (Found(a, "unset") \/ Crash)

\* get_available_state(): the promise is tested without a lock, unlinked under
\* the locks, and the state is taken through the pointer state() returned.
Test(a) ==
    /\ At(a, "test")
    /\ Move(a, IF linked[actor[a].call] THEN "unlink" ELSE "move")
    /\ UNCHANGED <<queue, holder, futureVars, outer, accepted, crashed>>

Unlink(a) ==
    /\ At(a, "unlink")
    /\ \/ /\ linked[actor[a].call]
          /\ linked' = [linked EXCEPT ![actor[a].call] = FALSE]
          /\ Move(a, "move")
          /\ UNCHANGED <<queue, holder, own, kept, task, cell, outer, accepted, crashed>>
       \/ ~linked[actor[a].call] /\ Crash

MoveOut(a) ==
    /\ At(a, "move")
    /\ \/ ~Overtaken(a) /\ Found(a, own[actor[a].call])
       \/ (Overtaken(a) \/ Clash(a, own[actor[a].call])) /\ Crash

\* The locked part of schedule(): whether the value has come since it was
\* looked for is not asked again.
Schedule(d) ==
    /\ At(d, "lock")
    /\ \/ /\ linked[Open(d)]
          /\ task' = [task EXCEPT ![d] = "held"]
          /\ linked' = [linked EXCEPT ![Open(d)] = FALSE]
          /\ Retire(d)
          /\ UNCHANGED <<queue, holder, own, kept, cell, outer, accepted, crashed>>
       \/ ~linked[Open(d)] /\ Crash
-----------------------------------------------------------------------------
\* An io thread

Take(t) ==
    /\ At(t, "idle") /\ queue # <<>>
    /\ queue' = Tail(queue)
    /\ LET job == Head(queue)
       IN  actor' = [actor EXCEPT ![t].call = job.call,
                                  ![t].at = IF job.kind = "call" THEN "perform" ELSE "run"]
    /\ UNCHANGED <<holder, futureVars, outer, accepted, crashed>>

\* perform(): the bucket is held while the thread waits for the rate limit,
\* for the answer, and after 429 for the second one.
Lock(t) ==
    /\ At(t, "perform")
    /\ holder[Path(actor[t].call)] = None
    /\ holder' = [holder EXCEPT ![Path(actor[t].call)] = t]
    /\ Move(t, "request")
    /\ UNCHANGED <<queue, futureVars, outer, accepted, crashed>>

\* Mutant: a failed call keeps the bucket.
AnsweredHeld(t, value) ==
    /\ holder' = [holder EXCEPT ![Path(actor[t].call)] = IF value = "ok" THEN None ELSE t]
    /\ actor' = [actor EXCEPT ![t].at = "load", ![t].value = value]

\* The bucket is released with the answer.
Answered(t, value) ==
    /\ holder' = [holder EXCEPT ![Path(actor[t].call)] = None]
    /\ actor' = [actor EXCEPT ![t].at = "load", ![t].value = value]
Performed(t) ==
    /\ accepted' = [accepted EXCEPT ![actor[t].call] = @ + 1]
    /\ Answered(t, "ok")

\* The answer may be an error also when the server has done what was asked.
Failed(t) ==
    /\ accepted' \in {accepted, [accepted EXCEPT ![actor[t].call] = @ + 1]}
    /\ Answered(t, "error")

\* Mutant of Request: an answer of any kind that failed is tried again.
RequestTwice(t) ==
    /\ At(t, "request")
    /\ \/ Performed(t)
       \/ /\ accepted' = [accepted EXCEPT ![actor[t].call] = @ + 1]
          /\ Move(t, "again") /\ UNCHANGED holder
    /\ UNCHANGED <<queue, futureVars, outer, crashed>>

Request(t) ==
    /\ At(t, "request")
    /\ \/ Performed(t)
       \/ Failed(t)
       \/ Move(t, "again") /\ UNCHANGED <<holder, accepted>>
    /\ UNCHANGED <<queue, futureVars, outer, crashed>>

Again(t) ==
    /\ At(t, "again")
    /\ Performed(t) \/ Failed(t)
    /\ UNCHANGED <<queue, futureVars, outer, crashed>>

\* A continuation is held for the call t performs.
Held(t) == actor[t].call[2] = "open" /\ task[actor[t].call[1]] = "held"

\* set_value(), set_exception(): the pointer to the state is read, what it
\* points to is set, and only then is the continuation looked for.
Load(t) ==
    /\ At(t, "load")
    /\ actor' = [actor EXCEPT ![t].at = "store", ![t].why = IF Held(t) THEN "cell" ELSE "own"]
    /\ UNCHANGED <<queue, holder, futureVars, outer, accepted, crashed>>

Store(t) ==
    /\ At(t, "store")
    /\ LET c == actor[t].call
       IN  \/ /\ actor[t].why = "cell"
              /\ cell' = [cell EXCEPT ![c[1]] = actor[t].value]
              /\ UNCHANGED own
           \/ /\ actor[t].why = "own"
              /\ own' = [own EXCEPT ![c] = actor[t].value]
              /\ UNCHANGED cell
    /\ actor' = [actor EXCEPT ![t] = [Doing("ready") EXCEPT !.call = actor[t].call]]
    /\ UNCHANGED <<queue, holder, linked, kept, task, outer, accepted, crashed>>

\* Mutant of MakeReady: the continuation is not posted.
MakeReadyOnly(t) ==
    /\ At(t, "ready")
    /\ Move(t, "drop")
    /\ UNCHANGED <<queue, task, holder, linked, own, kept, cell, outer, accepted, crashed>>

\* make_ready()
MakeReady(t) ==
    /\ At(t, "ready")
    /\ \/ /\ Held(t)
          /\ queue' = Append(queue, Continuation(actor[t].call[1]))
          /\ task' = [task EXCEPT ![actor[t].call[1]] = "posted"]
       \/ ~Held(t) /\ UNCHANGED <<queue, task>>
    /\ Move(t, "drop")
    /\ UNCHANGED <<holder, linked, own, kept, cell, outer, accepted, crashed>>

\* Mutant of Drop: the future does not get the state.
DropUnkept(t) ==
    /\ At(t, "drop")
    /\ LET c == actor[t].call
       IN  /\ linked' = [linked EXCEPT ![c] = FALSE]
           /\ outer' = IF Held(t) THEN [outer EXCEPT ![c[1]] = "lost"] ELSE outer
    /\ Retire(t)
    /\ UNCHANGED <<queue, holder, own, kept, task, cell, accepted, crashed>>

\* The request is destroyed and the promise with it, abandoned(): a future
\* that is still there gets the state.  A continuation that is still there is
\* destroyed, and the future of then() waits for ever.
Drop(t) ==
    /\ At(t, "drop")
    /\ LET c == actor[t].call
       IN  /\ linked' = [linked EXCEPT ![c] = FALSE]
           /\ kept' = IF linked[c] THEN [kept EXCEPT ![c] = own[c]] ELSE kept
           /\ outer' = IF Held(t) THEN [outer EXCEPT ![c[1]] = "lost"] ELSE outer
    /\ Retire(t)
    /\ UNCHANGED <<queue, holder, own, task, cell, accepted, crashed>>
-----------------------------------------------------------------------------
\* The continuation of create_dm_message(), run by an io thread or in place

Run(a) ==
    /\ At(a, "run")
    /\ LET d == actor[a].call[1]
       IN  \/ /\ cell[d] = "ok"
              /\ Async(a, Send(d), "get")
              /\ UNCHANGED <<holder, own, kept, task, cell, outer, accepted, crashed>>
           \/ /\ cell[d] = "error"
              /\ outer' = [outer EXCEPT ![d] = "error"]
              /\ Retire(a)
              /\ UNCHANGED <<queue, holder, futureVars, accepted, crashed>>
           \/ cell[d] = "unset" /\ Crash

\* forward_to(): the answer to the second request is the answer to the first.
ForwardTo(a) ==
    /\ At(a, "answer")
    /\ outer' = [outer EXCEPT ![actor[a].call[1]] = actor[a].value]
    /\ Retire(a)
    /\ UNCHANGED <<queue, holder, futureVars, accepted, crashed>>
-----------------------------------------------------------------------------
Follow(a) == \/ See(a) \/ Read(a) \/ Use(a) \/ Test(a) \/ Unlink(a) \/ MoveOut(a)
             \/ Run(a) \/ ForwardTo(a)
Call(d) == Start(d) \/ Schedule(d) \/ Follow(d)
Serve(t) == \/ Take(t) \/ Request(t) \/ Again(t) \/ Load(t) \/ Store(t) \/ MakeReady(t) \/ Drop(t)
            \/ Follow(t)

RestNext == (\E d \in Dms : Call(d)) \/ (\E t \in Threads : Serve(t) \/ Lock(t))

RestSpec == RestInit /\ [][RestNext]_restVars

\* Threads run, Discord answers or the connection fails, and a mutex that is
\* free again and again is got.
RestFairness ==
    /\ \A d \in Dms : WF_restVars(Call(d))
    /\ \A t \in Threads : WF_restVars(Serve(t)) /\ SF_restVars(Lock(t))

RestFairSpec == RestSpec /\ RestFairness
-----------------------------------------------------------------------------
\* Properties

RestTypeOK ==
    /\ linked \in [Calls -> BOOLEAN] /\ own \in [Calls -> States] /\ kept \in [Calls -> States]
    /\ task \in [Dms -> {"none", "held", "posted"}] /\ cell \in [Dms -> States]
    /\ outer \in [Dms -> States \cup {"lost"}]
    /\ holder \in [Paths -> Threads \cup {None}]
    /\ \A t \in Threads, b \in Paths :
          holder[b] = t <=> actor[t].at \in {"request", "again"} /\ Path(actor[t].call) = b

\* A channel is opened and a message is sent at most once, although requests
\* are repeated after a 429 and the continuation is posted in three places.
SentOnce == \A c \in Calls : accepted[c] <= 1

\* The continuation was registered while the answer was being stored: then()
\* came between the two halves of set_value(), and the answer stayed in the
\* promise.
Late(d) ==
    task[d] # "none" /\ cell[d] = "unset" /\ own[Open(d)] # "unset" /\ kept[Open(d)] = "unset"

\* The continuation was posted with a state that the promise had handed over
\* to the future after state() returned a pointer to it.
PostedBehind(d) == task[d] = "posted" /\ cell[d] = "unset" /\ kept[Open(d)] # "unset"

\* A continuation runs, or is about to.
Runs(a, d) == actor[a].at = "run" /\ actor[a].call = Open(d)
ToRunNow(d) == Continuation(d) \in Queued \/ \E a \in Actors : Runs(a, d)

\* There are two ways for a continuation to miss its value and no other: only
\* one that was registered late is forgotten, and only one that was registered
\* late or posted behind the hand-over is run without a value.
LostOnlyInRaces ==
    \A d \in Dms :
        /\ outer[d] = "lost" => Late(d)
        /\ ToRunNow(d) /\ cell[d] = "unset" => Late(d) \/ PostedBehind(d)

Waiting(t) == actor[t].at \in Inquiring

\* Every private message ends, sent or refused, if no pointer is followed too
\* late, no continuation is forgotten and the io threads are not all waiting
\* for requests that only they could perform.
EveryMessageEnds ==
    [](~crashed /\ \A d \in Dms : outer[d] # "lost") /\ []<>(\E t \in Threads : ~Waiting(t))
        => \A d \in Dms : <>(outer[d] \in {"ok", "error"})

\* future_state::get_value() asserts that the state holds a result: no
\* continuation runs before its state is set.  The code does not keep it.
RunsWithItsValue ==
    \A a \in Actors : actor[a].at = "run" => cell[actor[a].call[1]] # "unset"
=============================================================================
