------------------------------ MODULE Delivery ------------------------------
(***************************************************************************)
(* What the long messages of a server come to, whatever pieces they travel *)
(* in: each message is handled whole and once, in the order in which the   *)
(* messages were completed; a lost session takes with it what is on its    *)
(* way and nothing else.  Transfers is shown to implement it.              *)
(***************************************************************************)
EXTENDS Naturals, Sequences

VARIABLES pending,   \* completed by the server and not handled yet, in order
          handled    \* given to the handlers, in order

vars == <<pending, handled>>

Init == pending = <<>> /\ handled = <<>>

\* One message more, added at the end.
Complete == /\ Len(pending') = Len(pending) + 1
            /\ SubSeq(pending', 1, Len(pending)) = pending
            /\ UNCHANGED handled

Handle == /\ pending # <<>>
          /\ handled' = Append(handled, Head(pending))
          /\ pending' = Tail(pending)

SessionLost == pending' = <<>> /\ UNCHANGED handled

Next == Complete \/ Handle \/ SessionLost

Spec == Init /\ [][Next]_vars

\* What was completed is handled, unless the session is lost.
FairSpec == Spec /\ WF_vars(Handle)
=============================================================================
