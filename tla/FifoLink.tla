------------------------------ MODULE FifoLink ------------------------------
(***************************************************************************)
(* What one direction of the reliable transport promises to the layer      *)
(* above it, whatever the network does: the receiver sees the messages the *)
(* sender posted, all of them, once, and in the order they were posted.    *)
(* ReliableOut (the bot sends, the server receives) and ReliableIn (the    *)
(* server sends, the bot receives) are each shown to implement it.         *)
(***************************************************************************)
EXTENDS Naturals, Sequences

VARIABLES posted,     \* every message handed to the sender, in order
          delivered   \* every message handed to the receiver's handlers, in order

vars == <<posted, delivered>>

Init == posted = <<>> /\ delivered = <<>>

\* The sender accepts one message, or the fragments of a long one.
Post == /\ Len(posted') > Len(posted)
        /\ SubSeq(posted', 1, Len(posted)) = posted
        /\ UNCHANGED delivered

\* The receiver handles the next message, or several that were waiting for it.
Deliver == /\ \E n \in (Len(delivered) + 1)..Len(posted) :
                  delivered' = SubSeq(posted, 1, n)
           /\ UNCHANGED posted

Next == Post \/ Deliver

Spec == Init /\ [][Next]_vars

\* A link that does not stop: what is posted is delivered some day.
FairSpec == Spec /\ WF_vars(Deliver)
=============================================================================
