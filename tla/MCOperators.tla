----------------------------- MODULE MCOperators -----------------------------
(* Model values and first files for the run of Operators. *)
EXTENDS Operators, TLC

CONSTANTS ann, bob, nobody

Op(level, pass) == [level |-> level, pass |-> pass]

\* Operators of several ranks, with and without a password, one of a level
\* nobody has, and nobody.
MCFirstFiles == {ann :> Op(l, p) @@ bob :> Op(Moderator, "pass") : l \in {SuperModerator, Owner}, p \in Passwords}
                    \cup {ann :> Op(SysOp, "") @@ bob :> Op(Unknown, "")}
=============================================================================
