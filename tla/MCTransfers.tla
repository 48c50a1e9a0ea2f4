---------------------------- MODULE MCTransfers -----------------------------
(***************************************************************************)
(* Two small messages and two files, one of each within its limit and one  *)
(* over it; the server sends three of them, in any order and more than     *)
(* once, in two sessions.                                                  *)
(***************************************************************************)
EXTENDS Transfers, TLC

CONSTANTS chat, list, level, archive

Lengths == chat :> 2 @@ list :> 3 @@ level :> 3 @@ archive :> 6
=============================================================================
