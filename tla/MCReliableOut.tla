--------------------------- MODULE MCReliableOut ----------------------------
(* Model values for the run of ReliableOut. *)
EXTENDS ReliableOut, SequencesExt

CONSTANTS d1, d2, frag

\* The outbox never looks at a body: one order of two bodies, in which each
\* exchange of neighbours shows, stands for all.
OneOrder == IsPrefix(posted, <<d1, d2, d1>>)
=============================================================================
