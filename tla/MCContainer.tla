---------------------------- MODULE MCContainer ----------------------------
(* Two threads call the store and a third closes it, in any order. *)
EXTENDS Container, TLC

CONSTANTS t1, t2, t3

MCCallers == {t1, t2}
MCClosers == {t3}
NoClosers == {}

Symmetry == Permutations(MCCallers)

(* Once calls have crossed, only the type invariant says something. *)
Uncrossed == disorder # "crossed"
=============================================================================
