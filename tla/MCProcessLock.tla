--------------------------- MODULE MCProcessLock ---------------------------
(* Three processes, two of which may crash and come back under their pids; *)
(* the third is the one in which an operator runs `unlock` as well.        *)
EXTENDS ProcessLock

CONSTANTS p1, p2, p3

MCProcs == {p1, p2, p3}
MCOperators == {p3}
MCCrashes == [p \in MCProcs |-> IF p = p3 THEN 0 ELSE 1]
NoOperators == {}
=============================================================================
