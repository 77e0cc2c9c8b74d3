-------------------------------- MODULE Lock --------------------------------
(***************************************************************************)
(* What the lock of a database promises, without files, pids or system     *)
(* calls: it is taken only when it is free, by one user; only its holder   *)
(* gives it back; a holder that dies leaves it taken, and only such an     *)
(* abandoned lock is cleared by others.  ProcessLock implements it in the  *)
(* executions in which nobody unlinks another file than it has read.       *)
(***************************************************************************)
CONSTANT Users

VARIABLES
    holders,   \* the users that hold the lock
    free       \* may it be taken?

Init == holders = {} /\ free = TRUE

Take == /\ free
        /\ \E u \in Users : holders' = {u}
        /\ free' = FALSE

Give == /\ holders # {}
        /\ holders' = {}
        /\ free' = TRUE

Abandon == /\ holders # {}
           /\ holders' = {}
           /\ UNCHANGED free

Clear == /\ holders = {} /\ ~free
         /\ free' = TRUE
         /\ UNCHANGED holders

Next == Take \/ Give \/ Abandon \/ Clear

Spec == Init /\ [][Next]_<<holders, free>>
=============================================================================
