----------------------------- MODULE MCUpgrade -----------------------------
(* One database from before the version row, or none at all.               *)
EXTENDS Upgrade

MCLegacy ==
    {[version |-> 0, applied |-> {}, typed |-> FALSE, placed |-> FALSE,
      dimension |-> 0]}
=============================================================================
