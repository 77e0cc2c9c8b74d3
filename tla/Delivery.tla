------------------------------ MODULE Delivery ------------------------------
(***************************************************************************)
(* What the manifest of a folder ingestion promises, without files, runs   *)
(* or connections: at-least-once delivery with acknowledgements.  An item  *)
(* may be delivered again, and an acknowledgement may be lost (a run that  *)
(* read the manifest earlier writes it over), but nothing is acknowledged  *)
(* before it was delivered.  FolderIngest implements it.                   *)
(***************************************************************************)
CONSTANT Items

VARIABLES delivered, acked

Init == delivered = {} /\ acked = {}

Deliver == /\ \E i \in Items : delivered' = delivered \cup {i}
           /\ UNCHANGED acked

Acknowledge == /\ acked' \in SUBSET delivered
               /\ UNCHANGED delivered

Next == Deliver \/ Acknowledge

Spec == Init /\ [][Next]_<<delivered, acked>>
=============================================================================
