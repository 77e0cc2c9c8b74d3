---------------------------- MODULE MCMemories ----------------------------
(* Two clients and two memories. *)
EXTENDS Memories, TLC

CONSTANTS c1, c2, m1, m2

MCClients == {c1, c2}
MCIds     == {m1, m2}
MCScopes  == {MCIds}
NoScopes  == {}
MCPayloads ==
    {[status |-> "active", retrieval |-> TRUE, due |-> FALSE,
      supersededBy |-> Nobody, version |-> 1]}
MCPatches ==
    {Empty, [status |-> "active", retrieval |-> TRUE, due |-> FALSE]}

Symmetry == Permutations(MCClients) \cup Permutations(MCIds)
=============================================================================
