------------------------------ MODULE MCWrites ------------------------------
(* Writes that others interfere with: two clients change the same          *)
(* memories, or a memory is embedded while its model is installed.  The    *)
(* two share no state (a memory's embedding decides nothing in the first), *)
(* so a behaviour is one of the two.                                       *)
EXTENDS MCMemories, MCLocalModel

VARIABLE part

writeVars == <<vars, embeddingVars, part>>

AnySetting == CHOOSE s \in Settings : TRUE

WritesInit ==
    /\ part \in {"memories", "local"}
    /\ Init /\ EmbeddingInit
    /\ part = "memories" => directory = None /\ settings = AnySetting

WritesNext ==
    /\ \/ part = "memories" /\ Next /\ UNCHANGED embeddingVars
       \/ part = "local" /\ EmbeddingNext /\ UNCHANGED vars
    /\ UNCHANGED part

WritesSpec == WritesInit /\ [][WritesNext]_writeVars

WritesSymmetry == Symmetry \cup Permutations(MCRecords)
=============================================================================
