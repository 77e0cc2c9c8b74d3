---------------------------- MODULE MCLocalModel ----------------------------
(* A model of two files, and the embeddings of two memories.               *)
EXTENDS Embeddings

CONSTANTS r1, r2

(* The configuration names version 1, of revision 1.  One source has no    *)
(* manifest; of those of revision 2 one names its version, and one has a   *)
(* digest only.  Names and lists that differ are those of manifests that   *)
(* are written in part.                                                    *)
MCDimensions == [r \in Revisions |-> 12]

MCWeights == {"net", "vocabulary"}

MCBefore == [w \in MCWeights |-> IF w = "net" THEN {} ELSE {"net"}]

MCVersions == {"v1", "v2", "d2", "v"}

MCRevisionOf == [v \in MCVersions |->
    CASE v = "v1" -> 1 [] v \in {"v2", "d2"} -> 2 [] OTHER -> None]

Source(revision, manifest) ==
    [weights |-> [w \in Weights |-> revision], manifest |-> manifest]

Listed(revision, digest) ==
    [model |-> Model, revision |-> revision, digest |-> digest, dim |-> 12,
     sums |-> [w \in Weights |-> 2]]

MCSources ==
    {Source(1, None), Source(2, Listed("v2", None)), Source(2, Listed(None, "d2"))}

MCSettings ==
    {[policy |-> "quarantine", requireManifest |-> FALSE,
      requireChecksums |-> FALSE],
     [policy |-> "reembed", requireManifest |-> TRUE, requireChecksums |-> TRUE]}

MCRecords == {r1, r2}

MCSupplied == {[by |-> None, vouched |-> FALSE, model |-> Model,
                version |-> "v1", dim |-> 12]}
=============================================================================
