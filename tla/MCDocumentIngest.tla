-------------------------- MODULE MCDocumentIngest --------------------------
(* Two workers ingest one file, of which there are three versions.         *)
EXTENDS DocumentIngest, TLC

CONSTANTS w1, w2

MCWorkers == {w1, w2}
MCIds == 1 .. 3

Part(heading, section, part, text) ==
    [heading |-> heading, section |-> section, part |-> part, text |-> text]

(* A and B; A gone and B changed; B gone and A in two parts.              *)
MCDocuments ==
    {<<Part("A", 1, 0, "a"), Part("B", 2, 0, "b")>>,
     <<Part("B", 1, 0, "new b")>>,
     <<Part("A", 1, 0, "a"), Part("A", 1, 1, "more a")>>}

(* Two sections under one heading. *)
SameHeadings == {<<Part("A", 1, 0, "a"), Part("A", 2, 0, "b")>>}

(* A section is put before the others. *)
Prefixed ==
    {<<Part("B", 1, 0, "b"), Part("C", 2, 0, "c")>>,
     <<Part("A", 1, 0, "a"), Part("B", 2, 0, "b"), Part("C", 3, 0, "c")>>}

(* What is matched: a text, a text and its content hash, and a hash.       *)
MCPatterns == {[texts |-> {"a", "b"}, hashes |-> {"b", "new b"}]}

NoPatterns == {}

(* Bound: there are no redacted records once workers have raced. *)
RacesUnredacted == raced => \A m \in Ids : Present(m) => store[m].redacted = {}

Symmetry == Permutations(MCWorkers)
=============================================================================
