------------------------------- MODULE Scoring -------------------------------
(***************************************************************************)
(* The scores of a search's candidates (scoring.py): every component is    *)
(* normalised over the candidates, the weighted mean of what a candidate   *)
(* has is its score, the best go to the reranker (retrieval/rerank.py),    *)
(* and with its scores everything is normalised and scored again.          *)
(*                                                                         *)
(* Numbers are integers: 1.0 is Unit, a multiple of every difference of    *)
(* two raw scores, so that normalising divides without a rest; weights are *)
(* multiples of 1/45, the denominator of the reranker's shares; a final    *)
(* score is a fraction.                                                    *)
(***************************************************************************)
EXTENDS Integers, FiniteSets, FiniteSetsExt

CONSTANTS
    LastCandidate,  \* candidates are 1 .. LastCandidate, by their ids
    Profiles,       \* the scores that a candidate may come with
    RerankScores,   \* what the reranker may answer
    RerankTop,      \* settings.reranker.top_n
    Unit,           \* 1.0
    WeightMaps,     \* the settings.scoring weights in use
    NoScore         \* the component is missing

Contenders == 1 .. LastCandidate

(* Those of retrieval, of the memory, of its owner and of the reranker. *)
Components == {"retrieval_fusion", "vector", "full_text", "graph", "temporal",
               "importance", "confidence", "user_rating", "reranker"}

ASSUME ScoringAssumption ==
    /\ LastCandidate \in Nat /\ RerankTop \in Nat /\ Unit \in Nat \ {0}
    /\ NoScore \notin Int /\ RerankScores \subseteq Int
    /\ Profiles \subseteq [Components -> Int \cup {NoScore}]
    /\ \A p \in Profiles : p["reranker"] = NoScore
    /\ WeightMaps \subseteq [Components -> Int]

VARIABLES
    raw,        \* component_scores of each candidate
    weights,    \* the weight map
    reranking,  \* settings.reranker.enabled
    final,      \* the score of each candidate
    phase       \* how far the scoring is

scoringVars == <<raw, weights, reranking, final, phase>>

ScoringInit ==
    /\ raw \in [Contenders -> Profiles]
    /\ weights \in WeightMaps
    /\ reranking \in BOOLEAN
    /\ final = [m \in Contenders |-> [num |-> 0, den |-> 1]]
    /\ phase = "enriched"

-----------------------------------------------------------------------------
Clamp(value) == IF value < 0 THEN 0 ELSE IF value > Unit THEN Unit ELSE value

(* Those that are between 0.0 and 1.0 by themselves. *)
Prenormalized == {"temporal", "importance", "confidence", "user_rating"}

(* normalize_candidate_scores, of one component of one candidate. *)
Normalized(m, c) ==
    LET values  == {raw[n][c] : n \in Contenders} \ {NoScore}
        minimum == Min(values)
        maximum == Max(values)
    IN  IF c \in Prenormalized THEN Clamp(raw[m][c])
        ELSE IF maximum = minimum THEN (IF raw[m][c] > 0 THEN Unit ELSE 0)
        ELSE ((raw[m][c] - minimum) * Unit) \div (maximum - minimum)

(* _RERANKER_REDISTRIBUTION, of 45. *)
Share == [c \in Components |->
            CASE c = "retrieval_fusion" -> 25 [] c = "vector" -> 12
              [] c = "full_text" -> 8         [] OTHER -> 0]

Positive(weight) == IF weight < 0 THEN 0 ELSE weight

(* _effective_weights, times 45: without a reranker, its weight is shared. *)
EffectiveWeight(c) ==
    IF reranking THEN 45 * Positive(weights[c])
    ELSE IF c = "reranker" THEN 0
    ELSE 45 * Positive(weights[c]) + Share[c] * Positive(weights["reranker"])

(* mutant: whatever is missing leaves the mean *)
AnyIsOptional(c) == TRUE

(* _OPTIONAL_COMPONENTS: a memory that nobody has rated is not rated 0. *)
IsOptional(c) == c = "user_rating"

(* The components whose weight is in the denominator. *)
Counted(m) == {c \in Components : raw[m][c] # NoScore \/ ~IsOptional(c)}

(* A sum over the components. *)
TotalOf(f) ==
    f["retrieval_fusion"] + f["vector"] + f["full_text"] + f["graph"]
      + f["temporal"] + f["importance"] + f["confidence"] + f["user_rating"]
      + f["reranker"]

(* score_candidates; what is missing and counted counts as 0.  A mean of  *)
(* numbers between 0.0 and 1.0 is between them: clamping it does nothing.  *)
FinalScore(m) ==
    LET counted  == [c \in Components |-> IF c \in Counted(m) THEN EffectiveWeight(c) ELSE 0]
        weighted == [c \in Components |-> IF raw[m][c] = NoScore THEN 0
                                          ELSE EffectiveWeight(c) * Normalized(m, c)]
    IN  IF TotalOf(counted) = 0 THEN [num |-> 0, den |-> 1]
        ELSE [num |-> TotalOf(weighted), den |-> TotalOf(counted) * Unit]

Score ==
    /\ phase \in {"enriched", "reranked"}
    /\ phase' = IF phase = "enriched" THEN "scored" ELSE "ranked"
    /\ final' = [m \in Contenders |-> FinalScore(m)]
    /\ UNCHANGED <<raw, weights, reranking>>

AtLeast(f, g) == f.num * g.den >= g.num * f.den

(* The sort of the candidates: by score, the rest by what is left over.    *)
Ahead(m, n) == AtLeast(final[m], final[n]) /\ ~AtLeast(final[n], final[m])

(* The candidates that may come first when RerankTop of them are taken.    *)
TopSets ==
    {top \in SUBSET Contenders :
       /\ Cardinality(top) = IF RerankTop < LastCandidate THEN RerankTop
                             ELSE LastCandidate
       /\ \A m \in top, n \in Contenders \ top : ~Ahead(n, m)}

(* rerank_candidates, and what it does when the provider raises, or when   *)
(* there is none.                                                          *)
RerankTopCandidates ==
    /\ phase = "scored" /\ phase' = "reranked"
    /\ \/ UNCHANGED raw
       \/ /\ reranking
          /\ \E top \in TopSets : \E scores \in [top -> RerankScores] :
               raw' = [m \in Contenders |->
                         IF m \in top
                         THEN [raw[m] EXCEPT !["reranker"] = scores[m]]
                         ELSE raw[m]]
    /\ UNCHANGED <<weights, reranking, final>>

(* The results are returned; the same candidates are searched again. *)
Return ==
    /\ phase = "ranked" /\ phase' = "enriched"
    /\ raw' = [m \in Contenders |-> [raw[m] EXCEPT !["reranker"] = NoScore]]
    /\ final' = [m \in Contenders |-> [num |-> 0, den |-> 1]]
    /\ UNCHANGED <<weights, reranking>>

ScoringNext == Score \/ RerankTopCandidates \/ Return

ScoringSpec == ScoringInit /\ [][ScoringNext]_scoringVars

-----------------------------------------------------------------------------
(* Nothing speaks for n that does not speak for m at least as much: m has  *)
(* every component that n has, with no lower score.                        *)
Dominates(m, n) ==
    /\ \A c \in Components : raw[n][c] # NoScore =>
                               raw[m][c] # NoScore /\ raw[m][c] >= raw[n][c]
    /\ (raw[m]["user_rating"] = NoScore) <=> (raw[n]["user_rating"] = NoScore)

(* A candidate's final score is at least that of another that it           *)
(* dominates, whatever the weights are, however few values a component     *)
(* has, with the reranker, for those it saw and those it did not see, and  *)
(* without it.  A rating is set aside: a low one is worse than none.  (The *)
(* results are sorted by this score, and ties by the fusion score and the  *)
(* id, which are not compared here.)                                       *)
EvidenceCounts ==
    phase \in {"scored", "ranked"} =>
      \A m, n \in Contenders : Dominates(m, n) => AtLeast(final[m], final[n])
=============================================================================
