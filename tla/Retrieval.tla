------------------------------ MODULE Retrieval ------------------------------
(***************************************************************************)
(* One search (services/retrieval.py) over a database that others change   *)
(* between its reads: the vector candidates take two queries, the          *)
(* full-text candidates one, and the graph expansion one for every         *)
(* candidate; no transaction holds them together.  In between, lists are   *)
(* filtered, fused and deduplicated (retrieval/*.py).                      *)
(*                                                                         *)
(* Of a memory we keep what decides something: its scope and the other     *)
(* hard filters, whether the query finds it, and the keys under which two  *)
(* records count as one.  What is similar or relevant to the query is      *)
(* given; how it is ranked is any order (module Scoring has the scores).   *)
(* The service stays open (Container has close), and no statement fails.   *)
(***************************************************************************)
EXTENDS Integers, FiniteSets, SequencesExt

CONSTANTS
    LastId,          \* memory ids are 1 .. LastId, in their order
    Libraries,       \* what the memories may contain
    LinkSets,        \* the edges that there may be at first
    CandidateLimit,  \* top_n times the oversampling, of both searches
    TopN,            \* retrieval.vector_top_n and fts_top_n
    RrfK,            \* retrieval.rrf_k
    ResultLimit,     \* query.limit or retrieval.final_top_k
    Expansion,       \* the retrieval.graph_expansion_enabled in use
    MaxSearches,     \* bound: searches
    MaxChanges       \* bound: changes by others

Shelved == 1 .. LastId

(* `near` and `worded`: the embedding has a positive similarity to the     *)
(* query, the text has one of its words.  `keys` are the stable key, the   *)
(* chunk id and the source hash.                                           *)
Content == [inScope: BOOLEAN, embedded: BOOLEAN, near: BOOLEAN,
            worded: BOOLEAN, keys: SUBSET STRING]

ASSUME RetrievalAssumption ==
    /\ LastId \in Nat /\ Libraries \subseteq [Shelved -> Content]
    /\ \A l \in Libraries, m \in Shelved : l[m].near => l[m].embedded
    /\ LinkSets \subseteq SUBSET {l \in SUBSET Shelved : Cardinality(l) = 2}
    /\ {CandidateLimit, TopN, RrfK, ResultLimit} \subseteq Nat \ {0}
    /\ Expansion \subseteq BOOLEAN /\ MaxSearches \in Nat /\ MaxChanges \in Nat

VARIABLES
    library,    \* what each memory contains
    shelf,      \* how each memory stands
    links,      \* the edges, of any type, without their direction
    reranker,   \* the service holds its reranker, or reranking is off
    search,     \* where the search is, and what it holds
    past,       \* history: what was the case since the search began
    tally       \* how often each bound was used

retrievalVars == <<library, shelf, links, reranker, search, past, tally>>

(* "visible" passes the hard filters; "lapsed" has a past expires_at,      *)
(* which only matches_hard_filters looks at, and no query; "hidden" has    *)
(* another status, or allow_retrieval is off.                              *)
Standings == {"absent", "visible", "lapsed", "hidden"}

Visible == {m \in Shelved : shelf[m] = "visible"}

(* _hard_filter_where: the scope and everything but the expiry. *)
Admitted == {m \in Shelved : library[m].inScope /\ shelf[m] \in {"visible", "lapsed"}}

NoSearch == [pc |-> "idle", allowed |-> {}, vector |-> {}, worded |-> {},
             candidates |-> << >>, seeds |-> << >>, results |-> << >>]

NoPast == [visible |-> {}, selected |-> {}, links |-> {}, stayed |-> {},
           deleted |-> FALSE, unanswered |-> FALSE, held |-> FALSE]

RetrievalInit ==
    /\ library \in Libraries
    /\ shelf \in [Shelved -> {"visible", "hidden"}]
    /\ links \in LinkSets
    /\ reranker \in BOOLEAN
    /\ search = NoSearch
    /\ past = NoPast
    /\ tally = [searches |-> 0, changes |-> 0]

-----------------------------------------------------------------------------
(* What others do: lifecycle and privacy operations (module Memories),     *)
(* ingestions, imports, and the clock.                                     *)
Remember ==
    past' = IF search = NoSearch THEN NoPast
            ELSE [past EXCEPT !.visible = @ \cup Visible',
                              !.selected = @ \cup Admitted',
                              !.links = @ \cup links',
                              !.stayed = @ \cap Visible',
                              !.deleted = @ \/ \E m \in Shelved : /\ shelf[m] # "absent"
                                                              /\ shelf'[m] = "absent"]

Others(m, standing) ==
    /\ tally.changes < MaxChanges
    /\ tally' = [tally EXCEPT !.changes = @ + 1]
    /\ shelf' = [shelf EXCEPT ![m] = standing]
    /\ links' = IF standing = "absent" THEN {l \in links : m \notin l} ELSE links
    /\ UNCHANGED <<library, reranker, search>>
    /\ Remember

Show(m)   == shelf[m] \in {"absent", "hidden"} /\ Others(m, "visible")
Hide(m)   == shelf[m] = "visible" /\ Others(m, "hidden")
Lapse(m)  == shelf[m] = "visible" /\ Others(m, "lapsed")
Delete(m) == shelf[m] # "absent" /\ Others(m, "absent")

Link(m, n) ==
    /\ tally.changes < MaxChanges
    /\ tally' = [tally EXCEPT !.changes = @ + 1]
    /\ m # n /\ {m, n} \notin links /\ "absent" \notin {shelf[m], shelf[n]}
    /\ links' = links \cup {{m, n}}
    /\ UNCHANGED <<library, shelf, reranker, search>>
    /\ Remember

-----------------------------------------------------------------------------
Searching(pc) == search.pc = pc

BeginSearch ==
    /\ Searching("idle") /\ tally.searches < MaxSearches
    /\ tally' = [tally EXCEPT !.searches = @ + 1]
    /\ search' = [NoSearch EXCEPT !.pc = "embed"]
    /\ past' = [NoPast EXCEPT !.visible = Visible, !.selected = Admitted,
                              !.links = links, !.stayed = Visible,
                              !.held = reranker]
    /\ UNCHANGED <<library, shelf, links, reranker>>

(* Most steps of a search change the search and nothing else. *)
Reads == UNCHANGED <<library, shelf, links, reranker, tally>>

(* _embed_search_query; the provider may raise, and the search with it. *)
EmbedQuery ==
    /\ Searching("embed")
    /\ \E works \in BOOLEAN :
         /\ search' = [search EXCEPT !.pc = IF works THEN "rids" ELSE "raised"]
         /\ past' = [past EXCEPT !.unanswered = ~works]
    /\ Reads

(* search_vector_candidates: the record ids that the search may return ... *)
SelectRids ==
    /\ Searching("rids")
    /\ search' = [search EXCEPT !.pc = "nearest",
                    !.allowed = {m \in Admitted : library[m].embedded}]
    /\ UNCHANGED past /\ Reads

(* ... and the nearest of them, in another query. *)
OfThese(records) ==
    LET limit == IF Cardinality(records) < CandidateLimit
                 THEN Cardinality(records) ELSE CandidateLimit
    IN  {chosen \in SUBSET records : Cardinality(chosen) = limit}

(* filter_records, on the records as they were read. *)
FilterRecords(records) == records \cap Visible

FindNearest ==
    /\ Searching("nearest")
    /\ \E nearest \in OfThese({m \in search.allowed : shelf[m] # "absent"}) :
         search' = [search EXCEPT !.pc = "words",
                      !.vector = FilterRecords(nearest)]
    /\ UNCHANGED past /\ Reads

(* search_full_text_candidates: a LIMIT without an ORDER BY. *)
FindWords ==
    /\ Searching("words")
    /\ \E found \in OfThese({m \in Admitted : library[m].worded}) :
         search' = [search EXCEPT !.pc = "fuse",
                      !.worded = FilterRecords(found)]
    /\ UNCHANGED past /\ Reads

Best(order) == SubSeq(order, 1, IF Len(order) < TopN THEN Len(order) ELSE TopN)

(* score_vector_candidates and search_full_text: the TopN of each, ranked. *)
VectorMatches ==
    {Best(o) : o \in SetToSeqs({m \in search.vector : library[m].near})}

FullTextMatches == {Best(o) : o \in SetToSeqs(search.worded)}

(* The denominators of the two summands 1 / (rrf_k + rank); 0: none. *)
Summand(matches, m) ==
    IF \E rank \in 1 .. Len(matches) : matches[rank] = m
    THEN RrfK + (CHOOSE rank \in 1 .. Len(matches) : matches[rank] = m)
    ELSE 0

(* The fused score of m is Numerator / Denominator. *)
Numerator(v, w) == IF v = 0 \/ w = 0 THEN 1 ELSE v + w

Denominator(v, w) == (IF v = 0 THEN 1 ELSE v) * (IF w = 0 THEN 1 ELSE w)

FusedBefore(vector, words, m, n) ==
    LET left  == Numerator(Summand(vector, m), Summand(words, m))
                   * Denominator(Summand(vector, n), Summand(words, n))
        right == Numerator(Summand(vector, n), Summand(words, n))
                   * Denominator(Summand(vector, m), Summand(words, m))
    IN  left > right \/ (left = right /\ m < n)

(* The lists of a set's elements, each before those that it precedes. *)
InOrder(set, Precedes(_, _)) ==
    {o \in SetToSeqs(set) :
       \A j, k \in DOMAIN o : j < k => Precedes(o[j], o[k])}

(* reciprocal_rank_fuse: the ids make the order total, and the list unique. *)
Fused(vector, words) ==
    InOrder(ToSet(vector) \cup ToSet(words),
            LAMBDA m, n : FusedBefore(vector, words, m, n))

(* mutant: only the memory id makes two candidates one *)
KeysOfId(m) == {ToString(m)}

(* _candidate_keys *)
KeysOf(m) == library[m].keys \cup {ToString(m)}

(* deduplicate_candidates: what shares a key with an earlier candidate is  *)
(* merged into one of those that were kept; the others stay in their order. *)
Kept(candidates) ==
    {k \in DOMAIN candidates :
       \A j \in 1 .. k - 1 :
         KeysOf(candidates[j]) \cap KeysOf(candidates[k]) = {}}

Deduplicated(candidates) ==
    {[k \in DOMAIN o |-> candidates[o[k]]] : o \in InOrder(Kept(candidates), <)}

Fuse ==
    /\ Searching("fuse")
    /\ \E vector \in VectorMatches, words \in FullTextMatches, expands \in Expansion :
         \E listed \in Fused(vector, words) : \E fused \in Deduplicated(listed) :
           search' = IF fused = << >> THEN [NoSearch EXCEPT !.pc = "answered"]
                     ELSE [search EXCEPT !.candidates = fused,
                             !.pc = IF expands THEN "expand" ELSE "rank",
                             !.seeds = IF expands THEN fused ELSE << >>]
    /\ UNCHANGED past /\ Reads

(* mutant: neighbours are not filtered *)
AllNeighbors(m) == {n \in Shelved : {m, n} \in links}

(* read_one_hop_links, and the filters of expand_one_hop_candidates: all   *)
(* but the scope.                                                          *)
Neighbors(m) == {n \in FilterRecords(Shelved) : {m, n} \in links}

(* One pass of the loop over the seeds.  A seed that was deleted meanwhile *)
(* is not found, and the search raises.                                    *)
Expand ==
    /\ Searching("expand") /\ search.seeds # << >>
    /\ LET seed == Head(search.seeds)
       IN  IF shelf[seed] = "absent"
           THEN search' = [search EXCEPT !.pc = "raised"]
           ELSE \E more \in SetToSeqs(Neighbors(seed) \ ToSet(search.candidates)) :
                  search' = [search EXCEPT !.seeds = Tail(@),
                                           !.candidates = @ \o more]
    /\ UNCHANGED past /\ Reads

EndExpand ==
    /\ Searching("expand") /\ search.seeds = << >>
    /\ \E kept \in Deduplicated(search.candidates) :
         search' = [search EXCEPT !.pc = "rank", !.candidates = kept]
    /\ UNCHANGED past /\ Reads

(* _reranker_provider, which nothing in the search catches.  A reranker    *)
(* that cannot be made is tried again by the next search; one that is made *)
(* stays, and the next search does not ask who it is.                      *)
BuildReranker ==
    /\ Searching("rank")
    /\ \E made, identified \in BOOLEAN :
         /\ reranker' = (reranker \/ made)
         /\ search' = [search EXCEPT !.pc =
              IF reranker \/ (made /\ identified) THEN "rerank" ELSE "raised"]
    /\ UNCHANGED <<library, shelf, links, past, tally>>

(* mutant: the reranker's error is not caught *)
AfterRerankOrRaise(works) == IF works THEN "answer" ELSE "raised"

(* rerank_candidates: an error of the provider leaves the scores alone. *)
AfterRerank(works) == "answer"

Rerank ==
    /\ Searching("rerank")
    /\ \E works \in BOOLEAN :
         search' = [search EXCEPT !.pc = AfterRerank(works)]
    /\ UNCHANGED past /\ Reads

(* The first of the candidates in the order of their scores. *)
Answer ==
    /\ Searching("answer")
    /\ \E order \in SetToSeqs(ToSet(search.candidates)) :
         search' = [NoSearch EXCEPT !.pc = "answered",
                      !.results = SubSeq(order, 1,
                        IF Len(order) < ResultLimit THEN Len(order) ELSE ResultLimit)]
    /\ UNCHANGED past /\ Reads

EndSearch ==
    /\ Searching("answered") \/ Searching("raised")
    /\ search' = NoSearch
    /\ past' = NoPast
    /\ Reads

Search ==
    \/ BeginSearch \/ EmbedQuery \/ SelectRids \/ FindNearest \/ FindWords
    \/ Fuse \/ Expand \/ EndExpand \/ BuildReranker \/ Rerank \/ Answer
    \/ EndSearch

RetrievalNext ==
    \/ Search
    \/ \E m \in Shelved : Show(m) \/ Hide(m) \/ Lapse(m) \/ Delete(m)
    \/ \E m, n \in Shelved : Link(m, n)

RetrievalSpec == RetrievalInit /\ [][RetrievalNext]_retrievalVars

-----------------------------------------------------------------------------
Results == ToSet(search.results)

Matching(m) == library[m].inScope /\ (library[m].near \/ library[m].worded)

(* Every result passed the hard filters at some moment since the search    *)
(* began, whatever was forgotten, expired or deleted between its reads,    *)
(* and it is a match in the scope, or was linked to one: one hop, never    *)
(* two.                                                                    *)
ResultsWereVisible ==
    \A m \in Results :
      /\ m \in past.visible
      /\ \/ Matching(m)
         \/ \E n \in past.visible : Matching(n) /\ {m, n} \in past.links

(* Two results never share a key, wherever their candidates came from: one *)
(* section or one stable key is not returned twice.                        *)
OneResultPerKey ==
    \A j, k \in 1 .. Len(search.results) :
      j # k => LET m == search.results[j]
                   n == search.results[k]
               IN  /\ m # n
                   /\ library[m].keys \cap library[n].keys = {}

(* A result has m's content, or that of a record with one of its keys, and *)
(* so on along records that share keys.                                    *)
Represented(m) ==
    \A group \in SUBSET past.visible :
      /\ m \in group
      /\ \A a \in group, b \in past.visible :
           KeysOf(a) \cap KeysOf(b) # {} => b \in group
      => group \cap Results # {}

(* No limit was reached: lapsed records take part in this. *)
Roomy ==
    /\ Cardinality(past.selected) <= CandidateLimit
    /\ Cardinality(past.selected) <= TopN
    /\ Cardinality(past.visible) <= ResultLimit

(* A search raises only if the query could not be embedded, a memory was   *)
(* deleted meanwhile, or the service did not hold its reranker yet and had *)
(* to build it: a reranker that fails later costs the search nothing.  And *)
(* when no limit was reached, every match that stayed visible is in the    *)
(* answer, or a record that counts as the same.                            *)
SearchIsComplete ==
    /\ Searching("raised") => past.unanswered \/ past.deleted \/ ~past.held
    /\ Searching("answered") /\ Roomy =>
         \A m \in past.stayed : Matching(m) => Represented(m)
=============================================================================
