---------------------------- MODULE Reading_proofs ----------------------------
(***************************************************************************)
(* Proofs about what reads the database in several queries while others    *)
(* change it: a search (Retrieval), the scores of its candidates (Scoring) *)
(* and an inventory (Inventory).                                           *)
(***************************************************************************)
EXTENDS Retrieval, Scoring, Inventory, FiniteSetTheorems, SequenceTheorems,
        TLAPS

-----------------------------------------------------------------------------
(* Lists.                                                                  *)

(* A list of a finite set's elements has each of them, and none twice. *)
LEMMA ListsAll ==
    ASSUME NEW S, IsFiniteSet(S), NEW o \in SetToSeqs(S)
    PROVE  /\ o \in Seq(S) /\ Len(o) = Cardinality(S) /\ Len(o) \in Nat
           /\ DOMAIN o = 1 .. Len(o)
           /\ \A j, k \in 1 .. Len(o) : j # k => o[j] # o[k]
           /\ ToSet(o) = S
<1> DEFINE n == Cardinality(S)
<1>1. n \in Nat
    BY FS_CardinalityType
<1>2. /\ o \in [1 .. n -> S]
      /\ \A j, k \in 1 .. n : j # k => o[j] # o[k]
    BY DEF SetToSeqs
<1>3. o \in Seq(S) /\ Len(o) = n /\ DOMAIN o = 1 .. n
    BY <1>1, <1>2
<1>4. IsFiniteSet(1 .. n) /\ Cardinality(1 .. n) = n
    BY <1>1, FS_Interval
<1>5. o \in Injection(1 .. n, S)
    BY <1>2 DEF Injection, IsInjective
<1>6. o \in Surjection(1 .. n, S)
    BY <1>4, <1>5, FS_Injection
<1>7. ToSet(o) = S
    BY <1>2, <1>3, <1>6 DEF Surjection, ToSet
<1> QED
    BY <1>1, <1>2, <1>3, <1>7

LEMMA ElementsOf ==
    ASSUME NEW S, NEW s \in Seq(S)
    PROVE  /\ DOMAIN s = 1 .. Len(s) /\ Len(s) \in Nat
           /\ ToSet(s) \in SUBSET S
           /\ \A k \in 1 .. Len(s) : s[k] \in ToSet(s)
           /\ ToSet(s) = {} <=> s = << >>
<1>1. DOMAIN s = 1 .. Len(s) /\ Len(s) \in Nat /\ \A k \in 1 .. Len(s) : s[k] \in S
    BY LenProperties
<1>2. ToSet(s) = {s[k] : k \in 1 .. Len(s)}
    BY <1>1 DEF ToSet
<1>3. s = << >> <=> Len(s) = 0
    BY EmptySeq
<1>4. CASE Len(s) = 0
    BY <1>1, <1>2, <1>3, <1>4
<1>5. CASE Len(s) # 0
    <2>1. s[1] \in ToSet(s)
        BY <1>1, <1>2, <1>5
    <2> QED
        BY <1>1, <1>2, <1>3, <1>5, <2>1
<1> QED
    BY <1>1, <1>4, <1>5

(* The first n of a list. *)
LEMMA FirstOf ==
    ASSUME NEW S, NEW s \in Seq(S), NEW n \in 0 .. Len(s)
    PROVE  /\ SubSeq(s, 1, n) \in Seq(S) /\ Len(SubSeq(s, 1, n)) = n
           /\ \A k \in 1 .. n : SubSeq(s, 1, n)[k] = s[k]
           /\ ToSet(SubSeq(s, 1, n)) \subseteq ToSet(s)
           /\ n = Len(s) => SubSeq(s, 1, n) = s
<1> DEFINE t == SubSeq(s, 1, n)
<1>1. t \in Seq(S) /\ Len(t) = n /\ \A k \in 1 .. n : t[k] = s[k]
    OBVIOUS
<1>2. ToSet(t) \subseteq ToSet(s)
    BY <1>1, ElementsOf DEF ToSet
<1>3. n = Len(s) => t = s
    BY <1>1, SeqEqual
<1> QED
    BY <1>1, <1>2, <1>3

(* A set of numbers has a least one: what stands for induction below.      *)
LEMMA LeastNatural ==
    ASSUME NEW S \in SUBSET Nat, S # {}
    PROVE  \E n \in S : \A k \in S : n <= k
<1>1. PICK n \in S : \A k \in S : <<k, n>> \notin OpToRel(<, Nat)
    BY NatLessThanWellFounded, WFMin
<1>2. \A k \in S : ~(k < n)
    BY <1>1 DEF OpToRel
<1> QED
    BY <1>2

LEMMA Appended ==
    ASSUME NEW S, NEW s \in Seq(S), NEW t \in Seq(S)
    PROVE  s \o t \in Seq(S) /\ ToSet(s \o t) = ToSet(s) \cup ToSet(t)
<1>1. /\ s \o t \in Seq(S) /\ Len(s \o t) = Len(s) + Len(t)
      /\ \A k \in 1 .. Len(s) + Len(t) :
           (s \o t)[k] = IF k <= Len(s) THEN s[k] ELSE t[k - Len(s)]
    OBVIOUS
<1>2. /\ ToSet(s) = {s[k] : k \in 1 .. Len(s)} /\ ToSet(t) = {t[k] : k \in 1 .. Len(t)}
      /\ ToSet(s \o t) = {(s \o t)[k] : k \in 1 .. Len(s) + Len(t)}
      /\ Len(s) \in Nat /\ Len(t) \in Nat
    BY <1>1, ElementsOf DEF ToSet
<1>3. ASSUME NEW k \in 1 .. Len(s) + Len(t)
      PROVE  (s \o t)[k] \in ToSet(s) \cup ToSet(t)
    <2>1. k <= Len(s) => k \in 1 .. Len(s)
        BY <1>2
    <2>2. ~(k <= Len(s)) => k - Len(s) \in 1 .. Len(t)
        BY <1>2
    <2> QED
        BY <1>1, <1>2, <2>1, <2>2
<1>4. ASSUME NEW k \in 1 .. Len(s)
      PROVE  s[k] \in ToSet(s \o t)
    <2>1. k \in 1 .. Len(s) + Len(t) /\ k <= Len(s)
        BY <1>2
    <2> QED
        BY <1>1, <1>2, <2>1
<1>5. ASSUME NEW k \in 1 .. Len(t)
      PROVE  t[k] \in ToSet(s \o t)
    <2> DEFINE i == k + Len(s)
    <2>1. i \in 1 .. Len(s) + Len(t) /\ ~(i <= Len(s)) /\ i - Len(s) = k
        BY <1>2
    <2> HIDE DEF i
    <2>2. (s \o t)[i] = t[k]
        BY <1>1, <2>1
    <2> QED
        BY <1>2, <2>1, <2>2
<1> QED
    BY <1>1, <1>2, <1>3, <1>4, <1>5, ZenonT(60)

LEMMA HeadAndTail ==
    ASSUME NEW S, NEW s \in Seq(S), s # << >>
    PROVE  /\ Head(s) \in ToSet(s)
           /\ Tail(s) \in Seq(S) /\ ToSet(Tail(s)) \subseteq ToSet(s)
<1>1. /\ Len(s) \in Nat \ {0} /\ Head(s) = s[1]
      /\ Tail(s) \in Seq(S) /\ Len(Tail(s)) = Len(s) - 1
      /\ \A k \in 1 .. Len(Tail(s)) : Tail(s)[k] = s[k + 1]
    BY EmptySeq
<1>2. \A k \in 1 .. Len(s) : s[k] \in ToSet(s)
    BY ElementsOf
<1>3. ToSet(Tail(s)) = {Tail(s)[k] : k \in 1 .. Len(Tail(s))}
    BY <1>1, ElementsOf DEF ToSet
<1> QED
    BY <1>1, <1>2, <1>3

-----------------------------------------------------------------------------
(* The invariant.                                                          *)

Pcs == {"idle", "embed", "rids", "nearest", "words", "fuse", "expand",
        "rank", "rerank", "answer", "answered", "raised"}

Searches == [pc: Pcs, allowed: SUBSET Shelved, vector: SUBSET Shelved,
             worded: SUBSET Shelved, candidates: Seq(Shelved),
             seeds: Seq(Shelved), results: Seq(Shelved)]

Pasts == [visible: SUBSET Shelved, selected: SUBSET Shelved,
          links: SUBSET SUBSET Shelved, stayed: SUBSET Shelved,
          deleted: BOOLEAN, unanswered: BOOLEAN, held: BOOLEAN]

SearchType ==
    /\ library \in [Shelved -> Content] /\ shelf \in [Shelved -> Standings]
    /\ links \in SUBSET SUBSET Shelved /\ reranker \in BOOLEAN
    /\ \A m \in Shelved : library[m].near => library[m].embedded
    /\ search \in Searches /\ past \in Pasts
    /\ Searching("idle") <=> search = NoSearch

(* What the search remembers of the time since it began. *)
Followed ==
    ~Searching("idle") =>
      /\ Visible \subseteq past.visible /\ Admitted \subseteq past.selected
      /\ links \subseteq past.links /\ past.stayed \subseteq Visible
      /\ \A m \in past.visible : shelf[m] = "absent" => past.deleted
      /\ past.held => reranker

(* Whatever is in the list was visible and is a match or next to one, ... *)
Explained(list) ==
    \A m \in ToSet(list) :
      /\ m \in past.visible
      /\ \/ Matching(m)
         \/ \E n \in past.visible : Matching(n) /\ {m, n} \in past.links

(* ... no two of it count as one, ... *)
Distinct(list) ==
    \A j, k \in 1 .. Len(list) :
      j # k => KeysOf(list[j]) \cap KeysOf(list[k]) = {}

(* ... and every match that stayed counts as one that is in it. *)
Closed(group) ==
    \A a \in group, b \in past.visible : KeysOf(a) \cap KeysOf(b) # {} => b \in group

StandsFor(list, m) ==
    \A group \in SUBSET past.visible :
      m \in group /\ Closed(group) => group \cap ToSet(list) # {}

Covered(list) ==
    Roomy => \A m \in past.stayed : Matching(m) => StandsFor(list, m)

(* The two lists of candidates before they are fused. *)
Selection ==
    Searching("nearest") =>
      /\ search.allowed \subseteq past.selected
      /\ \A m \in search.allowed : library[m].inScope
      /\ \A m \in past.stayed :
           library[m].inScope /\ library[m].embedded => m \in search.allowed

VectorFound ==
    search.pc \in {"words", "fuse"} =>
      /\ search.vector \subseteq past.visible \cap past.selected
      /\ \A m \in search.vector : library[m].inScope
      /\ Roomy => \A m \in past.stayed :
           library[m].inScope /\ library[m].near => m \in search.vector

WordsFound ==
    Searching("fuse") =>
      /\ search.worded \subseteq past.visible \cap past.selected
      /\ \A m \in search.worded : library[m].inScope /\ library[m].worded
      /\ Roomy => \A m \in past.stayed :
           library[m].inScope /\ library[m].worded => m \in search.worded

CandidatesFound ==
    search.pc \in {"expand", "rank", "rerank", "answer"} =>
      Explained(search.candidates) /\ Covered(search.candidates)

SeedsMatch ==
    Searching("expand") =>
      \A m \in ToSet(search.seeds) : m \in past.visible /\ Matching(m)

CandidatesDistinct ==
    search.pc \in {"rank", "rerank", "answer"} => Distinct(search.candidates)

Answered ==
    /\ ~Searching("answered") => search.results = << >>
    /\ Searching("answered") =>
         /\ Explained(search.results) /\ Covered(search.results)
         /\ OneResultPerKey
    /\ Searching("raised") => past.unanswered \/ past.deleted \/ ~past.held

SearchInv ==
    /\ SearchType /\ Followed /\ Selection /\ VectorFound /\ WordsFound
    /\ CandidatesFound /\ SeedsMatch /\ CandidatesDistinct /\ Answered

-----------------------------------------------------------------------------
(* Facts used everywhere.                                                  *)

LEMMA ShelfIsFinite ==
    ASSUME NEW S \in SUBSET Shelved
    PROVE  IsFiniteSet(S) /\ Cardinality(S) \in Nat
<1>1. IsFiniteSet(Shelved)
    BY RetrievalAssumption, FS_Interval DEF Shelved
<1> QED
    BY <1>1, FS_Subset, FS_CardinalityType

LEMMA Limits ==
    /\ CandidateLimit \in Nat \ {0} /\ TopN \in Nat \ {0}
    /\ ResultLimit \in Nat \ {0}
    BY RetrievalAssumption

LEMMA NothingYet ==
    /\ NoSearch \in Searches /\ NoPast \in Pasts
    /\ NoSearch.pc = "idle" /\ NoSearch.results = << >>
    BY EmptySeq DEF NoSearch, NoPast, Searches, Pasts, Pcs

(* An empty list has the properties of an answer, except that it may not   *)
(* be complete.                                                            *)
LEMMA NothingToShow ==
    ASSUME search.results = << >>
    PROVE  Explained(search.results) /\ OneResultPerKey
    BY EmptySeq DEF Explained, OneResultPerKey, ToSet

-----------------------------------------------------------------------------
(* What others do.                                                         *)

(* A search that goes on while the past grows keeps what it knew. *)
LEMMA OthersKeepSearchInv ==
    ASSUME SearchInv, Remember, UNCHANGED <<library, reranker, search>>,
           shelf' \in [Shelved -> Standings], links' \in SUBSET SUBSET Shelved
    PROVE  SearchInv'
<1>1. CASE search = NoSearch
    <2>1. past' = NoPast /\ search' = NoSearch
        BY <1>1 DEF Remember
    <2>2. SearchType' /\ Searching("idle")'
        BY <1>1, <2>1, NothingYet DEF SearchInv, SearchType, Searching
    <2> QED
        BY <2>1, <2>2, NothingYet
        DEF SearchInv, Followed, Selection, VectorFound, WordsFound, CandidatesFound,
            SeedsMatch, CandidatesDistinct, Answered, Searching
<1>2. CASE search # NoSearch
    <2> USE DEF Searching
    <2>1. /\ past' \in Pasts
          /\ past'.visible = past.visible \cup Visible'
          /\ past'.selected = past.selected \cup Admitted'
          /\ past'.links = past.links \cup links'
          /\ past'.stayed = past.stayed \cap Visible'
          /\ past'.deleted = (past.deleted \/ \E m \in Shelved : /\ shelf[m] # "absent"
                                                                 /\ shelf'[m] = "absent")
          /\ past'.unanswered = past.unanswered /\ past'.held = past.held
        <3>1. Visible' \in SUBSET Shelved /\ Admitted' \in SUBSET Shelved
            BY DEF Visible, Admitted
        <3>2. past \in Pasts
            BY DEF SearchInv, SearchType
        <3> QED
            BY <1>2, <3>1, <3>2 DEF Remember, Pasts
    <2>2. SearchType' /\ ~Searching("idle")'
        BY <1>2, <2>1 DEF SearchInv, SearchType
    <2>3. Followed'
        <3>1. ASSUME NEW m \in past'.visible, shelf'[m] = "absent"
              PROVE  past'.deleted
            <4>1. m \in Shelved /\ (m \in past.visible \/ m \in Visible')
                BY <2>1, <3>1 DEF Pasts
            <4>2. m \notin Visible'
                BY <3>1 DEF Visible
            <4>3. shelf[m] = "absent" => past.deleted
                BY <1>2, <4>1, <4>2 DEF SearchInv, SearchType, Followed
            <4> QED
                BY <2>1, <3>1, <4>1, <4>3
        <3> QED
            BY <1>2, <2>1, <3>1 DEF SearchInv, SearchType, Followed
    <2>4. past.visible \in SUBSET Shelved /\ past'.visible \in SUBSET Shelved
          /\ past.selected \in SUBSET Shelved /\ past'.selected \in SUBSET Shelved
          /\ past.stayed \subseteq past.visible
        BY <1>2, <2>1 DEF SearchInv, SearchType, Followed, Pasts
    <2>5. Roomy' => Roomy
        <3>1. /\ Cardinality(past.visible) <= Cardinality(past'.visible)
              /\ Cardinality(past.selected) <= Cardinality(past'.selected)
            BY <2>1, <2>4, ShelfIsFinite, FS_Subset
        <3>2. /\ Cardinality(past.visible) \in Nat /\ Cardinality(past'.visible) \in Nat
              /\ Cardinality(past.selected) \in Nat /\ Cardinality(past'.selected) \in Nat
            BY <2>4, ShelfIsFinite
        <3> QED
            BY <3>1, <3>2, Limits DEF Roomy
    <2>6. \A list : Explained(list) => Explained(list)'
        BY <2>1 DEF Explained, Matching
    <2>7. ASSUME NEW list, Covered(list)
          PROVE  Covered(list)'
        <3> SUFFICES ASSUME Roomy', NEW m \in past'.stayed, Matching(m),
                            NEW group \in SUBSET past'.visible,
                            m \in group, Closed(group)'
                     PROVE  group \cap ToSet(list) # {}
            BY DEF Covered, StandsFor, Matching
        <3> DEFINE before == group \cap past.visible
        <3>1. m \in past.stayed /\ m \in before
            BY <2>1, <2>4
        <3>2. Closed(before)
            BY <2>1 DEF Closed, KeysOf
        <3> QED
            BY <2>5, <2>7, <3>1, <3>2 DEF Covered, StandsFor
    <2>8. Selection' /\ VectorFound' /\ WordsFound'
        BY <2>1, <2>5 DEF SearchInv, Selection, VectorFound, WordsFound
    <2>9. CandidatesFound' /\ SeedsMatch' /\ CandidatesDistinct'
        BY <2>1, <2>6, <2>7
        DEF SearchInv, CandidatesFound, SeedsMatch, CandidatesDistinct, Distinct, KeysOf, Matching
    <2>10. Answered'
        <3>1. search' = search
            OBVIOUS
        <3>2. Explained(search.results) => Explained(search.results)'
            BY <2>6, <3>1 DEF Explained
        <3>3. Covered(search.results) => Covered(search.results)'
            BY <2>7, <3>1 DEF Covered
        <3>4. OneResultPerKey => OneResultPerKey'
            BY <3>1 DEF OneResultPerKey
        <3>5. /\ past'.unanswered = past.unanswered /\ past'.held = past.held
              /\ past.deleted => past'.deleted
            BY <2>1
        <3> QED
            BY <3>1, <3>2, <3>3, <3>4, <3>5 DEF SearchInv, Answered
    <2> QED
        BY <2>2, <2>3, <2>8, <2>9, <2>10 DEF SearchInv
<1> QED
    BY <1>1, <1>2

LEMMA ChangesKeepSearchInv ==
    ASSUME SearchInv, NEW m \in Shelved, NEW n \in Shelved,
           Show(m) \/ Hide(m) \/ Lapse(m) \/ Delete(m) \/ Link(m, n)
    PROVE  SearchInv'
<1>1. ASSUME NEW standing \in Standings, Others(m, standing)
      PROVE  SearchInv'
    <2>1. /\ shelf' \in [Shelved -> Standings]
          /\ links' \in SUBSET SUBSET Shelved
        BY <1>1 DEF Others, SearchInv, SearchType
    <2> QED
        BY <1>1, <2>1, OthersKeepSearchInv DEF Others
<1>2. CASE Link(m, n)
    <2>1. /\ shelf' \in [Shelved -> Standings]
          /\ links' \in SUBSET SUBSET Shelved
        BY <1>2 DEF Link, SearchInv, SearchType
    <2> QED
        BY <1>2, <2>1, OthersKeepSearchInv DEF Link
<1> QED
    BY <1>1, <1>2 DEF Show, Hide, Lapse, Delete, Standings

-----------------------------------------------------------------------------
(* Fusion and deduplication.                                               *)

LEMMA FusedLists ==
    ASSUME NEW vector \in Seq(Shelved), NEW words \in Seq(Shelved),
           NEW listed \in Fused(vector, words)
    PROVE  /\ listed \in Seq(Shelved)
           /\ ToSet(listed) = ToSet(vector) \cup ToSet(words)
<1> DEFINE S == ToSet(vector) \cup ToSet(words)
<1>1. S \in SUBSET Shelved
    BY ElementsOf
<1>2. listed \in SetToSeqs(S)
    BY DEF Fused, InOrder
<1>3. listed \in Seq(S) /\ ToSet(listed) = S
    BY <1>1, <1>2, ShelfIsFinite, ListsAll
<1> QED
    BY <1>1, <1>3, SeqMonotonic

(* Deduplication leaves members of the list, no two of which share a key,  *)
(* and one of each group of candidates that holds what shares a key with   *)
(* its members: of the group, the first in the list is kept.               *)
LEMMA DeduplicatedKeeps ==
    ASSUME NEW list \in Seq(Shelved), NEW left \in Deduplicated(list)
    PROVE  /\ left \in Seq(Shelved) /\ ToSet(left) \subseteq ToSet(list)
           /\ Distinct(left)
           /\ \A group :
                /\ group \cap ToSet(list) # {}
                /\ \A a \in group, b \in ToSet(list) :
                     KeysOf(a) \cap KeysOf(b) # {} => b \in group
                => group \cap ToSet(left) # {}
<1> DEFINE kept == Kept(list)
<1>1. PICK o \in SetToSeqs(kept) : left = [k \in DOMAIN o |-> list[o[k]]]
    BY DEF Deduplicated, InOrder
<1>2. /\ DOMAIN list = 1 .. Len(list) /\ Len(list) \in Nat
      /\ \A k \in 1 .. Len(list) : list[k] \in Shelved /\ list[k] \in ToSet(list)
    BY ElementsOf, ElementOfSeq
<1>3. kept \in SUBSET (1 .. Len(list))
    BY <1>2 DEF Kept
<1>4. IsFiniteSet(kept)
    <2>1. IsFiniteSet(1 .. Len(list))
        BY <1>2, FS_Interval
    <2> QED
        BY <1>3, <2>1, FS_Subset
<1>5. /\ Len(o) \in Nat /\ DOMAIN o = 1 .. Len(o) /\ o \in Seq(kept)
      /\ \A j, k \in 1 .. Len(o) : j # k => o[j] # o[k]
      /\ ToSet(o) = kept
    BY <1>4, ListsAll
<1>6. \A k \in 1 .. Len(o) : o[k] \in kept /\ o[k] \in 1 .. Len(list)
    BY <1>3, <1>5, ElementOfSeq
<1>7. left \in Seq(Shelved) /\ Len(left) = Len(o) /\ DOMAIN left = 1 .. Len(o)
    <2>1. left \in [1 .. Len(o) -> Shelved]
        BY <1>1, <1>2, <1>5, <1>6, Zenon
    <2> QED
        BY <1>5, <2>1
<1>8. ToSet(left) = {list[k] : k \in kept}
    <2>1. ToSet(left) = {list[o[k]] : k \in 1 .. Len(o)}
        BY <1>1, <1>5, <1>7 DEF ToSet
    <2>2. kept = {o[k] : k \in 1 .. Len(o)}
        BY <1>5 DEF ToSet
    <2> QED
        BY <2>1, <2>2
<1>9. Distinct(left)
    <2> SUFFICES ASSUME NEW j \in 1 .. Len(o), NEW k \in 1 .. Len(o), j # k
                 PROVE  KeysOf(list[o[j]]) \cap KeysOf(list[o[k]]) = {}
        BY <1>1, <1>5, <1>7 DEF Distinct
    <2>1. /\ o[j] # o[k] /\ o[j] \in kept /\ o[k] \in kept
          /\ o[j] \in 1 .. Len(list) /\ o[k] \in 1 .. Len(list)
        BY <1>5, <1>6
    <2>2. \A p, q \in kept : p \in 1 .. q - 1 => KeysOf(list[p]) \cap KeysOf(list[q]) = {}
        BY DEF Kept
    <2>3. o[j] \in 1 .. o[k] - 1 \/ o[k] \in 1 .. o[j] - 1
        BY <1>2, <2>1
    <2> QED
        BY <2>1, <2>2, <2>3
<1>10. ASSUME NEW group, group \cap ToSet(list) # {},
              \A a \in group, b \in ToSet(list) :
                KeysOf(a) \cap KeysOf(b) # {} => b \in group
       PROVE  group \cap ToSet(left) # {}
    <2> DEFINE at == {k \in 1 .. Len(list) : list[k] \in group}
    <2>1. at # {} /\ at \subseteq Nat
        <3>1. PICK k \in DOMAIN list : list[k] \in group
            BY <1>10 DEF ToSet
        <3>2. 1 .. Len(list) \subseteq Nat
            BY <1>2
        <3> QED
            BY <1>2, <3>1, <3>2
    <2>2. PICK k \in at : \A j \in at : k <= j
        BY <2>1, LeastNatural
    <2>3. k \in kept
        <3> SUFFICES ASSUME NEW j \in 1 .. k - 1,
                            KeysOf(list[j]) \cap KeysOf(list[k]) # {}
                     PROVE  FALSE
            BY <1>2 DEF Kept
        <3>1. j \in 1 .. Len(list) /\ j < k
            <4>1. k \in 1 .. Len(list) /\ j \in 1 .. k - 1
                OBVIOUS
            <4> HIDE DEF at
            <4> QED
                BY <1>2, <4>1
        <3>2. KeysOf(list[k]) \cap KeysOf(list[j]) # {}
            OBVIOUS
        <3>3. j \in at
            <4>1. list[k] \in group /\ list[j] \in ToSet(list)
                BY <1>2, <3>1
            <4> QED
                BY <1>10, <3>1, <3>2, <4>1
        <3> QED
            BY <2>2, <3>1, <3>3
    <2> QED
        BY <1>8, <2>3
<1> QED
    BY <1>2, <1>3, <1>7, <1>8, <1>9, <1>10

-----------------------------------------------------------------------------
(* The steps of a search.                                                  *)

(* A step that only reads leaves what was followed as it was. *)
LEMMA ReadsKeep ==
    ASSUME SearchInv, Reads, UNCHANGED past, ~Searching("idle"),
           search' \in Searches, search'.pc # "idle"
    PROVE  SearchType' /\ Followed'
<1>1. search' # NoSearch
    BY NothingYet
<1> QED
    BY <1>1 DEF SearchInv, SearchType, Followed, Searching, Reads, Visible, Admitted

LEMMA BeginSearchKeeps ==
    ASSUME SearchInv, BeginSearch
    PROVE  SearchInv'
<1> USE DEF Searching
<1>1. Visible \in SUBSET Shelved /\ Admitted \in SUBSET Shelved
    BY DEF Visible, Admitted
<1>2. /\ search' \in Searches /\ search'.pc = "embed" /\ search'.results = << >>
      /\ past' \in Pasts /\ past'.visible = Visible /\ past'.selected = Admitted
      /\ past'.links = links /\ past'.stayed = Visible /\ past'.held = reranker
    <2>1. search' \in Searches /\ search'.pc = "embed" /\ search'.results = << >>
        BY NothingYet DEF BeginSearch, Searches, Pcs
    <2> QED
        BY <1>1, <2>1, NothingYet DEF BeginSearch, SearchInv, SearchType, Pasts
<1>3. SearchType'
    BY <1>2, NothingYet DEF BeginSearch, SearchInv, SearchType
<1>4. Followed'
    <2>1. \A m \in Visible : shelf[m] # "absent"
        BY DEF Visible
    <2> QED
        BY <1>2, <2>1 DEF BeginSearch, Followed, Visible, Admitted
<1> QED
    BY <1>2, <1>3, <1>4
    DEF SearchInv, Selection, VectorFound, WordsFound, CandidatesFound,
        SeedsMatch, CandidatesDistinct, Answered

LEMMA EmbedQueryKeeps ==
    ASSUME SearchInv, EmbedQuery
    PROVE  SearchInv'
<1> USE DEF Searching
<1>1. /\ search' \in Searches /\ search'.results = << >>
      /\ search'.pc \in {"rids", "raised"}
      /\ past' \in Pasts /\ past'.visible = past.visible /\ past'.selected = past.selected
      /\ past'.links = past.links /\ past'.stayed = past.stayed
      /\ past'.deleted = past.deleted /\ past'.held = past.held
      /\ search'.pc = "raised" => past'.unanswered
    <2>1. PICK works \in BOOLEAN :
            /\ search' = [search EXCEPT !.pc = IF works THEN "rids" ELSE "raised"]
            /\ past' = [past EXCEPT !.unanswered = ~works]
        BY DEF EmbedQuery
    <2>2. search \in Searches /\ past \in Pasts /\ search.results = << >>
        BY DEF EmbedQuery, SearchInv, SearchType, Answered
    <2>3. CASE works
        BY <2>1, <2>2, <2>3 DEF Searches, Pasts, Pcs
    <2>4. CASE ~works
        BY <2>1, <2>2, <2>4 DEF Searches, Pasts, Pcs
    <2> QED
        BY <2>3, <2>4
<1>2. SearchType'
    BY <1>1, NothingYet DEF EmbedQuery, Reads, SearchInv, SearchType
<1>3. Followed'
    BY <1>1 DEF EmbedQuery, Reads, SearchInv, Followed, Visible, Admitted
<1> QED
    BY <1>1, <1>2, <1>3
    DEF SearchInv, Selection, VectorFound, WordsFound, CandidatesFound,
        SeedsMatch, CandidatesDistinct, Answered

LEMMA SelectRidsKeeps ==
    ASSUME SearchInv, SelectRids
    PROVE  SearchInv'
<1> USE DEF Searching
<1>1. /\ search' \in Searches /\ search'.results = << >> /\ search'.pc = "nearest"
      /\ search'.allowed = {m \in Admitted : library[m].embedded}
    BY DEF SelectRids, SearchInv, SearchType, Searches, Pcs, Answered, Admitted
<1>2. SearchType' /\ Followed'
    BY <1>1, ReadsKeep DEF SelectRids
<1>3. Selection'
    <2>1. \A m \in past.stayed : library[m].inScope => m \in Admitted
        BY DEF SelectRids, SearchInv, Followed, Visible, Admitted
    <2> QED
        BY <1>1, <2>1
        DEF SelectRids, Reads, SearchInv, SearchType, Followed, Selection, Admitted
<1> QED
    BY <1>1, <1>2, <1>3
    DEF SearchInv, VectorFound, WordsFound, CandidatesFound,
        SeedsMatch, CandidatesDistinct, Answered

(* A query that is not cut off returns all of the records. *)
LEMMA OfTheseAll ==
    ASSUME NEW records \in SUBSET Shelved, NEW chosen \in OfThese(records)
    PROVE  /\ chosen \subseteq records
           /\ Cardinality(records) <= CandidateLimit => chosen = records
<1>1. Cardinality(records) \in Nat /\ IsFiniteSet(records)
    BY ShelfIsFinite
<1>2. chosen \in SUBSET records
    BY DEF OfThese
<1>3. ASSUME Cardinality(records) <= CandidateLimit
      PROVE  Cardinality(chosen) = Cardinality(records)
    BY <1>1, <1>3, Limits DEF OfThese
<1> QED
    BY <1>1, <1>2, <1>3, FS_Subset

LEMMA FindNearestKeeps ==
    ASSUME SearchInv, FindNearest
    PROVE  SearchInv'
<1> USE DEF Searching
<1> DEFINE records == {m \in search.allowed : shelf[m] # "absent"}
<1>1. PICK nearest \in OfThese(records) :
        search' = [search EXCEPT !.pc = "words", !.vector = FilterRecords(nearest)]
    BY DEF FindNearest
<1>2. /\ search.pc = "nearest" /\ search \in Searches /\ past \in Pasts
      /\ search.allowed \in SUBSET Shelved /\ past.selected \in SUBSET Shelved
      /\ search.allowed \subseteq past.selected
      /\ \A m \in search.allowed : library[m].inScope
    BY DEF FindNearest, SearchInv, SearchType, Selection, Searches, Pasts
<1>3. nearest \subseteq records /\ (Cardinality(records) <= CandidateLimit => nearest = records)
    BY <1>2, OfTheseAll
<1>4. /\ search' \in Searches /\ search'.results = << >> /\ search'.pc = "words"
      /\ search'.vector = nearest \cap Visible
    BY <1>1, <1>2 DEF SearchInv, Searches, Pcs, Answered, FilterRecords, Visible
<1>5. SearchType' /\ Followed'
    BY <1>2, <1>4, ReadsKeep DEF FindNearest
<1>6. VectorFound'
    <2>1. ASSUME Roomy
          PROVE  nearest = records
        <3>1. Cardinality(records) <= Cardinality(past.selected)
            BY <1>2, ShelfIsFinite, FS_Subset
        <3>2. Cardinality(records) \in Nat /\ Cardinality(past.selected) \in Nat
            BY <1>2, ShelfIsFinite
        <3> QED
            BY <1>3, <2>1, <3>1, <3>2, Limits DEF Roomy
    <2>2. \A m \in past.stayed :
            /\ m \in Visible /\ m \in Shelved /\ shelf[m] = "visible"
            /\ library[m].inScope /\ library[m].near => m \in records
        BY <1>2 DEF SearchInv, SearchType, Followed, Selection, Visible
    <2>3. Visible \subseteq past.visible
        BY <1>2 DEF SearchInv, Followed
    <2>4. /\ nearest \cap Visible \subseteq past.visible \cap past.selected
          /\ \A m \in nearest : library[m].inScope
        BY <1>2, <1>3, <2>3
    <2> QED
        BY <1>4, <2>1, <2>2, <2>4 DEF FindNearest, Reads, VectorFound, Roomy
<1> QED
    BY <1>4, <1>5, <1>6
    DEF SearchInv, Selection, WordsFound, CandidatesFound,
        SeedsMatch, CandidatesDistinct, Answered

LEMMA FindWordsKeeps ==
    ASSUME SearchInv, FindWords
    PROVE  SearchInv'
<1> USE DEF Searching
<1> DEFINE records == {m \in Admitted : library[m].worded}
<1>1. PICK found \in OfThese(records) :
        search' = [search EXCEPT !.pc = "fuse", !.worded = FilterRecords(found)]
    BY DEF FindWords
<1>2. /\ search.pc = "words" /\ search \in Searches /\ past \in Pasts
      /\ records \in SUBSET Shelved /\ past.selected \in SUBSET Shelved
      /\ Admitted \subseteq past.selected /\ Visible \subseteq past.visible
    BY DEF FindWords, SearchInv, SearchType, Followed, Searches, Pasts, Admitted
<1>3. found \subseteq records /\ (Cardinality(records) <= CandidateLimit => found = records)
    BY <1>2, OfTheseAll
<1>4. /\ search' \in Searches /\ search'.results = << >> /\ search'.pc = "fuse"
      /\ search'.worded = found \cap Visible /\ search'.vector = search.vector
    BY <1>1, <1>2 DEF SearchInv, Searches, Pcs, Answered, FilterRecords, Visible
<1>5. SearchType' /\ Followed'
    BY <1>2, <1>4, ReadsKeep DEF FindWords
<1>6. WordsFound'
    <2>1. ASSUME Roomy
          PROVE  found = records
        <3>1. records \in SUBSET past.selected
            BY <1>2
        <3>2. Cardinality(records) <= Cardinality(past.selected)
            BY <1>2, <3>1, ShelfIsFinite, FS_Subset
        <3>3. Cardinality(records) \in Nat /\ Cardinality(past.selected) \in Nat
            BY <1>2, ShelfIsFinite
        <3> QED
            BY <1>3, <2>1, <3>2, <3>3, Limits DEF Roomy
    <2>2. \A m \in past.stayed :
            m \in Visible /\ (library[m].inScope /\ library[m].worded => m \in records)
        BY <1>2 DEF SearchInv, Followed, Visible, Admitted
    <2>3. \A m \in records : m \in past.selected /\ library[m].inScope /\ library[m].worded
        BY <1>2 DEF Admitted
    <2>4. /\ found \cap Visible \subseteq past.visible \cap past.selected
          /\ \A m \in found : library[m].inScope /\ library[m].worded
        BY <1>2, <1>3, <2>3
    <2> QED
        BY <1>4, <2>1, <2>2, <2>4 DEF FindWords, Reads, WordsFound, Roomy
<1>7. VectorFound'
    BY <1>2, <1>4 DEF SearchInv, FindWords, Reads, VectorFound, Roomy
<1> QED
    BY <1>4, <1>5, <1>6, <1>7
    DEF SearchInv, Selection, CandidatesFound, SeedsMatch, CandidatesDistinct, Answered

(* The TopN of a ranked set: the whole set if it has no more. *)
LEMMA BestOf ==
    ASSUME NEW S \in SUBSET Shelved, NEW o \in SetToSeqs(S)
    PROVE  /\ Best(o) \in Seq(Shelved) /\ ToSet(Best(o)) \subseteq S
           /\ Cardinality(S) <= TopN => ToSet(Best(o)) = S
<1>1. o \in Seq(S) /\ Len(o) = Cardinality(S) /\ Len(o) \in Nat /\ ToSet(o) = S
    BY ShelfIsFinite, ListsAll
<1>2. o \in Seq(Shelved)
    BY <1>1, SeqMonotonic
<1> DEFINE n == IF Len(o) < TopN THEN Len(o) ELSE TopN
<1>3. n \in 0 .. Len(o) /\ (Cardinality(S) <= TopN => n = Len(o))
    BY <1>1, Limits
<1>4. Best(o) = SubSeq(o, 1, n)
    BY DEF Best
<1> HIDE DEF n
<1>5. /\ Best(o) \in Seq(Shelved) /\ ToSet(Best(o)) \subseteq ToSet(o)
      /\ n = Len(o) => Best(o) = o
    BY <1>2, <1>3, <1>4, FirstOf
<1> QED
    BY <1>1, <1>3, <1>5

(* What is in the list stands for itself. *)
LEMMA MembersStand ==
    ASSUME NEW list, NEW m \in ToSet(list)
    PROVE  StandsFor(list, m)
    BY DEF StandsFor

(* Deduplication changes nothing of what an answer is judged by. *)
LEMMA DeduplicatedStands ==
    ASSUME NEW list \in Seq(Shelved), NEW left \in Deduplicated(list),
           past.visible \in SUBSET Shelved, Explained(list)
    PROVE  /\ Explained(left)
           /\ \A m \in past.visible : StandsFor(list, m) => StandsFor(left, m)
           /\ list # << >> => left # << >>
<1>1. Explained(left)
    BY DeduplicatedKeeps DEF Explained
<1>2. ASSUME NEW m \in past.visible, StandsFor(list, m)
      PROVE  StandsFor(left, m)
    <2> SUFFICES ASSUME NEW group \in SUBSET past.visible, m \in group, Closed(group)
                 PROVE  group \cap ToSet(left) # {}
        BY DEF StandsFor
    <2>1. group \cap ToSet(list) # {}
        BY <1>2 DEF StandsFor
    <2>2. \A a \in group, b \in ToSet(list) :
            KeysOf(a) \cap KeysOf(b) # {} => b \in group
        BY DEF Explained, Closed
    <2> QED
        BY <2>1, <2>2, DeduplicatedKeeps
<1>3. ASSUME list # << >>
      PROVE  left # << >>
    <2>1. ToSet(list) # {}
        BY <1>3, ElementsOf
    <2>2. ToSet(list) \cap ToSet(left) # {}
        BY <2>1, DeduplicatedKeeps
    <2> QED
        BY <2>2, DeduplicatedKeeps, ElementsOf
<1> QED
    BY <1>1, <1>2, <1>3

LEMMA FuseKeeps ==
    ASSUME SearchInv, Fuse
    PROVE  SearchInv'
<1> USE DEF Searching
<1> DEFINE similar == {m \in search.vector : library[m].near}
<1> DEFINE After(fused, expands) ==
             IF fused = << >> THEN [NoSearch EXCEPT !.pc = "answered"]
             ELSE [search EXCEPT !.candidates = fused,
                     !.pc = IF expands THEN "expand" ELSE "rank",
                     !.seeds = IF expands THEN fused ELSE << >>]
<1>a. PICK vector \in VectorMatches, words \in FullTextMatches, expands \in Expansion :
        \E listed \in Fused(vector, words) :
          \E fused \in Deduplicated(listed) : search' = After(fused, expands)
    BY DEF Fuse
<1>b. PICK listed \in Fused(vector, words) :
        \E fused \in Deduplicated(listed) : search' = After(fused, expands)
    BY <1>a
<1>1. PICK fused \in Deduplicated(listed) : search' = After(fused, expands)
    BY <1>b
<1>2. /\ search.pc = "fuse" /\ search \in Searches /\ past \in Pasts
      /\ similar \in SUBSET Shelved /\ search.worded \in SUBSET Shelved
      /\ past.visible \in SUBSET Shelved /\ past.selected \in SUBSET Shelved
      /\ past.stayed \subseteq past.visible
      /\ UNCHANGED <<library, shelf, links, past>>
    BY DEF Fuse, Reads, SearchInv, SearchType, Followed, Searches, Pasts
<1>3. /\ similar \subseteq past.visible \cap past.selected
      /\ search.worded \subseteq past.visible \cap past.selected
      /\ \A m \in similar \cup search.worded : Matching(m)
      /\ Roomy => \A m \in past.stayed : Matching(m) => m \in similar \cup search.worded
    BY <1>2 DEF SearchInv, VectorFound, WordsFound, Matching
<1>4. /\ vector \in Seq(Shelved) /\ ToSet(vector) \subseteq similar
      /\ Cardinality(similar) <= TopN => ToSet(vector) = similar
    <2>1. PICK o \in SetToSeqs(similar) : vector = Best(o)
        BY DEF VectorMatches
    <2> HIDE DEF similar
    <2> QED
        BY <1>2, <2>1, BestOf
<1>5. /\ words \in Seq(Shelved) /\ ToSet(words) \subseteq search.worded
      /\ Cardinality(search.worded) <= TopN => ToSet(words) = search.worded
    BY <1>2, BestOf DEF FullTextMatches
<1>6. listed \in Seq(Shelved) /\ ToSet(listed) = ToSet(vector) \cup ToSet(words)
    BY <1>4, <1>5, FusedLists
<1>7. \A m \in ToSet(listed) : m \in past.visible /\ Matching(m)
    BY <1>3, <1>4, <1>5, <1>6
<1>8. Explained(listed)
    BY <1>7 DEF Explained
<1>9. Covered(listed)
    <2> SUFFICES ASSUME Roomy, NEW m \in past.stayed, Matching(m)
                 PROVE  m \in ToSet(listed)
        BY MembersStand DEF Covered
    <2>1. /\ Cardinality(similar) <= Cardinality(past.selected)
          /\ Cardinality(search.worded) <= Cardinality(past.selected)
        <3>1. /\ similar \in SUBSET past.selected /\ search.worded \in SUBSET past.selected
              /\ IsFiniteSet(past.selected)
            BY <1>2, <1>3, ShelfIsFinite
        <3> HIDE DEF similar
        <3> QED
            BY <3>1, FS_Subset
    <2>2. Cardinality(similar) \in Nat /\ Cardinality(search.worded) \in Nat
          /\ Cardinality(past.selected) \in Nat
        BY <1>2, ShelfIsFinite
    <2>3. Cardinality(similar) <= TopN /\ Cardinality(search.worded) <= TopN
        BY <2>1, <2>2, Limits DEF Roomy
    <2>4. m \in similar \cup search.worded
        BY <1>3
    <2> QED
        BY <1>4, <1>5, <1>6, <2>3, <2>4
<1>10. /\ fused \in Seq(Shelved) /\ Distinct(fused) /\ ToSet(fused) \subseteq ToSet(listed)
       /\ Explained(fused) /\ Covered(fused)
       /\ fused = << >> => listed = << >>
    <2>1. fused \in Seq(Shelved) /\ Distinct(fused) /\ ToSet(fused) \subseteq ToSet(listed)
        BY <1>6, DeduplicatedKeeps
    <2>2. /\ Explained(fused) /\ (listed # << >> => fused # << >>)
          /\ \A m \in past.visible : StandsFor(listed, m) => StandsFor(fused, m)
        BY <1>2, <1>6, <1>8, DeduplicatedStands
    <2>3. Covered(fused)
        BY <1>2, <1>9, <2>2 DEF Covered
    <2> QED
        BY <2>1, <2>2, <2>3
<1>11. CASE fused = << >>
    <2>1. /\ search' \in Searches /\ search'.pc = "answered" /\ search'.results = << >>
        BY <1>1, <1>11, NothingYet DEF Searches, Pcs
    <2>2. SearchType' /\ Followed'
        BY <1>2, <2>1, ReadsKeep DEF Fuse
    <2>3. Answered'
        <3>1. Covered(search.results)'
            BY <1>2, <1>10, <1>11, <2>1
            DEF Covered, StandsFor, Closed, Matching, KeysOf, Roomy
        <3>2. Explained(search.results)' /\ OneResultPerKey'
            BY <2>1, EmptySeq DEF Explained, OneResultPerKey, ToSet
        <3> QED
            BY <2>1, <3>1, <3>2 DEF Answered
    <2> QED
        BY <2>1, <2>2, <2>3
        DEF SearchInv, Selection, VectorFound, WordsFound, CandidatesFound,
            SeedsMatch, CandidatesDistinct
<1>12. CASE fused # << >>
    <2>1. /\ search' \in Searches /\ search'.pc \in {"expand", "rank"}
          /\ search'.results = << >> /\ search'.candidates = fused
          /\ search'.pc = "expand" => search'.seeds = fused
        BY <1>1, <1>2, <1>10, <1>12, EmptySeq DEF SearchInv, Answered, Searches, Pcs
    <2>2. SearchType' /\ Followed'
        BY <1>2, <2>1, ReadsKeep DEF Fuse
    <2>3. Explained(search.candidates)' /\ Covered(search.candidates)'
        <3>1. Explained(search.candidates)'
            BY <1>2, <1>10, <2>1 DEF Explained, Matching
        <3>2. Covered(search.candidates)'
            BY <1>2, <1>10, <2>1 DEF Covered, StandsFor, Closed, Matching, KeysOf, Roomy
        <3> QED
            BY <3>1, <3>2
    <2>4. Distinct(search.candidates)'
        BY <1>2, <1>10, <2>1 DEF Distinct, KeysOf
    <2>5. SeedsMatch'
        BY <1>2, <1>7, <1>10, <2>1 DEF SeedsMatch, Matching
    <2> QED
        BY <2>1, <2>2, <2>3, <2>4, <2>5
        DEF SearchInv, Selection, VectorFound, WordsFound, CandidatesFound,
            CandidatesDistinct, Answered
<1> QED
    BY <1>11, <1>12

LEMMA ExpandKeeps ==
    ASSUME SearchInv, Expand
    PROVE  SearchInv'
<1> USE DEF Searching
<1> DEFINE seed == Head(search.seeds)
           list == search.candidates
<1>1. /\ search.pc = "expand" /\ search \in Searches /\ past \in Pasts
      /\ search.seeds \in Seq(Shelved) /\ search.seeds # << >> /\ list \in Seq(Shelved)
      /\ UNCHANGED <<library, shelf, links, past>>
      /\ search.results = << >>
    BY DEF Expand, Reads, SearchInv, SearchType, Answered, Searches
<1>2. /\ seed \in past.visible /\ Matching(seed)
      /\ Explained(list) /\ Covered(list)
      /\ \A m \in ToSet(search.seeds) : m \in past.visible /\ Matching(m)
      /\ Visible \subseteq past.visible /\ links \subseteq past.links
    BY <1>1, HeadAndTail DEF SearchInv, SeedsMatch, CandidatesFound, Followed
<1>3. CASE shelf[seed] = "absent"
    <2>1. search' \in Searches /\ search'.pc = "raised" /\ search'.results = << >>
        BY <1>1, <1>3 DEF Expand, Searches, Pcs
    <2>2. SearchType' /\ Followed'
        BY <1>1, <2>1, ReadsKeep DEF Expand
    <2>3. past.deleted
        BY <1>1, <1>2, <1>3 DEF SearchInv, Followed
    <2> QED
        BY <1>1, <2>1, <2>2, <2>3
        DEF SearchInv, Selection, VectorFound, WordsFound, CandidatesFound,
            SeedsMatch, CandidatesDistinct, Answered
<1>4. CASE shelf[seed] # "absent"
    <2> DEFINE next == Neighbors(seed) \ ToSet(list)
    <2>1. PICK more \in SetToSeqs(next) :
            search' = [search EXCEPT !.seeds = Tail(@), !.candidates = @ \o more]
        BY <1>4 DEF Expand
    <2>2. \A m \in next : m \in Visible /\ m \in Shelved /\ {seed, m} \in links
        BY DEF Neighbors, FilterRecords, Visible
    <2>3. more \in Seq(Shelved) /\ ToSet(more) = next
        <3>1. next \in SUBSET Shelved
            BY <2>2
        <3> HIDE DEF next
        <3>2. more \in Seq(next) /\ ToSet(more) = next
            BY <3>1, ShelfIsFinite, ListsAll
        <3> QED
            BY <3>1, <3>2, SeqMonotonic
    <2>4. /\ search' \in Searches /\ search'.pc = "expand" /\ search'.results = << >>
          /\ search'.candidates = list \o more /\ search'.seeds = Tail(search.seeds)
          /\ list \o more \in Seq(Shelved)
          /\ ToSet(list \o more) = ToSet(list) \cup next
        <3>1. list \o more \in Seq(Shelved) /\ ToSet(list \o more) = ToSet(list) \cup next
            BY <1>1, <2>3, Appended
        <3>2. Tail(search.seeds) \in Seq(Shelved)
            BY <1>1, HeadAndTail
        <3> QED
            BY <1>1, <2>1, <3>1, <3>2 DEF Searches
    <2>5. SearchType' /\ Followed'
        BY <1>1, <2>4, ReadsKeep DEF Expand
    <2>6. Explained(search.candidates)'
        <3>1. ASSUME NEW m \in next
              PROVE  /\ m \in past.visible
                     /\ \E n \in past.visible : Matching(n) /\ {m, n} \in past.links
            <4>1. {seed, m} = {m, seed}
                OBVIOUS
            <4> QED
                BY <1>2, <2>2, <4>1
        <3> HIDE DEF next
        <3>2. Explained(list \o more)
            BY <1>2, <2>4, <3>1 DEF Explained
        <3> QED
            BY <1>1, <2>4, <3>2 DEF Explained, Matching
    <2>7. Covered(search.candidates)'
        <3>1. Covered(list \o more)
            BY <1>2, <2>4 DEF Covered, StandsFor
        <3> QED
            BY <1>1, <2>4, <3>1 DEF Covered, StandsFor, Closed, Matching, KeysOf, Roomy
    <2>8. SeedsMatch'
        <3>1. ToSet(Tail(search.seeds)) \subseteq ToSet(search.seeds)
            BY <1>1, HeadAndTail
        <3> QED
            BY <1>1, <1>2, <2>4, <3>1 DEF SeedsMatch, Matching
    <2> QED
        BY <2>4, <2>5, <2>6, <2>7, <2>8
        DEF SearchInv, Selection, VectorFound, WordsFound, CandidatesFound,
            CandidatesDistinct, Answered
<1> QED
    BY <1>3, <1>4

LEMMA EndExpandKeeps ==
    ASSUME SearchInv, EndExpand
    PROVE  SearchInv'
<1> USE DEF Searching
<1> DEFINE list == search.candidates
<1>1. /\ search.pc = "expand" /\ search \in Searches
      /\ past.visible \in SUBSET Shelved /\ past.stayed \subseteq past.visible
      /\ list \in Seq(Shelved) /\ Explained(list) /\ Covered(list)
      /\ UNCHANGED <<library, shelf, links, past>>
      /\ search.results = << >>
    BY DEF EndExpand, Reads, SearchInv, SearchType, Followed, CandidatesFound, Answered,
           Searches, Pasts
<1>2. PICK kept \in Deduplicated(list) :
        search' = [search EXCEPT !.pc = "rank", !.candidates = kept]
    BY DEF EndExpand
<1>3. /\ kept \in Seq(Shelved) /\ Distinct(kept) /\ Explained(kept) /\ Covered(kept)
    <2>1. kept \in Seq(Shelved) /\ Distinct(kept)
        BY <1>1, DeduplicatedKeeps
    <2>2. Explained(kept) /\ \A m \in past.visible : StandsFor(list, m) => StandsFor(kept, m)
        BY <1>1, DeduplicatedStands
    <2>3. Covered(kept)
        BY <1>1, <2>2 DEF Covered
    <2> QED
        BY <2>1, <2>2, <2>3
<1>4. /\ search' \in Searches /\ search'.pc = "rank" /\ search'.results = << >>
      /\ search'.candidates = kept
    BY <1>1, <1>2, <1>3 DEF Searches, Pcs
<1>5. SearchType' /\ Followed'
    BY <1>1, <1>4, ReadsKeep DEF EndExpand
<1>6. Explained(search.candidates)'
    BY <1>1, <1>3, <1>4 DEF Explained, Matching
<1>7. Covered(search.candidates)'
    BY <1>1, <1>3, <1>4 DEF Covered, StandsFor, Closed, Matching, KeysOf, Roomy
<1>8. Distinct(search.candidates)'
    BY <1>1, <1>3, <1>4 DEF Distinct, KeysOf
<1> QED
    BY <1>4, <1>5, <1>6, <1>7, <1>8
    DEF SearchInv, Selection, VectorFound, WordsFound, CandidatesFound,
        SeedsMatch, CandidatesDistinct, Answered

LEMMA BuildRerankerKeeps ==
    ASSUME SearchInv, BuildReranker
    PROVE  SearchInv'
<1> USE DEF Searching
<1>1. /\ search.pc = "rank" /\ search' \in Searches /\ search'.results = << >>
      /\ search'.candidates = search.candidates
      /\ search'.pc \in {"rerank", "raised"}
      /\ search'.pc = "raised" => ~past.held
      /\ reranker' \in BOOLEAN /\ (reranker => reranker')
      /\ UNCHANGED <<library, shelf, links, past>>
    <2>1. PICK pc \in {"rerank", "raised"} :
            /\ search' = [search EXCEPT !.pc = pc]
            /\ pc = "raised" => ~reranker
        BY DEF BuildReranker
    <2>2. /\ search.pc = "rank" /\ search \in Searches /\ search.results = << >>
          /\ past.held => reranker
        BY DEF BuildReranker, SearchInv, SearchType, Followed, Answered
    <2>3. /\ search' \in Searches /\ search'.results = << >>
          /\ search'.candidates = search.candidates /\ search'.pc = pc
        BY <2>1, <2>2 DEF Searches, Pcs
    <2> QED
        BY <2>1, <2>2, <2>3 DEF BuildReranker, SearchInv, SearchType
<1>2. SearchType' /\ Followed'
    <2>1. search' # NoSearch
        BY <1>1, NothingYet
    <2> QED
        BY <1>1, <2>1 DEF SearchInv, SearchType, Followed, Visible, Admitted
<1>3. Explained(search.candidates)'
    BY <1>1 DEF SearchInv, CandidatesFound, Explained, Matching
<1>4. Covered(search.candidates)'
    BY <1>1 DEF SearchInv, CandidatesFound, Covered, StandsFor, Closed, Matching, KeysOf, Roomy
<1>5. Distinct(search.candidates)'
    BY <1>1 DEF SearchInv, CandidatesDistinct, Distinct, KeysOf
<1> QED
    BY <1>1, <1>2, <1>3, <1>4, <1>5
    DEF SearchInv, Selection, VectorFound, WordsFound, CandidatesFound,
        SeedsMatch, CandidatesDistinct, Answered

LEMMA RerankKeeps ==
    ASSUME SearchInv, Rerank
    PROVE  SearchInv'
<1> USE DEF Searching
<1>1. /\ search.pc = "rerank" /\ search' = [search EXCEPT !.pc = "answer"]
      /\ search' \in Searches /\ search'.results = << >>
      /\ search'.candidates = search.candidates /\ search'.pc = "answer"
      /\ UNCHANGED <<library, shelf, links, past>>
    BY DEF Rerank, AfterRerank, Reads, SearchInv, SearchType, Answered, Searches, Pcs
<1>2. SearchType' /\ Followed'
    BY <1>1, ReadsKeep DEF Rerank
<1>3. Explained(search.candidates)'
    BY <1>1 DEF SearchInv, CandidatesFound, Explained, Matching
<1>4. Covered(search.candidates)'
    BY <1>1 DEF SearchInv, CandidatesFound, Covered, StandsFor, Closed, Matching, KeysOf, Roomy
<1>5. Distinct(search.candidates)'
    BY <1>1 DEF SearchInv, CandidatesDistinct, Distinct, KeysOf
<1> QED
    BY <1>1, <1>2, <1>3, <1>4, <1>5
    DEF SearchInv, Selection, VectorFound, WordsFound, CandidatesFound,
        SeedsMatch, CandidatesDistinct, Answered

LEMMA AnswerKeeps ==
    ASSUME SearchInv, Answer
    PROVE  SearchInv'
<1> USE DEF Searching
<1> DEFINE list == search.candidates
           cut(order) == IF Len(order) < ResultLimit THEN Len(order) ELSE ResultLimit
<1>1. /\ search.pc = "answer" /\ past.visible \in SUBSET Shelved
      /\ list \in Seq(Shelved) /\ Explained(list) /\ Covered(list) /\ Distinct(list)
      /\ UNCHANGED <<library, shelf, links, past>>
    BY DEF Answer, Reads, SearchInv, SearchType, CandidatesFound, CandidatesDistinct,
           Searches, Pasts
<1>2. PICK order \in SetToSeqs(ToSet(list)) :
        search' = [NoSearch EXCEPT !.pc = "answered",
                     !.results = SubSeq(order, 1, cut(order))]
    BY DEF Answer
<1>3. ToSet(list) \in SUBSET Shelved /\ ToSet(list) \subseteq past.visible
    BY <1>1, ElementsOf DEF Explained
<1>4. /\ order \in Seq(ToSet(list)) /\ Len(order) = Cardinality(ToSet(list))
      /\ Len(order) \in Nat /\ ToSet(order) = ToSet(list)
      /\ \A j, k \in 1 .. Len(order) : j # k => order[j] # order[k]
    BY <1>3, ShelfIsFinite, ListsAll
<1>5. order \in Seq(Shelved)
    BY <1>3, <1>4, SeqMonotonic
<1> DEFINE n == cut(order)
           shown == SubSeq(order, 1, n)
<1>6. n \in 0 .. Len(order) /\ (Len(order) <= ResultLimit => n = Len(order))
    BY <1>4, Limits
<1> HIDE DEF n
<1>7. /\ shown \in Seq(Shelved) /\ Len(shown) = n /\ ToSet(shown) \subseteq ToSet(list)
      /\ \A k \in 1 .. n : shown[k] = order[k]
      /\ n = Len(order) => ToSet(shown) = ToSet(list)
    BY <1>4, <1>5, <1>6, FirstOf
<1>8. /\ search' \in Searches /\ search'.pc = "answered" /\ search'.results = shown
    BY <1>2, <1>7, NothingYet DEF Searches, Pcs, n
<1> HIDE DEF shown
<1>9. SearchType' /\ Followed'
    BY <1>1, <1>8, ReadsKeep DEF Answer
<1>10. Explained(search.results)'
    <2>1. Explained(shown)
        BY <1>1, <1>7 DEF Explained
    <2> QED
        BY <1>1, <1>8, <2>1 DEF Explained, Matching
<1>11. Covered(search.results)'
    <2>1. ASSUME Roomy
          PROVE  ToSet(shown) = ToSet(list)
        <3>1. Len(order) <= Cardinality(past.visible)
            BY <1>1, <1>3, <1>4, ShelfIsFinite, FS_Subset
        <3>2. Cardinality(past.visible) \in Nat
            BY <1>1, ShelfIsFinite
        <3>3. Len(order) <= ResultLimit
            BY <1>4, <2>1, <3>1, <3>2, Limits DEF Roomy
        <3> QED
            BY <1>6, <1>7, <3>3
    <2>2. Covered(shown)
        BY <1>1, <2>1 DEF Covered, StandsFor
    <2> QED
        BY <1>1, <1>8, <2>2 DEF Covered, StandsFor, Closed, Matching, KeysOf, Roomy
<1>12. OneResultPerKey'
    <2> SUFFICES \A j, k \in 1 .. n :
                   j # k => /\ order[j] # order[k]
                            /\ library[order[j]].keys \cap library[order[k]].keys = {}
        <3>1. Len(shown) = n /\ \A k \in 1 .. n : shown[k] = order[k]
            BY <1>7
        <3>2. search'.results = shown /\ library' = library
            BY <1>1, <1>8
        <3> QED
            BY <3>1, <3>2, ZenonT(60) DEF OneResultPerKey
    <2> TAKE j, k \in 1 .. n
    <2> HAVE j # k
    <2>1. j \in 1 .. Len(order) /\ k \in 1 .. Len(order)
        BY <1>4, <1>6
    <2>2. order[j] # order[k] /\ order[j] \in ToSet(list) /\ order[k] \in ToSet(list)
        BY <1>4, <2>1, ElementOfSeq
    <2>3. list \in Seq(Shelved)
        BY <1>1
    <2>4. ToSet(list) = {list[i] : i \in 1 .. Len(list)}
        <3>1. DOMAIN list = 1 .. Len(list)
            BY <2>3, LenProperties
        <3> QED
            BY <3>1 DEF ToSet
    <2>5. PICK p \in 1 .. Len(list), q \in 1 .. Len(list) :
            list[p] = order[j] /\ list[q] = order[k]
        BY <2>2, <2>4
    <2>6. KeysOf(list[p]) \cap KeysOf(list[q]) = {}
        BY <1>1, <2>2, <2>5 DEF Distinct
    <2> QED
        BY <2>2, <2>5, <2>6 DEF KeysOf
<1> QED
    BY <1>8, <1>9, <1>10, <1>11, <1>12
    DEF SearchInv, Selection, VectorFound, WordsFound, CandidatesFound,
        SeedsMatch, CandidatesDistinct, Answered

LEMMA EndSearchKeeps ==
    ASSUME SearchInv, EndSearch
    PROVE  SearchInv'
<1> USE DEF Searching
<1>1. /\ search' = NoSearch /\ past' = NoPast
      /\ UNCHANGED <<library, shelf, links, reranker>>
    BY DEF EndSearch, Reads
<1>2. SearchType'
    BY <1>1, NothingYet DEF SearchInv, SearchType
<1> QED
    BY <1>1, <1>2, NothingYet
    DEF SearchInv, Followed, Selection, VectorFound, WordsFound, CandidatesFound,
        SeedsMatch, CandidatesDistinct, Answered

-----------------------------------------------------------------------------
(* The invariant, and what follows from it.                                *)

LEMMA SearchInvInit == RetrievalInit => SearchInv
<1> SUFFICES ASSUME RetrievalInit PROVE SearchInv
    OBVIOUS
<1>1. /\ search = NoSearch /\ past = NoPast
      /\ library \in Libraries /\ links \in LinkSets
      /\ shelf \in [Shelved -> {"visible", "hidden"}] /\ reranker \in BOOLEAN
    BY DEF RetrievalInit
<1>2. /\ library \in [Shelved -> Content] /\ links \in SUBSET SUBSET Shelved
      /\ \A m \in Shelved : library[m].near => library[m].embedded
    BY <1>1, RetrievalAssumption
<1>3. SearchType
    BY <1>1, <1>2, NothingYet DEF SearchType, Searching, Standings
<1> QED
    BY <1>1, <1>3, NothingYet
    DEF SearchInv, Followed, Selection, VectorFound, WordsFound, CandidatesFound,
        SeedsMatch, CandidatesDistinct, Answered, Searching

LEMMA SearchInvStep == SearchInv /\ [RetrievalNext]_retrievalVars => SearchInv'
<1> SUFFICES ASSUME SearchInv, [RetrievalNext]_retrievalVars PROVE SearchInv'
    OBVIOUS
<1>1. CASE Search
    BY <1>1, BeginSearchKeeps, EmbedQueryKeeps, SelectRidsKeeps, FindNearestKeeps,
       FindWordsKeeps, FuseKeeps, ExpandKeeps, EndExpandKeeps,
       BuildRerankerKeeps, RerankKeeps, AnswerKeeps, EndSearchKeeps DEF Search
<1>2. ASSUME NEW m \in Shelved, Show(m) \/ Hide(m) \/ Lapse(m) \/ Delete(m)
      PROVE  SearchInv'
    BY <1>2, ChangesKeepSearchInv
<1>3. ASSUME NEW m \in Shelved, NEW n \in Shelved, Link(m, n)
      PROVE  SearchInv'
    BY <1>3, ChangesKeepSearchInv
<1>4. CASE UNCHANGED retrievalVars
    <2> USE <1>4 DEF retrievalVars
    <2>1. SearchType' /\ Followed'
        BY DEF SearchInv, SearchType, Followed, Searching, Visible, Admitted
    <2>2. Selection' /\ VectorFound' /\ WordsFound' /\ SeedsMatch' /\ CandidatesDistinct'
        BY DEF SearchInv, Selection, VectorFound, WordsFound, SeedsMatch,
               CandidatesDistinct, Distinct, Searching, Roomy, Matching, KeysOf
    <2>3. \A list : Explained(list) => Explained(list)'
        BY DEF Explained, Matching
    <2>4. \A list : Covered(list) => Covered(list)'
        BY DEF Covered, StandsFor, Closed, Matching, KeysOf, Roomy
    <2>5. search' = search /\ (OneResultPerKey => OneResultPerKey')
        BY DEF OneResultPerKey
    <2>6. CandidatesFound'
        BY <2>3, <2>4, <2>5 DEF SearchInv, CandidatesFound
    <2>7. Answered'
        BY <2>3, <2>4, <2>5 DEF SearchInv, Answered, Searching
    <2> QED
        BY <2>1, <2>2, <2>6, <2>7 DEF SearchInv
<1> QED
    BY <1>1, <1>2, <1>3, <1>4 DEF RetrievalNext

LEMMA SearchInvariance == RetrievalSpec => []SearchInv
    BY SearchInvInit, SearchInvStep, PTL DEF RetrievalSpec

(* Every result of a search was visible at some moment since it began, and *)
(* matches the query in its scope or is linked to a match                  *)
(* (RetrievalService.search), for any number of memories, searches and     *)
(* changes between its reads.                                              *)
THEOREM SearchShowsTheVisible == RetrievalSpec => []ResultsWereVisible
<1>1. SearchInv => ResultsWereVisible
    <2>1. SearchInv => Explained(search.results)
        BY NothingToShow DEF SearchInv, Answered
    <2> QED
        BY <2>1 DEF Explained, ResultsWereVisible, Results
<1> QED
    BY <1>1, SearchInvariance, PTL

(* No two results share a key (deduplicate_candidates, after the fusion    *)
(* and after the expansion).                                               *)
THEOREM SearchShowsEachOnce == RetrievalSpec => []OneResultPerKey
<1>1. SearchInv => OneResultPerKey
    BY NothingToShow DEF SearchInv, Answered
<1> QED
    BY <1>1, SearchInvariance, PTL

(* A search fails only when the query could not be embedded, a memory was  *)
(* deleted meanwhile or its reranker had to be built; and when no limit    *)
(* was reached its answer lacks no match that stayed visible: neither the  *)
(* fusion of the two lists nor the two deduplications lose one.            *)
THEOREM SearchLosesNoMatch == RetrievalSpec => []SearchIsComplete
<1>1. SearchInv => SearchIsComplete
    BY DEF SearchInv, Answered, SearchIsComplete, Covered, StandsFor, Closed,
           Represented, Results, Searching
<1> QED
    BY <1>1, SearchInvariance, PTL

-----------------------------------------------------------------------------
(* The invariant of a report: what was counted is as near to the database  *)
(* as the changes since the report began allow, each number and, where two *)
(* of them are combined, the combination.                                  *)

Types == ToSet(MemoryTypes)

Description == [memory_type: Types, status: STRING,
                user_id: Nat, project_id: Nat, agent_id: Nat]

ReportPcs == {"idle", "total", "global", "statuses", "types", "scope_total",
              "scope_global", "tuples", "user_id", "project_id", "agent_id",
              "groups", "type_global", "type_statuses", "done"}

(* A result of a query with GROUP BY: the values found, with their numbers. *)
Numbers(values, numbers) == UNION {[found -> numbers] : found \in SUBSET values}

Counts == Numbers(STRING, Nat)

Shown == [count: Nat, names: SUBSET Nat, remaining: Nat]

TypeShown == [count: Nat, statuses: Counts, global: Nat]

Reports ==
    [pc: ReportPcs, full: BOOLEAN, chunks: BOOLEAN, named: BOOLEAN,
     total: Nat, global: Nat, statuses: Counts, types: Counts,
     scopeTotal: Nat, scopeGlobal: Nat, tuples: Nat,
     scopes: Numbers(Dimensions, Shown), groups: Numbers(Types, Nat),
     pending: SUBSET (DOMAIN MemoryTypes), perType: Numbers(Types, TypeShown)]

InventoryType ==
    /\ stock \in [Held -> Description \cup {NoRecord}]
    /\ changes \in Nat
    /\ \/ report = NoReport
       \/ report \in Reports /\ report.pc # "idle"

(* The steps up to each of the queries; after the last one, and when the   *)
(* query was asked for, its result is there.                               *)
UptoTotal == {"idle", "total"}
UptoGlobal == UptoTotal \cup {"global"}
UptoStatuses == UptoGlobal \cup {"statuses"}
UptoTypes == UptoStatuses \cup {"types"}
UptoScopeTotal == UptoTypes \cup {"scope_total"}
UptoScopeGlobal == UptoScopeTotal \cup {"scope_global"}
UptoTuples == UptoScopeGlobal \cup {"tuples"}
UptoUser == UptoTuples \cup {"user_id"}
UptoProject == UptoUser \cup {"project_id"}
UptoAgent == UptoProject \cup {"agent_id"}
UptoGroups == UptoAgent \cup {"groups"}

SummaryNear ==
    /\ report.pc \notin UptoTotal => Near(report.total, Wanted)
    /\ report.pc \notin UptoGlobal =>
         /\ Near(report.global, Unscoped(Wanted))
         /\ Near(report.total - report.global, Wanted \ Unscoped(Wanted))
    /\ report.pc \notin UptoStatuses =>
         \A status \in STRING :
           Near(At(report.statuses, status), WithStatus(status, Wanted))
    /\ report.pc \notin UptoTypes =>
         \A type \in Types : Near(At(report.types, type), WantedOf(type))

DimensionNear(dim) ==
    /\ dim \in DOMAIN report.scopes
    /\ LET shown == report.scopes[dim]
       IN  /\ Near(shown.count, NamesIn(dim, Wanted))
           /\ report.named => shown.count = Cardinality(shown.names) + shown.remaining
           /\ IsFiniteSet(shown.names)
           /\ Near(Cardinality(shown.names \ NamesIn(dim, Wanted)), {})

ScopesNear ==
    /\ report.pc \notin UptoScopeTotal => Near(report.scopeTotal, Wanted)
    /\ report.pc \notin UptoScopeGlobal =>
         /\ Near(report.scopeGlobal, Unscoped(Wanted))
         /\ Near(report.scopeTotal - report.scopeGlobal, Wanted \ Unscoped(Wanted))
    /\ report.pc \notin UptoTuples => Near(report.tuples, ScopeTuples(Wanted))
    /\ report.pc \notin UptoUser => DimensionNear("user_id")
    /\ report.pc \notin UptoProject => DimensionNear("project_id")
    /\ report.pc \notin UptoAgent => DimensionNear("agent_id")

Waiting == {MemoryTypes[i] : i \in report.pending}

(* The records of the types that were counted, or not found by the query   *)
(* for the groups.                                                         *)
Settled == {m \in Wanted : stock[m].memory_type \notin Waiting}

(* The types of the groups are counted in turn, and one of them is counted *)
(* in part between its two queries.                                        *)
TurnsInOrder ==
    /\ DOMAIN report.groups = DOMAIN report.perType \cup Waiting
    /\ report.pc \in {"type_global", "type_statuses", "done"}
    /\ report.pc = "done" <=> report.pending = {}
    /\ report.pc = "type_global" => DOMAIN report.perType \cap Waiting = {}
    /\ report.pc = "type_statuses" =>
         DOMAIN report.perType \cap Waiting = {MemoryTypes[Turn]}

LineNear(type) ==
    LET shown == report.perType[type]
    IN  /\ shown.count = report.groups[type]
        /\ Near(shown.count - shown.global, WantedOf(type) \ Unscoped(WantedOf(type)))
        /\ type \in Waiting => shown.statuses = << >>
        /\ type \notin Waiting =>
             \A status \in STRING :
               Near(At(shown.statuses, status), WithStatus(status, WantedOf(type)))

TypesNear ==
    report.pc \notin UptoGroups =>
      /\ TurnsInOrder
      /\ \A type \in Types : Near(At(report.groups, type), WantedOf(type))
      /\ \A type \in DOMAIN report.perType : LineNear(type)
      /\ IsFiniteSet(Marks) /\ Near(Cardinality(Marks), Settled)

InventoryInv ==
    /\ InventoryType
    /\ report = NoReport => changes = 0
    /\ report # NoReport =>
         /\ SummaryNear
         /\ report.full => ScopesNear /\ TypesNear
         /\ report.pc \in UptoGroups => report.perType = << >>
         /\ report.pc \notin UptoTypes => report.full \/ report.pc = "done"

-----------------------------------------------------------------------------
(* Cardinalities.                                                          *)

LEMMA HeldIsFinite ==
    ASSUME NEW S \in SUBSET Held
    PROVE  IsFiniteSet(S) /\ Cardinality(S) \in Nat
<1>1. IsFiniteSet(S)
    BY InventoryAssumption, FS_Subset
<1> QED
    BY <1>1, FS_CardinalityType

LEMMA ImageIsFinite ==
    ASSUME NEW S, IsFiniteSet(S), NEW f, DOMAIN f = S
    PROVE  IsFiniteSet({f[x] : x \in S}) /\ Cardinality({f[x] : x \in S}) \in Nat
<1> DEFINE T == {f[x] : x \in S}
           g == [x \in S |-> f[x]]
<1>1. g \in Surjection(S, T)
    BY DEF Surjection
<1>2. IsFiniteSet(T)
    BY <1>1, FS_Surjection
<1> QED
    BY <1>2, FS_CardinalityType

(* A set with one element more, at most. *)
LEMMA OneMore ==
    ASSUME NEW S, IsFiniteSet(S), NEW T, NEW x, S \subseteq T, T \subseteq S \cup {x}
    PROVE  /\ IsFiniteSet(T) /\ Cardinality(T) \in Nat /\ Cardinality(S) \in Nat
           /\ Cardinality(S) <= Cardinality(T)
           /\ Cardinality(T) <= Cardinality(S) + 1
<1>1. /\ IsFiniteSet(S \cup {x}) /\ Cardinality(S) \in Nat
      /\ Cardinality(S \cup {x}) \in Nat
      /\ Cardinality(S \cup {x}) <= Cardinality(S) + 1
    <2>1. IsFiniteSet(S \cup {x}) /\ Cardinality(S) \in Nat
        BY FS_AddElement, FS_CardinalityType
    <2>2. Cardinality(S \cup {x}) = IF x \in S THEN Cardinality(S) ELSE Cardinality(S) + 1
        BY FS_AddElement
    <2> QED
        BY <2>1, <2>2, FS_CardinalityType
<1>2. IsFiniteSet(T) /\ Cardinality(T) <= Cardinality(S \cup {x})
    BY <1>1, FS_Subset
<1>3. Cardinality(S) <= Cardinality(T) /\ Cardinality(T) \in Nat
    BY <1>2, FS_Subset, FS_CardinalityType
<1> QED
    BY <1>1, <1>2, <1>3

(* A number that was near a set is near what one more change makes of it. *)
LEMMA OneChange ==
    ASSUME NEW S, IsFiniteSet(S), NEW T, IsFiniteSet(T), NEW x,
           S \subseteq T \cup {x}, T \subseteq S \cup {x}
    PROVE  /\ Cardinality(S) \in Nat /\ Cardinality(T) \in Nat
           /\ Cardinality(T) - Cardinality(S) \in -1 .. 1
<1> DEFINE both == S \cup T
<1>1. /\ Cardinality(S) \in Nat /\ Cardinality(both) \in Nat
      /\ Cardinality(S) <= Cardinality(both) /\ Cardinality(both) <= Cardinality(S) + 1
    <2>1. S \subseteq both /\ both \subseteq S \cup {x}
        OBVIOUS
    <2> HIDE DEF both
    <2> QED
        BY <2>1, OneMore
<1>2. /\ Cardinality(T) \in Nat
      /\ Cardinality(T) <= Cardinality(both) /\ Cardinality(both) <= Cardinality(T) + 1
    <2>1. T \subseteq both /\ both \subseteq T \cup {x}
        OBVIOUS
    <2> HIDE DEF both
    <2> QED
        BY <2>1, OneMore
<1> QED
    BY <1>1, <1>2

LEMMA StillNear ==
    ASSUME changes \in Nat, changes' = changes + 1, NEW number \in Int,
           NEW S, NEW T, Cardinality(S) \in Nat, Cardinality(T) \in Nat,
           Cardinality(T) - Cardinality(S) \in -1 .. 1,
           number - Cardinality(S) \in -changes .. changes
    PROVE  number - Cardinality(T) \in -changes' .. changes'
    OBVIOUS

LEMMA ExactIsNear ==
    ASSUME changes \in Nat, NEW S, Cardinality(S) \in Nat
    PROVE  Near(Cardinality(S), S)
    BY DEF Near

-----------------------------------------------------------------------------
(* What the queries count.                                                 *)

LEMMA RecordFields ==
    ASSUME InventoryType, NEW m \in Held, stock[m] # NoRecord
    PROVE  /\ stock[m] \in Description
           /\ stock[m].memory_type \in Types
           /\ \A dim \in Dimensions : stock[m][dim] \in Nat
    BY DEF InventoryType, Description, Dimensions

LEMMA ReportedIsWanted ==
    /\ Reported = Wanted
    /\ \A type : OfType(type) = WantedOf(type)
    /\ \A records : Global(records) = Unscoped(records)
<1>1. Reported = Wanted
    BY DEF Reported, Inventoried, Stored, Wanted
<1>2. \A records : Global(records) = Unscoped(records)
    BY DEF Global, Unscoped
<1> QED
    BY <1>1, <1>2 DEF OfType, WantedOf

LEMMA Finite ==
    /\ Wanted \in SUBSET Held
    /\ \A type : WantedOf(type) \in SUBSET Held
    /\ \A records \in SUBSET Held :
         /\ Unscoped(records) \in SUBSET Held /\ records \ Unscoped(records) \in SUBSET Held
         /\ \A status : WithStatus(status, records) \in SUBSET Held
    BY DEF Wanted, WantedOf, Unscoped, WithStatus

LEMMA NothingCounted ==
    ASSUME NEW values, NEW numbers
    PROVE  << >> \in Numbers(values, numbers)
<1>1. << >> \in [{} -> numbers]
    OBVIOUS
<1> QED
    BY <1>1 DEF Numbers

LEMMA CountsAreNumbers ==
    ASSUME NEW counts \in Counts, NEW v
    PROVE  At(counts, v) \in Nat
<1>1. PICK found \in SUBSET STRING : counts \in [found -> Nat]
    BY DEF Counts, Numbers
<1>2. CASE v \in found
    <2>1. counts[v] \in Nat /\ v \in DOMAIN counts
        BY <1>1, <1>2
    <2> QED
        BY <2>1 DEF At
<1>3. CASE v \notin found
    <2>1. v \notin DOMAIN counts
        BY <1>1, <1>3
    <2> QED
        BY <2>1 DEF At
<1> QED
    BY <1>2, <1>3

LEMMA TuplesAreFinite ==
    ASSUME NEW records \in SUBSET Held
    PROVE  /\ IsFiniteSet(ScopeTuples(records)) /\ Cardinality(ScopeTuples(records)) \in Nat
           /\ \A dim : /\ IsFiniteSet(NamesIn(dim, records))
                       /\ Cardinality(NamesIn(dim, records)) \in Nat
<1>1. IsFiniteSet(records)
    BY HeldIsFinite
<1>2. IsFiniteSet(ScopeTuples(records)) /\ Cardinality(ScopeTuples(records)) \in Nat
    <2> DEFINE f == [m \in records |-> ScopeOf(m)]
    <2>1. ScopeTuples(records) = {f[m] : m \in records}
        BY DEF ScopeTuples
    <2>2. DOMAIN f = records
        OBVIOUS
    <2> HIDE DEF f
    <2> QED
        BY <1>1, <2>1, <2>2, ImageIsFinite
<1>3. ASSUME NEW dim
      PROVE  /\ IsFiniteSet(NamesIn(dim, records))
             /\ Cardinality(NamesIn(dim, records)) \in Nat
    <2> DEFINE f == [m \in records |-> stock[m][dim]]
               T == {f[m] : m \in records}
    <2>1. IsFiniteSet(T)
        BY <1>1, ImageIsFinite
    <2>2. NamesIn(dim, records) = T \ {0}
        BY DEF NamesIn
    <2> HIDE DEF T
    <2> QED
        BY <2>1, <2>2, FS_Difference, FS_CardinalityType
<1> QED
    BY <1>2, <1>3

-----------------------------------------------------------------------------
(* What others do.  An insertion, update or removal of m moves each number *)
(* of records, of scopes and of names by one at most.                      *)

Moves(before, after) ==
    /\ Cardinality(before) \in Nat /\ Cardinality(after) \in Nat
    /\ Cardinality(after) - Cardinality(before) \in -1 .. 1

Changed(m) ==
    /\ stock \in [Held -> Description \cup {NoRecord}]
    /\ stock' \in [Held -> Description \cup {NoRecord}]
    /\ \A n \in Held : n # m => stock'[n] = stock[n]
    /\ \/ stock[m] = NoRecord
       \/ stock'[m] = NoRecord
       \/ /\ stock[m] # NoRecord /\ stock'[m] # NoRecord
          /\ stock'[m].memory_type = stock[m].memory_type
          /\ \A dim \in Dimensions : stock'[m][dim] = stock[m][dim]

LEMMA DisturbChanges ==
    ASSUME InventoryType, NEW m \in Held,
           InsertRecord(m) \/ UpdateRecord(m) \/ RemoveRecord(m)
    PROVE  /\ Changed(m) /\ report' = report
           /\ changes' = IF report = NoReport THEN changes ELSE changes + 1
<1>1. \A d \in Descriptions : d \in Description
    BY InventoryAssumption DEF Description, Types
<1>2. \A d \in Description : d # NoRecord
    <2>1. DOMAIN NoRecord = {}
        BY DEF NoRecord
    <2> QED
        BY <2>1 DEF Description
<1>3. stock \in [Held -> Description \cup {NoRecord}]
    BY DEF InventoryType
<1>4. ASSUME NEW d \in Description \cup {NoRecord}, Disturb(m, d)
      PROVE  /\ stock' \in [Held -> Description \cup {NoRecord}]
             /\ stock'[m] = d /\ \A n \in Held : n # m => stock'[n] = stock[n]
             /\ report' = report
             /\ changes' = IF report = NoReport THEN changes ELSE changes + 1
    BY <1>3, <1>4 DEF Disturb
<1>5. CASE InsertRecord(m)
    BY <1>1, <1>3, <1>4, <1>5 DEF InsertRecord, Changed
<1>6. CASE RemoveRecord(m)
    BY <1>3, <1>4, <1>6 DEF RemoveRecord, Changed
<1>7. CASE UpdateRecord(m)
    <2>1. PICK status \in StatusesInUse :
            Disturb(m, [stock[m] EXCEPT !.status = status])
        BY <1>7 DEF UpdateRecord
    <2> DEFINE d == [stock[m] EXCEPT !.status = status]
    <2>2. stock[m] \in Description /\ stock[m] # NoRecord
        BY <1>3, <1>7 DEF UpdateRecord
    <2>3. status \in STRING
        BY <1>1 DEF StatusesInUse, Description
    <2>4. /\ d \in Description /\ d.memory_type = stock[m].memory_type
          /\ \A dim \in Dimensions : d[dim] = stock[m][dim]
        BY <2>2, <2>3 DEF Description, Dimensions
    <2> HIDE DEF d
    <2> QED
        BY <1>2, <1>3, <1>4, <2>1, <2>2, <2>4 DEF Changed, d
<1> QED
    BY <1>5, <1>6, <1>7

LEMMA RecordsMove ==
    ASSUME NEW m \in Held, Changed(m), report' = report
    PROVE  /\ Moves(Wanted, Wanted')
           /\ Moves(Unscoped(Wanted), Unscoped(Wanted)')
           /\ Moves(Wanted \ Unscoped(Wanted), (Wanted \ Unscoped(Wanted))')
           /\ \A status : Moves(WithStatus(status, Wanted), WithStatus(status, Wanted)')
           /\ \A type : Moves(WantedOf(type), WantedOf(type)')
           /\ \A type : Moves(WantedOf(type) \ Unscoped(WantedOf(type)),
                              (WantedOf(type) \ Unscoped(WantedOf(type)))')
           /\ \A type, status : Moves(WithStatus(status, WantedOf(type)),
                                      WithStatus(status, WantedOf(type))')
           /\ Moves(Settled, Settled')
<1>1. ASSUME NEW S \in SUBSET Held, NEW T \in SUBSET Held,
             \A n \in Held : n # m => (n \in S <=> n \in T)
      PROVE  Moves(S, T)
    <2>1. S \subseteq T \cup {m} /\ T \subseteq S \cup {m}
        BY <1>1
    <2>2. IsFiniteSet(S) /\ IsFiniteSet(T)
        BY HeldIsFinite
    <2> QED
        BY <2>1, <2>2, OneChange DEF Moves
<1> DEFINE Alike(n) == n \in Wanted <=> n \in Wanted'
<1>2. \A n \in Held : n # m => stock'[n] = stock[n] /\ Alike(n)
    BY DEF Changed, Wanted
<1>3. Wanted \in SUBSET Held /\ Wanted' \in SUBSET Held
    BY DEF Wanted
<1>4. Moves(Wanted, Wanted')
    BY <1>1, <1>2, <1>3
<1>5. Moves(Unscoped(Wanted), Unscoped(Wanted)')
    <2>1. \A n \in Held : n # m => (n \in Unscoped(Wanted) <=> n \in Unscoped(Wanted)')
        BY <1>2 DEF Unscoped
    <2>2. Unscoped(Wanted) \in SUBSET Held /\ Unscoped(Wanted)' \in SUBSET Held
        BY <1>3 DEF Unscoped
    <2> QED
        BY <1>1, <2>1, <2>2
<1>6. Moves(Wanted \ Unscoped(Wanted), (Wanted \ Unscoped(Wanted))')
    <2>1. \A n \in Held : n # m => (n \in Wanted \ Unscoped(Wanted)
                                      <=> n \in (Wanted \ Unscoped(Wanted))')
        BY <1>2 DEF Unscoped
    <2>2. /\ Wanted \ Unscoped(Wanted) \in SUBSET Held
          /\ (Wanted \ Unscoped(Wanted))' \in SUBSET Held
        BY <1>3
    <2> QED
        BY <1>1, <2>1, <2>2
<1>7. ASSUME NEW status
      PROVE  Moves(WithStatus(status, Wanted), WithStatus(status, Wanted)')
    <2>1. \A n \in Held : n # m => (n \in WithStatus(status, Wanted)
                                      <=> n \in WithStatus(status, Wanted)')
        BY <1>2 DEF WithStatus
    <2>2. /\ WithStatus(status, Wanted) \in SUBSET Held
          /\ WithStatus(status, Wanted)' \in SUBSET Held
        BY <1>3 DEF WithStatus
    <2> QED
        BY <1>1, <2>1, <2>2
<1>8. ASSUME NEW type
      PROVE  /\ WantedOf(type) \in SUBSET Held /\ WantedOf(type)' \in SUBSET Held
             /\ \A n \in Held : n # m => (n \in WantedOf(type) <=> n \in WantedOf(type)')
    BY <1>2, <1>3 DEF WantedOf
<1>9. ASSUME NEW type
      PROVE  Moves(WantedOf(type), WantedOf(type)')
    BY <1>1, <1>8
<1>10. ASSUME NEW type
       PROVE  Moves(WantedOf(type) \ Unscoped(WantedOf(type)),
                    (WantedOf(type) \ Unscoped(WantedOf(type)))')
    <2>1. \A n \in Held : n # m =>
            (n \in WantedOf(type) \ Unscoped(WantedOf(type))
               <=> n \in (WantedOf(type) \ Unscoped(WantedOf(type)))')
        BY <1>2, <1>8 DEF Unscoped
    <2>2. /\ WantedOf(type) \ Unscoped(WantedOf(type)) \in SUBSET Held
          /\ (WantedOf(type) \ Unscoped(WantedOf(type)))' \in SUBSET Held
        BY <1>8
    <2> QED
        BY <1>1, <2>1, <2>2
<1>11. ASSUME NEW type, NEW status
       PROVE  Moves(WithStatus(status, WantedOf(type)), WithStatus(status, WantedOf(type))')
    <2>1. \A n \in Held : n # m => (n \in WithStatus(status, WantedOf(type))
                                      <=> n \in WithStatus(status, WantedOf(type))')
        BY <1>2, <1>8 DEF WithStatus
    <2>2. /\ WithStatus(status, WantedOf(type)) \in SUBSET Held
          /\ WithStatus(status, WantedOf(type))' \in SUBSET Held
        BY <1>8 DEF WithStatus
    <2> QED
        BY <1>1, <2>1, <2>2
<1>12. Moves(Settled, Settled')
    <2>1. \A n \in Held : n # m => (n \in Settled <=> n \in Settled')
        BY <1>2 DEF Settled, Waiting
    <2>2. Settled \in SUBSET Held /\ Settled' \in SUBSET Held
        BY <1>3 DEF Settled
    <2> QED
        BY <1>1, <2>1, <2>2
<1> QED
    BY <1>4, <1>5, <1>6, <1>7, <1>9, <1>10, <1>11, <1>12

(* A set that grows by one element, shrinks by one or stays. *)
LEMMA StepMoves ==
    ASSUME NEW S, IsFiniteSet(S), NEW T, NEW x,
           \/ S \subseteq T /\ T \subseteq S \cup {x}
           \/ T \subseteq S /\ S \subseteq T \cup {x}
    PROVE  Moves(S, T) /\ S \subseteq T \cup {x}
<1>1. IsFiniteSet(T)
    <2>1. T \subseteq S \cup {x} /\ IsFiniteSet(S \cup {x})
        BY FS_AddElement
    <2> QED
        BY <2>1, FS_Subset
<1>2. S \subseteq T \cup {x} /\ T \subseteq S \cup {x}
    OBVIOUS
<1> QED
    BY <1>1, <1>2, OneChange DEF Moves

LEMMA ScopesMove ==
    ASSUME NEW m \in Held, Changed(m), report' = report
    PROVE  /\ Moves(ScopeTuples(Wanted), ScopeTuples(Wanted)')
           /\ \A dim \in Dimensions :
                /\ Moves(NamesIn(dim, Wanted), NamesIn(dim, Wanted)')
                /\ \E name : NamesIn(dim, Wanted) \subseteq NamesIn(dim, Wanted)' \cup {name}
<1>1. /\ Wanted \in SUBSET Held /\ Wanted' \in SUBSET Held
      /\ \A n \in Held : n # m => stock'[n] = stock[n] /\ (n \in Wanted <=> n \in Wanted')
    BY DEF Changed, Wanted
<1>2. /\ IsFiniteSet(ScopeTuples(Wanted))
      /\ \A dim : IsFiniteSet(NamesIn(dim, Wanted))
    BY <1>1, TuplesAreFinite
<1>3. CASE stock[m] = NoRecord
    <2>1. m \notin Wanted /\ Wanted \subseteq Wanted' /\ Wanted' \subseteq Wanted \cup {m}
          /\ \A n \in Wanted : stock'[n] = stock[n]
        BY <1>1, <1>3 DEF Wanted
    <2>2. PICK x : /\ ScopeTuples(Wanted) \subseteq ScopeTuples(Wanted)'
                   /\ ScopeTuples(Wanted)' \subseteq ScopeTuples(Wanted) \cup {x}
        <3>1. \A n \in Wanted : ScopeOf(n)' = ScopeOf(n)
            BY <2>1 DEF ScopeOf
        <3>2. /\ ScopeTuples(Wanted) \subseteq ScopeTuples(Wanted)'
              /\ ScopeTuples(Wanted)' \subseteq ScopeTuples(Wanted) \cup {ScopeOf(m)'}
            BY <2>1, <3>1 DEF ScopeTuples
        <3> QED
            BY <3>2
    <2>3. ASSUME NEW dim \in Dimensions
          PROVE  /\ NamesIn(dim, Wanted) \subseteq NamesIn(dim, Wanted)'
                 /\ NamesIn(dim, Wanted)' \subseteq NamesIn(dim, Wanted) \cup {stock'[m][dim]}
        BY <2>1 DEF NamesIn
    <2> QED
        BY <1>2, <2>2, <2>3, StepMoves
<1>4. CASE stock'[m] = NoRecord
    <2>1. m \notin Wanted' /\ Wanted' \subseteq Wanted /\ Wanted \subseteq Wanted' \cup {m}
          /\ \A n \in Wanted' : stock'[n] = stock[n]
        BY <1>1, <1>4 DEF Wanted
    <2>2. PICK x : /\ ScopeTuples(Wanted)' \subseteq ScopeTuples(Wanted)
                   /\ ScopeTuples(Wanted) \subseteq ScopeTuples(Wanted)' \cup {x}
        <3>1. \A n \in Wanted' : ScopeOf(n)' = ScopeOf(n)
            BY <2>1 DEF ScopeOf
        <3>2. /\ ScopeTuples(Wanted)' \subseteq ScopeTuples(Wanted)
              /\ ScopeTuples(Wanted) \subseteq ScopeTuples(Wanted)' \cup {ScopeOf(m)}
            BY <2>1, <3>1 DEF ScopeTuples
        <3> QED
            BY <3>2
    <2>3. ASSUME NEW dim \in Dimensions
          PROVE  /\ NamesIn(dim, Wanted)' \subseteq NamesIn(dim, Wanted)
                 /\ NamesIn(dim, Wanted) \subseteq NamesIn(dim, Wanted)' \cup {stock[m][dim]}
        BY <2>1 DEF NamesIn
    <2> QED
        BY <1>2, <2>2, <2>3, StepMoves
<1>5. CASE /\ stock[m] # NoRecord /\ stock'[m] # NoRecord
           /\ stock'[m].memory_type = stock[m].memory_type
           /\ \A dim \in Dimensions : stock'[m][dim] = stock[m][dim]
    <2>1. /\ Wanted' = Wanted
          /\ \A n \in Wanted : \A dim \in Dimensions : stock'[n][dim] = stock[n][dim]
        <3>1. m \in Wanted <=> m \in Wanted'
            BY <1>5 DEF Wanted
        <3> QED
            BY <1>1, <1>5, <3>1
    <2>2. ScopeTuples(Wanted)' = ScopeTuples(Wanted)
        <3>1. \A n \in Wanted : ScopeOf(n)' = ScopeOf(n)
            BY <2>1 DEF ScopeOf
        <3> QED
            BY <2>1, <3>1 DEF ScopeTuples
    <2>3. ASSUME NEW dim \in Dimensions
          PROVE  NamesIn(dim, Wanted)' = NamesIn(dim, Wanted)
        BY <2>1 DEF NamesIn
    <2> QED
        BY <1>2, <2>2, <2>3, StepMoves
<1> QED
    BY <1>3, <1>4, <1>5 DEF Changed

LEMMA ChangesKeepInventoryInv ==
    ASSUME InventoryInv, NEW m \in Held,
           InsertRecord(m) \/ UpdateRecord(m) \/ RemoveRecord(m)
    PROVE  InventoryInv'
<1>1. /\ Changed(m) /\ report' = report
      /\ changes' = IF report = NoReport THEN changes ELSE changes + 1
    BY DisturbChanges DEF InventoryInv
<1>2. InventoryType'
    BY <1>1 DEF InventoryInv, InventoryType, Changed
<1>3. CASE report = NoReport
    BY <1>1, <1>2, <1>3 DEF InventoryInv
<1>4. CASE report # NoReport
    <2>1. /\ changes \in Nat /\ changes' = changes + 1 /\ report \in Reports
          /\ report.total \in Int /\ report.global \in Int
          /\ report.total - report.global \in Int
          /\ report.scopeTotal \in Int /\ report.scopeGlobal \in Int
          /\ report.scopeTotal - report.scopeGlobal \in Int
          /\ report.tuples \in Int
        BY <1>1, <1>4 DEF InventoryInv, InventoryType, Reports
    <2>2. ASSUME NEW number \in Int, NEW S, NEW T, Moves(S, T),
                 number - Cardinality(S) \in -changes .. changes
          PROVE  number - Cardinality(T) \in -changes' .. changes'
        BY <2>1, <2>2, StillNear DEF Moves
    <2>3. ASSUME NEW counts \in Counts, NEW v
          PROVE  At(counts, v) \in Int
        BY <2>3, CountsAreNumbers
    <2>4. SummaryNear'
        <3>1. report.pc \notin UptoTotal => Near(report.total, Wanted)'
            BY <1>1, <1>4, <2>1, <2>2, RecordsMove DEF InventoryInv, SummaryNear, Near
        <3>2. report.pc \notin UptoGlobal =>
                /\ Near(report.global, Unscoped(Wanted))'
                /\ Near(report.total - report.global, Wanted \ Unscoped(Wanted))'
            BY <1>1, <1>4, <2>1, <2>2, RecordsMove DEF InventoryInv, SummaryNear, Near
        <3>3. ASSUME report.pc \notin UptoStatuses, NEW status \in STRING
              PROVE  Near(At(report.statuses, status), WithStatus(status, Wanted))'
            <4>1. At(report.statuses, status) \in Int
                BY <2>1, <2>3 DEF Reports
            <4> QED
                BY <1>1, <1>4, <2>2, <3>3, <4>1, RecordsMove
                DEF InventoryInv, SummaryNear, Near, At
        <3>4. ASSUME report.pc \notin UptoTypes, NEW type \in Types
              PROVE  Near(At(report.types, type), WantedOf(type))'
            <4>1. At(report.types, type) \in Int
                BY <2>1, <2>3 DEF Reports
            <4> QED
                BY <1>1, <1>4, <2>2, <3>4, <4>1, RecordsMove
                DEF InventoryInv, SummaryNear, Near, At
        <3> QED
            BY <1>1, <3>1, <3>2, <3>3, <3>4 DEF SummaryNear
    <2>5. ASSUME NEW dim \in Dimensions, DimensionNear(dim), IsFiniteSet(NamesIn(dim, Wanted))
          PROVE  DimensionNear(dim)'
        <3> DEFINE shown == report.scopes[dim]
                   gone == shown.names \ NamesIn(dim, Wanted)
        <3>1. shown \in Shown /\ dim \in DOMAIN report.scopes
            BY <2>1, <2>5 DEF DimensionNear, Reports, Numbers
        <3>2. Near(shown.count, NamesIn(dim, Wanted))'
            <4>1. shown.count \in Int
                BY <3>1 DEF Shown
            <4> QED
                BY <1>1, <2>2, <2>5, <4>1, ScopesMove DEF DimensionNear, Near
        <3>3. Near(Cardinality(gone), {})'
            <4>1. PICK name : NamesIn(dim, Wanted) \subseteq NamesIn(dim, Wanted)' \cup {name}
                BY <1>1, ScopesMove
            <4>2. IsFiniteSet(gone)
                BY <2>5, FS_Difference DEF DimensionNear
            <4>3. gone' \in SUBSET (gone \cup {name})
                BY <1>1, <4>1
            <4>4. /\ IsFiniteSet(gone \cup {name}) /\ Cardinality(gone) \in Nat
                  /\ Cardinality(gone \cup {name}) \in Nat
                  /\ Cardinality(gone \cup {name}) <= Cardinality(gone) + 1
                <5>1. gone \subseteq gone \cup {name}
                    OBVIOUS
                <5> HIDE DEF gone
                <5> QED
                    BY <4>2, <5>1, OneMore, FS_AddElement
            <4>5. Cardinality(gone') \in Nat /\ Cardinality(gone') <= Cardinality(gone \cup {name})
                BY <4>3, <4>4, FS_Subset, FS_CardinalityType
            <4>6. Cardinality(gone) <= changes
                BY <2>1, <2>5, <4>4, FS_EmptySet DEF DimensionNear, Near
            <4>7. Cardinality(gone') - 0 \in -changes' .. changes'
                BY <2>1, <4>4, <4>5, <4>6
            <4> QED
                BY <4>7, FS_EmptySet DEF Near
        <3> QED
            BY <1>1, <2>5, <3>2, <3>3 DEF DimensionNear
    <2>6. ASSUME report.full
          PROVE  ScopesNear'
        <3>1. ScopesNear /\ report' = report
            BY <1>1, <1>4, <2>6 DEF InventoryInv
        <3>2. report.pc \notin UptoScopeTotal => Near(report.scopeTotal, Wanted)'
            BY <1>1, <2>1, <2>2, <3>1, RecordsMove DEF ScopesNear, Near
        <3>3. report.pc \notin UptoScopeGlobal =>
                /\ Near(report.scopeGlobal, Unscoped(Wanted))'
                /\ Near(report.scopeTotal - report.scopeGlobal, Wanted \ Unscoped(Wanted))'
            BY <1>1, <2>1, <2>2, <3>1, RecordsMove DEF ScopesNear, Near
        <3>4. report.pc \notin UptoTuples => Near(report.tuples, ScopeTuples(Wanted))'
            BY <1>1, <2>1, <2>2, <3>1, ScopesMove DEF ScopesNear, Near
        <3>5. \A dim \in Dimensions : DimensionNear(dim) => DimensionNear(dim)'
            BY <2>5, Finite, TuplesAreFinite
        <3>6. {"user_id", "project_id", "agent_id"} \subseteq Dimensions
            BY DEF Dimensions
        <3> QED
            BY <3>1, <3>2, <3>3, <3>4, <3>5, <3>6 DEF ScopesNear
    <2>7. ASSUME report.full, report.pc \notin UptoGroups
          PROVE  TypesNear'
        <3>1. TypesNear /\ report' = report
            BY <1>1, <1>4, <2>7 DEF InventoryInv
        <3>2. TurnsInOrder'
            BY <2>7, <3>1 DEF TypesNear, TurnsInOrder, Waiting, Turn
        <3>3. \A type \in Types : Near(At(report.groups, type), WantedOf(type))'
            <4> TAKE type \in Types
            <4>1. At(report.groups, type) \in Int
                BY <2>1 DEF Reports, Numbers, At
            <4> QED
                BY <1>1, <2>2, <2>7, <3>1, <4>1, RecordsMove DEF TypesNear, Near, At
        <3>4. ASSUME NEW type \in DOMAIN report.perType
              PROVE  LineNear(type)'
            <4> DEFINE shown == report.perType[type]
            <4>1. /\ shown \in TypeShown /\ shown.count - shown.global \in Int
                  /\ \A status : At(shown.statuses, status) \in Int
                <5>1. shown \in TypeShown
                    BY <2>1 DEF Reports, Numbers
                <5> HIDE DEF shown
                <5> QED
                    BY <2>3, <5>1 DEF TypeShown
            <4>2. Near(shown.count - shown.global, WantedOf(type) \ Unscoped(WantedOf(type)))'
                BY <1>1, <2>2, <2>7, <3>1, <4>1, RecordsMove DEF TypesNear, LineNear, Near
            <4>3. ASSUME type \notin Waiting, NEW status \in STRING
                  PROVE  Near(At(shown.statuses, status), WithStatus(status, WantedOf(type)))'
                <5>1. Near(At(shown.statuses, status), WithStatus(status, WantedOf(type)))
                    BY <2>7, <3>1, <4>3 DEF TypesNear, LineNear
                <5> QED
                    BY <1>1, <2>2, <3>1, <4>1, <5>1, RecordsMove DEF Near, At
            <4> QED
                BY <2>7, <3>1, <4>2, <4>3 DEF TypesNear, LineNear, Waiting
        <3>5. IsFiniteSet(Marks)' /\ Near(Cardinality(Marks), Settled)'
            <4>1. Marks' = Marks
                BY <3>1 DEF Marks, RecordsMetric
            <4>2. IsFiniteSet(Marks) /\ Near(Cardinality(Marks), Settled)
                BY <2>7, <3>1 DEF TypesNear
            <4>3. Cardinality(Marks) \in Int
                BY <4>2, FS_CardinalityType
            <4> QED
                BY <1>1, <2>2, <4>1, <4>2, <4>3, RecordsMove DEF Near
        <3> QED
            BY <3>1, <3>2, <3>3, <3>4, <3>5 DEF TypesNear, Waiting
    <2> QED
        BY <1>1, <1>2, <1>4, <2>4, <2>6, <2>7 DEF InventoryInv, TypesNear
<1> QED
    BY <1>3, <1>4

-----------------------------------------------------------------------------
(* The queries.                                                            *)

(* A query changes no record: what the numbers are compared with stays. *)
LEMMA QueriesOnlyRead ==
    ASSUME UNCHANGED <<stock, changes>>, report'.chunks = report.chunks
    PROVE  /\ Wanted' = Wanted
           /\ Unscoped(Wanted)' = Unscoped(Wanted)
           /\ ScopeTuples(Wanted)' = ScopeTuples(Wanted)
           /\ \A dim : NamesIn(dim, Wanted)' = NamesIn(dim, Wanted)
           /\ \A status : WithStatus(status, Wanted)' = WithStatus(status, Wanted)
           /\ \A type :
                /\ WantedOf(type)' = WantedOf(type)
                /\ Unscoped(WantedOf(type))' = Unscoped(WantedOf(type))
                /\ \A status : WithStatus(status, WantedOf(type))'
                                 = WithStatus(status, WantedOf(type))
<1>1. Wanted' = Wanted
    BY DEF Wanted
<1>2. \A type : WantedOf(type)' = WantedOf(type)
    BY <1>1 DEF WantedOf
<1>3. ScopeTuples(Wanted)' = ScopeTuples(Wanted)
    <2>1. \A m \in Wanted : ScopeOf(m)' = ScopeOf(m)
        BY DEF ScopeOf
    <2> QED
        BY <1>1, <2>1 DEF ScopeTuples
<1> QED
    BY <1>1, <1>2, <1>3 DEF Unscoped, NamesIn, WithStatus

(* The records that have a scope are the others. *)
GlobalsAdd(records) ==
    /\ Cardinality(records) \in Nat /\ Cardinality(Unscoped(records)) \in Nat
    /\ Cardinality(records \ Unscoped(records)) \in Nat
    /\ Cardinality(records) = Cardinality(Unscoped(records))
                                + Cardinality(records \ Unscoped(records))

LEMMA ScopedAndGlobal ==
    ASSUME NEW records \in SUBSET Held
    PROVE  GlobalsAdd(records)
<1>1. /\ IsFiniteSet(records) /\ Cardinality(records) \in Nat
      /\ Unscoped(records) \in SUBSET Held /\ Cardinality(Unscoped(records)) \in Nat
      /\ Cardinality(records \ Unscoped(records)) \in Nat
    BY HeldIsFinite, Finite
<1>2. records \cap Unscoped(records) = Unscoped(records)
    BY DEF Unscoped
<1>3. Cardinality(records \ Unscoped(records))
        = Cardinality(records) - Cardinality(records \cap Unscoped(records))
    BY <1>1, FS_Difference
<1> QED
    BY <1>1, <1>2, <1>3 DEF GlobalsAdd

LEMMA TypesAreStrings == Types \subseteq STRING
<1>1. MemoryTypes \in Seq(STRING)
    BY InventoryAssumption
<1> QED
    BY <1>1 DEF Types, ToSet

(* The queries with GROUP BY, for the status and for the type. *)
LEMMA StatusesCounted ==
    ASSUME InventoryType, NEW records \in SUBSET Wanted
    PROVE  /\ GroupCounts("status", records) \in Counts
           /\ \A v : At(GroupCounts("status", records), v)
                      = Cardinality(WithStatus(v, records))
           /\ \A v : Near(At(GroupCounts("status", records), v), WithStatus(v, records))
<1>1. records \in SUBSET Held
    BY Finite
<1>2. \A m \in records : stock[m].status \in STRING
    BY <1>1, RecordFields DEF Wanted, Description
<1>3. \A v : WithStatus(v, records) \in SUBSET Held
              /\ Cardinality({m \in records : stock[m].status = v}) \in Nat
    BY <1>1, Finite, HeldIsFinite DEF WithStatus
<1>4. {stock[m].status : m \in records} \in SUBSET STRING
    BY <1>2
<1>5. GroupCounts("status", records) \in [{stock[m].status : m \in records} -> Nat]
    BY <1>3 DEF GroupCounts
<1>6. ASSUME NEW v
      PROVE  At(GroupCounts("status", records), v) = Cardinality(WithStatus(v, records))
    <2>1. CASE v \in {stock[m].status : m \in records}
        BY <2>1 DEF At, GroupCounts, WithStatus
    <2>2. CASE v \notin {stock[m].status : m \in records}
        <3>1. WithStatus(v, records) = {}
            BY <2>2 DEF WithStatus
        <3>2. At(GroupCounts("status", records), v) = 0
            BY <2>2 DEF At, GroupCounts
        <3> QED
            BY <3>1, <3>2, FS_EmptySet
    <2> QED
        BY <2>1, <2>2
<1>7. GroupCounts("status", records) \in Counts
    BY <1>4, <1>5 DEF Counts, Numbers
<1>8. \A v : Near(Cardinality(WithStatus(v, records)), WithStatus(v, records))
    BY <1>3, ExactIsNear DEF WithStatus, InventoryType
<1> QED
    BY <1>6, <1>7, <1>8

LEMMA TypesCounted ==
    ASSUME InventoryType
    PROVE  /\ GroupCounts("memory_type", Wanted) \in Numbers(Types, Nat)
           /\ \A v : Near(At(GroupCounts("memory_type", Wanted), v), WantedOf(v))
           /\ \A v : v \in DOMAIN GroupCounts("memory_type", Wanted) <=> WantedOf(v) # {}
<1>1. Wanted \in SUBSET Held /\ \A v : WantedOf(v) \in SUBSET Held
    BY Finite
<1>2. \A m \in Wanted : stock[m].memory_type \in Types
    BY RecordFields DEF Wanted
<1>3. \A v : /\ WantedOf(v) = {m \in Wanted : stock[m].memory_type = v}
             /\ Cardinality(WantedOf(v)) \in Nat
    BY <1>1, HeldIsFinite DEF WantedOf
<1>4. {stock[m].memory_type : m \in Wanted} \in SUBSET Types
    BY <1>2
<1>5. GroupCounts("memory_type", Wanted) \in [{stock[m].memory_type : m \in Wanted} -> Nat]
    BY <1>3 DEF GroupCounts
<1>6. ASSUME NEW v
      PROVE  At(GroupCounts("memory_type", Wanted), v) = Cardinality(WantedOf(v))
    <2>1. CASE v \in {stock[m].memory_type : m \in Wanted}
        BY <1>3, <2>1 DEF At, GroupCounts
    <2>2. CASE v \notin {stock[m].memory_type : m \in Wanted}
        <3>1. WantedOf(v) = {}
            BY <1>3, <2>2
        <3>2. At(GroupCounts("memory_type", Wanted), v) = 0
            BY <2>2 DEF At, GroupCounts
        <3> QED
            BY <3>1, <3>2, FS_EmptySet
    <2> QED
        BY <2>1, <2>2
<1>7. \A v : v \in DOMAIN GroupCounts("memory_type", Wanted) <=> WantedOf(v) # {}
    BY <1>3 DEF GroupCounts
<1>8. GroupCounts("memory_type", Wanted) \in Numbers(Types, Nat)
    BY <1>4, <1>5 DEF Numbers
<1>9. \A v : Near(Cardinality(WantedOf(v)), WantedOf(v))
    BY <1>3, ExactIsNear DEF InventoryType
<1> QED
    BY <1>6, <1>7, <1>8, <1>9

SameOptions ==
    /\ report'.full = report.full /\ report'.chunks = report.chunks
    /\ report'.named = report.named

SameSummary ==
    /\ report'.total = report.total /\ report'.global = report.global
    /\ report'.statuses = report.statuses /\ report'.types = report.types

SameScopes ==
    /\ report'.scopeTotal = report.scopeTotal /\ report'.scopeGlobal = report.scopeGlobal
    /\ report'.tuples = report.tuples /\ report'.scopes = report.scopes

SameTypes ==
    /\ report'.groups = report.groups /\ report'.pending = report.pending
    /\ report'.perType = report.perType

LEMMA InventoryPcs ==
    ASSUME InventoryInv, report.pc # "idle"
    PROVE  /\ report \in Reports /\ report # NoReport /\ changes \in Nat /\ SummaryNear
           /\ report.full => ScopesNear /\ TypesNear
           /\ report.pc \in UptoGroups => report.perType = << >>
           /\ report.pc \notin UptoTypes => report.full \/ report.pc = "done"
    BY DEF InventoryInv, InventoryType, NoReport

(* The steps up to the summary's end. *)
LEMMA CountTotalKeeps ==
    ASSUME InventoryInv, CountTotal
    PROVE  InventoryInv'
<1> USE DEF UptoTotal, UptoGlobal, UptoStatuses, UptoTypes, UptoScopeTotal,
            UptoScopeGlobal, UptoTuples, UptoUser, UptoProject, UptoAgent, UptoGroups
<1>1. /\ report.pc = "total" /\ report \in Reports /\ report # NoReport /\ changes \in Nat
    BY InventoryPcs DEF CountTotal, Query
<1>2. Cardinality(Wanted) \in Nat
    BY Finite, HeldIsFinite
<1>3. /\ report' \in Reports /\ report'.pc = "global" /\ report'.total = Cardinality(Wanted)
      /\ UNCHANGED <<stock, changes>>
      /\ SameOptions /\ SameScopes /\ SameTypes
    BY <1>1, <1>2, ReportedIsWanted
    DEF CountTotal, Query, Reports, ReportPcs, SameOptions, SameScopes, SameTypes
<1>4. SummaryNear'
    BY <1>1, <1>2, <1>3, QueriesOnlyRead DEF SummaryNear, Near, SameOptions
<1> QED
    BY <1>1, <1>3, <1>4, InventoryPcs
    DEF InventoryInv, InventoryType, NoReport, ScopesNear, TypesNear, SameOptions, SameTypes

LEMMA CountGlobalKeeps ==
    ASSUME InventoryInv, CountGlobal
    PROVE  InventoryInv'
<1> USE DEF UptoTotal, UptoGlobal, UptoStatuses, UptoTypes, UptoScopeTotal,
            UptoScopeGlobal, UptoTuples, UptoUser, UptoProject, UptoAgent, UptoGroups
<1>1. /\ report.pc = "global" /\ report \in Reports /\ report # NoReport /\ changes \in Nat
      /\ Near(report.total, Wanted) /\ report.total \in Nat
    BY InventoryPcs DEF CountGlobal, Query, SummaryNear, Reports
<1>2. GlobalsAdd(Wanted)
    BY Finite, ScopedAndGlobal
<1>3. /\ report' \in Reports /\ report'.pc = "statuses"
      /\ report'.global = Cardinality(Unscoped(Wanted)) /\ report'.total = report.total
      /\ UNCHANGED <<stock, changes>>
      /\ SameOptions /\ SameScopes /\ SameTypes
    BY <1>1, <1>2, ReportedIsWanted
    DEF CountGlobal, Query, Reports, ReportPcs, SameOptions, SameScopes, SameTypes, GlobalsAdd
<1>4. SummaryNear'
    BY <1>1, <1>2, <1>3, QueriesOnlyRead DEF SummaryNear, Near, SameOptions, GlobalsAdd
<1> QED
    BY <1>1, <1>3, <1>4, InventoryPcs
    DEF InventoryInv, InventoryType, NoReport, ScopesNear, TypesNear, SameOptions, SameTypes

LEMMA CountStatusesKeeps ==
    ASSUME InventoryInv, CountStatuses
    PROVE  InventoryInv'
<1> USE DEF UptoTotal, UptoGlobal, UptoStatuses, UptoTypes, UptoScopeTotal,
            UptoScopeGlobal, UptoTuples, UptoUser, UptoProject, UptoAgent, UptoGroups
<1>1. /\ report.pc = "statuses" /\ report \in Reports /\ report # NoReport /\ changes \in Nat
    BY InventoryPcs DEF CountStatuses, Query
<1> DEFINE counts == GroupCounts("status", Wanted)
<1>2. counts \in Counts /\ \A v : Near(At(counts, v), WithStatus(v, Wanted))
    BY <1>1, Finite, InventoryPcs, StatusesCounted DEF InventoryInv
<1>3. /\ report' \in Reports /\ report'.pc = "types" /\ report'.statuses = counts
      /\ report'.total = report.total /\ report'.global = report.global
      /\ UNCHANGED <<stock, changes>>
      /\ SameOptions /\ SameScopes /\ SameTypes
    <2> HIDE DEF counts
    <2>1. CountStatuses => report' = [[report EXCEPT !.statuses = counts] EXCEPT !.pc = "types"]
        BY ReportedIsWanted DEF CountStatuses, Query, counts
    <2> QED
        BY <1>1, <1>2, <2>1
        DEF CountStatuses, Query, Reports, ReportPcs, SameOptions, SameScopes, SameTypes
<1> HIDE DEF counts
<1>4. SummaryNear'
    <2>1. \A v : Near(At(report.statuses, v), WithStatus(v, Wanted))'
        BY <1>2, <1>3, QueriesOnlyRead DEF Near, At, SameOptions
    <2> QED
        BY <1>1, <1>3, <2>1, InventoryPcs, QueriesOnlyRead DEF SummaryNear, Near, SameOptions
<1> QED
    BY <1>1, <1>3, <1>4, InventoryPcs
    DEF InventoryInv, InventoryType, NoReport, ScopesNear, TypesNear, SameOptions, SameTypes

LEMMA CountTypesKeeps ==
    ASSUME InventoryInv, CountTypes
    PROVE  InventoryInv'
<1> USE DEF UptoTotal, UptoGlobal, UptoStatuses, UptoTypes, UptoScopeTotal,
            UptoScopeGlobal, UptoTuples, UptoUser, UptoProject, UptoAgent, UptoGroups
<1>1. /\ report.pc = "types" /\ report \in Reports /\ report # NoReport /\ changes \in Nat
      /\ report.full \in BOOLEAN
    BY InventoryPcs DEF CountTypes, Query, Reports
<1> DEFINE counts == GroupCounts("memory_type", Wanted)
<1>2. counts \in Numbers(Types, Nat) /\ \A v : Near(At(counts, v), WantedOf(v))
    BY <1>1, InventoryPcs, TypesCounted DEF InventoryInv
<1>3. /\ report' \in Reports /\ report'.types = counts
      /\ report'.pc = (IF report.full THEN "scope_total" ELSE "done")
      /\ report'.total = report.total /\ report'.global = report.global
      /\ report'.statuses = report.statuses
      /\ UNCHANGED <<stock, changes>>
      /\ SameOptions /\ SameScopes /\ SameTypes
    <2> HIDE DEF counts
    <2>1. report' = [[report EXCEPT !.types = counts]
                       EXCEPT !.pc = IF report.full THEN "scope_total" ELSE "done"]
        BY ReportedIsWanted DEF CountTypes, Query, counts
    <2>2. counts \in Counts
        BY <1>2, TypesAreStrings DEF Counts, Numbers
    <2> DEFINE pc == IF report.full THEN "scope_total" ELSE "done"
    <2>3. pc \in ReportPcs
        BY DEF ReportPcs
    <2>4. report' = [report EXCEPT !.types = counts, !.pc = pc]
        BY <2>1
    <2> HIDE DEF pc
    <2>5. /\ report' \in Reports /\ report'.types = counts /\ report'.pc = pc
          /\ report'.total = report.total /\ report'.global = report.global
          /\ report'.statuses = report.statuses
          /\ SameOptions /\ SameScopes /\ SameTypes
        BY <1>1, <1>2, <2>2, <2>3, <2>4
        DEF Reports, SameOptions, SameScopes, SameTypes
    <2> QED
        BY <2>5 DEF CountTypes, Query, pc
<1> HIDE DEF counts
<1>4. SummaryNear'
    <2>1. \A v : Near(At(report.types, v), WantedOf(v))'
        BY <1>2, <1>3, QueriesOnlyRead DEF Near, At, SameOptions
    <2>2. \A v \in STRING : Near(At(report.statuses, v), WithStatus(v, Wanted))'
        BY <1>1, <1>3, InventoryPcs, QueriesOnlyRead DEF SummaryNear, Near, At, SameOptions
    <2> QED
        BY <1>1, <1>3, <2>1, <2>2, InventoryPcs, QueriesOnlyRead DEF SummaryNear, Near, SameOptions
<1> QED
    BY <1>1, <1>3, <1>4, InventoryPcs
    DEF InventoryInv, InventoryType, NoReport, ScopesNear, TypesNear, SameOptions, SameTypes

(* The steps of the scopes. *)
LEMMA SummaryStays ==
    ASSUME SummaryNear, report.pc \notin UptoTypes,
           UNCHANGED <<stock, changes>>, SameOptions, SameSummary
    PROVE  SummaryNear'
<1> USE DEF UptoTotal, UptoGlobal, UptoStatuses, UptoTypes
<1>1. \A v \in STRING : Near(At(report.statuses, v), WithStatus(v, Wanted))'
    BY QueriesOnlyRead DEF SummaryNear, Near, At, SameOptions, SameSummary
<1>2. \A v \in Types : Near(At(report.types, v), WantedOf(v))'
    BY QueriesOnlyRead DEF SummaryNear, Near, At, SameOptions, SameSummary
<1>3. /\ Near(report.total, Wanted)' /\ Near(report.global, Unscoped(Wanted))'
      /\ Near(report.total - report.global, Wanted \ Unscoped(Wanted))'
    BY QueriesOnlyRead DEF SummaryNear, Near, SameOptions, SameSummary
<1> QED
    BY <1>1, <1>2, <1>3 DEF SummaryNear

LEMMA DimensionStays ==
    ASSUME NEW dim, DimensionNear(dim), UNCHANGED <<stock, changes>>, SameOptions,
           dim \in DOMAIN report'.scopes, report'.scopes[dim] = report.scopes[dim]
    PROVE  DimensionNear(dim)'
    BY QueriesOnlyRead DEF DimensionNear, Near, SameOptions

LEMMA CountScopeTotalKeeps ==
    ASSUME InventoryInv, CountScopeTotal
    PROVE  InventoryInv'
<1> USE DEF UptoTotal, UptoGlobal, UptoStatuses, UptoTypes, UptoScopeTotal,
            UptoScopeGlobal, UptoTuples, UptoUser, UptoProject, UptoAgent, UptoGroups
<1>1. /\ report.pc = "scope_total" /\ report \in Reports /\ report # NoReport
      /\ changes \in Nat /\ SummaryNear
    BY InventoryPcs DEF CountScopeTotal, Query
<1>2. Cardinality(Wanted) \in Nat
    BY Finite, HeldIsFinite
<1>3. /\ report' \in Reports /\ report'.pc = "scope_global"
      /\ report'.scopeTotal = Cardinality(Wanted)
      /\ UNCHANGED <<stock, changes>> /\ SameOptions /\ SameSummary /\ SameTypes
    BY <1>1, <1>2, ReportedIsWanted
    DEF CountScopeTotal, Query, Reports, ReportPcs, SameOptions, SameSummary, SameTypes
<1>4. ScopesNear'
    BY <1>1, <1>2, <1>3, QueriesOnlyRead DEF ScopesNear, Near, SameOptions
<1> QED
    BY <1>1, <1>3, <1>4, SummaryStays, InventoryPcs
    DEF InventoryInv, InventoryType, NoReport, TypesNear, SameOptions, SameTypes

LEMMA CountScopeGlobalKeeps ==
    ASSUME InventoryInv, CountScopeGlobal
    PROVE  InventoryInv'
<1> USE DEF UptoTotal, UptoGlobal, UptoStatuses, UptoTypes, UptoScopeTotal,
            UptoScopeGlobal, UptoTuples, UptoUser, UptoProject, UptoAgent, UptoGroups
<1>1. /\ report.pc = "scope_global" /\ report \in Reports /\ report # NoReport
      /\ changes \in Nat /\ SummaryNear
      /\ report.full => Near(report.scopeTotal, Wanted)
      /\ report.scopeTotal \in Nat
    BY InventoryPcs DEF CountScopeGlobal, Query, ScopesNear, Reports
<1>2. GlobalsAdd(Wanted)
    BY Finite, ScopedAndGlobal
<1>3. /\ report' \in Reports /\ report'.pc = "tuples"
      /\ report'.scopeGlobal = Cardinality(Unscoped(Wanted))
      /\ report'.scopeTotal = report.scopeTotal
      /\ UNCHANGED <<stock, changes>> /\ SameOptions /\ SameSummary /\ SameTypes
    BY <1>1, <1>2, ReportedIsWanted
    DEF CountScopeGlobal, Query, Reports, ReportPcs, SameOptions, SameSummary, SameTypes,
        GlobalsAdd
<1>4. report.full => ScopesNear'
    BY <1>1, <1>2, <1>3, QueriesOnlyRead DEF ScopesNear, Near, SameOptions, GlobalsAdd
<1> QED
    BY <1>1, <1>3, <1>4, SummaryStays, InventoryPcs
    DEF InventoryInv, InventoryType, NoReport, TypesNear, SameOptions, SameTypes

LEMMA CountTuplesKeeps ==
    ASSUME InventoryInv, CountTuples
    PROVE  InventoryInv'
<1> USE DEF UptoTotal, UptoGlobal, UptoStatuses, UptoTypes, UptoScopeTotal,
            UptoScopeGlobal, UptoTuples, UptoUser, UptoProject, UptoAgent, UptoGroups
<1>1. /\ report.pc = "tuples" /\ report \in Reports /\ report # NoReport
      /\ changes \in Nat /\ SummaryNear /\ (report.full => ScopesNear)
    BY InventoryPcs DEF CountTuples, Query
<1>2. Cardinality(ScopeTuples(Wanted)) \in Nat
    BY Finite, TuplesAreFinite
<1>3. /\ report' \in Reports /\ report'.pc = "user_id"
      /\ report'.tuples = Cardinality(ScopeTuples(Wanted))
      /\ report'.scopeTotal = report.scopeTotal /\ report'.scopeGlobal = report.scopeGlobal
      /\ UNCHANGED <<stock, changes>> /\ SameOptions /\ SameSummary /\ SameTypes
    BY <1>1, <1>2, ReportedIsWanted
    DEF CountTuples, Query, Reports, ReportPcs, SameOptions, SameSummary, SameTypes
<1>4. report.full => ScopesNear'
    BY <1>1, <1>2, <1>3, QueriesOnlyRead DEF ScopesNear, Near, SameOptions
<1> QED
    BY <1>1, <1>3, <1>4, SummaryStays, InventoryPcs
    DEF InventoryInv, InventoryType, NoReport, TypesNear, SameOptions, SameTypes

(* The names that are shown, and the number of the others. *)
LEMMA DimensionCounted ==
    ASSUME InventoryType, NEW dim \in Dimensions
    PROVE  LET shown == Dimension(dim, Wanted)
           IN  /\ shown \in Shown
               /\ shown.count = Cardinality(NamesIn(dim, Wanted))
               /\ report.named => shown.count = Cardinality(shown.names) + shown.remaining
               /\ IsFiniteSet(shown.names) /\ shown.names \subseteq NamesIn(dim, Wanted)
<1> DEFINE values == NamesIn(dim, Wanted)
           names == {v \in values : /\ report.named
                                    /\ Cardinality({u \in values : u < v}) < NamesLimit}
<1>1. values \in SUBSET Nat
    BY RecordFields DEF NamesIn, Wanted
<1>2. IsFiniteSet(values) /\ Cardinality(values) \in Nat
    BY Finite, TuplesAreFinite
<1>3. names \in SUBSET values
    OBVIOUS
<1>4. Dimension(dim, Wanted)
        = [count |-> Cardinality(values), names |-> names,
           remaining |-> IF report.named THEN Cardinality(values \ names) ELSE 0]
    BY DEF Dimension
<1> HIDE DEF values, names
<1>5. /\ IsFiniteSet(names) /\ Cardinality(names) \in Nat
      /\ IsFiniteSet(values \ names) /\ Cardinality(values \ names) \in Nat
    BY <1>2, <1>3, FS_Subset, FS_Difference, FS_CardinalityType
<1>6. Cardinality(values \ names) = Cardinality(values) - Cardinality(names)
    <2>1. values \cap names = names
        BY <1>3
    <2> QED
        BY <1>2, <2>1, FS_Difference
<1>7. Dimension(dim, Wanted) \in Shown
    BY <1>1, <1>2, <1>3, <1>4, <1>5 DEF Shown
<1> QED
    BY <1>2, <1>3, <1>4, <1>5, <1>6, <1>7 DEF values

LEMMA CountDimensionKeeps ==
    ASSUME InventoryInv, NEW dim \in Dimensions, CountDimension(dim)
    PROVE  InventoryInv'
<1> USE DEF UptoTotal, UptoGlobal, UptoStatuses, UptoTypes, UptoScopeTotal,
            UptoScopeGlobal, UptoTuples, UptoUser, UptoProject, UptoAgent, UptoGroups
<1>1. /\ report.pc = dim /\ report \in Reports /\ report # NoReport
      /\ dim \in {"user_id", "project_id", "agent_id"}
      /\ changes \in Nat /\ SummaryNear /\ (report.full => ScopesNear)
    BY InventoryPcs DEF CountDimension, Query, Dimensions
<1> DEFINE shown == Dimension(dim, Wanted)
           scopes == [d \in DOMAIN report.scopes \cup {dim} |->
                        IF d = dim THEN shown ELSE report.scopes[d]]
<1>2. shown \in Shown
    BY DimensionCounted DEF InventoryInv
<1>3. /\ report' = [[report EXCEPT !.scopes = scopes] EXCEPT !.pc = AfterDimension[dim]]
      /\ UNCHANGED <<stock, changes>>
    BY ReportedIsWanted DEF CountDimension, Query
<1>4. scopes \in Numbers(Dimensions, Shown)
    <2> HIDE DEF shown
    <2>1. PICK found \in SUBSET Dimensions : report.scopes \in [found -> Shown]
        BY <1>1 DEF Reports, Numbers
    <2>2. scopes \in [found \cup {dim} -> Shown]
        BY <1>2, <2>1
    <2> QED
        BY <2>2 DEF Numbers
<1>5. /\ dim \in DOMAIN scopes /\ scopes[dim] = shown
      /\ \A d \in DOMAIN report.scopes :
           d \in DOMAIN scopes /\ (d # dim => scopes[d] = report.scopes[d])
    BY Zenon
<1>6. AfterDimension[dim] = IF dim = "user_id" THEN "project_id"
                            ELSE IF dim = "project_id" THEN "agent_id" ELSE "groups"
    BY <1>1 DEF AfterDimension
<1> HIDE DEF scopes, shown
<1>7. /\ report' \in Reports /\ report'.pc = AfterDimension[dim] /\ report'.scopes = scopes
      /\ report'.scopeTotal = report.scopeTotal /\ report'.scopeGlobal = report.scopeGlobal
      /\ report'.tuples = report.tuples
      /\ SameOptions /\ SameSummary /\ SameTypes
    BY <1>1, <1>3, <1>4, <1>6
    DEF Reports, ReportPcs, SameOptions, SameSummary, SameTypes
<1>8. DimensionNear(dim)'
    <2>1. /\ shown.count = Cardinality(NamesIn(dim, Wanted))
          /\ report.named => shown.count = Cardinality(shown.names) + shown.remaining
          /\ IsFiniteSet(shown.names) /\ shown.names \subseteq NamesIn(dim, Wanted)
          /\ Cardinality(NamesIn(dim, Wanted)) \in Nat
        BY DimensionCounted, Finite, TuplesAreFinite DEF InventoryInv, shown
    <2>2. NamesIn(dim, Wanted)' = NamesIn(dim, Wanted)
        BY <1>3, <1>7, QueriesOnlyRead DEF SameOptions
    <2>3. shown.names \ NamesIn(dim, Wanted) = {} /\ Cardinality({}) = 0
        BY <2>1, FS_EmptySet
    <2>4. /\ dim \in DOMAIN report'.scopes /\ report'.scopes[dim] = shown
          /\ changes' = changes /\ report'.named = report.named
        BY <1>3, <1>5, <1>7 DEF SameOptions
    <2>5. Near(report.scopes[dim].count, NamesIn(dim, Wanted))'
        BY <1>1, <2>1, <2>2, <2>4 DEF Near
    <2>6. Near(Cardinality(report.scopes[dim].names \ NamesIn(dim, Wanted)), {})'
        <3>1. (report.scopes[dim].names \ NamesIn(dim, Wanted))' = {}
            BY <2>2, <2>3, <2>4
        <3>2. 0 - 0 \in -changes .. changes
            BY <1>1
        <3> QED
            BY <2>3, <2>4, <3>1, <3>2 DEF Near
    <2> QED
        BY <2>1, <2>4, <2>5, <2>6 DEF DimensionNear
<1>9. report.full => ScopesNear'
    <2> SUFFICES ASSUME report.full PROVE ScopesNear'
        OBVIOUS
    <2>1. /\ Near(report.scopeTotal, Wanted)' /\ Near(report.scopeGlobal, Unscoped(Wanted))'
          /\ Near(report.scopeTotal - report.scopeGlobal, Wanted \ Unscoped(Wanted))'
          /\ Near(report.tuples, ScopeTuples(Wanted))'
        BY <1>1, <1>3, <1>7, QueriesOnlyRead DEF ScopesNear, Near, SameOptions
    <2>2. \A d \in Dimensions : d # dim /\ DimensionNear(d) => DimensionNear(d)'
        BY <1>3, <1>5, <1>7, DimensionStays DEF DimensionNear
    <2>3. CASE dim = "user_id"
        BY <1>6, <1>7, <1>8, <2>1, <2>3 DEF ScopesNear
    <2>4. CASE dim = "project_id"
        BY <1>1, <1>6, <1>7, <1>8, <2>1, <2>2, <2>4 DEF ScopesNear, Dimensions
    <2>5. CASE dim = "agent_id"
        BY <1>1, <1>6, <1>7, <1>8, <2>1, <2>2, <2>5 DEF ScopesNear, Dimensions
    <2> QED
        BY <1>1, <2>3, <2>4, <2>5
<1>10. SummaryNear'
    BY <1>1, <1>3, <1>7, SummaryStays
<1>11. report.perType = << >> /\ report'.pc \in UptoGroups /\ report'.pc # "idle"
    BY <1>1, <1>6, <1>7, InventoryPcs
<1> QED
    BY <1>1, <1>3, <1>7, <1>9, <1>10, <1>11
    DEF InventoryInv, InventoryType, NoReport, TypesNear, SameOptions, SameTypes

-----------------------------------------------------------------------------
(* The sum of the lines of one type is the number of its records.          *)

LineOf(type, status, statuses) ==
    [memory_type |-> type, status |-> status, value |-> statuses[status]]

MarksOf(type, statuses) ==
    UNION {{<<LineOf(type, status, statuses), n>> : n \in 1 .. statuses[status]} :
             status \in DOMAIN statuses}

MarksIn(perType) ==
    UNION {MarksOf(type, perType[type].statuses) : type \in DOMAIN perType}

LEMMA MarksByType == Marks = MarksIn(report.perType)
<1>1. ASSUME NEW mark \in Marks
      PROVE  \E type \in DOMAIN report.perType :
               mark \in MarksOf(type, report.perType[type].statuses)
    <2>1. PICK line \in RecordsMetric : mark \in {<<line, n>> : n \in 1 .. line.value}
        BY DEF Marks
    <2>a. PICK type \in DOMAIN report.perType :
            \E status \in DOMAIN report.perType[type].statuses :
              line = LineOf(type, status, report.perType[type].statuses)
        BY <2>1 DEF RecordsMetric, LineOf
    <2>2. PICK status \in DOMAIN report.perType[type].statuses :
            line = LineOf(type, status, report.perType[type].statuses)
        BY <2>a
    <2>3. line.value = report.perType[type].statuses[status]
        BY <2>2 DEF LineOf
    <2> QED
        BY <2>1, <2>2, <2>3 DEF MarksOf
<1>2. ASSUME NEW type \in DOMAIN report.perType,
             NEW mark \in MarksOf(type, report.perType[type].statuses)
      PROVE  mark \in Marks
    <2>1. PICK status \in DOMAIN report.perType[type].statuses :
            mark \in {<<LineOf(type, status, report.perType[type].statuses), n>> :
                        n \in 1 .. report.perType[type].statuses[status]}
        BY DEF MarksOf
    <2> DEFINE line == LineOf(type, status, report.perType[type].statuses)
    <2>2. line \in RecordsMetric /\ line.value = report.perType[type].statuses[status]
        BY DEF RecordsMetric, LineOf
    <2> QED
        BY <2>1, <2>2 DEF Marks
<1> QED
    BY <1>1, <1>2 DEF MarksIn

LEMMA MarksByTypeNext == (Marks = MarksIn(report.perType))'
    BY MarksByType, PTL

(* One mark for each record: the n-th mark of a line stands for the n-th   *)
(* record with its status.                                                 *)
LEMMA MarksCountRecords ==
    ASSUME NEW type, NEW records \in SUBSET Held
    PROVE  LET marks == MarksOf(type, GroupCounts("status", records))
           IN  IsFiniteSet(marks) /\ Cardinality(marks) = Cardinality(records)
<1> DEFINE counts == GroupCounts("status", records)
           marks == MarksOf(type, counts)
           with(s) == WithStatus(s, records)
           nth(s) == CHOOSE f : f \in Bijection(1 .. Cardinality(with(s)), with(s))
           found == {stock[m].status : m \in records}
           place == [m \in records |->
                       CHOOSE n \in 1 .. Cardinality(with(stock[m].status)) :
                         nth(stock[m].status)[n] = m]
           mark == [m \in records |->
                      <<LineOf(type, stock[m].status, counts), place[m]>>]
<1>1. /\ DOMAIN counts = found
      /\ \A s \in found : counts[s] = Cardinality(with(s))
    BY DEF GroupCounts, WithStatus
<1>2. ASSUME NEW s
      PROVE  nth(s) \in Bijection(1 .. Cardinality(with(s)), with(s))
    <2>1. with(s) \in SUBSET Held
        BY DEF WithStatus
    <2>2. ExistsBijection(1 .. Cardinality(with(s)), with(s))
        BY <2>1, HeldIsFinite, FS_CardinalityType
    <2> QED
        BY <2>2 DEF ExistsBijection
<1> HIDE DEF nth
<1>3. ASSUME NEW m \in records
      PROVE  /\ place[m] \in 1 .. Cardinality(with(stock[m].status))
             /\ nth(stock[m].status)[place[m]] = m
    <2>1. m \in with(stock[m].status)
        BY DEF WithStatus
    <2>2. \E n \in 1 .. Cardinality(with(stock[m].status)) : nth(stock[m].status)[n] = m
        BY <1>2, <2>1 DEF Bijection, Surjection
    <2> QED
        BY <2>2
<1> HIDE DEF place
<1>4. mark \in Injection(records, marks)
    <2>1. ASSUME NEW m \in records
          PROVE  mark[m] \in marks
        <3>1. stock[m].status \in found
            OBVIOUS
        <3> HIDE DEF found, counts
        <3> QED
            BY <1>1, <1>3, <3>1 DEF MarksOf
    <2>2. ASSUME NEW m \in records, NEW o \in records, mark[m] = mark[o]
          PROVE  m = o
        <3>1. /\ LineOf(type, stock[m].status, counts) = LineOf(type, stock[o].status, counts)
              /\ place[m] = place[o]
            BY <2>2
        <3>2. stock[m].status = stock[o].status
            BY <3>1 DEF LineOf
        <3> QED
            BY <1>3, <3>1, <3>2
    <2> HIDE DEF marks
    <2>3. mark \in [records -> marks]
        BY <2>1
    <2> QED
        BY <2>2, <2>3 DEF Injection, IsInjective
<1>5. mark \in Surjection(records, marks)
    <2>1. ASSUME NEW x \in marks
          PROVE  \E m \in records : mark[m] = x
        <3>a. PICK s \in found :
                \E n \in 1 .. counts[s] : x = <<LineOf(type, s, counts), n>>
            BY <1>1 DEF MarksOf
        <3>1. PICK n \in 1 .. counts[s] : x = <<LineOf(type, s, counts), n>>
            BY <3>a
        <3>2. n \in 1 .. Cardinality(with(s))
            BY <1>1, <3>1
        <3> DEFINE m == nth(s)[n]
        <3>3. m \in with(s)
            BY <1>2, <3>2 DEF Bijection, Injection, Surjection
        <3>4. m \in records /\ stock[m].status = s
            BY <3>3 DEF WithStatus
        <3> HIDE DEF m
        <3>5. place[m] \in 1 .. Cardinality(with(s)) /\ nth(s)[place[m]] = nth(s)[n]
            BY <1>3, <3>4 DEF m
        <3>6. place[m] = n
            BY <1>2, <3>2, <3>5 DEF Bijection, Injection, IsInjective
        <3> QED
            BY <3>1, <3>4, <3>6
    <2> QED
        BY <1>4, <2>1 DEF Injection, Surjection
<1> HIDE DEF mark, marks
<1>6. ExistsBijection(records, marks)
    BY <1>4, <1>5 DEF ExistsBijection, Bijection
<1> QED
    BY <1>6, HeldIsFinite, FS_Bijection DEF marks

-----------------------------------------------------------------------------
(* The steps of the types.                                                 *)

LEMMA ScopesStay ==
    ASSUME ScopesNear, report.pc \notin UptoAgent,
           UNCHANGED <<stock, changes>>, SameOptions, SameScopes
    PROVE  ScopesNear'
<1> USE DEF UptoTotal, UptoGlobal, UptoStatuses, UptoTypes, UptoScopeTotal,
            UptoScopeGlobal, UptoTuples, UptoUser, UptoProject, UptoAgent
<1>1. /\ Near(report.scopeTotal, Wanted)' /\ Near(report.scopeGlobal, Unscoped(Wanted))'
      /\ Near(report.scopeTotal - report.scopeGlobal, Wanted \ Unscoped(Wanted))'
      /\ Near(report.tuples, ScopeTuples(Wanted))'
    BY QueriesOnlyRead DEF ScopesNear, Near, SameOptions, SameScopes
<1>2. \A dim : DimensionNear(dim) => DimensionNear(dim)'
    BY DimensionStays DEF DimensionNear, SameScopes
<1> QED
    BY <1>1, <1>2 DEF ScopesNear

(* The type whose turn it is waits; it stops waiting when its turn ends. *)
LEMMA TurnIsWaiting ==
    ASSUME report.pending \in SUBSET (DOMAIN MemoryTypes), report.pending # {}
    PROVE  /\ Turn \in report.pending
           /\ MemoryTypes[Turn] \in Waiting /\ MemoryTypes[Turn] \in Types
           /\ {MemoryTypes[i] : i \in report.pending \ {Turn}} = Waiting \ {MemoryTypes[Turn]}
<1>1. DOMAIN MemoryTypes \subseteq Nat
    <2>1. MemoryTypes \in Seq(STRING)
        BY InventoryAssumption
    <2> QED
        BY <2>1
<1>2. \E n \in report.pending : \A k \in report.pending : n <= k
    BY <1>1, LeastNatural
<1>3. Turn \in report.pending
    BY <1>2 DEF Turn, Min
<1>4. \A i, j \in DOMAIN MemoryTypes : i # j => MemoryTypes[i] # MemoryTypes[j]
    BY InventoryAssumption
<1> HIDE DEF Turn
<1> QED
    BY <1>3, <1>4 DEF Waiting, Types, ToSet

LEMMA TypesPcs ==
    ASSUME InventoryInv, report.pc \in {"groups", "type_global", "type_statuses"}
    PROVE  /\ report \in Reports /\ report # NoReport /\ changes \in Nat
           /\ report.full /\ SummaryNear /\ ScopesNear /\ TypesNear
           /\ report.pc \notin UptoAgent
           /\ report.pc = "groups" => report.perType = << >>
    BY InventoryPcs
    DEF UptoTotal, UptoGlobal, UptoStatuses, UptoTypes, UptoScopeTotal,
        UptoScopeGlobal, UptoTuples, UptoUser, UptoProject, UptoAgent, UptoGroups

(* What these steps leave alone is as near as before. *)
LEMMA TypesStepKeeps ==
    ASSUME InventoryInv, report.pc \in {"groups", "type_global", "type_statuses"},
           report' \in Reports, report'.pc \in {"type_global", "type_statuses", "done"},
           UNCHANGED <<stock, changes>>, SameOptions, SameSummary, SameScopes,
           TypesNear'
    PROVE  InventoryInv'
<1>1. /\ report \in Reports /\ changes \in Nat /\ report.full /\ SummaryNear /\ ScopesNear
      /\ report.pc \notin UptoAgent
    BY TypesPcs
<1>2. ScopesNear'
    BY <1>1, ScopesStay
<1>3. SummaryNear'
    BY <1>1, SummaryStays
    DEF UptoTotal, UptoGlobal, UptoStatuses, UptoTypes, UptoScopeTotal,
        UptoScopeGlobal, UptoTuples, UptoUser, UptoProject, UptoAgent
<1>4. report'.pc \notin UptoGroups /\ report'.full
    BY <1>1
    DEF UptoTotal, UptoGlobal, UptoStatuses, UptoTypes, UptoScopeTotal, SameOptions,
        UptoScopeGlobal, UptoTuples, UptoUser, UptoProject, UptoAgent, UptoGroups
<1> QED
    BY <1>1, <1>2, <1>3, <1>4 DEF InventoryInv, InventoryType, NoReport

LEMMA CountGroupsKeeps ==
    ASSUME InventoryInv, CountGroups
    PROVE  InventoryInv'
<1> DEFINE groups  == GroupCounts("memory_type", Wanted)
           pending == {i \in DOMAIN MemoryTypes : MemoryTypes[i] \in DOMAIN groups}
<1>1. /\ report.pc = "groups" /\ report \in Reports /\ changes \in Nat
      /\ report.perType = << >>
    BY TypesPcs DEF CountGroups, Query
<1>2. /\ groups \in Numbers(Types, Nat)
      /\ \A v : Near(At(groups, v), WantedOf(v))
      /\ \A v : v \in DOMAIN groups <=> WantedOf(v) # {}
      /\ DOMAIN groups \subseteq Types
    BY TypesCounted DEF InventoryInv, Numbers
<1>3. /\ report' \in Reports /\ report'.groups = groups /\ report'.pending = pending
      /\ report'.pc = (IF pending = {} THEN "done" ELSE "type_global")
      /\ report'.perType = << >>
      /\ UNCHANGED <<stock, changes>> /\ SameOptions /\ SameSummary /\ SameScopes
    <2>1. report' = [[report EXCEPT !.groups = groups, !.pending = pending]
                       EXCEPT !.pc = IF pending = {} THEN "done" ELSE "type_global"]
        BY ReportedIsWanted DEF CountGroups, Query
    <2>2. pending \in SUBSET (DOMAIN MemoryTypes)
        OBVIOUS
    <2> HIDE DEF groups, pending
    <2> QED
        BY <1>1, <1>2, <2>1, <2>2, ZenonT(60)
        DEF CountGroups, Query, Reports, ReportPcs, SameOptions, SameSummary, SameScopes
<1>4. Waiting' = DOMAIN groups
    <2>1. DOMAIN groups \subseteq {MemoryTypes[i] : i \in DOMAIN MemoryTypes}
        BY <1>2 DEF Types, ToSet
    <2>2. Waiting' = {MemoryTypes[i] : i \in pending}
        BY <1>3 DEF Waiting
    <2> HIDE DEF groups
    <2> QED
        BY <2>1, <2>2
<1> HIDE DEF groups
<1>5. DOMAIN report'.perType = {}
    BY <1>3
<1>6. Marks' = {}
    BY <1>5 DEF Marks, RecordsMetric
<1>7. Settled' = {}
    <2>1. ASSUME NEW m \in Wanted'
          PROVE  (stock[m].memory_type)' \in Waiting'
        <3>1. m \in WantedOf(stock[m].memory_type)
            BY <1>3, QueriesOnlyRead DEF WantedOf, SameOptions
        <3> QED
            BY <1>2, <1>3, <1>4, <3>1
    <2> QED
        BY <2>1 DEF Settled
<1>8. pending = {} <=> Waiting' = {}
    BY <1>3 DEF Waiting
<1>9. TurnsInOrder'
    BY <1>3, <1>4, <1>5, <1>8 DEF TurnsInOrder
<1>10. \A type \in Types : Near(At(report.groups, type), WantedOf(type))'
    BY <1>2, <1>3, QueriesOnlyRead DEF Near, At, SameOptions
<1>11. IsFiniteSet(Marks') /\ Near(Cardinality(Marks), Settled)'
    <2>1. IsFiniteSet({}) /\ Cardinality({}) = 0
        BY FS_EmptySet
    <2> QED
        BY <1>1, <1>3, <1>6, <1>7, <2>1 DEF Near
<1>12. TypesNear'
    BY <1>5, <1>9, <1>10, <1>11 DEF TypesNear
<1> QED
    BY <1>1, <1>3, <1>12, TypesStepKeeps

LEMMA CountTypeGlobalKeeps ==
    ASSUME InventoryInv, CountTypeGlobal
    PROVE  InventoryInv'
<1>0. PICK type : type = MemoryTypes[Turn]
    OBVIOUS
<1> DEFINE global == Cardinality(Unscoped(WantedOf(type)))
           line   == [count |-> report.groups[type], statuses |-> << >>, global |-> global]
           perType == [t \in DOMAIN report.perType \cup {type} |->
                         IF t # type THEN report.perType[t] ELSE line]
<1>1. /\ report.pc = "type_global" /\ report \in Reports /\ changes \in Nat /\ TypesNear
    BY TypesPcs DEF CountTypeGlobal, Query
<1>2. /\ TurnsInOrder
      /\ \A t \in Types : Near(At(report.groups, t), WantedOf(t))
      /\ IsFiniteSet(Marks) /\ Near(Cardinality(Marks), Settled)
    BY <1>1
    DEF TypesNear, UptoTotal, UptoGlobal, UptoStatuses, UptoTypes, UptoScopeTotal,
        UptoScopeGlobal, UptoTuples, UptoUser, UptoProject, UptoAgent, UptoGroups
<1>3. /\ type \in Waiting /\ type \in Types /\ type \notin DOMAIN report.perType
      /\ type \in DOMAIN report.groups
    <2>1. report.pending \in SUBSET (DOMAIN MemoryTypes) /\ report.pending # {}
        BY <1>1, <1>2 DEF TurnsInOrder, Reports
    <2>2. type \in Waiting /\ type \in Types
        BY <1>0, <2>1, TurnIsWaiting
    <2> QED
        BY <1>1, <1>2, <2>2 DEF TurnsInOrder
<1>4. /\ GlobalsAdd(WantedOf(type)) /\ report.groups[type] \in Nat
      /\ DOMAIN report.perType \subseteq Types
      /\ \A t \in DOMAIN report.perType : report.perType[t] \in TypeShown
    <2>1. GlobalsAdd(WantedOf(type))
        BY Finite, ScopedAndGlobal
    <2> QED
        BY <1>1, <1>3, <2>1 DEF Reports, Numbers
<1>5. line \in TypeShown
    <2>1. << >> \in Counts
        BY NothingCounted DEF Counts
    <2>2. global \in Nat
        BY <1>4 DEF GlobalsAdd
    <2> HIDE DEF global
    <2> QED
        BY <1>4, <2>1, <2>2 DEF TypeShown
<1>6. /\ DOMAIN perType = DOMAIN report.perType \cup {type}
      /\ perType[type] = line
      /\ \A t \in DOMAIN report.perType : perType[t] = report.perType[t]
      /\ perType \in Numbers(Types, TypeShown)
    <2> HIDE DEF line
    <2>1. /\ DOMAIN perType = DOMAIN report.perType \cup {type}
          /\ perType[type] = line
          /\ \A t \in DOMAIN report.perType : perType[t] = report.perType[t]
        BY <1>3
    <2>2. perType \in [DOMAIN report.perType \cup {type} -> TypeShown]
        BY <1>4, <1>5
    <2>3. DOMAIN report.perType \cup {type} \in SUBSET Types
        BY <1>3, <1>4
    <2> QED
        BY <2>1, <2>2, <2>3 DEF Numbers
<1>7. /\ report' \in Reports /\ report'.perType = perType
      /\ report'.pc = "type_statuses"
      /\ report'.groups = report.groups /\ report'.pending = report.pending
      /\ UNCHANGED <<stock, changes>> /\ SameOptions /\ SameSummary /\ SameScopes
    <2>1. report' = [[report EXCEPT !.perType = perType] EXCEPT !.pc = "type_statuses"]
        BY <1>0, ReportedIsWanted DEF CountTypeGlobal, Query
    <2> HIDE DEF perType
    <2> QED
        BY <1>1, <1>6, <2>1, ZenonT(60)
        DEF CountTypeGlobal, Query, Reports, ReportPcs, SameOptions, SameSummary, SameScopes
<1> HIDE DEF perType
<1>8. /\ Waiting' = Waiting /\ Turn' = Turn
      /\ Settled' = Settled
    <2>1. Waiting' = Waiting /\ Turn' = Turn
        BY <1>7 DEF Waiting, Turn
    <2> QED
        BY <1>7, <2>1, QueriesOnlyRead DEF Settled, SameOptions
<1>9. Marks' = Marks
    <2>1. Marks' = MarksIn(perType) /\ Marks = MarksIn(report.perType)
        BY <1>7, MarksByType, MarksByTypeNext
    <2>2. MarksOf(type, perType[type].statuses) = {}
        BY <1>6 DEF MarksOf
    <2> HIDE DEF line
    <2>3. MarksIn(perType) = MarksIn(report.perType)
        BY <1>6, <2>2 DEF MarksIn
    <2> QED
        BY <2>1, <2>3
<1>10. TurnsInOrder'
    <2> HIDE DEF line
    <2> QED
        BY <1>0, <1>1, <1>2, <1>3, <1>6, <1>7, <1>8 DEF TurnsInOrder
<1>11. \A t \in Types : Near(At(report.groups, t), WantedOf(t))'
    BY <1>2, <1>7, QueriesOnlyRead DEF Near, At, SameOptions
<1>12. Near(line.count - line.global, WantedOf(type) \ Unscoped(WantedOf(type)))
    <2>1. Near(report.groups[type], WantedOf(type))
        BY <1>2, <1>3 DEF At
    <2>2. line.count = report.groups[type] /\ line.global = Cardinality(Unscoped(WantedOf(type)))
        OBVIOUS
    <2> HIDE DEF line
    <2> QED
        BY <1>1, <1>4, <2>1, <2>2 DEF Near, GlobalsAdd
<1>13. ASSUME NEW t \in DOMAIN perType, t # type
       PROVE  LineNear(t)'
    <2>1. t \in DOMAIN report.perType /\ perType[t] = report.perType[t]
        BY <1>6, <1>13
    <2> HIDE DEF line
    <2>2. LineNear(t)
        BY <1>1, <2>1
        DEF TypesNear, UptoTotal, UptoGlobal, UptoStatuses, UptoTypes, UptoScopeTotal,
            UptoScopeGlobal, UptoTuples, UptoUser, UptoProject, UptoAgent, UptoGroups
    <2> QED
        BY <1>7, <1>8, <2>1, <2>2, QueriesOnlyRead DEF LineNear, Near, At, SameOptions
<1>14. LineNear(type)'
    <2>1. /\ report'.perType[type] = line /\ line.count = report.groups[type]
          /\ line.statuses = << >>
        BY <1>6, <1>7
    <2>2. type \in Waiting'
        BY <1>3, <1>8
    <2> HIDE DEF line
    <2>3. Near(report.perType[type].count - report.perType[type].global,
               WantedOf(type) \ Unscoped(WantedOf(type)))'
        BY <1>7, <1>12, <2>1, QueriesOnlyRead DEF Near, SameOptions
    <2> QED
        BY <1>7, <2>1, <2>2, <2>3 DEF LineNear
<1>15. IsFiniteSet(Marks') /\ Near(Cardinality(Marks), Settled)'
    BY <1>2, <1>7, <1>8, <1>9 DEF Near
<1>16. TypesNear'
    <2>1. \A t \in DOMAIN report'.perType : LineNear(t)'
        BY <1>7, <1>13, <1>14
    <2> HIDE DEF line
    <2> QED
        BY <1>10, <1>11, <1>15, <2>1 DEF TypesNear
<1> QED
    BY <1>1, <1>7, <1>16, TypesStepKeeps

LEMMA DisjointUnion ==
    ASSUME NEW S, IsFiniteSet(S), NEW T, IsFiniteSet(T), S \cap T = {}
    PROVE  /\ IsFiniteSet(S \cup T)
           /\ Cardinality(S \cup T) = Cardinality(S) + Cardinality(T)
           /\ Cardinality(S) \in Nat /\ Cardinality(T) \in Nat
<1>1. IsFiniteSet(S \cup T)
    BY FS_Union
<1>2. Cardinality(S \cup T) = Cardinality(S) + Cardinality(T) - Cardinality(S \cap T)
    BY FS_Union
<1>3. Cardinality(S) \in Nat /\ Cardinality(T) \in Nat
    BY FS_CardinalityType
<1>4. Cardinality(S \cap T) = 0
    BY FS_EmptySet
<1> QED
    BY <1>1, <1>2, <1>3, <1>4

(* The lines of a type are added when its statuses are counted. *)
LEMMA MarksAdded ==
    ASSUME NEW before, NEW after, NEW type \in DOMAIN before, DOMAIN after = DOMAIN before,
           before[type].statuses = << >>,
           \A t \in DOMAIN before : t # type => after[t] = before[t]
    PROVE  /\ MarksIn(after) = MarksIn(before) \cup MarksOf(type, after[type].statuses)
           /\ MarksIn(before) \cap MarksOf(type, after[type].statuses) = {}
<1>1. MarksOf(type, before[type].statuses) = {}
    BY DEF MarksOf
<1>2. ASSUME NEW t, NEW statuses, NEW mark \in MarksOf(t, statuses)
      PROVE  mark[1].memory_type = t
    <2>1. PICK status \in DOMAIN statuses :
            \E n \in 1 .. statuses[status] : mark = <<LineOf(t, status, statuses), n>>
        BY DEF MarksOf
    <2>2. mark[1] = LineOf(t, status, statuses)
        BY <2>1
    <2> QED
        BY <2>2 DEF LineOf
<1>3. MarksIn(after) = MarksIn(before) \cup MarksOf(type, after[type].statuses)
    <2>1. ASSUME NEW mark \in MarksIn(after)
          PROVE  mark \in MarksIn(before) \cup MarksOf(type, after[type].statuses)
        <3>1. PICK t \in DOMAIN before : mark \in MarksOf(t, after[t].statuses)
            BY DEF MarksIn
        <3> QED
            BY <3>1 DEF MarksIn
    <2>2. ASSUME NEW mark \in MarksIn(before)
          PROVE  mark \in MarksIn(after)
        <3>1. PICK t \in DOMAIN before : mark \in MarksOf(t, before[t].statuses)
            BY DEF MarksIn
        <3>2. t # type
            BY <1>1, <3>1
        <3> QED
            BY <3>1, <3>2 DEF MarksIn
    <2>3. MarksOf(type, after[type].statuses) \subseteq MarksIn(after)
        BY DEF MarksIn
    <2> QED
        BY <2>1, <2>2, <2>3
<1>4. ASSUME NEW mark \in MarksIn(before), mark \in MarksOf(type, after[type].statuses)
      PROVE  FALSE
    <2>1. PICK t \in DOMAIN before : mark \in MarksOf(t, before[t].statuses)
        BY DEF MarksIn
    <2>2. t = type
        BY <1>2, <1>4, <2>1
    <2> QED
        BY <1>1, <2>1, <2>2
<1> QED
    BY <1>3, <1>4

LEMMA CountTypeStatusesKeeps ==
    ASSUME InventoryInv, CountTypeStatuses
    PROVE  InventoryInv'
<1>0. PICK type : type = MemoryTypes[Turn]
    OBVIOUS
<1> DEFINE counts  == GroupCounts("status", WantedOf(type))
           pending == report.pending \ {Turn}
           perType == [report.perType EXCEPT ![type].statuses = counts]
<1>1. /\ report.pc = "type_statuses" /\ report \in Reports /\ changes \in Nat /\ TypesNear
    BY TypesPcs DEF CountTypeStatuses, Query
<1>2. /\ TurnsInOrder
      /\ \A t \in Types : Near(At(report.groups, t), WantedOf(t))
      /\ \A t \in DOMAIN report.perType : LineNear(t)
      /\ IsFiniteSet(Marks) /\ Near(Cardinality(Marks), Settled)
    BY <1>1
    DEF TypesNear, UptoTotal, UptoGlobal, UptoStatuses, UptoTypes, UptoScopeTotal,
        UptoScopeGlobal, UptoTuples, UptoUser, UptoProject, UptoAgent, UptoGroups
<1>3. /\ type \in Waiting /\ type \in Types /\ type \in DOMAIN report.perType
      /\ Turn \in report.pending
      /\ DOMAIN report.perType \cap Waiting = {type}
      /\ {MemoryTypes[i] : i \in pending} = Waiting \ {type}
      /\ report.perType[type].statuses = << >>
    <2>1. report.pending \in SUBSET (DOMAIN MemoryTypes) /\ report.pending # {}
        BY <1>1, <1>2 DEF TurnsInOrder, Reports
    <2>2. /\ type \in Waiting /\ type \in Types /\ Turn \in report.pending
          /\ {MemoryTypes[i] : i \in pending} = Waiting \ {type}
        BY <1>0, <2>1, TurnIsWaiting
    <2>3. DOMAIN report.perType \cap Waiting = {type}
        BY <1>0, <1>1, <1>2 DEF TurnsInOrder
    <2>4. type \in DOMAIN report.perType
        BY <2>3
    <2> QED
        BY <1>2, <2>2, <2>3, <2>4 DEF LineNear
<1>4. /\ DOMAIN report.perType \subseteq Types
      /\ \A t \in DOMAIN report.perType : report.perType[t] \in TypeShown
      /\ report.pending \subseteq DOMAIN MemoryTypes
    BY <1>1 DEF Reports, Numbers
<1>5. /\ counts \in Counts
      /\ \A v : Near(At(counts, v), WithStatus(v, WantedOf(type)))
    <2>1. WantedOf(type) \in SUBSET Wanted
        BY DEF WantedOf
    <2> QED
        BY <2>1, StatusesCounted DEF InventoryInv
<1>6. /\ DOMAIN perType = DOMAIN report.perType
      /\ perType[type].count = report.perType[type].count
      /\ perType[type].global = report.perType[type].global
      /\ perType[type].statuses = counts
      /\ \A t \in DOMAIN report.perType : t # type => perType[t] = report.perType[t]
      /\ perType \in Numbers(Types, TypeShown)
    <2> HIDE DEF counts
    <2>1. [report.perType[type] EXCEPT !.statuses = counts] \in TypeShown
        BY <1>3, <1>4, <1>5 DEF TypeShown
    <2>2. /\ DOMAIN perType = DOMAIN report.perType
          /\ perType[type] = [report.perType[type] EXCEPT !.statuses = counts]
          /\ \A t \in DOMAIN report.perType : t # type => perType[t] = report.perType[t]
        BY <1>3
    <2>3. perType \in [DOMAIN report.perType -> TypeShown]
        BY <1>3, <1>4, <2>1
    <2> HIDE DEF perType
    <2>4. perType \in Numbers(Types, TypeShown)
        BY <1>4, <2>3 DEF Numbers
    <2>5. /\ perType[type].count = report.perType[type].count
          /\ perType[type].global = report.perType[type].global
          /\ perType[type].statuses = counts
        BY <1>3, <1>4, <2>2 DEF TypeShown
    <2> QED
        BY <2>2, <2>4, <2>5
<1>7. /\ report' \in Reports /\ report'.perType = perType /\ report'.pending = pending
      /\ report'.pc = (IF report.pending = {Turn} THEN "done" ELSE "type_global")
      /\ report'.groups = report.groups
      /\ UNCHANGED <<stock, changes>> /\ SameOptions /\ SameSummary /\ SameScopes
    <2>1. report' = [[report EXCEPT !.pending = pending, !.perType = perType]
                       EXCEPT !.pc = IF report.pending = {Turn} THEN "done" ELSE "type_global"]
        BY <1>0, ReportedIsWanted DEF CountTypeStatuses, Query
    <2>2. pending \in SUBSET (DOMAIN MemoryTypes)
        BY <1>4
    <2> HIDE DEF perType, pending
    <2> QED
        BY <1>1, <1>6, <2>1, <2>2, ZenonT(60)
        DEF CountTypeStatuses, Query, Reports, ReportPcs, SameOptions, SameSummary, SameScopes
<1> HIDE DEF perType
<1>8. Waiting' = Waiting \ {type}
    BY <1>3, <1>7 DEF Waiting
<1>9. /\ Settled' = Settled \cup WantedOf(type) /\ Settled \cap WantedOf(type) = {}
      /\ Settled \in SUBSET Held
    <2>1. Settled' = {m \in Wanted : stock[m].memory_type \notin Waiting \ {type}}
        BY <1>7, <1>8, QueriesOnlyRead DEF Settled, SameOptions
    <2>2. WantedOf(type) = {m \in Wanted : stock[m].memory_type = type}
        BY DEF WantedOf
    <2> QED
        BY <1>3, <2>1, <2>2, Finite DEF Settled
<1>10. IsFiniteSet(Marks') /\ Near(Cardinality(Marks), Settled)'
    <2> DEFINE marks == MarksOf(type, counts)
    <2>1. IsFiniteSet(marks) /\ Cardinality(marks) = Cardinality(WantedOf(type))
        BY Finite, MarksCountRecords
    <2>2. Marks' = Marks \cup marks /\ Marks \cap marks = {}
        <3>1. Marks' = MarksIn(perType) /\ Marks = MarksIn(report.perType)
            BY <1>7, MarksByType, MarksByTypeNext
        <3> HIDE DEF counts
        <3> QED
            BY <1>3, <1>6, <3>1, MarksAdded
    <2>3. IsFiniteSet(Settled) /\ IsFiniteSet(WantedOf(type))
        BY <1>9, Finite, HeldIsFinite
    <2> HIDE DEF marks
    <2>4. /\ IsFiniteSet(Marks')
          /\ Cardinality(Marks') = Cardinality(Marks) + Cardinality(WantedOf(type))
          /\ Cardinality(Marks) \in Nat
        BY <1>2, <2>1, <2>2, DisjointUnion
    <2>5. /\ Cardinality(Settled') = Cardinality(Settled) + Cardinality(WantedOf(type))
          /\ Cardinality(Settled) \in Nat /\ Cardinality(WantedOf(type)) \in Nat
        BY <1>9, <2>3, DisjointUnion
    <2>6. changes' = changes
        BY <1>7
    <2> QED
        BY <1>1, <1>2, <2>4, <2>5, <2>6 DEF Near
<1>11. TurnsInOrder'
    <2>1. pending = {} <=> report.pending = {Turn}
        BY <1>3
    <2>2. DOMAIN report'.groups = DOMAIN report'.perType \cup Waiting'
        BY <1>2, <1>3, <1>6, <1>7, <1>8 DEF TurnsInOrder
    <2>3. DOMAIN report'.perType \cap Waiting' = {}
        BY <1>3, <1>6, <1>7, <1>8
    <2> HIDE DEF pending
    <2> QED
        BY <1>7, <2>1, <2>2, <2>3 DEF TurnsInOrder
<1>12. \A t \in Types : Near(At(report.groups, t), WantedOf(t))'
    BY <1>2, <1>7, QueriesOnlyRead DEF Near, At, SameOptions
<1>13. ASSUME NEW t \in DOMAIN report.perType, t # type
       PROVE  LineNear(t)'
    <2> HIDE DEF counts
    <2>1. LineNear(t) /\ report'.perType[t] = report.perType[t]
        BY <1>2, <1>6, <1>7, <1>13
    <2>2. t \in Waiting' <=> t \in Waiting
        BY <1>8, <1>13
    <2> QED
        BY <1>7, <2>1, <2>2, QueriesOnlyRead DEF LineNear, Near, At, SameOptions
<1>14. LineNear(type)'
    <2>1. LineNear(type) /\ type \notin Waiting' /\ report'.perType[type].statuses = counts
        BY <1>2, <1>3, <1>6, <1>7, <1>8
    <2> HIDE DEF counts
    <2>2. \A v \in STRING : Near(At(report.perType[type].statuses, v),
                                 WithStatus(v, WantedOf(type)))'
        BY <1>5, <1>7, <2>1, QueriesOnlyRead DEF Near, At, SameOptions
    <2>3. Near(report.perType[type].count - report.perType[type].global,
               WantedOf(type) \ Unscoped(WantedOf(type)))'
        BY <1>6, <1>7, <2>1, QueriesOnlyRead DEF LineNear, Near, SameOptions
    <2>4. (report.perType[type].count = report.groups[type])'
        BY <1>6, <1>7, <2>1 DEF LineNear
    <2> QED
        BY <2>1, <2>2, <2>3, <2>4 DEF LineNear
<1>15. TypesNear'
    <2>1. \A t \in DOMAIN report'.perType : LineNear(t)'
        BY <1>6, <1>7, <1>13, <1>14
    <2> QED
        BY <1>10, <1>11, <1>12, <2>1 DEF TypesNear
<1>16. report'.pc \in {"type_global", "type_statuses", "done"}
    BY <1>7
<1> QED
    BY <1>1, <1>7, <1>15, <1>16, TypesStepKeeps

-----------------------------------------------------------------------------
(* All steps.                                                              *)

LEMMA BeginReportKeeps ==
    ASSUME InventoryInv, BeginReport
    PROVE  InventoryInv'
<1>1. PICK request \in Requests :
        report' = [pc |-> "total",
                   full |-> request.full, chunks |-> request.chunks,
                   named |-> request.named,
                   total |-> 0, global |-> 0,
                   statuses |-> << >>, types |-> << >>,
                   scopeTotal |-> 0, scopeGlobal |-> 0, tuples |-> 0,
                   scopes |-> << >>, groups |-> << >>,
                   pending |-> {}, perType |-> << >>]
    BY DEF BeginReport
<1>2. request.full \in BOOLEAN /\ request.chunks \in BOOLEAN /\ request.named \in BOOLEAN
    BY InventoryAssumption
<1>3. /\ << >> \in Counts /\ << >> \in Numbers(Dimensions, Shown)
      /\ << >> \in Numbers(Types, Nat) /\ << >> \in Numbers(Types, TypeShown)
    BY NothingCounted DEF Counts
<1>4. report' \in Reports /\ report'.pc = "total" /\ report'.perType = << >>
    BY <1>1, <1>2, <1>3 DEF Reports, ReportPcs
<1>5. InventoryType' /\ report' # NoReport
    BY <1>4 DEF BeginReport, InventoryInv, InventoryType, NoReport
<1> QED
    BY <1>4, <1>5
    DEF InventoryInv, SummaryNear, ScopesNear, TypesNear,
        UptoTotal, UptoGlobal, UptoStatuses, UptoTypes, UptoScopeTotal,
        UptoScopeGlobal, UptoTuples, UptoUser, UptoProject, UptoAgent, UptoGroups

LEMMA InventoryInvInit == InventoryInit => InventoryInv
<1>1. Descriptions \subseteq Description
    BY InventoryAssumption DEF Description, Types
<1> QED
    BY <1>1 DEF InventoryInit, InventoryInv, InventoryType

LEMMA InventoryInvStep == InventoryInv /\ [InventoryNext]_inventoryVars => InventoryInv'
<1> SUFFICES ASSUME InventoryInv, [InventoryNext]_inventoryVars
             PROVE  InventoryInv'
    OBVIOUS
<1>1. CASE Report
    <2>1. ASSUME NEW dim \in Dimensions, CountDimension(dim)
          PROVE  InventoryInv'
        BY <2>1, CountDimensionKeeps
    <2>2. CASE EndReport
        BY <2>2 DEF EndReport, InventoryInv, InventoryType
    <2> QED
        BY <1>1, <2>1, <2>2, BeginReportKeeps, CountTotalKeeps, CountGlobalKeeps,
           CountStatusesKeeps, CountTypesKeeps, CountScopeTotalKeeps,
           CountScopeGlobalKeeps, CountTuplesKeeps, CountGroupsKeeps,
           CountTypeGlobalKeeps, CountTypeStatusesKeeps
        DEF Report
<1>2. CASE \E m \in Held : InsertRecord(m) \/ UpdateRecord(m) \/ RemoveRecord(m)
    BY <1>2, ChangesKeepInventoryInv
<1>3. CASE UNCHANGED inventoryVars
    <2>1. stock' = stock /\ report' = report /\ changes' = changes
        BY <1>3 DEF inventoryVars
    <2>2. /\ Wanted' = Wanted /\ Waiting' = Waiting
          /\ \A type : WantedOf(type)' = WantedOf(type)
          /\ \A S : Unscoped(S)' = Unscoped(S)
          /\ \A status, S : WithStatus(status, S)' = WithStatus(status, S)
          /\ \A n, S : Near(n, S)' <=> Near(n, S)
        BY <2>1 DEF Wanted, Waiting, WantedOf, Unscoped, WithStatus, Near
    <2>3. SummaryNear <=> SummaryNear'
        BY <2>1, <2>2 DEF SummaryNear, At
    <2>4. ScopesNear <=> ScopesNear'
        <3>1. ScopeTuples(Wanted)' = ScopeTuples(Wanted)
            BY <2>1, <2>2 DEF ScopeTuples, ScopeOf
        <3>2. \A dim : NamesIn(dim, Wanted)' = NamesIn(dim, Wanted)
            BY <2>1, <2>2 DEF NamesIn
        <3>3. \A dim : DimensionNear(dim) <=> DimensionNear(dim)'
            BY <2>1, <2>2, <3>2 DEF DimensionNear
        <3> QED
            BY <2>1, <2>2, <3>1, <3>3 DEF ScopesNear
    <2>5. TypesNear <=> TypesNear'
        <3>1. Marks' = Marks /\ Settled' = Settled
            BY <2>1, <2>2 DEF Marks, RecordsMetric, Settled
        <3>2. TurnsInOrder <=> TurnsInOrder'
            BY <2>1, <2>2 DEF TurnsInOrder, Turn
        <3>3. \A type : LineNear(type) <=> LineNear(type)'
            BY <2>1, <2>2 DEF LineNear, At
        <3> QED
            BY <2>1, <2>2, <3>1, <3>2, <3>3 DEF TypesNear, At
    <2> QED
        BY <2>1, <2>3, <2>4, <2>5 DEF InventoryInv, InventoryType
<1> QED
    BY <1>1, <1>2, <1>3 DEF InventoryNext

LEMMA InventoryInvariance == InventorySpec => []InventoryInv
<1> QED
    BY InventoryInvInit, InventoryInvStep, PTL DEF InventorySpec

-----------------------------------------------------------------------------
(* max(total - global, 0) is as near to the number of scoped records as    *)
(* the difference is.                                                      *)
LEMMA ScopedIsNear ==
    ASSUME changes \in Nat, NEW total \in Nat, NEW global \in Nat,
           NEW S, Cardinality(S) \in Nat, Near(total - global, S)
    PROVE  Near(Scoped(total, global), S)
    BY DEF Near, Scoped

(* Of a type that no query found there are at most as many records, in all *)
(* and of each kind, as there were changes.                                *)
LEMMA NoneIsNear ==
    ASSUME changes \in Nat, NEW S \in SUBSET Held, NEW T \in SUBSET S, Near(0, S)
    PROVE  Near(0, T)
<1>1. IsFiniteSet(S) /\ Cardinality(S) \in Nat /\ Cardinality(T) \in Nat
    BY HeldIsFinite
<1>2. Cardinality(T) <= Cardinality(S)
    BY <1>1, FS_Subset
<1> QED
    BY <1>1, <1>2 DEF Near

LEMMA StatusesAreStrings == StatusesInUse \subseteq STRING
    BY InventoryAssumption DEF StatusesInUse

LEMMA SummaryAtTheEnd ==
    ASSUME InventoryInv, report.pc = "done"
    PROVE  SummaryIsCurrent
<1>1. /\ report \in Reports /\ changes \in Nat /\ SummaryNear
    BY InventoryPcs
<1>2. /\ Near(report.total, Wanted) /\ Near(report.global, Unscoped(Wanted))
      /\ Near(report.total - report.global, Wanted \ Unscoped(Wanted))
      /\ \A status \in STRING :
           Near(At(report.statuses, status), WithStatus(status, Wanted))
      /\ \A type \in Types : Near(At(report.types, type), WantedOf(type))
    BY <1>1 DEF SummaryNear, UptoTotal, UptoGlobal, UptoStatuses, UptoTypes
<1>3. report.total \in Nat /\ report.global \in Nat
    BY <1>1 DEF Reports
<1>4. Near(Scoped(report.total, report.global), Wanted \ Unscoped(Wanted))
    BY <1>1, <1>2, <1>3, Finite, HeldIsFinite, ScopedIsNear
<1> QED
    BY <1>2, <1>4, StatusesAreStrings DEF SummaryIsCurrent, Types

LEMMA ScopesAtTheEnd ==
    ASSUME InventoryInv, report.pc = "done", report.full
    PROVE  ScopesAreCurrent
<1>1. /\ report \in Reports /\ changes \in Nat /\ ScopesNear
    BY InventoryPcs
<1>2. /\ Near(report.scopeGlobal, Unscoped(Wanted))
      /\ Near(report.scopeTotal - report.scopeGlobal, Wanted \ Unscoped(Wanted))
      /\ Near(report.tuples, ScopeTuples(Wanted))
      /\ DimensionNear("user_id") /\ DimensionNear("project_id") /\ DimensionNear("agent_id")
    BY <1>1
    DEF ScopesNear, UptoTotal, UptoGlobal, UptoStatuses, UptoTypes, UptoScopeTotal,
        UptoScopeGlobal, UptoTuples, UptoUser, UptoProject, UptoAgent
<1>3. report.scopeTotal \in Nat /\ report.scopeGlobal \in Nat
    BY <1>1 DEF Reports
<1>4. Near(Scoped(report.scopeTotal, report.scopeGlobal), Wanted \ Unscoped(Wanted))
    BY <1>1, <1>2, <1>3, Finite, HeldIsFinite, ScopedIsNear
<1>5. \A dim \in Dimensions : DimensionNear(dim)
    BY <1>2 DEF Dimensions
<1> QED
    BY <1>2, <1>4, <1>5 DEF ScopesAreCurrent, DimensionNear

LEMMA TypesAtTheEnd ==
    ASSUME InventoryInv, report.pc = "done", report.full
    PROVE  TypesAreCurrent
<1>1. /\ report \in Reports /\ changes \in Nat /\ TypesNear
    BY InventoryPcs
<1>2. /\ TurnsInOrder
      /\ \A type \in Types : Near(At(report.groups, type), WantedOf(type))
      /\ \A type \in DOMAIN report.perType : LineNear(type)
      /\ Near(Cardinality(Marks), Settled)
    BY <1>1
    DEF TypesNear, UptoTotal, UptoGlobal, UptoStatuses, UptoTypes, UptoScopeTotal,
        UptoScopeGlobal, UptoTuples, UptoUser, UptoProject, UptoAgent, UptoGroups
<1>3. Waiting = {} /\ DOMAIN report.groups = DOMAIN report.perType
    BY <1>2 DEF TurnsInOrder, Waiting
<1>4. Settled = Wanted
    BY <1>3 DEF Settled
<1>5. ASSUME NEW type \in Types, type \in DOMAIN report.perType
      PROVE  LET shown == TypeInventory(type)
             IN  /\ Near(shown.count, WantedOf(type))
                 /\ Near(Scoped(shown.count, shown.global),
                         WantedOf(type) \ Unscoped(WantedOf(type)))
                 /\ \A status \in StatusesInUse :
                      Near(At(shown.statuses, status), WithStatus(status, WantedOf(type)))
    <2> DEFINE shown == report.perType[type]
    <2>1. shown \in TypeShown
        BY <1>1, <1>5 DEF Reports, Numbers
    <2>2. shown.count \in Nat /\ shown.global \in Nat
        BY <2>1 DEF TypeShown
    <2>3. /\ shown.count = report.groups[type]
          /\ Near(shown.count - shown.global, WantedOf(type) \ Unscoped(WantedOf(type)))
          /\ \A status \in STRING :
               Near(At(shown.statuses, status), WithStatus(status, WantedOf(type)))
        BY <1>2, <1>3, <1>5 DEF LineNear
    <2>4. TypeInventory(type) = shown
        BY <1>5 DEF TypeInventory
    <2>5. Near(shown.count, WantedOf(type))
        BY <1>2, <1>3, <1>5, <2>3 DEF At
    <2>6. Near(Scoped(shown.count, shown.global), WantedOf(type) \ Unscoped(WantedOf(type)))
        BY <1>1, <2>2, <2>3, Finite, HeldIsFinite, ScopedIsNear
    <2> HIDE DEF shown
    <2> QED
        BY <2>3, <2>4, <2>5, <2>6, StatusesAreStrings
<1>6. ASSUME NEW type \in Types, type \notin DOMAIN report.perType
      PROVE  LET shown == TypeInventory(type)
             IN  /\ Near(shown.count, WantedOf(type))
                 /\ Near(Scoped(shown.count, shown.global),
                         WantedOf(type) \ Unscoped(WantedOf(type)))
                 /\ \A status \in StatusesInUse :
                      Near(At(shown.statuses, status), WithStatus(status, WantedOf(type)))
    <2>1. /\ TypeInventory(type).count = 0 /\ TypeInventory(type).global = 0
          /\ \A status : At(TypeInventory(type).statuses, status) = 0
        BY <1>6 DEF TypeInventory, At
    <2>2. Near(0, WantedOf(type))
        BY <1>2, <1>3, <1>6 DEF At
    <2>3. \A records \in SUBSET WantedOf(type) : Near(0, records)
        BY <1>1, <2>2, Finite, NoneIsNear
    <2>4. /\ WantedOf(type) \ Unscoped(WantedOf(type)) \in SUBSET WantedOf(type)
          /\ \A status : WithStatus(status, WantedOf(type)) \in SUBSET WantedOf(type)
        BY DEF WithStatus
    <2>5. Scoped(0, 0) = 0
        BY DEF Scoped
    <2> QED
        BY <2>1, <2>2, <2>3, <2>4, <2>5
<1> QED
    BY <1>2, <1>4, <1>5, <1>6 DEF TypesAreCurrent, Types

(* However a report and the writes of others interleave, no number of it   *)
(* is further from the database than their changes since it began.         *)
THEOREM ReportIsCurrent == InventorySpec => []InventoryIsCurrent
<1>1. InventoryInv => InventoryIsCurrent
    BY SummaryAtTheEnd, ScopesAtTheEnd, TypesAtTheEnd DEF InventoryIsCurrent
<1> QED
    BY <1>1, InventoryInvariance, PTL

-----------------------------------------------------------------------------
(* Scoring: numbers.                                                       *)

LEMMA DivisionKeepsOrder ==
    ASSUME NEW a \in Nat, NEW b \in Nat, a <= b, NEW d \in Nat \ {0}
    PROVE  a \div d \in Nat /\ b \div d \in Nat /\ a \div d <= b \div d
    OBVIOUS

LEMMA ProductKeepsOrder ==
    ASSUME NEW w \in Nat, NEW x \in Nat, NEW y \in Nat, x <= y
    PROVE  w * x \in Nat /\ w * y \in Nat /\ w * x <= w * y
    OBVIOUS

(* The scores of the first n candidates, those that are missing left out. *)
Scores(f, n) == {f[k] : k \in 1 .. n} \ {NoScore}

Bounded(S) ==
    \/ S = {}
    \/ /\ \E x \in S : \A y \in S : x <= y
       /\ \E x \in S : \A y \in S : y <= x

(* Some candidate has the lowest score and some candidate has the highest. *)
LEMMA ScoresAreBounded ==
    ASSUME NEW last \in Nat, NEW f,
           \A k \in 1 .. last : f[k] \in Int \cup {NoScore}
    PROVE  Bounded(Scores(f, last))
<1> DEFINE wrong == {n \in 0 .. last : ~Bounded(Scores(f, n))}
<1>1. SUFFICES ASSUME wrong # {} PROVE FALSE
    <2>1. last \in 0 .. last
        OBVIOUS
    <2> QED
        BY <1>1, <2>1
<1>2. PICK n \in wrong : \A k \in wrong : n <= k
    <2>1. wrong \in SUBSET Nat
        OBVIOUS
    <2> HIDE DEF wrong
    <2> QED
        BY <1>1, <2>1, LeastNatural
<1>3. n \in 0 .. last /\ ~Bounded(Scores(f, n))
    OBVIOUS
<1>4. n # 0
    <2>1. Scores(f, 0) = {}
        BY DEF Scores
    <2> QED
        BY <1>3, <2>1 DEF Bounded
<1>5. Bounded(Scores(f, n - 1))
    <2>1. n - 1 \notin wrong /\ n - 1 \in 0 .. last
        BY <1>2, <1>3, <1>4
    <2> QED
        BY <2>1
<1>6. Scores(f, n) = Scores(f, n - 1) \cup ({f[n]} \ {NoScore})
    <2>1. 1 .. n = (1 .. n - 1) \cup {n}
        BY <1>3, <1>4
    <2> QED
        BY <2>1 DEF Scores
<1>7. Scores(f, n - 1) \subseteq Int /\ f[n] \in Int \cup {NoScore}
    BY <1>3, <1>4 DEF Scores
<1> HIDE DEF wrong
<1>8. CASE f[n] = NoScore
    BY <1>3, <1>5, <1>6, <1>8
<1>9. CASE f[n] # NoScore
    <2>1. f[n] \in Int /\ Scores(f, n) = Scores(f, n - 1) \cup {f[n]}
        BY <1>6, <1>7, <1>9
    <2> DEFINE S == Scores(f, n - 1)
    <2>2. S \subseteq Int /\ Bounded(S)
        BY <1>5, <1>7
    <2> HIDE DEF S
    <2>3. Bounded(S \cup {f[n]})
        <3>1. CASE S = {}
            BY <2>1, <3>1 DEF Bounded
        <3>2. CASE S # {}
            <4>1. PICK x \in S : \A y \in S : x <= y
                BY <2>2, <3>2 DEF Bounded
            <4>2. PICK z \in S : \A y \in S : y <= z
                BY <2>2, <3>2 DEF Bounded
            <4>3. \E u \in S \cup {f[n]} : \A y \in S \cup {f[n]} : u <= y
                <5>1. CASE x <= f[n]
                    BY <2>1, <2>2, <4>1, <5>1
                <5>2. CASE ~(x <= f[n])
                    <6>1. \A y \in S \cup {f[n]} : f[n] <= y
                        BY <2>1, <2>2, <4>1, <5>2
                    <6> QED
                        BY <6>1
                <5> QED
                    BY <5>1, <5>2
            <4>4. \E u \in S \cup {f[n]} : \A y \in S \cup {f[n]} : y <= u
                <5>1. CASE f[n] <= z
                    BY <2>1, <2>2, <4>2, <5>1
                <5>2. CASE ~(f[n] <= z)
                    <6>1. \A y \in S \cup {f[n]} : y <= f[n]
                        BY <2>1, <2>2, <4>2, <5>2
                    <6> QED
                        BY <6>1
                <5> QED
                    BY <5>1, <5>2
            <4> QED
                BY <4>3, <4>4 DEF Bounded
        <3> QED
            BY <3>1, <3>2
    <2> QED
        BY <1>3, <2>1, <2>3 DEF S
<1> QED
    BY <1>8, <1>9

-----------------------------------------------------------------------------
(* The invariant: the scores are those of the components there are now.    *)

Mean == [num: Int, den: Int]

ScoringType ==
    /\ raw \in [Contenders -> [Components -> Int \cup {NoScore}]]
    /\ weights \in [Components -> Int]
    /\ reranking \in BOOLEAN
    /\ phase \in {"enriched", "scored", "reranked", "ranked"}

ScoringInv ==
    /\ ScoringType
    /\ phase \in {"scored", "ranked"} => \A m \in Contenders : final[m] = FinalScore(m)

LEMMA ScoringInvInit == ScoringInit => ScoringInv
    BY ScoringAssumption DEF ScoringInit, ScoringInv, ScoringType

LEMMA ScoringInvStep == ScoringInv /\ [ScoringNext]_scoringVars => ScoringInv'
<1> SUFFICES ASSUME ScoringInv, [ScoringNext]_scoringVars
             PROVE  ScoringInv'
    OBVIOUS
<1> USE DEF ScoringInv, ScoringType
<1>1. ASSUME UNCHANGED <<raw, weights, reranking>>
      PROVE  \A m \in Contenders : FinalScore(m)' = FinalScore(m)
    <2>1. /\ \A c : EffectiveWeight(c)' = EffectiveWeight(c)
          /\ \A m, c : Normalized(m, c)' = Normalized(m, c)
          /\ \A m : Counted(m)' = Counted(m)
        BY <1>1 DEF EffectiveWeight, Normalized, Counted
    <2> QED
        BY <1>1, <2>1 DEF FinalScore
<1>2. CASE Score
    BY <1>1, <1>2 DEF Score
<1>3. CASE RerankTopCandidates
    <2>1. raw' \in [Contenders -> [Components -> Int \cup {NoScore}]]
        <3>1. CASE UNCHANGED raw
            BY <3>1
        <3>2. CASE raw' # raw
            <4>1. PICK top \in TopSets : \E scores \in [top -> RerankScores] :
                    raw' = [m \in Contenders |->
                              IF m \in top
                              THEN [raw[m] EXCEPT !["reranker"] = scores[m]]
                              ELSE raw[m]]
                BY <1>3, <3>2 DEF RerankTopCandidates
            <4>2. PICK scores \in [top -> RerankScores] :
                    raw' = [m \in Contenders |->
                              IF m \in top
                              THEN [raw[m] EXCEPT !["reranker"] = scores[m]]
                              ELSE raw[m]]
                BY <4>1
            <4> QED
                BY <4>2, ScoringAssumption
        <3> QED
            BY <3>1, <3>2
    <2> QED
        BY <1>3, <2>1 DEF RerankTopCandidates
<1>4. CASE Return
    BY <1>4 DEF Return
<1>5. CASE UNCHANGED scoringVars
    BY <1>1, <1>5 DEF scoringVars
<1> QED
    BY <1>2, <1>3, <1>4, <1>5 DEF ScoringNext

-----------------------------------------------------------------------------
(* Each term of a score, and the score.                                    *)

LEMMA WeightsAreNumbers ==
    ASSUME ScoringType, NEW c \in Components
    PROVE  EffectiveWeight(c) \in Nat
<1>1. /\ Positive(weights[c]) \in Nat /\ Positive(weights["reranker"]) \in Nat
      /\ Share[c] \in Nat
    BY DEF ScoringType, Positive, Share, Components
<1> HIDE DEF Share
<1>2. /\ 45 * Positive(weights[c]) \in Nat
      /\ Share[c] * Positive(weights["reranker"]) \in Nat
    BY <1>1, ProductKeepsOrder
<1> QED
    BY <1>2 DEF EffectiveWeight

(* Normalising keeps the order of two scores and makes none negative. *)
LEMMA NormalizingKeepsOrder ==
    ASSUME ScoringType, NEW m \in Contenders, NEW n \in Contenders, NEW c \in Components,
           raw[m][c] # NoScore, raw[n][c] # NoScore, raw[n][c] <= raw[m][c]
    PROVE  /\ Normalized(n, c) \in Nat /\ Normalized(m, c) \in Nat
           /\ Normalized(n, c) <= Normalized(m, c)
<1>1. raw[m][c] \in Int /\ raw[n][c] \in Int /\ Unit \in Nat \ {0}
    BY ScoringAssumption DEF ScoringType
<1>2. CASE c \in Prenormalized
    BY <1>1, <1>2 DEF Normalized, Clamp
<1>3. CASE c \notin Prenormalized
    <2> DEFINE f == [k \in Contenders |-> raw[k][c]]
               values == {raw[k][c] : k \in Contenders} \ {NoScore}
               minimum == Min(values)
               maximum == Max(values)
    <2>1. values = Scores(f, LastCandidate)
        BY DEF Scores, Contenders
    <2>2. Bounded(values) /\ values \subseteq Int
        <3>1. \A k \in 1 .. LastCandidate : f[k] \in Int \cup {NoScore}
            BY DEF ScoringType, Contenders
        <3>2. values \subseteq Int
            BY DEF ScoringType
        <3> HIDE DEF f, values
        <3> QED
            BY <2>1, <3>1, <3>2, ScoresAreBounded, ScoringAssumption
    <2>3. raw[m][c] \in values /\ raw[n][c] \in values
        OBVIOUS
    <2> HIDE DEF values
    <2>4. minimum \in values /\ \A y \in values : minimum <= y
        BY <2>2, <2>3 DEF Bounded, Min
    <2>5. maximum \in values /\ \A y \in values : y <= maximum
        BY <2>2, <2>3 DEF Bounded, Max
    <2>6. \A k : Normalized(k, c) =
                   IF maximum = minimum THEN (IF raw[k][c] > 0 THEN Unit ELSE 0)
                   ELSE ((raw[k][c] - minimum) * Unit) \div (maximum - minimum)
        BY <1>3 DEF Normalized, values
    <2> HIDE DEF minimum, maximum
    <2>7. /\ minimum \in Int /\ maximum \in Int
          /\ minimum <= raw[n][c] /\ raw[m][c] <= maximum
        BY <2>2, <2>3, <2>4, <2>5
    <2>8. CASE maximum = minimum
        BY <1>1, <2>6, <2>7, <2>8
    <2>9. CASE maximum # minimum
        <3> DEFINE a == raw[n][c] - minimum
                   b == raw[m][c] - minimum
                   d == maximum - minimum
        <3>1. a \in Nat /\ b \in Nat /\ a <= b /\ d \in Nat \ {0}
            BY <1>1, <2>7, <2>9
        <3>2. Normalized(n, c) = (a * Unit) \div d /\ Normalized(m, c) = (b * Unit) \div d
            BY <2>6, <2>9
        <3> HIDE DEF a, b, d
        <3>3. a * Unit \in Nat /\ b * Unit \in Nat /\ a * Unit <= b * Unit
            BY <1>1, <3>1
        <3> QED
            BY <3>1, <3>2, <3>3, DivisionKeepsOrder
    <2> QED
        BY <2>8, <2>9
<1> QED
    BY <1>2, <1>3

Term(m, c) ==
    IF raw[m][c] = NoScore THEN 0 ELSE EffectiveWeight(c) * Normalized(m, c)

LEMMA TermsKeepOrder ==
    ASSUME ScoringType, NEW m \in Contenders, NEW n \in Contenders, Dominates(m, n),
           NEW c \in Components
    PROVE  Term(n, c) \in Nat /\ Term(m, c) \in Nat /\ Term(n, c) <= Term(m, c)
<1>1. EffectiveWeight(c) \in Nat
    BY WeightsAreNumbers
<1>2. CASE raw[n][c] # NoScore
    <2>1. raw[m][c] # NoScore /\ raw[n][c] <= raw[m][c]
        <3>1. raw[m][c] # NoScore /\ raw[m][c] >= raw[n][c]
            BY <1>2 DEF Dominates
        <3>2. raw[m][c] \in Int /\ raw[n][c] \in Int
            BY <1>2, <3>1 DEF ScoringType
        <3> QED
            BY <3>1, <3>2
    <2>2. /\ Normalized(n, c) \in Nat /\ Normalized(m, c) \in Nat
          /\ Normalized(n, c) <= Normalized(m, c)
        BY <1>2, <2>1, NormalizingKeepsOrder
    <2> QED
        BY <1>1, <1>2, <2>1, <2>2, ProductKeepsOrder DEF Term
<1>3. CASE raw[n][c] = NoScore
    <2>1. CASE raw[m][c] = NoScore
        BY <1>3, <2>1 DEF Term
    <2>2. CASE raw[m][c] # NoScore
        <3>1. raw[m][c] <= raw[m][c]
            BY <2>2 DEF ScoringType
        <3>2. Normalized(m, c) \in Nat
            BY <2>2, <3>1, NormalizingKeepsOrder
        <3> QED
            BY <1>1, <1>3, <2>2, <3>2, ProductKeepsOrder DEF Term
    <2> QED
        BY <2>1, <2>2
<1> QED
    BY <1>2, <1>3

LEMMA TotalsKeepOrder ==
    ASSUME NEW f, NEW g,
           \A c \in Components : f[c] \in Nat /\ g[c] \in Nat /\ f[c] <= g[c]
    PROVE  TotalOf(f) \in Nat /\ TotalOf(g) \in Nat /\ TotalOf(f) <= TotalOf(g)
    BY DEF TotalOf, Components

LEMMA DominatedComesLater ==
    ASSUME ScoringType, NEW m \in Contenders, NEW n \in Contenders, Dominates(m, n)
    PROVE  AtLeast(FinalScore(m), FinalScore(n))
<1> DEFINE counted(k)  == [c \in Components |->
                             IF c \in Counted(k) THEN EffectiveWeight(c) ELSE 0]
           weighted(k) == [c \in Components |-> Term(k, c)]
<1>1. \A k : FinalScore(k) =
              IF TotalOf(counted(k)) = 0 THEN [num |-> 0, den |-> 1]
              ELSE [num |-> TotalOf(weighted(k)), den |-> TotalOf(counted(k)) * Unit]
    BY DEF FinalScore, Term
<1>2. counted(m) = counted(n)
    <2>1. Counted(m) = Counted(n)
        BY DEF Dominates, Counted, IsOptional, Components
    <2> QED
        BY <2>1
<1>3. TotalOf(counted(n)) \in Nat
    <2>1. \A c \in Components : counted(n)[c] \in Nat
        BY WeightsAreNumbers
    <2> HIDE DEF counted
    <2> QED
        BY <2>1, TotalsKeepOrder
<1>4. /\ TotalOf(weighted(n)) \in Nat /\ TotalOf(weighted(m)) \in Nat
      /\ TotalOf(weighted(n)) <= TotalOf(weighted(m))
    <2>1. \A c \in Components :
            /\ weighted(n)[c] \in Nat /\ weighted(m)[c] \in Nat
            /\ weighted(n)[c] <= weighted(m)[c]
        BY TermsKeepOrder
    <2> HIDE DEF weighted
    <2> QED
        BY <2>1, TotalsKeepOrder
<1> HIDE DEF counted, weighted
<1>5. CASE TotalOf(counted(n)) = 0
    BY <1>1, <1>2, <1>5 DEF AtLeast
<1>6. CASE TotalOf(counted(n)) # 0
    <2> DEFINE den == TotalOf(counted(n)) * Unit
    <2>1. den \in Nat
        BY <1>3, ScoringAssumption
    <2>2. /\ FinalScore(m).num = TotalOf(weighted(m)) /\ FinalScore(m).den = den
          /\ FinalScore(n).num = TotalOf(weighted(n)) /\ FinalScore(n).den = den
        BY <1>1, <1>2, <1>6
    <2> HIDE DEF den
    <2>3. TotalOf(weighted(m)) * den >= TotalOf(weighted(n)) * den
        BY <1>4, <2>1
    <2> QED
        BY <2>2, <2>3 DEF AtLeast
<1> QED
    BY <1>5, <1>6

(* Whatever the scores, the weights and the reranker's answers are, no     *)
(* candidate's score is below that of one that has nothing over it.        *)
THEOREM DominatingComesFirst == ScoringSpec => []EvidenceCounts
<1>1. ScoringInv => EvidenceCounts
    BY DominatedComesLater DEF ScoringInv, EvidenceCounts
<1>2. ScoringSpec => []ScoringInv
    BY ScoringInvInit, ScoringInvStep, PTL DEF ScoringSpec
<1> QED
    BY <1>1, <1>2, PTL
=============================================================================
