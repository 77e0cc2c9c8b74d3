-------------------------- MODULE Memories_proofs --------------------------
(***************************************************************************)
(* Proofs about the memory records, for any clients, ids, scopes, payloads *)
(* and patches and any bound on the versions.                              *)
(***************************************************************************)
EXTENDS Memories, TLAPS

-----------------------------------------------------------------------------
(* What the operations do to one record.                                   *)

LEMMA NumberedRecord ==
    ASSUME NEW r \in Record
    PROVE  /\ Numbered(r) \in Record
           /\ Numbered(r).status = r.status
           /\ Numbered(r).supersededBy = r.supersededBy
           /\ Numbered(r).version = r.version + 1
BY DEF Numbered, Record

LEMMA ChangedRecord ==
    ASSUME NEW r \in Record, NEW op \in SingleOps \cup ScopeOps
    PROVE  /\ Changed(op, r) \in Record
           /\ Changed(op, r).supersededBy = r.supersededBy
           /\ Changed(op, r).version = r.version
           /\ Changed(op, r).status = "superseded" => r.status = "superseded"
           /\ r.status \in Erased /\ r.status \notin Blocked(op)
                => Changed(op, r).status \in Erased
BY DEF Changed, Blocked, Record, SingleOps, ScopeOps, PairOps, Statuses, Erased

LEMMA PatchedRecord ==
    ASSUME NEW r \in Record, NEW p \in Patches
    PROVE  /\ Patched(r, p) \in Record
           /\ Patched(r, p).supersededBy = r.supersededBy
           /\ Patched(r, p).version = r.version
           /\ Patched(r, p).status = "superseded" => r.status = "superseded"
           /\ p = Empty => Patched(r, p).status = r.status
<1>1. /\ DOMAIN p \subseteq PatchFields
      /\ "status" \in DOMAIN p => p["status"] \in Statuses \ {"superseded"}
      /\ "retrieval" \in DOMAIN p => p["retrieval"] \in BOOLEAN
      /\ "due" \in DOMAIN p => p["due"] \in BOOLEAN
    BY MemoriesAssumption
<1>2. /\ DOMAIN r = {"status", "retrieval", "due", "supersededBy", "version"}
      /\ r.status \in Statuses /\ r.retrieval \in BOOLEAN /\ r.due \in BOOLEAN
      /\ r.supersededBy \in Ids \cup {Nobody} /\ r.version \in Nat
    BY DEF Record
<1> DEFINE q == Patched(r, p)
<1>3. /\ DOMAIN q = {"status", "retrieval", "due", "supersededBy", "version"}
      /\ q["status"] = IF "status" \in DOMAIN p THEN p["status"] ELSE r["status"]
      /\ q["retrieval"] =
           IF "retrieval" \in DOMAIN p THEN p["retrieval"] ELSE r["retrieval"]
      /\ q["due"] = IF "due" \in DOMAIN p THEN p["due"] ELSE r["due"]
      /\ q["supersededBy"] = r["supersededBy"] /\ q["version"] = r["version"]
    BY <1>1, <1>2 DEF Patched, PatchFields
<1>4. q \in Record
    BY <1>1, <1>2, <1>3 DEF Patched, Record
<1>5. p = Empty => "status" \notin DOMAIN p
    BY DEF Empty
<1> QED
    BY <1>1, <1>2, <1>3, <1>4, <1>5

LEMMA FirstRecord ==
    ASSUME NEW r \in Record, NEW op \in PairOps, NEW b \in Ids
    PROVE  /\ ChangedFirst(op, r, b) \in Record
           /\ ChangedFirst(op, r, b).version = r.version
           /\ ChangedFirst(op, r, b).status = "superseded"
                => op = "supersede" /\ ChangedFirst(op, r, b).supersededBy = b
BY DEF ChangedFirst, Record, PairOps, Statuses

LEMMA SecondRecord ==
    ASSUME NEW r \in Record, NEW op \in PairOps
    PROVE  /\ ChangedSecond(op, r) \in Record
           /\ ChangedSecond(op, r).version = r.version
           /\ ChangedSecond(op, r).status # "superseded"
BY DEF ChangedSecond, Record, PairOps, Statuses

LEMMA MergedRecord ==
    ASSUME NEW old \in Record, NEW r \in Payloads
    PROVE  LET new == [r EXCEPT !.version = MergedVersion(old, r)]
           IN  /\ new \in Record
               /\ new.status # "superseded"
               /\ new.version > old.version
<1>1. r \in Record /\ r.status # "superseded"
    BY MemoriesAssumption
<1>2. MergedVersion(old, r) \in Nat /\ MergedVersion(old, r) > old.version
    BY <1>1 DEF MergedVersion, Record
<1> QED
    BY <1>1, <1>2 DEF Record

-----------------------------------------------------------------------------
(* The types, in the form the induction needs: what every job looks like.  *)

Values == Record \cup {Gone}

JobSet == [pair:  {Empty} \cup (PairOps \X Ids \X Ids),
           write: UNION {[D -> Values] : D \in SUBSET Ids},
           edges: SUBSET (Ids \X Ids),
           late:  SUBSET Ids]

WellFormed(j) ==
    /\ j.late \subseteq DOMAIN j.write
    /\ \A e \in j.edges : e[1] # e[2] /\ {e[1], e[2]} = DOMAIN j.write
    /\ j.pair # Empty =>
         /\ j.pair \in PairOps \X Ids \X Ids
         /\ j.pair[2] # j.pair[3]
         /\ DOMAIN j.write = {j.pair[2]}
         /\ j.edges = {} 

Types ==
    /\ store \in [Ids -> Slot]
    /\ edges \subseteq {e \in Ids \X Ids : e[1] # e[2]}
    /\ \A e \in edges : Present(e[1]) /\ Present(e[2])
    /\ forgotten \in SUBSET Ids
    /\ stale \in SUBSET Ids
    /\ deleted \in SUBSET Ids
    /\ job \in [Clients -> JobSet]
    /\ \A c \in Clients :
         /\ WellFormed(job[c])
         /\ \A m \in DOMAIN job[c].write : store[m] # Unused

LEMMA WriteDomain ==
    ASSUME NEW j \in JobSet
    PROVE  /\ DOMAIN j.write \subseteq Ids
           /\ \A m \in DOMAIN j.write : j.write[m] \in Values
           /\ j.write \in [DOMAIN j.write -> Values]
BY DEF JobSet

LEMMA TypesImply == Types => TypeOK
BY WriteDomain DEF Types, TypeOK, WellFormed, Values

LEMMA NoJobTyped == NoJob \in JobSet /\ WellFormed(NoJob)
BY DEF NoJob, Prepared, JobSet, WellFormed, Empty

LEMMA PresentRecord ==
    ASSUME Types, NEW m \in Ids, Present(m)
    PROVE  store[m] \in Record
BY DEF Types, Slot, Present

LEMMA PreparedTyped ==
    ASSUME NEW ids \in SUBSET Ids, NEW w \in [ids -> Values],
           NEW pair \in {Empty} \cup (PairOps \X Ids \X Ids),
           pair # Empty => pair[2] # pair[3] /\ ids = {pair[2]}
    PROVE  Prepared(pair, w) \in JobSet /\ WellFormed(Prepared(pair, w))
BY DEF Prepared, JobSet, WellFormed, Empty

-----------------------------------------------------------------------------
(* What the actions that begin an operation have in common: the value w[m] *)
(* that will be written under m is the next version of what was read, is   *)
(* erased when that was, and is superseded only if that was or by `pair`.  *)
GoodWrite(m, pair, v) ==
    \/ v = Gone
    \/ /\ v \in Record
       /\ v.version = store[m].version + 1
       /\ m \in forgotten' /\ store[m].status \in Erased => v.status \in Erased
       /\ v.status = "superseded" =>
            \/ /\ store[m].status = "superseded"
               /\ v.supersededBy = store[m].supersededBy
            \/ /\ pair # Empty /\ pair[1] = "supersede" /\ pair[2] = m
               /\ v.supersededBy = pair[3]

Starts(c, ids, pair, w) ==
    /\ ids \in SUBSET Ids
    /\ \A m \in ids : Present(m)
    /\ pair \in {Empty} \cup (PairOps \X Ids \X Ids)
    /\ pair # Empty => pair[2] # pair[3] /\ ids = {pair[2]}
    /\ w \in [ids -> Values]
    /\ \A m \in ids : GoodWrite(m, pair, w[m])
    /\ job' = [job EXCEPT ![c] = Prepared(pair, w)]
    /\ forgotten' \subseteq forgotten
    /\ UNCHANGED <<store, edges, stale, deleted>>

LEMMA TransitionStarts ==
    ASSUME Types, NEW c \in Clients, NEW op \in SingleOps, NEW m \in Ids,
           Transition(c, op, m)
    PROVE  \E ids, pair, w : Starts(c, ids, pair, w)
<1> DEFINE w == [i \in {m} |-> Numbered(Changed(op, store[i]))]
<1>1. Present(m) /\ store[m] \in Record /\ store[m].status \notin Blocked(op)
    BY PresentRecord DEF Transition
<1>2. job' = [job EXCEPT ![c] = Prepared(Empty, w)]
    BY DEF Transition, Prepare
<1>3. /\ w[m] \in Record /\ w[m].version = store[m].version + 1
      /\ store[m].status \in Erased => w[m].status \in Erased
      /\ w[m].status = "superseded" => /\ store[m].status = "superseded"
                                       /\ w[m].supersededBy = store[m].supersededBy
    <2> DEFINE r == Changed(op, store[m])
    <2>1. /\ r \in Record /\ r.version = store[m].version
          /\ r.supersededBy = store[m].supersededBy
          /\ r.status = "superseded" => store[m].status = "superseded"
          /\ store[m].status \in Erased => r.status \in Erased
        BY <1>1, ChangedRecord
    <2>2. w[m] = Numbered(r)
        OBVIOUS
    <2> HIDE DEF w, r
    <2> QED
        BY <2>1, <2>2, NumberedRecord
<1>4. w \in [{m} -> Values]
    <2>1. Numbered(Changed(op, store[m])) \in Values
        BY <1>3 DEF Values
    <2>2. \A i \in {m} : Numbered(Changed(op, store[i])) \in Values
        BY <2>1
    <2> QED
        BY <2>2
<1>5. GoodWrite(m, Empty, w[m])
    BY <1>3 DEF GoodWrite
<1>6. UNCHANGED <<store, edges, forgotten, stale, deleted>>
    BY DEF Transition
<1> HIDE DEF w
<1>7. Starts(c, {m}, Empty, w)
    BY <1>1, <1>2, <1>4, <1>5, <1>6 DEF Starts
<1> QED
    BY <1>7

LEMMA UpdateStarts ==
    ASSUME Types, NEW c \in Clients, NEW m \in Ids, NEW patch \in Patches,
           Update(c, m, patch)
    PROVE  \E ids, pair, w : Starts(c, ids, pair, w)
<1> DEFINE w == [i \in {m} |-> Numbered(Patched(store[i], patch))]
<1>1. Present(m) /\ store[m] \in Record
    BY PresentRecord DEF Update
<1>2. job' = [job EXCEPT ![c] = Prepared(Empty, w)]
    BY DEF Update, Prepare
<1>3. /\ w[m] \in Record /\ w[m].version = store[m].version + 1
      /\ patch = Empty => w[m].status = store[m].status
      /\ w[m].status = "superseded" => /\ store[m].status = "superseded"
                                       /\ w[m].supersededBy = store[m].supersededBy
    <2> DEFINE r == Patched(store[m], patch)
    <2>1. /\ r \in Record /\ r.version = store[m].version
          /\ r.supersededBy = store[m].supersededBy
          /\ r.status = "superseded" => store[m].status = "superseded"
          /\ patch = Empty => r.status = store[m].status
        BY <1>1, PatchedRecord
    <2>2. w[m] = Numbered(r)
        OBVIOUS
    <2> HIDE DEF w, r
    <2> QED
        BY <2>1, <2>2, NumberedRecord
<1>4. w \in [{m} -> Values]
    <2>1. Numbered(Patched(store[m], patch)) \in Values
        BY <1>3 DEF Values
    <2>2. \A i \in {m} : Numbered(Patched(store[i], patch)) \in Values
        BY <2>1
    <2> QED
        BY <2>2
<1>5. /\ forgotten' = IF patch = Empty THEN forgotten ELSE forgotten \ {m}
      /\ UNCHANGED <<store, edges, stale, deleted>>
    BY DEF Update
<1> HIDE DEF w
<1>6. GoodWrite(m, Empty, w[m])
    BY <1>3, <1>5 DEF GoodWrite
<1>7. Starts(c, {m}, Empty, w)
    BY <1>1, <1>2, <1>4, <1>5, <1>6 DEF Starts
<1> QED
    BY <1>7

LEMMA ReadFirstStarts ==
    ASSUME Types, NEW c \in Clients, NEW op \in PairOps,
           NEW a \in Ids, NEW b \in Ids, ReadFirst(c, op, a, b)
    PROVE  \E ids, pair, w : Starts(c, ids, pair, w)
<1> DEFINE w == [i \in {a} |-> Numbered(ChangedFirst(op, store[i], b))]
           pair == <<op, a, b>>
<1>1. /\ a # b /\ Present(a) /\ store[a] \in Record
      /\ store[a].status \notin Blocked(op)
    BY PresentRecord DEF ReadFirst
<1>2. job' = [job EXCEPT ![c] = Prepared(pair, w)]
    BY DEF ReadFirst, Prepare
<1>3. store[a].status \notin Erased
    BY <1>1 DEF Blocked, PairOps, SingleOps
<1>4. /\ w[a] \in Record /\ w[a].version = store[a].version + 1
      /\ w[a].status = "superseded" => op = "supersede" /\ w[a].supersededBy = b
    <2> DEFINE r == ChangedFirst(op, store[a], b)
    <2>1. /\ r \in Record /\ r.version = store[a].version
          /\ r.status = "superseded" => op = "supersede" /\ r.supersededBy = b
        BY <1>1, FirstRecord
    <2>2. w[a] = Numbered(r)
        OBVIOUS
    <2> HIDE DEF w, r
    <2> QED
        BY <2>1, <2>2, NumberedRecord
<1>5. w \in [{a} -> Values]
    <2>1. Numbered(ChangedFirst(op, store[a], b)) \in Values
        BY <1>4 DEF Values
    <2>2. \A i \in {a} : Numbered(ChangedFirst(op, store[i], b)) \in Values
        BY <2>1
    <2> QED
        BY <2>2
<1>6. /\ pair \in PairOps \X Ids \X Ids /\ pair # Empty
      /\ pair[1] = op /\ pair[2] = a /\ pair[3] = b
    BY DEF Empty
<1> HIDE DEF w, pair
<1>7. GoodWrite(a, pair, w[a])
    BY <1>3, <1>4, <1>6 DEF GoodWrite
<1>8. UNCHANGED <<store, edges, forgotten, stale, deleted>>
    BY DEF ReadFirst
<1>9. Starts(c, {a}, pair, w)
    BY <1>1, <1>2, <1>5, <1>6, <1>7, <1>8 DEF Starts
<1> QED
    BY <1>9

LEMMA OverScopeStarts ==
    ASSUME Types, NEW c \in Clients, NEW op \in ScopeOps, NEW scope \in Scopes,
           OverScope(c, op, scope)
    PROVE  \E ids, pair, w : Starts(c, ids, pair, w)
<1>1. PICK ids \in SUBSET Selected(op, scope) :
         job' = [job EXCEPT ![c] =
                  Prepared(Empty,
                           [m \in ids |-> IF op = "hard_delete" THEN Gone
                                          ELSE Numbered(Changed(op, store[m]))])]
    BY DEF OverScope, Prepare
<1> DEFINE w == [m \in ids |-> IF op = "hard_delete" THEN Gone
                               ELSE Numbered(Changed(op, store[m]))]
<1>2. ids \in SUBSET Ids /\ \A m \in ids : Present(m) /\ store[m] \in Record
    BY PresentRecord, MemoriesAssumption DEF Selected
<1>3. ASSUME NEW m \in ids, op # "hard_delete"
      PROVE  /\ w[m] \in Record /\ w[m].version = store[m].version + 1
             /\ store[m].status \in Erased => w[m].status \in Erased
             /\ w[m].status = "superseded" =>
                  /\ store[m].status = "superseded"
                  /\ w[m].supersededBy = store[m].supersededBy
    <2> DEFINE r == Changed(op, store[m])
    <2>1. /\ r \in Record /\ r.version = store[m].version
          /\ r.supersededBy = store[m].supersededBy
          /\ r.status = "superseded" => store[m].status = "superseded"
          /\ store[m].status \in Erased => r.status \in Erased
        <3>1. op \notin SingleOps \cup PairOps /\ op # "promote"
            BY DEF ScopeOps, SingleOps, PairOps
        <3>2. Blocked(op) = {}
            BY <3>1 DEF Blocked
        <3> QED
            BY <1>2, <3>2, ChangedRecord
    <2>2. w[m] = Numbered(r)
        BY <1>3
    <2> HIDE DEF w, r
    <2> QED
        BY <2>1, <2>2, NumberedRecord
<1>4. ASSUME NEW m \in ids
      PROVE  w[m] \in Values /\ GoodWrite(m, Empty, w[m])
    <2>1. CASE op = "hard_delete"
        BY <2>1 DEF Values, GoodWrite
    <2>2. CASE op # "hard_delete"
        <3> HIDE DEF w
        <3> QED
            BY <1>3, <2>2 DEF Values, GoodWrite
    <2> QED
        BY <2>1, <2>2
<1>5. w \in [ids -> Values]
    BY <1>4
<1>6. job' = [job EXCEPT ![c] = Prepared(Empty, w)]
    BY <1>1
<1>7. UNCHANGED <<store, edges, forgotten, stale, deleted>>
    BY DEF OverScope
<1> HIDE DEF w
<1>8. Starts(c, ids, Empty, w)
    BY <1>2, <1>4, <1>5, <1>6, <1>7 DEF Starts
<1> QED
    BY <1>8

(* The second half of a supersede or contradict: v is the new record for b. *)
Joins(c, v) ==
    LET j == job[c]
        a == j.pair[2]
        b == j.pair[3]
    IN  /\ j.pair # Empty
        /\ Present(b) /\ store[b].status \notin Erased
        /\ v \in Record /\ v.version = store[b].version + 1
        /\ v.status # "superseded"
        /\ job' = [job EXCEPT ![c] =
             [j EXCEPT !.pair = Empty,
                       !.edges = NewEdges(j.pair[1], a, b),
                       !.write = [m \in {a, b} |-> IF m = a THEN j.write[a] ELSE v]]]
        /\ UNCHANGED <<store, edges, forgotten, stale, deleted>>

LEMMA ReadSecondJoins ==
    ASSUME Types, NEW c \in Clients, ReadSecond(c)
    PROVE  Rollback(c) \/ \E v : Joins(c, v)
<1> DEFINE j == job[c]
           op == j.pair[1]
           a == j.pair[2]
           b == j.pair[3]
           ok == Rewritable(b) /\ store[b].status \notin Blocked(op)
           v == Numbered(ChangedSecond(op, store[b]))
<1>1. j.pair # Empty /\ op \in PairOps /\ a \in Ids /\ b \in Ids
    BY DEF ReadSecond, Types, WellFormed
<1>2. CASE ~ok
    BY <1>2 DEF ReadSecond, Rollback
<1>3. CASE ok
    <2>1. Present(b) /\ store[b] \in Record /\ store[b].status \notin Erased
        BY <1>1, <1>3, PresentRecord DEF Rewritable, Blocked, PairOps, SingleOps
    <2>2. v \in Record /\ v.version = store[b].version + 1 /\ v.status # "superseded"
        <3> DEFINE r == ChangedSecond(op, store[b])
        <3>1. r \in Record /\ r.version = store[b].version /\ r.status # "superseded"
            BY <1>1, <2>1, SecondRecord
        <3>2. v = Numbered(r)
            OBVIOUS
        <3> HIDE DEF r, v, b
        <3> QED
            BY <3>1, <3>2, NumberedRecord
    <2>3. /\ job' = [job EXCEPT ![c] =
               [j EXCEPT !.pair = Empty,
                         !.edges = NewEdges(op, a, b),
                         !.write = [m \in {a, b} |->
                                      IF m = a THEN j.write[a] ELSE v]]]
          /\ UNCHANGED <<store, edges, forgotten, stale, deleted>>
        BY <1>3 DEF ReadSecond
    <2> HIDE DEF v
    <2>4. Joins(c, v)
        BY <1>1, <2>1, <2>2, <2>3 DEF Joins
    <2> QED
        BY <2>4
<1> QED
    BY <1>2, <1>3

(* Every step is one of seven kinds. *)
LEMMA Steps ==
    ASSUME Types, [Next]_vars
    PROVE  \/ \E c \in Clients :
                \/ \E ids, pair, w : Starts(c, ids, pair, w)
                \/ \E v : Joins(c, v)
                \/ job[c].pair = Empty /\ Apply(c)
                \/ Rollback(c)
           \/ \E m \in Ids, r \in Payloads : Add(m, r)
           \/ \E ids \in SUBSET Ids : \E batch \in [ids -> Payloads] :
                \E mode : Import(batch, mode)
           \/ UNCHANGED vars
<1>1. ASSUME NEW c \in Clients, NEW m \in Ids, NEW op \in SingleOps,
             Transition(c, op, m)
      PROVE  \E ids, pair, w : Starts(c, ids, pair, w)
    BY <1>1, TransitionStarts
<1>2. ASSUME NEW c \in Clients, NEW m \in Ids, NEW patch \in Patches,
             Update(c, m, patch)
      PROVE  \E ids, pair, w : Starts(c, ids, pair, w)
    BY <1>2, UpdateStarts
<1>3. ASSUME NEW c \in Clients, NEW op \in PairOps, NEW a \in Ids, NEW b \in Ids,
             ReadFirst(c, op, a, b)
      PROVE  \E ids, pair, w : Starts(c, ids, pair, w)
    BY <1>3, ReadFirstStarts
<1>4. ASSUME NEW c \in Clients, NEW op \in ScopeOps, NEW scope \in Scopes,
             OverScope(c, op, scope)
      PROVE  \E ids, pair, w : Starts(c, ids, pair, w)
    BY <1>4, OverScopeStarts
<1>5. ASSUME NEW c \in Clients, ReadSecond(c)
      PROVE  Rollback(c) \/ \E v : Joins(c, v)
    BY <1>5, ReadSecondJoins
<1>6. ASSUME NEW c \in Clients, Commit(c)
      PROVE  (job[c].pair = Empty /\ Apply(c)) \/ Rollback(c)
    BY <1>6 DEF Commit
<1> QED
    BY <1>1, <1>2, <1>3, <1>4, <1>5, <1>6 DEF Next

-----------------------------------------------------------------------------
(* What a step does to the jobs.                                           *)

LEMMA StartedJob ==
    ASSUME Types, NEW c \in Clients, NEW ids, NEW pair, NEW w,
           Starts(c, ids, pair, w)
    PROVE  /\ job' \in [Clients -> JobSet]
           /\ WellFormed(job'[c])
           /\ job'[c].pair = pair /\ job'[c].write = w
           /\ job'[c].edges = {} /\ job'[c].late = {}
           /\ DOMAIN job'[c].write = ids
           /\ \A d \in Clients \ {c} : job'[d] = job[d]
<1>1. Prepared(pair, w) \in JobSet /\ WellFormed(Prepared(pair, w))
    BY PreparedTyped DEF Starts
<1>2. /\ Prepared(pair, w).pair = pair /\ Prepared(pair, w).write = w
      /\ Prepared(pair, w).edges = {} /\ Prepared(pair, w).late = {}
    BY DEF Prepared
<1>3. DOMAIN w = ids
    BY DEF Starts
<1>4. job' = [job EXCEPT ![c] = Prepared(pair, w)] /\ job \in [Clients -> JobSet]
    BY DEF Starts, Types
<1>5. job'[c] = Prepared(pair, w) /\ \A d \in Clients \ {c} : job'[d] = job[d]
    BY <1>4
<1> QED
    BY <1>1, <1>2, <1>3, <1>4, <1>5

LEMMA JoinedJob ==
    ASSUME Types, NEW c \in Clients, NEW v, Joins(c, v)
    PROVE  LET j == job[c]
               a == j.pair[2]
               b == j.pair[3]
           IN  /\ j.pair # Empty
               /\ a \in Ids /\ b \in Ids /\ a # b /\ DOMAIN j.write = {a}
               /\ job' \in [Clients -> JobSet]
               /\ WellFormed(job'[c])
               /\ job'[c].pair = Empty
               /\ job'[c].edges = NewEdges(j.pair[1], a, b)
               /\ job'[c].late = j.late
               /\ DOMAIN job'[c].write = {a, b}
               /\ job'[c].write[a] = j.write[a] /\ job'[c].write[b] = v
               /\ \A d \in Clients \ {c} : job'[d] = job[d]
<1> DEFINE j == job[c]
           a == j.pair[2]
           b == j.pair[3]
           w == [m \in {a, b} |-> IF m = a THEN j.write[a] ELSE v]
           es == NewEdges(j.pair[1], a, b)
           k == [j EXCEPT !.pair = Empty, !.edges = es, !.write = w]
<1>1. /\ j.pair # Empty /\ j \in JobSet /\ WellFormed(j)
      /\ a \in Ids /\ b \in Ids /\ a # b /\ DOMAIN j.write = {a}
      /\ v \in Values
    BY DEF Joins, Types, WellFormed, Values
<1>2. job' = [job EXCEPT ![c] = k] /\ job \in [Clients -> JobSet]
    BY DEF Joins, Types
<1>3. /\ DOMAIN w = {a, b} /\ w[a] = j.write[a] /\ w[b] = v
      /\ w \in [{a, b} -> Values]
    BY <1>1, WriteDomain
<1>4. es \subseteq {<<b, a>>} /\ es \in SUBSET (Ids \X Ids)
    BY <1>1 DEF NewEdges
<1> HIDE DEF a, b, w, es
<1>5. /\ k.pair = Empty /\ k.edges = es /\ k.write = w /\ k.late = j.late
      /\ k \in JobSet
    <2>1. w \in UNION {[D -> Values] : D \in SUBSET Ids}
        BY <1>1, <1>3
    <2> QED
        BY <1>1, <1>4, <2>1 DEF JobSet
<1>6. WellFormed(k)
    <2>1. j.late \subseteq {a, b}
        BY <1>1 DEF WellFormed
    <2>2. \A e \in es : e[1] # e[2] /\ {e[1], e[2]} = {a, b}
        BY <1>1, <1>4
    <2> HIDE DEF k
    <2> QED
        BY <1>3, <1>5, <2>1, <2>2 DEF WellFormed
<1>7. job'[c] = k /\ \A d \in Clients \ {c} : job'[d] = job[d]
    BY <1>2
<1>8. job' \in [Clients -> JobSet]
    BY <1>2, <1>5
<1> HIDE DEF k
<1>9. /\ j.pair # Empty /\ a \in Ids /\ b \in Ids /\ a # b
      /\ DOMAIN j.write = {a}
      /\ job' \in [Clients -> JobSet] /\ WellFormed(job'[c])
      /\ job'[c].pair = Empty /\ job'[c].edges = es /\ job'[c].late = j.late
      /\ DOMAIN job'[c].write = {a, b}
      /\ job'[c].write[a] = j.write[a] /\ job'[c].write[b] = v
      /\ \A d \in Clients \ {c} : job'[d] = job[d]
    BY <1>1, <1>3, <1>5, <1>6, <1>7, <1>8
<1> QED
    BY <1>9 DEF a, b, es

(* Another client's commit, or an import, only adds to `late`. *)
SameBut(j, k, X) ==
    /\ k \in JobSet
    /\ k.pair = j.pair /\ k.write = j.write /\ k.edges = j.edges
    /\ k.late = j.late \cup X

LEMMA MarkedJob ==
    ASSUME NEW j \in JobSet, WellFormed(j), NEW ids
    PROVE  LET X == ids \cap DOMAIN j.write
               k == [j EXCEPT !.late = @ \cup X]
           IN  SameBut(j, k, X) /\ WellFormed(k)
<1> DEFINE X == ids \cap DOMAIN j.write
           k == [j EXCEPT !.late = @ \cup X]
<1>1. X \subseteq DOMAIN j.write /\ X \in SUBSET Ids
    BY WriteDomain
<1> HIDE DEF X
<1>2. SameBut(j, k, X)
    BY <1>1 DEF SameBut, JobSet
<1> HIDE DEF k
<1>3. WellFormed(k)
    BY <1>1, <1>2 DEF SameBut, WellFormed
<1> QED
    BY <1>2, <1>3 DEF X, k

LEMMA RolledBackJob ==
    ASSUME Types, NEW c \in Clients, Rollback(c)
    PROVE  /\ job' \in [Clients -> JobSet]
           /\ job'[c] = NoJob /\ \A d \in Clients \ {c} : job'[d] = job[d]
<1>1. job' = [job EXCEPT ![c] = NoJob] /\ job \in [Clients -> JobSet]
    BY DEF Rollback, Types
<1> QED
    BY <1>1, NoJobTyped

LEMMA AppliedJob ==
    ASSUME Types, NEW c \in Clients, Apply(c)
    PROVE  /\ job' \in [Clients -> JobSet]
           /\ job'[c] = NoJob
           /\ \A d \in Clients \ {c} :
                /\ SameBut(job[d], job'[d],
                           DOMAIN job[c].write \cap DOMAIN job[d].write)
                /\ WellFormed(job'[d])
<1> DEFINE ids == DOMAIN job[c].write
<1>1. job' = MarkLate(c, ids)
    BY DEF Apply
<1>2. ASSUME NEW d \in Clients \ {c}
      PROVE  /\ SameBut(job[d], job'[d], ids \cap DOMAIN job[d].write)
             /\ WellFormed(job'[d])
    <2>1. job'[d] = [job[d] EXCEPT !.late = @ \cup (ids \cap DOMAIN job[d].write)]
        BY <1>1, <1>2 DEF MarkLate
    <2>2. job[d] \in JobSet /\ WellFormed(job[d])
        BY <1>2 DEF Types
    <2> HIDE DEF ids
    <2> QED
        BY <2>1, <2>2, MarkedJob
<1>3. job'[c] = NoJob
    BY <1>1 DEF MarkLate
<1>4. \A d \in Clients : job'[d] \in JobSet
    BY <1>2, <1>3, NoJobTyped DEF SameBut
<1>5. job' \in [Clients -> JobSet]
    <2>1. job' = [d \in Clients |-> job'[d]]
        BY <1>1 DEF MarkLate
    <2> QED
        BY <1>4, <2>1
<1> QED
    BY <1>2, <1>3, <1>5

LEMMA ImportedJob ==
    ASSUME Types, NEW batch, NEW mode, Import(batch, mode)
    PROVE  /\ job' \in [Clients -> JobSet]
           /\ \A d \in Clients :
                /\ SameBut(job[d], job'[d],
                           Written(batch, mode) \cap DOMAIN job[d].write)
                /\ WellFormed(job'[d])
<1> DEFINE ids == Written(batch, mode)
<1>1. job' = [d \in Clients |->
         [job[d] EXCEPT !.late = @ \cup (ids \cap DOMAIN job[d].write)]]
    BY DEF Import
<1> HIDE DEF ids
<1>2. ASSUME NEW d \in Clients
      PROVE  /\ SameBut(job[d], job'[d], ids \cap DOMAIN job[d].write)
             /\ WellFormed(job'[d])
    <2>1. job'[d] = [job[d] EXCEPT !.late = @ \cup (ids \cap DOMAIN job[d].write)]
        BY <1>1
    <2>2. job[d] \in JobSet /\ WellFormed(job[d])
        BY DEF Types
    <2> QED
        BY <2>1, <2>2, MarkedJob
<1>3. job' = [d \in Clients |-> job'[d]]
    BY <1>1
<1>4. \A d \in Clients : job'[d] \in JobSet
    BY <1>2 DEF SameBut
<1> QED
    BY <1>2, <1>3, <1>4 DEF ids

-----------------------------------------------------------------------------
(* What a commit does to the records and the edges.                        *)

LEMMA AppliedStore ==
    ASSUME Types, NEW c \in Clients, Apply(c)
    PROVE  LET ids == DOMAIN job[c].write
           IN  /\ ids \subseteq Ids
               /\ store' \in [Ids -> Slot]
               /\ \A m \in ids : Present(m) /\ store'[m] = job[c].write[m]
               /\ \A m \in ids : store'[m] \in Values
               /\ \A m \in Ids \ ids : store'[m] = store[m]
               /\ edges' = {e \in edges \cup job[c].edges :
                              store'[e[1]] # Gone /\ store'[e[2]] # Gone}
               /\ deleted' = deleted \cup {m \in ids : store'[m] = Gone}
<1> DEFINE ids == DOMAIN job[c].write
<1>1. ids \subseteq Ids /\ \A m \in ids : job[c].write[m] \in Values
    BY WriteDomain DEF Types
<1>2. /\ \A m \in ids : Present(m)
      /\ store' = [m \in Ids |-> IF m \in ids THEN job[c].write[m] ELSE store[m]]
      /\ edges' = Attached(edges \cup job[c].edges, store')
      /\ deleted' = deleted \cup {m \in ids : job[c].write[m] = Gone}
    BY DEF Apply, Lookup
<1> HIDE DEF ids
<1>3. /\ \A m \in ids : store'[m] = job[c].write[m] /\ store'[m] \in Values
      /\ \A m \in Ids \ ids : store'[m] = store[m]
    BY <1>1, <1>2
<1>4. store' \in [Ids -> Slot]
    BY <1>1, <1>2 DEF Types, Values, Slot
<1>5. edges' = {e \in edges \cup job[c].edges :
                  store'[e[1]] # Gone /\ store'[e[2]] # Gone}
    BY <1>2 DEF Attached
<1>6. deleted' = deleted \cup {m \in ids : store'[m] = Gone}
    BY <1>2, <1>3
<1> QED
    BY <1>1, <1>2, <1>3, <1>4, <1>5, <1>6 DEF ids

LEMMA JobEdges ==
    ASSUME Types, NEW c \in Clients, NEW e \in job[c].edges
    PROVE  /\ e \in Ids \X Ids /\ e[1] # e[2]
           /\ e[1] \in DOMAIN job[c].write /\ e[2] \in DOMAIN job[c].write
BY DEF Types, WellFormed, JobSet

LEMMA ImportedStore ==
    ASSUME Types, NEW ids \in SUBSET Ids, NEW batch \in [ids -> Payloads],
           NEW mode, Import(batch, mode)
    PROVE  LET new == Written(batch, mode)
           IN  /\ new \subseteq Ids
               /\ store' \in [Ids -> Slot]
               /\ \A m \in new :
                    /\ store'[m] \in Record /\ store'[m].status # "superseded"
                    /\ ~Present(m) => store'[m] \in Payloads
                    /\ Present(m) => store'[m].version > store[m].version
               /\ \A m \in Ids \ new : store'[m] = store[m]
<1> DEFINE new == Written(batch, mode)
<1>1. new \subseteq ids
    BY DEF Written
<1>2. store' = [m \in Ids |->
             IF m \notin new THEN store[m]
             ELSE IF ~Present(m) THEN batch[m]
             ELSE [batch[m] EXCEPT !.version = MergedVersion(store[m], batch[m])]]
    BY DEF Import
<1> HIDE DEF new
<1>3. ASSUME NEW m \in new
      PROVE  /\ store'[m] \in Record /\ store'[m].status # "superseded"
             /\ ~Present(m) => store'[m] \in Payloads
             /\ Present(m) => store'[m].version > store[m].version
    <2>1. m \in Ids /\ batch[m] \in Payloads
        BY <1>1
    <2>2. CASE ~Present(m)
        BY <1>2, <2>1, <2>2, MemoriesAssumption
    <2>3. CASE Present(m)
        <3> DEFINE r == [batch[m] EXCEPT !.version = MergedVersion(store[m], batch[m])]
        <3>1. r \in Record /\ r.status # "superseded" /\ r.version > store[m].version
            BY <2>1, <2>3, PresentRecord, MergedRecord
        <3>2. store'[m] = r
            BY <1>2, <2>1, <2>3
        <3> HIDE DEF r
        <3> QED
            BY <2>3, <3>1, <3>2
    <2> QED
        BY <2>2, <2>3
<1>4. \A m \in Ids \ new : store'[m] = store[m]
    BY <1>2
<1>5. store' \in [Ids -> Slot]
    <2>1. \A m \in Ids : store'[m] \in Slot
        BY <1>3, <1>4 DEF Types, Slot
    <2>2. store' = [m \in Ids |-> store'[m]]
        BY <1>2
    <2> QED
        BY <2>1, <2>2
<1> QED
    BY <1>1, <1>3, <1>4, <1>5 DEF new

LEMMA AddedStore ==
    ASSUME Types, NEW m \in Ids, NEW r \in Payloads, Add(m, r)
    PROVE  /\ store' \in [Ids -> Slot]
           /\ store[m] = Unused
           /\ store'[m] \in Record /\ store'[m].status # "superseded"
           /\ \A i \in Ids \ {m} : store'[i] = store[i]
<1>1. r \in Record /\ r.status # "superseded"
    BY MemoriesAssumption
<1> QED
    BY <1>1 DEF Add, Types, Slot

LEMMA ValuesPresent ==
    ASSUME NEW v \in Values
    PROVE  v # Unused /\ (v # Gone => v \in Record)
BY MemoriesAssumption DEF Values

-----------------------------------------------------------------------------
(* The types are inductive.                                                *)

LEMMA TypesInit == Init => Types
<1> SUFFICES ASSUME Init PROVE Types
    OBVIOUS
<1>1. /\ store \in [Ids -> Slot] /\ edges = {} /\ forgotten = {}
      /\ stale = {} /\ deleted = {}
    BY DEF Init, Slot
<1>2. job \in [Clients -> JobSet] /\ \A c \in Clients : job[c] = NoJob
    BY NoJobTyped DEF Init
<1>3. DOMAIN NoJob.write = {}
    BY DEF NoJob, Prepared, Empty
<1> QED
    BY <1>1, <1>2, <1>3, NoJobTyped DEF Types

LEMMA TypesStep == Types /\ [Next]_vars => Types'
<1> SUFFICES ASSUME Types, [Next]_vars PROVE Types'
    OBVIOUS
<1>0. /\ DOMAIN NoJob.write = {} /\ WellFormed(NoJob)
    BY NoJobTyped DEF NoJob, Prepared, Empty
<1>1. ASSUME NEW c \in Clients, NEW ids, NEW pair, NEW w, Starts(c, ids, pair, w)
      PROVE  Types'
    <2>1. /\ UNCHANGED <<store, edges, stale, deleted>>
          /\ forgotten' \subseteq forgotten /\ \A m \in ids : Present(m)
        BY <1>1 DEF Starts
    <2>2. /\ job' \in [Clients -> JobSet]
          /\ WellFormed(job'[c]) /\ DOMAIN job'[c].write = ids
          /\ \A d \in Clients \ {c} : job'[d] = job[d]
        BY <1>1, StartedJob
    <2>3. \A d \in Clients : /\ WellFormed(job'[d])
                             /\ \A m \in DOMAIN job'[d].write : store'[m] # Unused
        BY <2>1, <2>2 DEF Types, Present
    <2>4. \A e \in edges' : Present(e[1])' /\ Present(e[2])'
        BY <2>1 DEF Types, Present
    <2> QED
        BY <2>1, <2>2, <2>3, <2>4 DEF Types, WellFormed
<1>2. ASSUME NEW c \in Clients, NEW v, Joins(c, v)
      PROVE  Types'
    <2> DEFINE a == job[c].pair[2]
               b == job[c].pair[3]
    <2>1. UNCHANGED <<store, edges, forgotten, stale, deleted>> /\ Present(b)
        BY <1>2 DEF Joins
    <2>2. /\ job' \in [Clients -> JobSet]
          /\ WellFormed(job'[c]) /\ DOMAIN job'[c].write = {a, b}
          /\ DOMAIN job[c].write = {a}
          /\ \A d \in Clients \ {c} : job'[d] = job[d]
        BY <1>2, JoinedJob
    <2> HIDE DEF a, b
    <2>3. \A d \in Clients : /\ WellFormed(job'[d])
                             /\ \A m \in DOMAIN job'[d].write : store'[m] # Unused
        BY <2>1, <2>2 DEF Types, Present
    <2>4. \A e \in edges' : Present(e[1])' /\ Present(e[2])'
        BY <2>1 DEF Types, Present
    <2> QED
        BY <2>1, <2>2, <2>3, <2>4 DEF Types, WellFormed
<1>3. ASSUME NEW c \in Clients, Apply(c)
      PROVE  Types'
    <2> DEFINE ids == DOMAIN job[c].write
    <2>1. /\ ids \subseteq Ids
          /\ store' \in [Ids -> Slot]
          /\ \A m \in ids : Present(m) /\ store'[m] \in Values
          /\ \A m \in Ids \ ids : store'[m] = store[m]
          /\ edges' = {e \in edges \cup job[c].edges :
                         store'[e[1]] # Gone /\ store'[e[2]] # Gone}
          /\ deleted' = deleted \cup {m \in ids : store'[m] = Gone}
        BY <1>3, AppliedStore
    <2>2. /\ job' \in [Clients -> JobSet]
          /\ job'[c] = NoJob
          /\ \A d \in Clients \ {c} :
               WellFormed(job'[d]) /\ job'[d].write = job[d].write
        BY <1>3, AppliedJob DEF SameBut
    <2>3. \A m \in Ids : store[m] # Unused => store'[m] # Unused
        BY <2>1, ValuesPresent
    <2>4. \A d \in Clients : /\ WellFormed(job'[d])
                             /\ \A m \in DOMAIN job'[d].write : store'[m] # Unused
        BY <1>0, <2>2, <2>3, WriteDomain DEF Types
    <2>5. \A e \in edges \cup job[c].edges :
             /\ e \in Ids \X Ids /\ e[1] # e[2]
             /\ store[e[1]] # Unused /\ store[e[2]] # Unused
        BY JobEdges DEF Types, Present
    <2>6. \A e \in edges' : Present(e[1])' /\ Present(e[2])'
        BY <2>1, <2>3, <2>5 DEF Present
    <2>7. edges' \subseteq {e \in Ids \X Ids : e[1] # e[2]}
        BY <2>1, <2>5
    <2>8. deleted' \in SUBSET Ids
        BY <2>1 DEF Types
    <2>9. forgotten' \in SUBSET Ids /\ stale' \in SUBSET Ids
        <3>1. forgotten' \subseteq forgotten \cup ids /\ stale' = stale \cup job[c].late
            BY <1>3 DEF Apply
        <3>2. job[c].late \subseteq ids
            BY DEF Types, WellFormed
        <3> QED
            BY <2>1, <3>1, <3>2 DEF Types
    <2> HIDE DEF ids
    <2> QED
        BY <2>1, <2>2, <2>4, <2>6, <2>7, <2>8, <2>9 DEF Types, WellFormed
<1>4. ASSUME NEW c \in Clients, Rollback(c)
      PROVE  Types'
    <2>1. UNCHANGED <<store, edges, forgotten, stale, deleted>>
        BY <1>4 DEF Rollback
    <2>2. /\ job' \in [Clients -> JobSet]
          /\ job'[c] = NoJob /\ \A d \in Clients \ {c} : job'[d] = job[d]
        BY <1>4, RolledBackJob
    <2>3. \A d \in Clients : /\ WellFormed(job'[d])
                             /\ \A m \in DOMAIN job'[d].write : store'[m] # Unused
        BY <1>0, <2>1, <2>2 DEF Types
    <2>4. \A e \in edges' : Present(e[1])' /\ Present(e[2])'
        BY <2>1 DEF Types, Present
    <2> QED
        BY <2>1, <2>2, <2>3, <2>4 DEF Types, WellFormed
<1>5. ASSUME NEW m \in Ids, NEW r \in Payloads, Add(m, r)
      PROVE  Types'
    <2>1. /\ store' \in [Ids -> Slot]
          /\ store'[m] \in Record
          /\ \A i \in Ids \ {m} : store'[i] = store[i]
        BY <1>5, AddedStore
    <2>2. UNCHANGED <<edges, job, forgotten, stale, deleted>>
        BY <1>5 DEF Add
    <2>3. store'[m] \notin {Unused, Gone}
        BY <2>1, MemoriesAssumption
    <2>4. \A d \in Clients : /\ WellFormed(job'[d])
                             /\ \A i \in DOMAIN job'[d].write : store'[i] # Unused
        BY <2>1, <2>2, <2>3, WriteDomain DEF Types
    <2>5. \A e \in edges' : Present(e[1])' /\ Present(e[2])'
        BY <2>1, <2>2, <2>3 DEF Types, Present
    <2> QED
        BY <2>1, <2>2, <2>4, <2>5 DEF Types, WellFormed
<1>6. ASSUME NEW ids \in SUBSET Ids, NEW batch \in [ids -> Payloads], NEW mode,
             Import(batch, mode)
      PROVE  Types'
    <2> DEFINE new == Written(batch, mode)
    <2>1. /\ new \subseteq Ids /\ store' \in [Ids -> Slot]
          /\ \A m \in new : store'[m] \in Record
          /\ \A m \in Ids \ new : store'[m] = store[m]
        BY <1>6, ImportedStore
    <2> HIDE DEF new
    <2>2. UNCHANGED <<edges, stale, deleted>> /\ forgotten' \subseteq forgotten
        BY <1>6 DEF Import
    <2>3. \A m \in new : store'[m] \notin {Unused, Gone}
        BY <2>1, MemoriesAssumption
    <2>4. /\ job' \in [Clients -> JobSet]
          /\ \A d \in Clients : WellFormed(job'[d]) /\ job'[d].write = job[d].write
        BY <1>6, ImportedJob DEF SameBut
    <2>5. \A d \in Clients : /\ WellFormed(job'[d])
                             /\ \A m \in DOMAIN job'[d].write : store'[m] # Unused
        BY <2>1, <2>3, <2>4, WriteDomain DEF Types
    <2>6. \A e \in edges' : Present(e[1])' /\ Present(e[2])'
        BY <2>1, <2>2, <2>3 DEF Types, Present
    <2> QED
        BY <2>1, <2>2, <2>4, <2>5, <2>6 DEF Types, WellFormed
<1>7. ASSUME UNCHANGED vars
      PROVE  Types'
    BY <1>7 DEF Types, vars, Present, WellFormed
<1> QED
    BY Steps, <1>1, <1>2, <1>3, <1>4, <1>5, <1>6, <1>7

(* The variables always hold values of their types, and a SUPERSEDES edge  *)
(* always joins two different records that exist.                          *)
THEOREM TypeCorrect == Spec => []TypeOK
<1>1. Spec => []Types
    BY TypesInit, TypesStep, PTL DEF Spec
<1> QED
    BY <1>1, TypesImply, PTL

-----------------------------------------------------------------------------
(* Erased memories stay hidden, and versions grow: both follow from what a *)
(* job is about to write under the records that nobody else has written    *)
(* since it read them.                                                     *)
Hidden ==
    /\ \A m \in forgotten : store[m] # Unused
    /\ \A m \in forgotten \ stale : Present(m) => store[m].status \in Erased
    /\ \A c \in Clients : \A m \in DOMAIN job[c].write \ job[c].late :
         m \in forgotten \ stale =>
           \/ job[c].write[m] = Gone
           \/ job[c].write[m].status \in Erased

Newer ==
    \A c \in Clients : \A m \in DOMAIN job[c].write \ job[c].late :
      Present(m) /\ job[c].write[m] # Gone =>
        job[c].write[m].version > store[m].version

LEMMA NumberSucc == ASSUME NEW n \in Nat PROVE n + 1 > n
OBVIOUS

LEMMA HiddenStep == Types /\ Hidden /\ [Next]_vars => Hidden'
<1> SUFFICES ASSUME Types, Hidden, [Next]_vars PROVE Hidden'
    OBVIOUS
<1>0. DOMAIN NoJob.write = {}
    BY DEF NoJob, Prepared, Empty
<1>1. ASSUME NEW c \in Clients, NEW ids, NEW pair, NEW w, Starts(c, ids, pair, w)
      PROVE  Hidden'
    <2>1. /\ UNCHANGED <<store, stale>> /\ forgotten' \subseteq forgotten
          /\ \A m \in ids : Present(m) /\ GoodWrite(m, pair, w[m])
        BY <1>1 DEF Starts
    <2>2. /\ DOMAIN job'[c].write = ids /\ job'[c].write = w
          /\ \A d \in Clients \ {c} : job'[d] = job[d]
        BY <1>1, StartedJob
    <2>3. ASSUME NEW m \in ids, m \in forgotten' \ stale'
          PROVE  w[m] = Gone \/ w[m].status \in Erased
        <3>1. store[m].status \in Erased
            BY <2>1, <2>3 DEF Hidden
        <3> QED
            BY <2>1, <2>3, <3>1 DEF GoodWrite
    <2>4. ASSUME NEW d \in Clients, NEW m \in DOMAIN job'[d].write \ job'[d].late,
                 m \in forgotten' \ stale'
          PROVE  job'[d].write[m] = Gone \/ job'[d].write[m].status \in Erased
        <3>1. CASE d = c
            BY <2>2, <2>3, <2>4, <3>1
        <3>2. CASE d # c
            BY <2>1, <2>2, <2>4, <3>2 DEF Hidden
        <3> QED
            BY <3>1, <3>2
    <2>5. \A m \in forgotten' : store'[m] # Unused
        BY <2>1 DEF Hidden
    <2>6. \A m \in forgotten' \ stale' : Present(m)' => store'[m].status \in Erased
        BY <2>1 DEF Hidden, Present
    <2> QED
        BY <2>4, <2>5, <2>6 DEF Hidden
<1>2. ASSUME NEW c \in Clients, NEW v, Joins(c, v)
      PROVE  Hidden'
    <2> DEFINE a == job[c].pair[2]
               b == job[c].pair[3]
    <2>1. /\ UNCHANGED <<store, forgotten, stale>>
          /\ Present(b) /\ store[b].status \notin Erased
        BY <1>2 DEF Joins
    <2>2. /\ DOMAIN job[c].write = {a} /\ DOMAIN job'[c].write = {a, b}
          /\ job'[c].write[a] = job[c].write[a] /\ job'[c].late = job[c].late
          /\ \A d \in Clients \ {c} : job'[d] = job[d]
        BY <1>2, JoinedJob
    <2> HIDE DEF a, b
    <2>3. b \notin forgotten \ stale
        BY <2>1 DEF Hidden
    <2>4. ASSUME NEW d \in Clients, NEW m \in DOMAIN job'[d].write \ job'[d].late,
                 m \in forgotten' \ stale'
          PROVE  job'[d].write[m] = Gone \/ job'[d].write[m].status \in Erased
        <3>1. CASE d = c
            <4>1. m = a /\ m \in DOMAIN job[c].write \ job[c].late
                BY <2>1, <2>2, <2>3, <2>4, <3>1
            <4> QED
                BY <2>1, <2>2, <2>4, <3>1, <4>1 DEF Hidden
        <3>2. CASE d # c
            BY <2>1, <2>2, <2>4, <3>2 DEF Hidden
        <3> QED
            BY <3>1, <3>2
    <2>5. \A m \in forgotten' : store'[m] # Unused
        BY <2>1 DEF Hidden
    <2>6. \A m \in forgotten' \ stale' : Present(m)' => store'[m].status \in Erased
        BY <2>1 DEF Hidden, Present
    <2> QED
        BY <2>4, <2>5, <2>6 DEF Hidden
<1>3. ASSUME NEW c \in Clients, Apply(c)
      PROVE  Hidden'
    <2> DEFINE ids == DOMAIN job[c].write
    <2>1. /\ ids \subseteq Ids
          /\ \A m \in ids : /\ Present(m) /\ store'[m] = job[c].write[m]
                            /\ store'[m] \in Values
          /\ \A m \in Ids \ ids : store'[m] = store[m]
        BY <1>3, AppliedStore
    <2>2. /\ job'[c] = NoJob
          /\ \A d \in Clients \ {c} :
               /\ job'[d].write = job[d].write
               /\ job'[d].late = job[d].late \cup (ids \cap DOMAIN job[d].write)
        BY <1>3, AppliedJob DEF SameBut
    <2>3. /\ forgotten' = forgotten \cup
               {m \in ids : job[c].write[m] # Gone /\ job[c].write[m].status \in Erased}
          /\ stale' = stale \cup job[c].late
        BY <1>3 DEF Apply
    <2>4. forgotten \subseteq Ids /\ \A d \in Clients : DOMAIN job[d].write \subseteq Ids
        BY WriteDomain DEF Types
    <2>5. ASSUME NEW m \in forgotten'
          PROVE  store'[m] # Unused
        <3>1. CASE m \in ids
            BY <2>1, <3>1, ValuesPresent
        <3>2. CASE m \notin ids
            BY <2>1, <2>3, <2>4, <2>5, <3>2 DEF Hidden
        <3> QED
            BY <3>1, <3>2
    <2>6. ASSUME NEW m \in forgotten' \ stale', Present(m)'
          PROVE  store'[m].status \in Erased
        <3>1. CASE m \in ids
            <4>1. m \notin job[c].late /\ m \notin stale
                BY <2>3, <2>6
            <4>2. job[c].write[m] = Gone \/ job[c].write[m].status \in Erased
                BY <2>3, <2>6, <3>1, <4>1 DEF Hidden
            <4> QED
                BY <2>1, <2>6, <3>1, <4>2 DEF Present
        <3>2. CASE m \notin ids
            BY <2>1, <2>3, <2>4, <2>6, <3>2 DEF Hidden, Present
        <3> QED
            BY <3>1, <3>2
    <2>7. ASSUME NEW d \in Clients, NEW m \in DOMAIN job'[d].write \ job'[d].late,
                 m \in forgotten' \ stale'
          PROVE  job'[d].write[m] = Gone \/ job'[d].write[m].status \in Erased
        <3>1. d # c
            BY <1>0, <2>2
        <3>2. /\ job'[d].write = job[d].write
              /\ m \in DOMAIN job[d].write \ job[d].late /\ m \notin ids
            BY <2>2, <3>1
        <3>3. m \in forgotten \ stale
            BY <2>3, <2>7, <3>2
        <3> QED
            BY <3>2, <3>3 DEF Hidden
    <2> QED
        BY <2>5, <2>6, <2>7 DEF Hidden
<1>4. ASSUME NEW c \in Clients, Rollback(c)
      PROVE  Hidden'
    <2>1. UNCHANGED <<store, forgotten, stale>>
        BY <1>4 DEF Rollback
    <2>2. job'[c] = NoJob /\ \A d \in Clients \ {c} : job'[d] = job[d]
        BY <1>4, RolledBackJob
    <2> QED
        BY <1>0, <2>1, <2>2 DEF Hidden, Present
<1>5. ASSUME NEW m \in Ids, NEW r \in Payloads, Add(m, r)
      PROVE  Hidden'
    <2>1. UNCHANGED <<job, forgotten, stale>>
        BY <1>5 DEF Add
    <2>2. m \notin forgotten /\ \A i \in Ids \ {m} : store'[i] = store[i]
        BY <1>5, AddedStore DEF Hidden
    <2>3. forgotten \subseteq Ids
        BY DEF Types
    <2> QED
        BY <2>1, <2>2, <2>3 DEF Hidden, Present
<1>6. ASSUME NEW ids \in SUBSET Ids, NEW batch \in [ids -> Payloads], NEW mode,
             Import(batch, mode)
      PROVE  Hidden'
    <2> DEFINE new == Written(batch, mode)
    <2>1. stale' = stale /\ forgotten' = forgotten \ new
        BY <1>6 DEF Import
    <2>2. \A m \in Ids \ new : store'[m] = store[m]
        BY <1>6, ImportedStore
    <2>3. \A d \in Clients : /\ job'[d].write = job[d].write
                             /\ job[d].late \subseteq job'[d].late
        BY <1>6, ImportedJob DEF SameBut
    <2>4. forgotten \subseteq Ids
        BY DEF Types
    <2> HIDE DEF new
    <2> QED
        BY <2>1, <2>2, <2>3, <2>4 DEF Hidden, Present
<1>7. ASSUME UNCHANGED vars
      PROVE  Hidden'
    BY <1>7 DEF Hidden, vars, Present
<1> QED
    BY Steps, <1>1, <1>2, <1>3, <1>4, <1>5, <1>6, <1>7

LEMMA NewerStep == Types /\ Newer /\ [Next]_vars => Newer'
<1> SUFFICES ASSUME Types, Newer, [Next]_vars PROVE Newer'
    OBVIOUS
<1>0. DOMAIN NoJob.write = {}
    BY DEF NoJob, Prepared, Empty
<1>1. ASSUME NEW c \in Clients, NEW ids, NEW pair, NEW w, Starts(c, ids, pair, w)
      PROVE  Newer'
    <2>1. /\ store' = store /\ ids \subseteq Ids
          /\ \A m \in ids : Present(m) /\ GoodWrite(m, pair, w[m])
        BY <1>1 DEF Starts
    <2>2. /\ DOMAIN job'[c].write = ids /\ job'[c].write = w
          /\ \A d \in Clients \ {c} : job'[d] = job[d]
        BY <1>1, StartedJob
    <2>3. ASSUME NEW m \in ids, w[m] # Gone
          PROVE  w[m].version > store[m].version
        <3>1. store[m].version \in Nat
            BY <2>1, <2>3, PresentRecord DEF Record
        <3>2. w[m].version = store[m].version + 1
            BY <2>1, <2>3 DEF GoodWrite
        <3> QED
            BY <3>1, <3>2, NumberSucc
    <2> QED
        BY <2>1, <2>2, <2>3 DEF Newer, Present
<1>2. ASSUME NEW c \in Clients, NEW v, Joins(c, v)
      PROVE  Newer'
    <2> DEFINE a == job[c].pair[2]
               b == job[c].pair[3]
    <2>1. /\ store' = store /\ Present(b) /\ v.version = store[b].version + 1
        BY <1>2 DEF Joins
    <2>2. /\ b \in Ids
          /\ DOMAIN job[c].write = {a} /\ DOMAIN job'[c].write = {a, b}
          /\ job'[c].write[a] = job[c].write[a] /\ job'[c].write[b] = v
          /\ job'[c].late = job[c].late
          /\ \A d \in Clients \ {c} : job'[d] = job[d]
        BY <1>2, JoinedJob
    <2> HIDE DEF a, b
    <2>3. v.version > store[b].version
        <3>1. store[b].version \in Nat
            BY <2>1, <2>2, PresentRecord DEF Record
        <3> QED
            BY <2>1, <3>1, NumberSucc
    <2> QED
        BY <2>1, <2>2, <2>3 DEF Newer, Present
<1>3. ASSUME NEW c \in Clients, Apply(c)
      PROVE  Newer'
    <2> DEFINE ids == DOMAIN job[c].write
    <2>1. \A m \in Ids \ ids : store'[m] = store[m]
        BY <1>3, AppliedStore
    <2>2. /\ job'[c] = NoJob
          /\ \A d \in Clients \ {c} :
               /\ job'[d].write = job[d].write
               /\ job'[d].late = job[d].late \cup (ids \cap DOMAIN job[d].write)
        BY <1>3, AppliedJob DEF SameBut
    <2>3. \A d \in Clients : DOMAIN job[d].write \subseteq Ids
        BY WriteDomain DEF Types
    <2>4. ASSUME NEW d \in Clients, NEW m \in DOMAIN job'[d].write \ job'[d].late
          PROVE  /\ job'[d].write = job[d].write /\ store'[m] = store[m]
                 /\ m \in DOMAIN job[d].write \ job[d].late
        <3>1. d # c
            BY <1>0, <2>2
        <3> QED
            BY <2>1, <2>2, <2>3, <3>1
    <2> QED
        BY <2>4 DEF Newer, Present
<1>4. ASSUME NEW c \in Clients, Rollback(c)
      PROVE  Newer'
    <2>1. store' = store
        BY <1>4 DEF Rollback
    <2>2. job'[c] = NoJob /\ \A d \in Clients \ {c} : job'[d] = job[d]
        BY <1>4, RolledBackJob
    <2> QED
        BY <1>0, <2>1, <2>2 DEF Newer, Present
<1>5. ASSUME NEW m \in Ids, NEW r \in Payloads, Add(m, r)
      PROVE  Newer'
    <2>1. job' = job
        BY <1>5 DEF Add
    <2>2. store[m] = Unused /\ \A i \in Ids \ {m} : store'[i] = store[i]
        BY <1>5, AddedStore
    <2>3. \A d \in Clients : m \notin DOMAIN job[d].write /\ DOMAIN job[d].write \subseteq Ids
        BY <2>2, WriteDomain DEF Types
    <2> QED
        BY <2>1, <2>2, <2>3 DEF Newer, Present
<1>6. ASSUME NEW ids \in SUBSET Ids, NEW batch \in [ids -> Payloads], NEW mode,
             Import(batch, mode)
      PROVE  Newer'
    <2> DEFINE new == Written(batch, mode)
    <2>1. \A m \in Ids \ new : store'[m] = store[m]
        BY <1>6, ImportedStore
    <2>2. \A d \in Clients : /\ job'[d].write = job[d].write
                             /\ job'[d].late = job[d].late \cup
                                                 (new \cap DOMAIN job[d].write)
        BY <1>6, ImportedJob DEF SameBut
    <2>3. \A d \in Clients : DOMAIN job[d].write \subseteq Ids
        BY WriteDomain DEF Types
    <2> HIDE DEF new
    <2>4. ASSUME NEW d \in Clients, NEW m \in DOMAIN job'[d].write \ job'[d].late
          PROVE  /\ job'[d].write = job[d].write /\ store'[m] = store[m]
                 /\ m \in DOMAIN job[d].write \ job[d].late
        BY <2>1, <2>2, <2>3
    <2> QED
        BY <2>4 DEF Newer, Present
<1>7. ASSUME UNCHANGED vars
      PROVE  Newer'
    BY <1>7 DEF Newer, vars, Present
<1> QED
    BY Steps, <1>1, <1>2, <1>3, <1>4, <1>5, <1>6, <1>7

-----------------------------------------------------------------------------
(* A superseded record is linked: so is every one that a job will write,   *)
(* by the edge that exists, that the job itself brings, or that the second *)
(* read of the supersede will bring.                                       *)
LinkedIn(m, n, es, ds) == n \in Ids /\ (<<n, m>> \in es \/ {m, n} \cap ds # {})

WillLink(j, m, es, ds) ==
    LET r == j.write[m]
    IN  r # Gone /\ r.status = "superseded" =>
          \/ LinkedIn(m, r.supersededBy, es \cup j.edges, ds)
          \/ /\ j.pair # Empty /\ j.pair[1] = "supersede"
             /\ j.pair[2] = m /\ j.pair[3] = r.supersededBy

Linked ==
    /\ \A m \in Ids : Present(m) /\ store[m].status = "superseded" =>
         LinkedIn(m, store[m].supersededBy, edges, deleted)
    /\ \A c \in Clients : \A m \in DOMAIN job[c].write :
         WillLink(job[c], m, edges, deleted)

LEMMA SameWillLink ==
    ASSUME NEW j, NEW k, NEW X, SameBut(j, k, X), NEW m, NEW es, NEW ds,
           WillLink(j, m, es, ds)
    PROVE  WillLink(k, m, es, ds)
BY DEF SameBut, WillLink

LEMMA LinkedStep == Types /\ Linked /\ [Next]_vars => Linked'
<1> SUFFICES ASSUME Types, Linked, [Next]_vars PROVE Linked'
    OBVIOUS
<1>0. DOMAIN NoJob.write = {}
    BY DEF NoJob, Prepared, Empty
<1>1. ASSUME NEW c \in Clients, NEW ids, NEW pair, NEW w, Starts(c, ids, pair, w)
      PROVE  Linked'
    <2>1. /\ UNCHANGED <<store, edges, deleted>> /\ ids \subseteq Ids
          /\ \A m \in ids : Present(m) /\ GoodWrite(m, pair, w[m])
          /\ pair \in {Empty} \cup (PairOps \X Ids \X Ids)
        BY <1>1 DEF Starts
    <2>2. /\ DOMAIN job'[c].write = ids /\ job'[c].write = w
          /\ job'[c].pair = pair /\ job'[c].edges = {}
          /\ \A d \in Clients \ {c} : job'[d] = job[d]
        BY <1>1, StartedJob
    <2>3. ASSUME NEW m \in ids, w[m] # Gone, w[m].status = "superseded"
          PROVE  \/ LinkedIn(m, w[m].supersededBy, edges, deleted)
                 \/ /\ pair # Empty /\ pair[1] = "supersede"
                    /\ pair[2] = m /\ pair[3] = w[m].supersededBy
        BY <2>1, <2>3 DEF GoodWrite, Linked
    <2>4. edges \cup job'[c].edges = edges
        BY <2>2
    <2>5. ASSUME NEW m \in DOMAIN job'[c].write
          PROVE  WillLink(job'[c], m, edges, deleted)
        BY <2>2, <2>3, <2>4 DEF WillLink
    <2> QED
        BY <2>1, <2>2, <2>5 DEF Linked, Present
<1>2. ASSUME NEW c \in Clients, NEW v, Joins(c, v)
      PROVE  Linked'
    <2> DEFINE a == job[c].pair[2]
               b == job[c].pair[3]
               op == job[c].pair[1]
    <2>1. UNCHANGED <<store, edges, deleted>> /\ v.status # "superseded"
        BY <1>2 DEF Joins
    <2>2. /\ b \in Ids
          /\ DOMAIN job[c].write = {a} /\ DOMAIN job'[c].write = {a, b}
          /\ job'[c].write[a] = job[c].write[a] /\ job'[c].write[b] = v
          /\ job'[c].edges = NewEdges(op, a, b)
          /\ \A d \in Clients \ {c} : job'[d] = job[d]
        BY <1>2, JoinedJob
    <2>3. job[c].edges = {}
        BY <1>2 DEF Joins, Types, WellFormed
    <2> DEFINE r == job[c].write[a]
    <2>4. ASSUME r # Gone, r.status = "superseded"
          PROVE  LinkedIn(a, r.supersededBy, edges \cup NewEdges(op, a, b), deleted)
        <3>1. CASE LinkedIn(a, r.supersededBy, edges \cup job[c].edges, deleted)
            BY <2>3, <3>1 DEF LinkedIn
        <3>2. CASE op = "supersede" /\ b = r.supersededBy
            BY <2>2, <3>2 DEF LinkedIn, NewEdges
        <3> QED
            BY <2>2, <2>4, <3>1, <3>2 DEF Linked, WillLink
    <2> HIDE DEF a, b, op
    <2>5. ASSUME NEW m \in DOMAIN job'[c].write
          PROVE  WillLink(job'[c], m, edges, deleted)
        BY <2>1, <2>2, <2>4, <2>5 DEF WillLink
    <2> QED
        BY <2>1, <2>2, <2>5 DEF Linked, Present
<1>3. ASSUME NEW c \in Clients, job[c].pair = Empty, Apply(c)
      PROVE  Linked'
    <2> DEFINE ids == DOMAIN job[c].write
    <2>1. /\ ids \subseteq Ids
          /\ \A m \in ids : /\ Present(m) /\ store'[m] = job[c].write[m]
                            /\ store'[m] \in Values
          /\ \A m \in Ids \ ids : store'[m] = store[m]
          /\ edges' = {e \in edges \cup job[c].edges :
                         store'[e[1]] # Gone /\ store'[e[2]] # Gone}
          /\ deleted' = deleted \cup {m \in ids : store'[m] = Gone}
        BY <1>3, AppliedStore
    <2>2. /\ job'[c] = NoJob
          /\ \A d \in Clients \ {c} :
               SameBut(job[d], job'[d], ids \cap DOMAIN job[d].write)
        BY <1>3, AppliedJob
    <2>3. \A e \in edges \cup job[c].edges :
             /\ e[1] \in Ids /\ e[2] \in Ids
             /\ store[e[1]] # Gone /\ store[e[2]] # Gone
        BY <2>1, JobEdges DEF Types, Present
    (* An edge that is not there afterwards lost an end that is deleted. *)
    <2>4. ASSUME NEW e \in edges \cup job[c].edges
          PROVE  e \in edges' \/ {e[1], e[2]} \cap deleted' # {}
        <3>1. ASSUME NEW m \in Ids, store[m] # Gone, store'[m] = Gone
              PROVE  m \in deleted'
            BY <2>1, <3>1
        <3> QED
            BY <2>1, <2>3, <2>4, <3>1
    <2> HIDE DEF ids
    <2>5. ASSUME NEW m \in Ids, NEW n, NEW es,
                 LinkedIn(m, n, edges \cup es, deleted)
          PROVE  LinkedIn(m, n, edges' \cup es, deleted')
        <3>1. CASE <<n, m>> \in edges
            <4>1. <<n, m>> \in edges' \/ {n, m} \cap deleted' # {}
                BY <2>4, <3>1
            <4> QED
                BY <2>5, <4>1 DEF LinkedIn
        <3>2. CASE <<n, m>> \notin edges
            BY <2>1, <2>5, <3>2 DEF LinkedIn
        <3> QED
            BY <3>1, <3>2
    <2>6. ASSUME NEW m \in Ids, Present(m)', store'[m].status = "superseded"
          PROVE  LinkedIn(m, store'[m].supersededBy, edges', deleted')
        <3> DEFINE n == store'[m].supersededBy
        <3>1. CASE m \in ids
            <4>1. LinkedIn(m, n, edges \cup job[c].edges, deleted)
                <5>1. WillLink(job[c], m, edges, deleted)
                    BY <3>1 DEF Linked, ids
                <5>2. /\ job[c].write[m] = store'[m] /\ store'[m] # Gone
                      /\ store'[m].status = "superseded"
                    BY <2>1, <2>6, <3>1 DEF Present
                <5> QED
                    BY <1>3, <5>1, <5>2 DEF WillLink
            <4>2. CASE <<n, m>> \in edges \cup job[c].edges
                <5>1. <<n, m>> \in edges' \/ {n, m} \cap deleted' # {}
                    BY <2>4, <4>2
                <5> QED
                    BY <4>1, <5>1 DEF LinkedIn
            <4>3. CASE <<n, m>> \notin edges \cup job[c].edges
                BY <2>1, <4>1, <4>3 DEF LinkedIn
            <4> QED
                BY <4>2, <4>3
        <3>2. CASE m \notin ids
            <4>1. LinkedIn(m, n, edges \cup {}, deleted)
                BY <2>1, <2>6, <3>2 DEF Linked, LinkedIn, Present
            <4>2. LinkedIn(m, n, edges' \cup {}, deleted')
                BY <2>5, <4>1
            <4> QED
                BY <4>2 DEF LinkedIn
        <3> QED
            BY <3>1, <3>2
    <2>7. ASSUME NEW d \in Clients \ {c}, NEW m \in DOMAIN job[d].write
          PROVE  WillLink(job[d], m, edges', deleted')
        <3>1. m \in Ids
            BY WriteDomain DEF Types
        <3>2. WillLink(job[d], m, edges, deleted)
            BY DEF Linked
        <3>3. \A n : LinkedIn(m, n, edges \cup job[d].edges, deleted)
                       => LinkedIn(m, n, edges' \cup job[d].edges, deleted')
            BY <2>5, <3>1
        <3> QED
            BY <3>2, <3>3 DEF WillLink
    <2>8. ASSUME NEW d \in Clients, NEW m \in DOMAIN job'[d].write
          PROVE  WillLink(job'[d], m, edges', deleted')
        <3>1. d # c
            BY <1>0, <2>2
        <3>2. m \in DOMAIN job[d].write
            BY <2>2, <3>1 DEF SameBut
        <3> QED
            BY <2>2, <2>7, <3>1, <3>2, SameWillLink
    <2> QED
        BY <2>6, <2>8 DEF Linked
<1>4. ASSUME NEW c \in Clients, Rollback(c)
      PROVE  Linked'
    <2>1. UNCHANGED <<store, edges, deleted>>
        BY <1>4 DEF Rollback
    <2>2. job'[c] = NoJob /\ \A d \in Clients \ {c} : job'[d] = job[d]
        BY <1>4, RolledBackJob
    <2> QED
        BY <1>0, <2>1, <2>2 DEF Linked, Present
<1>5. ASSUME NEW m \in Ids, NEW r \in Payloads, Add(m, r)
      PROVE  Linked'
    <2>1. UNCHANGED <<edges, job, deleted>>
        BY <1>5 DEF Add
    <2>2. /\ store'[m].status # "superseded"
          /\ \A i \in Ids \ {m} : store'[i] = store[i]
        BY <1>5, AddedStore
    <2> QED
        BY <2>1, <2>2 DEF Linked, Present
<1>6. ASSUME NEW ids \in SUBSET Ids, NEW batch \in [ids -> Payloads], NEW mode,
             Import(batch, mode)
      PROVE  Linked'
    <2> DEFINE new == Written(batch, mode)
    <2>1. UNCHANGED <<edges, deleted>>
        BY <1>6 DEF Import
    <2>2. /\ \A m \in new : store'[m].status # "superseded"
          /\ \A m \in Ids \ new : store'[m] = store[m]
        BY <1>6, ImportedStore
    <2>3. ASSUME NEW d \in Clients, NEW m \in DOMAIN job'[d].write
          PROVE  WillLink(job'[d], m, edges, deleted)
        <3>1. SameBut(job[d], job'[d], new \cap DOMAIN job[d].write)
            BY <1>6, ImportedJob
        <3>2. WillLink(job[d], m, edges, deleted)
            BY <3>1 DEF SameBut, Linked
        <3> QED
            BY <3>1, <3>2, SameWillLink
    <2> HIDE DEF new
    <2> QED
        BY <2>1, <2>2, <2>3 DEF Linked, Present
<1>7. ASSUME UNCHANGED vars
      PROVE  Linked'
    BY <1>7 DEF Linked, WillLink, vars, Present
<1> QED
    BY Steps, <1>1, <1>2, <1>3, <1>4, <1>5, <1>6, <1>7

-----------------------------------------------------------------------------
(* The inductive invariant.                                                *)
IInv == Types /\ Hidden /\ Newer /\ Linked

LEMMA IInvAlways == Spec => []IInv
<1>1. Init => Hidden /\ Newer /\ Linked
    <2> SUFFICES ASSUME Init PROVE Hidden /\ Newer /\ Linked
        OBVIOUS
    <2>1. forgotten = {} /\ \A m \in Ids : ~Present(m)
        BY DEF Init, Present
    <2>2. \A c \in Clients : DOMAIN job[c].write = {}
        <3>1. DOMAIN NoJob.write = {}
            BY DEF NoJob, Prepared, Empty
        <3> QED
            BY <3>1 DEF Init
    <2> QED
        BY <2>1, <2>2 DEF Hidden, Newer, Linked
<1>2. Init => IInv
    BY <1>1, TypesInit DEF IInv
<1>3. IInv /\ [Next]_vars => IInv'
    BY TypesStep, HiddenStep, NewerStep, LinkedStep DEF IInv
<1> QED
    BY <1>2, <1>3, PTL DEF Spec

(* Unless a commit overwrote a change it had not read, no lifecycle or     *)
(* privacy operation makes an erased memory retrievable again.             *)
THEOREM ForgottenHidden == Spec => []ForgottenStaysHidden
<1>1. IInv => ForgottenStaysHidden
    <2> SUFFICES ASSUME IInv, NEW m \in forgotten \ stale, Present(m)
                 PROVE  ~Retrievable(store[m])
        BY DEF ForgottenStaysHidden
    <2>1. store[m].status \in Erased
        BY DEF IInv, Hidden
    <2> QED
        BY <2>1 DEF Erased, Retrievable
<1> QED
    BY <1>1, IInvAlways, PTL

(* The two writes and the edge of a supersede never come apart.            *)
THEOREM SupersededLinked == Spec => []SupersededIsLinked
<1>1. IInv => SupersededIsLinked
    BY MemoriesAssumption DEF IInv, Linked, LinkedIn, SupersededIsLinked
<1> QED
    BY <1>1, IInvAlways, PTL

(* Every rewrite of a record raises its version, lost updates excepted.    *)
THEOREM VersionsGrow == Spec => VersionGrows
<1> DEFINE Grows == \A m \in Ids :
             Present(m) /\ Present(m)' /\ store'[m] # store[m]
               => store'[m].version > store[m].version \/ m \in stale'
<1>1. ASSUME IInv, [Next]_vars
      PROVE  [Grows]_vars
    <2>1. Types /\ Newer
        BY <1>1 DEF IInv
    <2>2. CASE store' = store
        BY <2>2
    <2>3. ASSUME NEW c \in Clients, Apply(c)
          PROVE  Grows
        <3>1. /\ \A m \in DOMAIN job[c].write : store'[m] = job[c].write[m]
              /\ \A m \in Ids \ DOMAIN job[c].write : store'[m] = store[m]
            BY <2>1, <2>3, AppliedStore
        <3>2. stale' = stale \cup job[c].late
            BY <2>3 DEF Apply
        <3> QED
            BY <2>1, <3>1, <3>2 DEF Newer, Present
    <2>4. ASSUME NEW m \in Ids, NEW r \in Payloads, Add(m, r)
          PROVE  Grows
        BY <2>1, <2>4, AddedStore DEF Present
    <2>5. ASSUME NEW ids \in SUBSET Ids, NEW batch \in [ids -> Payloads], NEW mode,
                 Import(batch, mode)
          PROVE  Grows
        BY <2>1, <2>5, ImportedStore DEF Present
    <2>6. ASSUME NEW c \in Clients, NEW ids, NEW pair, NEW w,
                 Starts(c, ids, pair, w)
          PROVE  store' = store
        BY <2>6 DEF Starts
    <2>7. ASSUME NEW c \in Clients, NEW v, Joins(c, v)
          PROVE  store' = store
        BY <2>7 DEF Joins
    <2>8. ASSUME NEW c \in Clients, Rollback(c)
          PROVE  store' = store
        BY <2>8 DEF Rollback
    <2>9. UNCHANGED vars => store' = store
        BY DEF vars
    <2> HIDE DEF Grows
    <2> QED
        BY Steps, <1>1, <2>1, <2>2, <2>3, <2>4, <2>5, <2>6, <2>7, <2>8, <2>9
<1>2. Spec => [][Grows]_vars
    BY <1>1, IInvAlways, PTL DEF Spec
<1> QED
    BY <1>2 DEF VersionGrows

(* What an operation under way was about to write never brings back a      *)
(* record that was hard-deleted: only an import does.                      *)
THEOREM HardDeleteFinal == Spec => HardDeleteIsFinal
<1> DEFINE Final == \A m \in Ids :
             store[m] = Gone /\ store'[m] # Gone => store'[m] \in Payloads
<1>1. ASSUME IInv, [Next]_vars
      PROVE  [Final]_vars
    <2>1. Types
        BY <1>1 DEF IInv
    <2>2. CASE store' = store
        BY <2>2
    <2>3. ASSUME NEW c \in Clients, Apply(c)
          PROVE  Final
        BY <2>1, <2>3, AppliedStore DEF Present
    <2>4. ASSUME NEW m \in Ids, NEW r \in Payloads, Add(m, r)
          PROVE  Final
        BY <2>1, <2>4, AddedStore, MemoriesAssumption
    <2>5. ASSUME NEW ids \in SUBSET Ids, NEW batch \in [ids -> Payloads], NEW mode,
                 Import(batch, mode)
          PROVE  Final
        BY <2>1, <2>5, ImportedStore DEF Present
    <2>6. ASSUME NEW c \in Clients, NEW ids, NEW pair, NEW w,
                 Starts(c, ids, pair, w)
          PROVE  store' = store
        BY <2>6 DEF Starts
    <2>7. ASSUME NEW c \in Clients, NEW v, Joins(c, v)
          PROVE  store' = store
        BY <2>7 DEF Joins
    <2>8. ASSUME NEW c \in Clients, Rollback(c)
          PROVE  store' = store
        BY <2>8 DEF Rollback
    <2>9. UNCHANGED vars => store' = store
        BY DEF vars
    <2> HIDE DEF Final
    <2> QED
        BY Steps, <1>1, <2>1, <2>2, <2>3, <2>4, <2>5, <2>6, <2>7, <2>8, <2>9
<1>2. Spec => [][Final]_vars
    BY <1>1, IInvAlways, PTL DEF Spec
<1> QED
    BY <1>2 DEF HardDeleteIsFinal
=============================================================================
