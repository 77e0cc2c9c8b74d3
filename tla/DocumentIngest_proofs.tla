------------------------ MODULE DocumentIngest_proofs ------------------------
(***************************************************************************)
(* Proofs about DocumentIngest.                                            *)
(*                                                                         *)
(* As long as no two workers were between plan and commit at once, the     *)
(* store and the one plan under way fit together (Fits): insertions are    *)
(* of keys that are not stored, replacements and removals of records that  *)
(* still have the key they were planned for, and what the plan does not    *)
(* touch is as the document wants it, unless somebody else wrote since.    *)
(***************************************************************************)
EXTENDS DocumentIngest, FiniteSetTheorems, TLAPS

(* The keys within a document differ: no two sections have one heading     *)
(* path (and include_heading_path is set, unless there is one section).    *)
DistinctKeys ==
    \A doc \in Documents : \A i, j \in DOMAIN doc :
      SourceHash(doc[i]) = SourceHash(doc[j]) => i = j

Key(m) == SourceHash(store[m].chunk)

Shows(chunk) ==
    \E m \in Ids : /\ Visible(m) /\ Key(m) = SourceHash(chunk)
                   /\ SameHashes(store[m], chunk)

(* The store is what an undisturbed ingestion of the document leaves. *)
Settled(doc) ==
    /\ \A i \in DOMAIN doc : Shows(doc[i])
    /\ \A m \in Ids : Present(m) /\ Key(m) \notin Keys(doc)
         => store[m].status \in {"removed", "deleted"}

Ops == [kind: {"insert", "replace", "remove"}, id: Ids \cup {None},
        chunk: Chunks, pos: Nat]

Jobs == [doc: Documents, plan: SUBSET Ops, dirty: BOOLEAN]

OpFits(o, doc) ==
    \/ /\ o.kind = "insert"
       /\ o.pos \in DOMAIN doc /\ o.chunk = doc[o.pos]
       /\ \A m \in Ids : Present(m) => Key(m) # SourceHash(o.chunk)
    \/ /\ o.kind = "replace" /\ o.id \in Ids /\ store[o.id] # Unused
       /\ o.pos \in DOMAIN doc /\ o.chunk = doc[o.pos]
       /\ Present(o.id) => Key(o.id) = SourceHash(o.chunk)
    \/ /\ o.kind = "remove" /\ o.id \in Ids /\ store[o.id] # Unused
       /\ Present(o.id) => Key(o.id) \notin Keys(doc)

(* Two operations of a plan differ in their keys and in their records. *)
Apart(plan) ==
    \A o, p \in plan :
      /\ o.kind # "remove" /\ p.kind # "remove" /\ o.pos = p.pos => o = p
      /\ o.kind # "insert" /\ p.kind # "insert" /\ o.id = p.id => o = p

(* What the plan leaves alone is as the document wants it. *)
RestSettled(doc, plan) ==
    /\ \A i \in DOMAIN doc :
         \/ \E o \in plan : o.kind # "remove" /\ o.pos = i
         \/ Shows(doc[i])
    /\ \A m \in Ids : Present(m) /\ Key(m) \notin Keys(doc) =>
         \/ \E o \in plan : o.kind = "remove" /\ o.id = m
         \/ store[m].status \in {"removed", "deleted"}

Fits(j) ==
    /\ j \in Jobs
    /\ \A o \in j.plan : OpFits(o, j.doc)
    /\ Apart(j.plan)
    /\ ~j.dirty => RestSettled(j.doc, j.plan)

StoreType == store \in [Ids -> Record \cup {Unused, Gone}]

OneEach == \A m, n \in Ids :
    Present(m) /\ Present(n) /\ Key(m) = Key(n) => m = n

Busy(w) == job[w] # Idle

Alone ==
    /\ StoreType
    /\ OneEach
    /\ DOMAIN job = Workers
    /\ \A v, w \in Workers : Busy(v) /\ Busy(w) => v = w
    /\ \A w \in Workers : Busy(w) => Fits(job[w])
    /\ synced \in Documents \cup {None}
    /\ synced # None => Settled(synced)

(* The inductive invariant. *)
IInv == raced \in BOOLEAN /\ (~raced => Alone)

-----------------------------------------------------------------------------
(* Conclusions drawn from the invariant.                                   *)

LEMMA PresentRecord ==
    ASSUME StoreType, NEW m \in Ids, Present(m)
    PROVE  /\ store[m] \in Record
           /\ store[m].chunk \in Chunks
    BY DEF StoreType, Present, Record

(* With one record under a key, that record is the existing one. *)
LEMMA ExistingIs ==
    ASSUME OneEach, NEW m \in Ids, Present(m), NEW key, key = Key(m)
    PROVE  Known(key) /\ Existing(key) = m
<1>1. StoredUnder(key) = {m}
    BY DEF StoredUnder, OneEach, Key
<1> QED
    BY <1>1 DEF Existing, Known

LEMMA ExistingWhenKnown ==
    ASSUME OneEach, NEW key, Known(key)
    PROVE  /\ Existing(key) \in Ids /\ Present(Existing(key))
           /\ Key(Existing(key)) = key
<1>1. PICK m \in Ids : Present(m) /\ key = Key(m)
    BY DEF Known, StoredUnder, Key
<1> QED
    BY <1>1, ExistingIs

LEMMA SettledPlan ==
    ASSUME StoreType, OneEach, NEW doc \in Documents, Settled(doc)
    PROVE  PlanFor(doc) = {}
<1>1. \A i \in DOMAIN doc : Unchanged(doc[i])
    <2> TAKE i \in DOMAIN doc
    <2>1. PICK m \in Ids : /\ Visible(m) /\ Key(m) = SourceHash(doc[i])
                           /\ SameHashes(store[m], doc[i])
        BY DEF Settled, Shows
    <2>2. Existing(SourceHash(doc[i])) = m /\ Known(SourceHash(doc[i]))
        BY <2>1, ExistingIs DEF Visible
    <2> QED
        BY <2>1, <2>2 DEF Unchanged
<1>2. ASSUME NEW key \in StoredKeys \ Keys(doc)
      PROVE  store[Existing(key)].status \in {"removed", "deleted"}
    <2>1. PICK m \in Ids : Present(m) /\ key = Key(m)
        BY <1>2 DEF StoredKeys, Key
    <2>2. Existing(key) = m
        BY <2>1, ExistingIs
    <2> QED
        BY <1>2, <2>1, <2>2 DEF Settled
<1>3. Obsolete(doc) = {}
    BY <1>2 DEF Obsolete
<1>4. Writes(doc) = {}
    BY <1>1 DEF Writes
<1> QED
    BY <1>3, <1>4 DEF PlanFor

LEMMA SettledShows ==
    ASSUME StoreType, OneEach, NEW doc \in Documents, Settled(doc)
    PROVE  /\ {<<SourceHash(store[m].chunk), store[m].chunk.text>>
                 : m \in {n \in Ids : Visible(n)}}
              = {<<SourceHash(doc[i]), doc[i].text>> : i \in DOMAIN doc}
           /\ \A m \in Ids : Visible(m) => "hash" \notin store[m].redacted
<1>1. ASSUME NEW m \in Ids, Visible(m)
      PROVE  \E i \in DOMAIN doc : /\ Key(m) = SourceHash(doc[i])
                                   /\ SameHashes(store[m], doc[i])
    <2>1. Present(m) /\ store[m].status = "active"
        BY <1>1 DEF Visible
    <2>2. Key(m) \in Keys(doc)
        BY <2>1 DEF Settled
    <2>3. PICK i \in DOMAIN doc : Key(m) = SourceHash(doc[i])
        BY <2>2 DEF Keys
    <2>4. PICK n \in Ids : /\ Visible(n) /\ Key(n) = SourceHash(doc[i])
                           /\ SameHashes(store[n], doc[i])
        BY DEF Settled, Shows
    <2>5. n = m
        BY <2>1, <2>3, <2>4 DEF OneEach, Visible
    <2> QED
        BY <2>3, <2>4, <2>5
<1>2. ASSUME NEW i \in DOMAIN doc
      PROVE  \E m \in Ids : /\ Visible(m) /\ Key(m) = SourceHash(doc[i])
                            /\ SameHashes(store[m], doc[i])
    BY DEF Settled, Shows
<1> QED
    BY <1>1, <1>2 DEF Key, SameHashes

-----------------------------------------------------------------------------
(* Planning.                                                               *)

LEMMA PositionsAreNat ==
    ASSUME NEW doc \in Documents, NEW i \in DOMAIN doc
    PROVE  i \in Nat /\ doc[i] \in Chunks
<1>1. /\ DOMAIN doc = 1 .. Cardinality(DOMAIN doc)
      /\ Cardinality(DOMAIN doc) \in Nat
    BY IngestAssumption, FS_CardinalityType
<1> QED
    BY <1>1 DEF Chunks

LEMMA SettledWhenNothingLeft ==
    ASSUME NEW doc, RestSettled(doc, {})
    PROVE  Settled(doc)
    BY DEF RestSettled, Settled

LEMMA WriteOps ==
    ASSUME NEW doc, NEW o \in Writes(doc)
    PROVE  /\ o.pos \in DOMAIN doc /\ o.chunk = doc[o.pos]
           /\ ~Unchanged(doc[o.pos])
           /\ \/ /\ o.kind = "insert" /\ o.id = None
                 /\ ~Known(SourceHash(o.chunk))
              \/ /\ o.kind = "replace" /\ Known(SourceHash(o.chunk))
                 /\ o.id = Existing(SourceHash(o.chunk))
           /\ o = [kind |-> o.kind, id |-> o.id, chunk |-> o.chunk, pos |-> o.pos]
    BY DEF Writes

LEMMA RemoveOps ==
    ASSUME OneEach, NEW doc, NEW o \in PlanFor(doc) \ Writes(doc)
    PROVE  /\ o.kind = "remove" /\ o.id \in Ids /\ Present(o.id)
           /\ Key(o.id) \notin Keys(doc)
           /\ o = [kind |-> "remove", id |-> o.id,
                   chunk |-> store[o.id].chunk, pos |-> 0]
<1>1. PICK m \in Obsolete(doc) :
         o = [kind |-> "remove", id |-> m, chunk |-> store[m].chunk, pos |-> 0]
    BY DEF PlanFor
<1>2. PICK key \in StoredKeys \ Keys(doc) : m = Existing(key)
    BY DEF Obsolete
<1>3. Known(key)
    BY <1>2 DEF StoredKeys, Known, StoredUnder
<1> QED
    BY <1>1, <1>2, <1>3, ExistingWhenKnown

LEMMA PlanFits ==
    ASSUME DistinctKeys, StoreType, OneEach, NEW doc \in Documents
    PROVE  /\ PlanFor(doc) \in SUBSET Ops
           /\ \A o \in PlanFor(doc) : OpFits(o, doc)
           /\ Apart(PlanFor(doc))
           /\ RestSettled(doc, PlanFor(doc))
<1> DEFINE plan == PlanFor(doc)
<1>1. ASSUME NEW o \in Writes(doc)
      PROVE  o \in Ops /\ OpFits(o, doc)
    <2>1. o.pos \in Nat /\ o.chunk \in Chunks
        BY WriteOps, PositionsAreNat
    <2>2. CASE o.kind = "insert"
        <3>1. \A m \in Ids : Present(m) => Key(m) # SourceHash(o.chunk)
            BY <2>2, WriteOps DEF Known, StoredUnder, Key
        <3> QED
            BY <2>1, <2>2, <3>1, WriteOps DEF OpFits, Ops
    <2>3. CASE o.kind = "replace"
        <3>1. /\ o.id \in Ids /\ Present(o.id)
              /\ Key(o.id) = SourceHash(o.chunk)
            BY <2>3, WriteOps, ExistingWhenKnown
        <3> QED
            BY <2>1, <2>3, <3>1, WriteOps DEF OpFits, Ops, Present
    <2> QED
        BY <2>2, <2>3, WriteOps
<1>2. ASSUME NEW o \in plan \ Writes(doc)
      PROVE  o \in Ops /\ OpFits(o, doc)
    <2>1. store[o.id].chunk \in Chunks
        BY <1>2, RemoveOps, PresentRecord
    <2> QED
        BY <1>2, <2>1, RemoveOps DEF OpFits, Ops, Present
<1>3. ASSUME NEW o \in plan, NEW p \in plan, o.kind # "remove",
             p.kind # "remove", o.pos = p.pos
      PROVE  o = p
    <2>1. o \in Writes(doc) /\ p \in Writes(doc)
        BY <1>3, RemoveOps
    <2> QED
        BY <1>3, <2>1, WriteOps
<1>4. ASSUME NEW o \in plan, NEW p \in plan, o.kind # "insert",
             p.kind # "insert", o.id = p.id
      PROVE  o = p
    <2>1. CASE o \in Writes(doc) /\ p \in Writes(doc)
        <3>1. SourceHash(o.chunk) = SourceHash(p.chunk)
            BY <1>4, <2>1, WriteOps, ExistingWhenKnown
        <3>2. o.pos = p.pos
            BY <2>1, <3>1, WriteOps DEF DistinctKeys
        <3> QED
            BY <1>3, <2>1, <3>2, WriteOps
    <2>2. CASE o \notin Writes(doc) /\ p \notin Writes(doc)
        BY <1>4, <2>2, RemoveOps
    <2>3. ASSUME NEW x \in Writes(doc), x.kind # "insert"
          PROVE  Key(x.id) \in Keys(doc)
        BY <2>3, WriteOps, ExistingWhenKnown DEF Keys
    <2> QED
        BY <1>4, <2>1, <2>2, <2>3, RemoveOps
<1>5. ASSUME NEW i \in DOMAIN doc
      PROVE  (\E o \in plan : o.kind # "remove" /\ o.pos = i) \/ Shows(doc[i])
    <2>1. CASE Unchanged(doc[i])
        BY <2>1, ExistingWhenKnown DEF Unchanged, Shows
    <2>2. CASE ~Unchanged(doc[i])
        <3> DEFINE key == SourceHash(doc[i])
                   o == [kind |-> IF Known(key) THEN "replace" ELSE "insert",
                         id |-> IF Known(key) THEN Existing(key) ELSE None,
                         chunk |-> doc[i], pos |-> i]
        <3>1. o \in Writes(doc)
            BY <2>2 DEF Writes
        <3>2. o.pos = i
            OBVIOUS
        <3> HIDE DEF o
        <3> QED
            BY <3>1, <3>2, WriteOps DEF PlanFor
    <2> QED
        BY <2>1, <2>2
<1>6. ASSUME NEW m \in Ids, Present(m), Key(m) \notin Keys(doc)
      PROVE  \/ \E o \in plan : o.kind = "remove" /\ o.id = m
             \/ store[m].status \in {"removed", "deleted"}
    <2>1. Existing(Key(m)) = m /\ Key(m) \in StoredKeys \ Keys(doc)
        BY <1>6, ExistingIs DEF StoredKeys, Key
    <2>2. m \in Obsolete(doc) \/ store[m].status \in {"removed", "deleted"}
        BY <2>1 DEF Obsolete
    <2> DEFINE o == [kind |-> "remove", id |-> m,
                     chunk |-> store[m].chunk, pos |-> 0]
    <2>3. m \in Obsolete(doc) => o \in plan
        BY DEF PlanFor
    <2>4. o.kind = "remove" /\ o.id = m
        OBVIOUS
    <2> HIDE DEF o, plan
    <2> QED
        BY <2>2, <2>3, <2>4
<1> HIDE DEF plan
<1>7. plan = PlanFor(doc)
    BY DEF plan
<1> QED
    BY <1>1, <1>2, <1>3, <1>4, <1>5, <1>6, <1>7 DEF Apart, RestSettled

-----------------------------------------------------------------------------
(* Committing.                                                             *)

Target(o, new, m) == IF o.kind = "insert" THEN new[o] = m ELSE o.id = m

Persist(batch, new) ==
    store' = [m \in Ids |->
                Result({o \in batch : Target(o, new, m)}, store[m])]

LEMMA ResultOfOne ==
    ASSUME NEW o, o.pos \in Nat, NEW old
    PROVE  Result({o}, old) =
             IF o.kind = "remove" THEN Removed(old) ELSE Written(o)
<1>1. ~Before(o, o)
    BY DEF Before
<1>2. Last({o}) = o
    BY <1>1, Zenon DEF Last
<1>3. {o} # {}
    OBVIOUS
<1> QED
    BY <1>2, <1>3, Zenon DEF Result

(* Every operation of a batch is the only one on its record: insertions go *)
(* to unused ids, the others to records that are there.                    *)
LEMMA BatchEffect ==
    ASSUME NEW plan, Apart(plan), NEW batch \in SUBSET plan,
           \A o \in plan : /\ o.pos \in Nat
                           /\ o.kind # "insert" => o.id \in Ids,
           Lookup(batch), NEW new \in NewIds(batch), Persist(batch, new)
    PROVE  /\ \A o \in batch : o.kind = "insert" =>
                /\ new[o] \in Ids /\ store[new[o]] = Unused
                /\ store'[new[o]] = Written(o)
           /\ \A o \in batch : o.kind # "insert" =>
                /\ Present(o.id)
                /\ store'[o.id] = IF o.kind = "remove"
                                  THEN Removed(store[o.id]) ELSE Written(o)
           /\ \A m \in Ids : store'[m] # store[m] =>
                \E o \in batch : Target(o, new, m)
           /\ \A o, p \in Inserts(batch) : new[o] = new[p] => o = p
<1>1. ASSUME NEW o \in batch
      PROVE  /\ o.kind = "insert" => new[o] \in Ids /\ store[new[o]] = Unused
             /\ o.kind # "insert" => o.id \in Ids /\ Present(o.id)
    BY DEF NewIds, Inserts, Lookup
<1>2. ASSUME NEW o \in batch, NEW p \in batch, NEW m \in Ids,
             Target(o, new, m), Target(p, new, m)
      PROVE  o = p
    <2>1. CASE o.kind = "insert" /\ p.kind = "insert"
        BY <1>2, <2>1 DEF Target, NewIds, Inserts
    <2>2. CASE o.kind # "insert" /\ p.kind # "insert"
        BY <1>2, <2>2 DEF Target, Apart
    <2> QED
        BY <1>1, <1>2, <2>1, <2>2 DEF Target, Present
<1>3. ASSUME NEW o \in batch, NEW m \in Ids, Target(o, new, m)
      PROVE  store'[m] = IF o.kind = "remove" THEN Removed(store[m])
                         ELSE Written(o)
    <2>1. {p \in batch : Target(p, new, m)} = {o}
        BY <1>2, <1>3
    <2> QED
        BY <2>1, ResultOfOne DEF Persist
<1>4. ASSUME NEW m \in Ids, \A o \in batch : ~Target(o, new, m)
      PROVE  store'[m] = store[m]
    <2>1. {p \in batch : Target(p, new, m)} = {}
        BY <1>4
    <2>2. Result({}, store[m]) = store[m]
        BY DEF Result
    <2> QED
        BY <2>1, <2>2 DEF Persist
<1>5. \A o, p \in Inserts(batch) : new[o] = new[p] => o = p
    BY DEF NewIds
<1> QED
    BY <1>1, <1>3, <1>4, <1>5 DEF Target

(* A batch of a plan that fits is being committed. *)
Writing(doc, plan, batch, new) ==
    /\ StoreType /\ OneEach /\ doc \in Documents
    /\ plan \in SUBSET Ops /\ batch \in SUBSET plan
    /\ \A o \in plan : OpFits(o, doc)
    /\ Apart(plan)
    /\ Lookup(batch)
    /\ new \in NewIds(batch)
    /\ Persist(batch, new)

(* The three ways a record is after the batch. *)
LEMMA Effect ==
    ASSUME NEW doc, NEW plan, NEW batch, NEW new,
           Writing(doc, plan, batch, new), NEW m \in Ids
    PROVE  \/ /\ store'[m] = store[m]
              /\ \A o \in batch : ~Target(o, new, m)
           \/ \E o \in batch : /\ o.kind = "insert" /\ new[o] = m
                               /\ store[m] = Unused
                               /\ store'[m] = Written(o)
           \/ \E o \in batch : /\ o.kind = "replace" /\ o.id = m /\ Present(m)
                               /\ Key(m) = SourceHash(o.chunk)
                               /\ store'[m] = Written(o)
           \/ \E o \in batch : /\ o.kind = "remove" /\ o.id = m /\ Present(m)
                               /\ Key(m) \notin Keys(doc)
                               /\ store'[m] = Removed(store[m])
<1>1. \A o \in plan : o.pos \in Nat /\ (o.kind # "insert" => o.id \in Ids)
    BY DEF Writing, OpFits, Ops
<1>2. \A o \in batch : OpFits(o, doc)
    BY DEF Writing
<1>3. CASE \E o \in batch : Target(o, new, m)
    <2>1. PICK o \in batch : Target(o, new, m)
        BY <1>3
    <2>2. CASE o.kind = "insert"
        BY <1>1, <2>1, <2>2, BatchEffect DEF Writing, Target
    <2>3. CASE o.kind = "replace"
        <3>1. /\ o.id = m /\ Present(m) /\ store'[m] = Written(o)
            BY <1>1, <2>1, <2>3, BatchEffect DEF Writing, Target
        <3> QED
            BY <1>2, <2>3, <3>1 DEF OpFits
    <2>4. CASE o.kind = "remove"
        <3>1. /\ o.id = m /\ Present(m) /\ store'[m] = Removed(store[m])
            BY <1>1, <2>1, <2>4, BatchEffect DEF Writing, Target
        <3> QED
            BY <1>2, <2>4, <3>1 DEF OpFits
    <2> QED
        BY <1>2, <2>2, <2>3, <2>4 DEF OpFits
<1>4. CASE \A o \in batch : ~Target(o, new, m)
    BY <1>1, <1>4, BatchEffect DEF Writing
<1> QED
    BY <1>3, <1>4

LEMMA WrittenRecord ==
    ASSUME NEW o \in Ops
    PROVE  /\ Written(o) \in Record
           /\ Written(o).chunk = o.chunk
           /\ Written(o).status = "active" /\ Written(o).shown
           /\ Written(o).redacted = {}
    BY DEF Written, Record, Ops, Statuses

LEMMA RemovedRecord ==
    ASSUME NEW r \in Record
    PROVE  /\ Removed(r) \in Record \cup {Gone}
           /\ Removed(r) # Gone => /\ Removed(r).chunk = r.chunk
                                   /\ Removed(r).status = "removed"
<1>1. CASE HardRemove
    BY <1>1 DEF Removed
<1>2. CASE ~HardRemove
    <2>1. Removed(r) = [r EXCEPT !.status = "removed", !.shown = FALSE]
        BY <1>2 DEF Removed
    <2> QED
        BY <2>1 DEF Record, Statuses
<1> QED
    BY <1>1, <1>2

(* What is stored after the batch was stored before with the same key, or  *)
(* the batch inserted it.                                                  *)
LEMMA Origin ==
    ASSUME NEW doc, NEW plan, NEW batch, NEW new,
           Writing(doc, plan, batch, new), NEW m \in Ids
    PROVE  /\ store'[m] \in Record \cup {Unused, Gone}
           /\ store[m] # Unused => store'[m] # Unused
           /\ Present(m)' =>
                \/ Present(m) /\ Key(m)' = Key(m)
                \/ \E o \in batch : /\ o.kind = "insert" /\ new[o] = m
                                    /\ store[m] = Unused
                                    /\ Key(m)' = SourceHash(o.chunk)
<1>1. \A o \in batch : o \in Ops
    BY DEF Writing
<1>2. store[m] \in Record \cup {Unused, Gone}
    BY DEF Writing, StoreType
<1>3. CASE store'[m] = store[m]
    BY <1>2, <1>3 DEF Present, Key
<1>4. ASSUME NEW o \in batch, o.kind = "insert", new[o] = m,
             store[m] = Unused, store'[m] = Written(o)
      PROVE  /\ store'[m] \in Record \cup {Unused, Gone}
             /\ Key(m)' = SourceHash(o.chunk)
    BY <1>1, <1>4, WrittenRecord DEF Key
<1>5. ASSUME NEW o \in batch, o.kind = "replace", o.id = m, Present(m),
             Key(m) = SourceHash(o.chunk), store'[m] = Written(o)
      PROVE  /\ store'[m] \in Record
             /\ Key(m)' = Key(m)
    BY <1>1, <1>5, WrittenRecord DEF Key
<1>6. ASSUME Present(m), store'[m] = Removed(store[m])
      PROVE  /\ store'[m] \in Record \cup {Gone}
             /\ Present(m)' => Key(m)' = Key(m)
    BY <1>2, <1>6, RemovedRecord DEF Key, Present
<1> QED
    BY <1>3, <1>4, <1>5, <1>6, Effect, AbsentAssumption

(* Two operations that write one key are one operation. *)
LEMMA KeysApart ==
    ASSUME DistinctKeys, NEW doc \in Documents, NEW plan, Apart(plan),
           \A o \in plan : OpFits(o, doc),
           NEW o \in plan, NEW p \in plan,
           o.kind # "remove", p.kind # "remove",
           SourceHash(o.chunk) = SourceHash(p.chunk)
    PROVE  o = p
<1>1. /\ o.pos \in DOMAIN doc /\ o.chunk = doc[o.pos]
      /\ p.pos \in DOMAIN doc /\ p.chunk = doc[p.pos]
    BY DEF OpFits
<1>2. o.pos = p.pos
    BY <1>1 DEF DistinctKeys
<1> QED
    BY <1>2 DEF Apart

LEMMA WriteKeepsOneEach ==
    ASSUME DistinctKeys, NEW doc, NEW plan, NEW batch, NEW new,
           Writing(doc, plan, batch, new)
    PROVE  StoreType' /\ OneEach'
<1>1. StoreType'
    BY Origin DEF Writing, Persist, StoreType
<1>2. ASSUME NEW m \in Ids, NEW n \in Ids, Present(m)', Present(n)',
             Key(m)' = Key(n)', ~(Present(m) /\ Key(m)' = Key(m))
      PROVE  m = n
    <2>1. PICK o \in batch : /\ o.kind = "insert" /\ new[o] = m
                             /\ Key(m)' = SourceHash(o.chunk)
        BY <1>2, Origin
    <2>2. \A k \in Ids : Present(k) => Key(k) # SourceHash(o.chunk)
        BY <2>1 DEF Writing, OpFits
    <2>3. PICK p \in batch : /\ p.kind = "insert" /\ new[p] = n
                             /\ Key(n)' = SourceHash(p.chunk)
        <3>1. ~(Present(n) /\ Key(n)' = Key(n))
            BY <1>2, <2>1, <2>2
        <3> QED
            BY <1>2, <3>1, Origin
    <2>4. p \in plan /\ o \in plan /\ doc \in Documents /\ Apart(plan)
          /\ (\A q \in plan : OpFits(q, doc))
        BY DEF Writing
    <2>5. SourceHash(o.chunk) = SourceHash(p.chunk)
        BY <1>2, <2>1, <2>3
    <2>6. o = p
        BY <2>1, <2>3, <2>4, <2>5, KeysApart
    <2> QED
        BY <2>1, <2>3, <2>6
<1>3. ASSUME NEW m \in Ids, NEW n \in Ids, Present(m)', Present(n)',
             Key(m)' = Key(n)'
      PROVE  m = n
    <2>1. CASE Present(m) /\ Key(m)' = Key(m) /\ Present(n) /\ Key(n)' = Key(n)
        BY <1>3, <2>1 DEF Writing, OneEach
    <2> QED
        BY <1>2, <1>3, <2>1
<1> QED
    BY <1>1, <1>3 DEF OneEach

(* What is left of the plan still fits. *)
LEMMA WriteKeepsFit ==
    ASSUME DistinctKeys, NEW doc, NEW plan, NEW batch, NEW new,
           Writing(doc, plan, batch, new), NEW o \in plan \ batch
    PROVE  OpFits(o, doc)'
<1>1. OpFits(o, doc)
    BY DEF Writing
<1>2. CASE o.kind = "insert"
    <2>1. ASSUME NEW m \in Ids, Present(m)', Key(m)' = SourceHash(o.chunk)
          PROVE  FALSE
        <3>1. ~(Present(m) /\ Key(m)' = Key(m))
            BY <1>1, <1>2, <2>1 DEF OpFits
        <3>2. PICK p \in batch : p.kind = "insert" /\
                                 Key(m)' = SourceHash(p.chunk)
            BY <2>1, <3>1, Origin
        <3>3. p \in plan /\ doc \in Documents /\ Apart(plan)
              /\ (\A q \in plan : OpFits(q, doc))
            BY DEF Writing
        <3>4. o = p
            BY <1>2, <2>1, <3>2, <3>3, KeysApart
        <3> QED
            BY <3>4
    <2> QED
        BY <1>1, <1>2, <2>1 DEF OpFits, Key, Present
<1>3. CASE o.kind # "insert"
    <2>1. o.id \in Ids /\ store[o.id] # Unused
        BY <1>1, <1>3 DEF OpFits
    <2>2. /\ store'[o.id] # Unused
          /\ Present(o.id)' => Present(o.id) /\ Key(o.id)' = Key(o.id)
        BY <2>1, Origin
    <2> QED
        BY <1>1, <1>3, <2>2 DEF OpFits, Key, Present
<1> QED
    BY <1>2, <1>3

(* What the plan wanted of the document is there once it is written, and   *)
(* the batch disturbs nothing that was as the document wants it.           *)
LEMMA WriteSettles ==
    ASSUME DistinctKeys, NEW doc, NEW plan, NEW batch, NEW new,
           Writing(doc, plan, batch, new), RestSettled(doc, plan)
    PROVE  RestSettled(doc, plan \ batch)'
<1>0. /\ doc \in Documents /\ batch \in SUBSET Ops /\ plan \in SUBSET Ops
      /\ batch \subseteq plan
      /\ \A o \in plan : OpFits(o, doc)
    BY DEF Writing
<1>1. \A o \in batch : o.kind # "remove" =>
        \E m \in Ids : store'[m] = Written(o)
    <2>1. \A o \in plan : o.pos \in Nat /\ (o.kind # "insert" => o.id \in Ids)
        BY <1>0 DEF OpFits, Ops
    <2> QED
        BY <1>0, <2>1, BatchEffect DEF Writing
<1>2. ASSUME NEW o \in batch, NEW m \in Ids, store'[m] = Written(o),
             o.kind # "remove"
      PROVE  Shows(doc[o.pos])'
    <2>1. /\ store'[m] \in Record /\ store'[m].chunk = o.chunk
          /\ store'[m].status = "active" /\ store'[m].shown
          /\ store'[m].redacted = {}
        BY <1>0, <1>2, WrittenRecord
    <2>2. o.chunk = doc[o.pos]
        BY <1>0, <1>2 DEF OpFits
    <2> QED
        BY <2>1, <2>2, AbsentAssumption
           DEF Shows, SameHashes, Visible, Present, Key
<1>3. ASSUME NEW i \in DOMAIN doc, Shows(doc[i])
      PROVE  Shows(doc[i])'
    <2>1. PICK m \in Ids : /\ Visible(m) /\ Key(m) = SourceHash(doc[i])
                           /\ SameHashes(store[m], doc[i])
        BY <1>3 DEF Shows
    <2>2. Present(m) /\ Key(m) \in Keys(doc)
        BY <2>1 DEF Visible, Keys
    <2>3. CASE store'[m] = store[m]
        BY <2>1, <2>3 DEF Shows, SameHashes, Visible, Present, Key
    <2>4. ASSUME NEW o \in batch, o.kind = "replace",
                 Key(m) = SourceHash(o.chunk), store'[m] = Written(o)
          PROVE  Shows(doc[i])'
        <3>1. o.pos \in DOMAIN doc /\ o.chunk = doc[o.pos]
            BY <1>0, <2>4 DEF OpFits
        <3>2. o.pos = i
            BY <1>0, <2>1, <2>4, <3>1 DEF DistinctKeys
        <3> QED
            BY <1>2, <2>4, <3>2
    <2> QED
        BY <2>2, <2>3, <2>4, Effect DEF Present
<1>4. ASSUME NEW i \in DOMAIN doc
      PROVE  \/ \E o \in plan \ batch : o.kind # "remove" /\ o.pos = i
             \/ Shows(doc[i])'
    <2>1. CASE Shows(doc[i])
        BY <1>3, <2>1
    <2>2. CASE \E o \in plan : o.kind # "remove" /\ o.pos = i
        BY <1>1, <1>2, <2>2
    <2> QED
        BY <2>1, <2>2 DEF RestSettled
<1>5. ASSUME NEW m \in Ids, Present(m)', Key(m)' \notin Keys(doc)
      PROVE  \/ \E o \in plan \ batch : o.kind = "remove" /\ o.id = m
             \/ store'[m].status \in {"removed", "deleted"}
    <2>1. Present(m) /\ Key(m)' = Key(m)
        <3>1. \A o \in batch : o.kind = "insert" =>
                SourceHash(o.chunk) \in Keys(doc)
            BY <1>0 DEF OpFits, Keys
        <3> QED
            BY <1>5, <3>1, Origin
    <2>2. CASE \E o \in batch : /\ o.kind = "remove" /\ o.id = m
                                /\ store'[m] = Removed(store[m])
        <3>1. store[m] \in Record
            BY <2>1, PresentRecord DEF Writing
        <3>2. store'[m] # Gone
            BY <1>5 DEF Present
        <3> QED
            BY <2>2, <3>1, <3>2, RemovedRecord
    <2>3. CASE /\ store'[m] = store[m]
               /\ \A o \in batch : ~Target(o, new, m)
        <3>1. \/ \E o \in plan : o.kind = "remove" /\ o.id = m
              \/ store[m].status \in {"removed", "deleted"}
            BY <1>5, <2>1 DEF RestSettled
        <3> QED
            BY <2>3, <3>1 DEF Target
    <2>4. \A o \in batch : o.kind = "replace" =>
            SourceHash(o.chunk) \in Keys(doc)
        BY <1>0 DEF OpFits, Keys
    <2> QED
        BY <1>5, <2>1, <2>2, <2>3, <2>4, Effect DEF Present
<1> QED
    BY <1>4, <1>5 DEF RestSettled

LEMMA CommitKeepsAlone ==
    ASSUME DistinctKeys, Alone, NEW w \in Workers, Commit(w)
    PROVE  Alone'
<1>1. Fits(job[w]) /\ Busy(w)
    BY DEF Alone, Commit, Busy
<1>2. PICK j \in Jobs : job[w] = j
    BY <1>1 DEF Fits
<1>3. PICK doc \in Documents, plan \in SUBSET Ops, dirty \in BOOLEAN :
        j = [doc |-> doc, plan |-> plan, dirty |-> dirty]
    BY DEF Jobs
<1>4. j.doc = doc /\ j.plan = plan /\ j.dirty = dirty
    BY <1>3
<1>5. PICK batch \in SUBSET plan :
        /\ Lookup(batch)
        /\ \E new \in NewIds(batch) : Persist(batch, new)
        /\ job' = [v \in Workers |->
                     IF v = w THEN Committed(j, plan \ batch)
                     ELSE Disturbed(job[v])]
        /\ synced' = IF plan \ batch = {} /\ ~dirty THEN doc ELSE None
    BY <1>2, <1>4 DEF Commit, Batches, Persist, Target
<1>6. PICK new \in NewIds(batch) : Persist(batch, new)
    BY <1>5
<1> DEFINE rest == plan \ batch
<1>7. Writing(doc, plan, batch, new)
    BY <1>1, <1>2, <1>4, <1>5, <1>6 DEF Writing, Alone, Fits
<1>8. StoreType' /\ OneEach'
    BY <1>7, WriteKeepsOneEach
<1>9. ~dirty => RestSettled(doc, rest)'
    BY <1>1, <1>2, <1>4, <1>7, WriteSettles DEF Fits
<1>10. synced' \in Documents \cup {None} /\ (synced' # None => Settled(synced)')
    <2>1. CASE rest = {} /\ ~dirty
        <3>1. RestSettled(doc, {})'
            BY <1>9, <2>1
        <3>2. Settled(doc)'
            BY <3>1 DEF RestSettled, Settled
        <3>3. synced' = doc
            BY <1>5, <2>1
        <3> QED
            BY <3>2, <3>3 DEF Settled
    <2> QED
        BY <1>5, <2>1
<1>11. ASSUME NEW v \in Workers, v # w
       PROVE  job'[v] = Idle
    <2>1. job[v] = Idle
        BY <1>1, <1>11 DEF Alone, Busy
    <2> QED
        BY <1>5, <1>11, <2>1 DEF Disturbed
<1>12. CASE rest = {}
    <2>1. job'[w] = Idle
        BY <1>5, <1>12 DEF Committed
    <2> QED
        BY <1>5, <1>8, <1>10, <1>11, <2>1 DEF Alone, Busy
<1>13. CASE rest # {}
    <2>1. job'[w] = [doc |-> doc, plan |-> rest, dirty |-> dirty]
        BY <1>3, <1>5, <1>13 DEF Committed
    <2>2. PICK k \in Jobs :
            /\ k = [doc |-> doc, plan |-> rest, dirty |-> dirty]
            /\ k.doc = doc /\ k.plan = rest /\ k.dirty = dirty
        <3> DEFINE k == [doc |-> doc, plan |-> rest, dirty |-> dirty]
        <3>1. k \in Jobs
            <4>1. rest \in SUBSET Ops
                OBVIOUS
            <4> HIDE DEF rest
            <4> QED
                BY <4>1 DEF Jobs
        <3>2. k.doc = doc /\ k.plan = rest /\ k.dirty = dirty
            OBVIOUS
        <3> QED
            BY <3>1, <3>2
    <2>3. \A o \in rest : OpFits(o, doc)'
        BY <1>7, WriteKeepsFit
    <2>4. Apart(rest)
        BY <1>1, <1>2, <1>4 DEF Fits, Apart
    <2> HIDE DEF rest
    <2>5. Fits(k)'
        BY <1>9, <2>2, <2>3, <2>4 DEF Fits
    <2>6. Fits(job[w])'
        BY <2>1, <2>2, <2>5 DEF Fits
    <2>7. \A u, v \in Workers : Busy(u)' /\ Busy(v)' => u = v
        BY <1>11 DEF Busy
    <2>8. \A v \in Workers : Busy(v)' => Fits(job[v])'
        BY <1>11, <2>6 DEF Busy
    <2>9. DOMAIN job' = Workers
        BY <1>5
    <2> QED
        BY <1>8, <1>10, <2>7, <2>8, <2>9 DEF Alone
<1> QED
    BY <1>12, <1>13

-----------------------------------------------------------------------------
(* The other actions.                                                      *)

LEMMA FitsStays ==
    ASSUME NEW o, NEW doc, OpFits(o, doc),
           \A m \in Ids : /\ store[m] # Unused => store'[m] # Unused
                          /\ Present(m)' => Present(m) /\ Key(m)' = Key(m)
    PROVE  OpFits(o, doc)'
    BY DEF OpFits, Key, Present

(* A plan fits also after somebody else has written, as one that is dirty. *)
LEMMA DisturbedFits ==
    ASSUME Alone, NEW w \in Workers, Busy(w)',
           job' = [v \in Workers |-> Disturbed(job[v])],
           \A m \in Ids : /\ store[m] # Unused => store'[m] # Unused
                          /\ Present(m)' => Present(m) /\ Key(m)' = Key(m)
    PROVE  Busy(w) /\ Fits(job[w])'
<1>1. job'[w] = Disturbed(job[w])
    OBVIOUS
<1>2. Busy(w) /\ job'[w] = [job[w] EXCEPT !.dirty = TRUE]
    BY <1>1 DEF Disturbed, Busy
<1>3. PICK j \in Jobs : job[w] = j /\ Fits(job[w])
    BY <1>2 DEF Alone, Fits
<1>4. PICK k \in Jobs : /\ job'[w] = k
                        /\ k.doc = j.doc /\ k.plan = j.plan /\ k.dirty
    BY <1>2, <1>3 DEF Jobs
<1>5. \A o \in k.plan : OpFits(o, k.doc)'
    BY <1>3, <1>4, FitsStays DEF Fits
<1>6. Apart(k.plan)
    BY <1>3, <1>4 DEF Fits
<1> QED
    BY <1>2, <1>4, <1>5, <1>6 DEF Fits

LEMMA PrivacyRecord ==
    ASSUME NEW r \in Record, NEW s \in Statuses
    PROVE  /\ [r EXCEPT !.status = s, !.shown = FALSE] \in Record
           /\ [r EXCEPT !.shown = FALSE] \in Record
           /\ [r EXCEPT !.status = s, !.shown = FALSE].chunk = r.chunk
           /\ [r EXCEPT !.shown = FALSE].chunk = r.chunk
    BY DEF Record

LEMMA PrivacyWrites ==
    ASSUME StoreType, NEW op \in PrivacyOps, Privacy(op), NEW m \in Ids
    PROVE  \/ store'[m] = store[m]
           \/ /\ Present(m)
              /\ \/ store'[m] = Gone
                 \/ store'[m] \in Record /\ store'[m].chunk = store[m].chunk
<1>1. CASE store'[m] = store[m]
    BY <1>1
<1>2. CASE store'[m] # store[m]
    <2>1. /\ Present(m)
          /\ \/ \E s \in Statuses :
                  store'[m] = [store[m] EXCEPT !.status = s, !.shown = FALSE]
             \/ store'[m] = [store[m] EXCEPT !.shown = FALSE]
             \/ store'[m] = Gone
        <3>1. CASE op = "forget_by_user"
            BY <1>2, <3>1 DEF Privacy, Statuses
        <3>2. CASE op = "soft_delete"
            BY <1>2, <3>2 DEF Privacy, Statuses
        <3>3. CASE op = "disable"
            BY <1>2, <3>3 DEF Privacy
        <3>4. CASE op = "hard_delete"
            BY <1>2, <3>4 DEF Privacy
        <3> QED
            BY <3>1, <3>2, <3>3, <3>4 DEF PrivacyOps
    <2>2. PICK r \in Record : store[m] = r
        BY <2>1, PresentRecord
    <2>3. ASSUME NEW s \in Statuses,
                 store'[m] = [r EXCEPT !.status = s, !.shown = FALSE]
          PROVE  store'[m] \in Record /\ store'[m].chunk = r.chunk
        BY <2>3, PrivacyRecord
    <2>4. ASSUME store'[m] = [r EXCEPT !.shown = FALSE]
          PROVE  store'[m] \in Record /\ store'[m].chunk = r.chunk
        BY <2>4 DEF Record
    <2> QED
        BY <2>1, <2>2, <2>3, <2>4
<1> QED
    BY <1>1, <1>2

LEMMA PrivacyKeepsAlone ==
    ASSUME Alone, NEW op \in PrivacyOps, Privacy(op)
    PROVE  Alone'
<1>1. \A m \in Ids :
        /\ store'[m] \in Record \cup {Unused, Gone}
        /\ store[m] # Unused => store'[m] # Unused
        /\ Present(m)' => Present(m) /\ Key(m)' = Key(m)
    BY PrivacyWrites, AbsentAssumption DEF Alone, StoreType, Present, Key
<1>2. StoreType' /\ OneEach'
    <2>1. store' = [m \in Ids |-> store'[m]]
        BY DEF Privacy
    <2> QED
        BY <1>1, <2>1 DEF Alone, StoreType, OneEach
<1>3. ASSUME NEW w \in Workers, Busy(w)'
      PROVE  Busy(w) /\ Fits(job[w])'
    BY <1>1, <1>3, DisturbedFits DEF Privacy
<1>4. synced' = None /\ DOMAIN job' = Workers
    BY DEF Privacy
<1> QED
    BY <1>2, <1>3, <1>4 DEF Alone

(* A redacted record keeps what its key is computed from, and whether      *)
(* searches return it.                                                     *)
LEMMA RedactWrites ==
    ASSUME StoreType, NEW pattern \in Patterns, Redact(pattern), NEW m \in Ids
    PROVE  \/ store'[m] = store[m]
           \/ /\ Present(m)
              /\ store'[m] \in Record /\ store'[m].chunk = store[m].chunk
              /\ store'[m].status = store[m].status
              /\ store'[m].shown = store[m].shown
<1>1. CASE store'[m] = store[m]
    BY <1>1
<1>2. CASE store'[m] # store[m]
    <2>1. /\ Present(m)
          /\ \E fields \in SUBSET {"text", "hash"} :
               store'[m] = [store[m] EXCEPT !.redacted = @ \cup fields]
        BY <1>2 DEF Redact
    <2>2. PICK r \in Record : store[m] = r
        BY <2>1, PresentRecord
    <2>3. PICK fields \in SUBSET {"text", "hash"} :
             store'[m] = [r EXCEPT !.redacted = @ \cup fields]
        BY <2>1, <2>2
    <2>4. r.redacted \cup fields \in SUBSET {"text", "hash"}
        BY DEF Record
    <2> QED
        BY <2>1, <2>2, <2>3, <2>4 DEF Record
<1> QED
    BY <1>1, <1>2

LEMMA RedactKeepsAlone ==
    ASSUME Alone, NEW pattern \in Patterns, Redact(pattern)
    PROVE  Alone'
<1>1. \A m \in Ids :
        /\ store'[m] \in Record \cup {Unused, Gone}
        /\ store[m] # Unused => store'[m] # Unused
        /\ Present(m)' => Present(m) /\ Key(m)' = Key(m)
    BY RedactWrites, AbsentAssumption DEF Alone, StoreType, Present, Key
<1>2. StoreType' /\ OneEach'
    <2>1. store' = [m \in Ids |-> store'[m]]
        BY DEF Redact
    <2> QED
        BY <1>1, <2>1 DEF Alone, StoreType, OneEach
<1>3. ASSUME NEW w \in Workers, Busy(w)'
      PROVE  Busy(w) /\ Fits(job[w])'
    BY <1>1, <1>3, DisturbedFits DEF Redact
<1>4. synced' = None /\ DOMAIN job' = Workers
    BY DEF Redact
<1> QED
    BY <1>2, <1>3, <1>4 DEF Alone

LEMMA FailKeepsAlone ==
    ASSUME Alone, NEW w \in Workers, Fail(w)
    PROVE  Alone'
<1>1. store' = store /\ synced' = synced
    BY DEF Fail
<1>2. ASSUME NEW v \in Workers
      PROVE  job'[v] = job[v] \/ job'[v] = Idle
    BY DEF Fail, Alone
<1>3. StoreType' /\ OneEach' /\ DOMAIN job' = Workers
    BY <1>1 DEF Alone, StoreType, OneEach, Present, Key, Fail
<1>4. \A v \in Workers : Busy(v)' => Busy(v) /\ Fits(job[v])'
    BY <1>1, <1>2 DEF Busy, Alone, Fits, OpFits, RestSettled, Shows, SameHashes, Visible,
                      Present, Key
<1>5. synced' # None => Settled(synced)'
    BY <1>1 DEF Alone, Settled, Shows, SameHashes, Visible, Present, Key
<1> QED
    BY <1>1, <1>3, <1>4, <1>5 DEF Alone

LEMMA PlanKeepsAlone ==
    ASSUME DistinctKeys, Alone, NEW w \in Workers, NEW doc \in Documents,
           Plan(w, doc), ~raced'
    PROVE  Alone'
<1> DEFINE plan == PlanFor(doc)
<1>1. /\ plan \in SUBSET Ops
      /\ \A o \in plan : OpFits(o, doc)
      /\ Apart(plan)
      /\ RestSettled(doc, plan)
    BY PlanFits DEF Alone
<1>2. store' = store
    BY DEF Plan
<1>3. StoreType' /\ OneEach'
    BY <1>2 DEF Alone, StoreType, OneEach, Present, Key
<1>4. CASE plan = {}
    <2>1. synced' = doc /\ job' = job
        BY <1>4 DEF Plan
    <2>2. Settled(doc)
        BY <1>1, <1>4, SettledWhenNothingLeft
    <2>3. Settled(synced)'
        BY <1>2, <2>1, <2>2 DEF Settled, Shows, SameHashes, Visible, Present, Key
    <2>4. \A v \in Workers : Busy(v)' => Busy(v) /\ Fits(job[v])'
        BY <1>2, <2>1 DEF Busy, Alone, Fits, OpFits, RestSettled, Shows,
                          SameHashes, Visible, Present, Key
    <2> QED
        BY <1>3, <2>1, <2>3, <2>4 DEF Alone
<1>5. CASE plan # {}
    <2>1. /\ job' = [job EXCEPT ![w] =
                       [doc |-> doc, plan |-> plan, dirty |-> FALSE]]
          /\ synced' = synced
          /\ \A v \in Workers : job[v] = Idle
        BY <1>5 DEF Plan
    <2>2. PICK p \in SUBSET Ops : p = plan
        BY <1>1
    <2>3. PICK k \in Jobs :
            /\ k = [doc |-> doc, plan |-> p, dirty |-> FALSE]
            /\ k.doc = doc /\ k.plan = p /\ k.dirty = FALSE
        <3> DEFINE k == [doc |-> doc, plan |-> p, dirty |-> FALSE]
        <3>1. k \in Jobs
            BY DEF Jobs
        <3>2. k.doc = doc /\ k.plan = p /\ k.dirty = FALSE
            OBVIOUS
        <3> QED
            BY <3>1, <3>2
    <2>4. job'[w] = k
        BY <2>1, <2>2, <2>3 DEF Alone
    <2>5. \A v \in Workers : Busy(v)' => v = w
        BY <2>1 DEF Busy, Alone
    <2> HIDE DEF plan
    <2>6. (\A o \in p : OpFits(o, doc)') /\ Apart(p) /\ RestSettled(doc, p)'
        BY <1>1, <1>2, <2>2 DEF OpFits, RestSettled, Shows, SameHashes, Visible,
                                Present, Key
    <2>7. Fits(job[w])'
        BY <2>3, <2>4, <2>6 DEF Fits
    <2>8. synced' # None => Settled(synced)'
        BY <1>2, <2>1 DEF Alone, Settled, Shows, SameHashes, Visible, Present, Key
    <2>9. synced' \in Documents \cup {None} /\ DOMAIN job' = Workers
        BY <2>1 DEF Alone
    <2> QED
        BY <1>3, <2>5, <2>7, <2>8, <2>9 DEF Alone
<1> QED
    BY <1>4, <1>5

(* Renumbering changes the positions, which are not part of any key. *)
LEMMA ReopenRenumbers ==
    ASSUME StoreType, Reopen, NEW m \in Ids
    PROVE  /\ ~Present(m) => store'[m] = store[m]
           /\ Present(m) => /\ store'[m] \in Record
                            /\ store'[m].chunk = store[m].chunk
                            /\ store'[m].status = store[m].status
                            /\ store'[m].shown = store[m].shown
                            /\ store'[m].redacted = store[m].redacted
<1> DEFINE others == {n \in Ids : Present(n) /\ SectionBefore(n, m)}
<1>1. IsFiniteSet(others)
    BY IngestAssumption, FS_Subset
<1>2. Cardinality(others) \in Nat
    BY <1>1, FS_CardinalityType
<1>3. store'[m] = IF ~Present(m) THEN store[m]
                  ELSE [store[m] EXCEPT !.pos = 1 + Cardinality(others)]
    BY DEF Reopen
<1> HIDE DEF others
<1>4. CASE Present(m)
    <2>1. store[m] \in Record
        BY <1>4, PresentRecord
    <2> QED
        BY <1>2, <1>3, <1>4, <2>1 DEF Record
<1> QED
    BY <1>3, <1>4

LEMMA ReopenKeepsAlone ==
    ASSUME Alone, Reopen
    PROVE  Alone'
<1>1. ASSUME NEW m \in Ids
      PROVE  /\ ~Present(m) => store'[m] = store[m]
             /\ Present(m) => /\ store'[m] \in Record
                              /\ store'[m].chunk = store[m].chunk
                              /\ store'[m].status = store[m].status
                              /\ store'[m].shown = store[m].shown
                              /\ store'[m].redacted = store[m].redacted
    BY ReopenRenumbers DEF Alone
<1>2. \A m \in Ids : /\ Present(m)' <=> Present(m)
                     /\ Present(m) => Key(m)' = Key(m)
                     /\ Visible(m)' <=> Visible(m)
    BY <1>1, AbsentAssumption DEF Present, Key, Visible
<1>3. StoreType' /\ OneEach'
    <2>1. store' = [m \in Ids |-> store'[m]]
        BY DEF Reopen
    <2>2. \A m \in Ids : store'[m] \in Record \cup {Unused, Gone}
        BY <1>1 DEF Alone, StoreType
    <2> QED
        BY <1>2, <2>1, <2>2 DEF Alone, StoreType, OneEach
<1>4. job' = job /\ synced' = synced /\ \A w \in Workers : ~Busy(w)
    BY DEF Reopen, Busy
<1>5. ASSUME synced # None
      PROVE  Settled(synced)'
    <2>1. PICK doc \in Documents : doc = synced /\ Settled(doc)
        BY <1>5 DEF Alone
    <2>2. \A i \in DOMAIN doc : Shows(doc[i])'
        BY <1>1, <1>2, <2>1 DEF Settled, Shows, SameHashes, Visible
    <2>3. \A m \in Ids : Present(m)' /\ Key(m)' \notin Keys(doc)
            => store'[m].status \in {"removed", "deleted"}
        BY <1>1, <1>2, <2>1 DEF Settled
    <2> QED
        BY <1>4, <2>1, <2>2, <2>3 DEF Settled
<1> QED
    BY <1>3, <1>4, <1>5 DEF Alone, Busy

LEMMA IInvInit ==
    ASSUME Init
    PROVE  IInv
<1>1. StoreType /\ OneEach /\ \A w \in Workers : ~Busy(w)
    BY DEF Init, StoreType, OneEach, Present, Busy
<1> QED
    BY <1>1 DEF Init, IInv, Alone

LEMMA IInvStep ==
    ASSUME DistinctKeys, IInv, [Next]_vars
    PROVE  IInv'
<1>1. raced' \in BOOLEAN /\ (raced => raced')
    BY DEF IInv, Next, vars, Plan, Commit, Fail, Privacy, Redact, Reopen
<1>2. SUFFICES ASSUME Alone, ~raced'
               PROVE  Alone'
    BY <1>1 DEF IInv
<1>3. ASSUME NEW w \in Workers, NEW doc \in Documents, Plan(w, doc)
      PROVE  Alone'
    BY <1>2, <1>3, PlanKeepsAlone
<1>4. ASSUME NEW w \in Workers, Commit(w)
      PROVE  Alone'
    BY <1>2, <1>4, CommitKeepsAlone
<1>5. ASSUME NEW w \in Workers, Fail(w)
      PROVE  Alone'
    BY <1>2, <1>5, FailKeepsAlone
<1>6. ASSUME NEW op \in PrivacyOps, Privacy(op)
      PROVE  Alone'
    BY <1>2, <1>6, PrivacyKeepsAlone
<1>7. CASE Reopen
    BY <1>2, <1>7, ReopenKeepsAlone
<1>8. ASSUME NEW pattern \in Patterns, Redact(pattern)
      PROVE  Alone'
    BY <1>2, <1>8, RedactKeepsAlone
<1>9. CASE UNCHANGED vars
    BY <1>2, <1>9 DEF vars, Alone, StoreType, OneEach, Busy, Fits, OpFits,
         RestSettled, Settled, Shows, SameHashes, Visible, Present, Key
<1> QED
    BY <1>3, <1>4, <1>5, <1>6, <1>7, <1>8, <1>9 DEF Next

LEMMA Invariance ==
    ASSUME DistinctKeys
    PROVE  Spec => []IInv
<1>1. Init => IInv
    BY IInvInit
<1>2. IInv /\ [Next]_vars => IInv'
    BY IInvStep
<1> QED
    BY <1>1, <1>2, PTL DEF Spec

-----------------------------------------------------------------------------
(* Any number of workers, and any keys.  What follows holds in all         *)
(* executions: a record keeps its key as long as it is there, so that a    *)
(* plan, however late it is committed, replaces chunks by chunks under the *)
(* same key and removes none that its document has.                        *)

(* Any set of naturals has a least member, and any set of finite sets one  *)
(* that contains no other: what stands for induction below.                *)
LEMMA LeastNatural ==
    ASSUME NEW S \in SUBSET Nat, S # {}
    PROVE  \E n \in S : \A k \in S : n <= k
<1>1. PICK n \in S : \A k \in S : <<k, n>> \notin OpToRel(<, Nat)
    BY NatLessThanWellFounded, WFMin
<1>2. \A k \in S : ~(k < n)
    BY <1>1 DEF OpToRel
<1> QED
    BY <1>2

LEMMA LeastSubset ==
    ASSUME NEW S, IsFiniteSet(S), NEW T \in SUBSET SUBSET S, T # {}
    PROVE  \E U \in T : \A V \in T : V \subseteq U => V = U
<1>1. IsWellFoundedOn(StrictSubsetOrdering(S), SUBSET S)
    BY FS_FiniteSubsetsOfFinite, FS_StrictSubsetOrderingWellFounded
<1>2. PICK U \in T : \A V \in T : <<V, U>> \notin StrictSubsetOrdering(S)
    BY <1>1, WFMin
<1> QED
    BY <1>2 DEF StrictSubsetOrdering

(* However many records share a key, one of them is listed last. *)
LEMMA ExistingIsStored ==
    ASSUME StoreType, NEW key, Known(key)
    PROVE  Existing(key) \in StoredUnder(key)
<1> DEFINE IsLast(m, U) == m \in U /\ \A n \in U \ {m} : ListedBefore(n, m)
           Endless == {U \in SUBSET StoredUnder(key) :
                         U # {} /\ \A m \in U : ~IsLast(m, U)}
<1>1. ASSUME NEW m \in StoredUnder(key)
      PROVE  /\ m \in Nat /\ store[m].pos \in Nat
             /\ store[m].chunk.section \in Nat
    <2>1. m \in Ids /\ Present(m)
        BY DEF StoredUnder
    <2>2. store[m].pos \in Nat /\ store[m].chunk \in Chunks
        BY <2>1, PresentRecord DEF Record
    <2>3. PICK doc \in Documents : \E i \in DOMAIN doc : store[m].chunk = doc[i]
        BY <2>2 DEF Chunks
    <2> QED
        BY <2>1, <2>2, <2>3, IngestAssumption
<1>2. ASSUME NEW m \in StoredUnder(key), NEW n \in StoredUnder(key), m # n
      PROVE  ListedBefore(m, n) \/ ListedBefore(n, m)
    BY <1>1, <1>2 DEF ListedBefore
<1>3. ASSUME NEW l \in StoredUnder(key), NEW m \in StoredUnder(key),
             NEW n \in StoredUnder(key), ListedBefore(l, m), ListedBefore(m, n)
      PROVE  ListedBefore(l, n)
    BY <1>1, <1>3 DEF ListedBefore
<1>4. ASSUME Endless # {}
      PROVE  FALSE
    <2>1. IsFiniteSet(StoredUnder(key))
        <3>1. StoredUnder(key) \in SUBSET Ids
            BY DEF StoredUnder
        <3> QED
            BY <3>1, IngestAssumption, FS_Subset
    <2>2. PICK U \in Endless : \A V \in Endless : V \subseteq U => V = U
        <3>1. Endless \in SUBSET SUBSET StoredUnder(key)
            OBVIOUS
        <3> HIDE DEF Endless
        <3> QED
            BY <1>4, <2>1, <3>1, LeastSubset
    <2>3. PICK x \in U : TRUE
        BY <2>2
    <2>4. U \ {x} \notin Endless
        BY <2>2, <2>3
    <2>5. CASE U \ {x} = {}
        BY <2>2, <2>3, <2>5
    <2>6. CASE U \ {x} # {}
        <3>1. PICK y \in U \ {x} : IsLast(y, U \ {x})
            BY <2>2, <2>4, <2>6
        <3>2. CASE ListedBefore(x, y)
            <4>1. IsLast(y, U)
                BY <3>1, <3>2
            <4> QED
                BY <2>2, <4>1
        <3>3. CASE ListedBefore(y, x)
            <4>1. \A n \in U \ {x} : ListedBefore(n, x)
                <5> TAKE n \in U \ {x}
                <5>1. n = y \/ ListedBefore(n, y)
                    BY <3>1
                <5> QED
                    BY <1>3, <2>2, <2>3, <3>1, <3>3, <5>1
            <4> QED
                BY <2>2, <2>3, <4>1
        <3> QED
            BY <1>2, <2>2, <2>3, <3>1, <3>2, <3>3
    <2> QED
        BY <2>5, <2>6
<1>5. PICK m \in StoredUnder(key) : IsLast(m, StoredUnder(key))
    BY <1>4 DEF Known
<1>6. \E n \in StoredUnder(key) :
        \A l \in StoredUnder(key) \ {n} : ListedBefore(l, n)
    BY <1>5
<1> HIDE DEF IsLast, Endless
<1> QED
    BY <1>6 DEF Existing

OpKeyed(o, doc) ==
    \/ /\ o.kind = "insert"
       /\ o.pos \in DOMAIN doc /\ o.chunk = doc[o.pos]
    \/ /\ o.kind = "replace" /\ o.id \in Ids /\ store[o.id] # Unused
       /\ o.pos \in DOMAIN doc /\ o.chunk = doc[o.pos]
       /\ Present(o.id) => Key(o.id) = SourceHash(o.chunk)
    \/ /\ o.kind = "remove" /\ o.id \in Ids /\ store[o.id] # Unused
       /\ o.pos = 0
       /\ Present(o.id) => Key(o.id) \notin Keys(doc)

JobKeyed(j) ==
    /\ j \in Jobs /\ j.plan # {}
    /\ \A o \in j.plan : OpKeyed(o, j.doc)

(* The invariant of all executions. *)
Keyed ==
    /\ StoreType
    /\ synced \in Documents \cup {None}
    /\ raced \in BOOLEAN
    /\ DOMAIN job = Workers
    /\ \A w \in Workers : Busy(w) => JobKeyed(job[w])

(* An id that was used is not used again for another key. *)
KeysKept ==
    \A m \in Ids : store[m] # Unused =>
      /\ store'[m] # Unused
      /\ Present(m)' => Present(m) /\ Key(m)' = Key(m)

LEMMA JobStaysKeyed ==
    ASSUME KeysKept, NEW j, JobKeyed(j)
    PROVE  JobKeyed(j)'
<1>1. ASSUME NEW o \in j.plan
      PROVE  OpKeyed(o, j.doc)'
    BY <1>1 DEF JobKeyed, OpKeyed, KeysKept
<1> QED
    BY <1>1 DEF JobKeyed

LEMMA PlanIsKeyed ==
    ASSUME StoreType, NEW doc \in Documents, NEW o \in PlanFor(doc)
    PROVE  o \in Ops /\ OpKeyed(o, doc)
<1>1. ASSUME NEW key, Known(key)
      PROVE  /\ Existing(key) \in Ids /\ Present(Existing(key))
             /\ Key(Existing(key)) = key
    BY <1>1, ExistingIsStored DEF StoredUnder, Key
<1>2. CASE o \in Writes(doc)
    <2>1. o.pos \in Nat /\ o.chunk \in Chunks
        BY <1>2, WriteOps, PositionsAreNat
    <2> QED
        BY <1>1, <1>2, <2>1, WriteOps DEF OpKeyed, Ops, Present
<1>3. CASE o \notin Writes(doc)
    <2>1. PICK m \in Obsolete(doc) :
            o = [kind |-> "remove", id |-> m, chunk |-> store[m].chunk, pos |-> 0]
        BY <1>3 DEF PlanFor
    <2>2. PICK key \in StoredKeys \ Keys(doc) : m = Existing(key)
        BY <2>1 DEF Obsolete
    <2>3. Known(key)
        BY <2>2 DEF StoredKeys, Known, StoredUnder
    <2>4. m \in Ids /\ Present(m) /\ Key(m) = key
        BY <1>1, <2>2, <2>3
    <2>5. store[m].chunk \in Chunks
        BY <2>4, PresentRecord
    <2> QED
        BY <2>1, <2>2, <2>4, <2>5 DEF OpKeyed, Ops, Present
<1> QED
    BY <1>2, <1>3

LEMMA PlanKeepsKeyed ==
    ASSUME Keyed, NEW w \in Workers, NEW doc \in Documents, Plan(w, doc)
    PROVE  Keyed'
<1>1. store' = store /\ raced' \in BOOLEAN
    BY DEF Plan, Keyed
<1>2. CASE PlanFor(doc) = {}
    BY <1>1, <1>2 DEF Plan, Keyed, StoreType, Busy, JobKeyed, OpKeyed,
       Present, Key
<1>3. CASE PlanFor(doc) # {}
    <2> DEFINE j == [doc |-> doc, plan |-> PlanFor(doc), dirty |-> FALSE]
    <2>1. /\ job' = [job EXCEPT ![w] = j]
          /\ synced' = synced
        BY <1>3 DEF Plan
    <2>2. PlanFor(doc) \in SUBSET Ops /\ \A o \in PlanFor(doc) : OpKeyed(o, doc)
        BY PlanIsKeyed DEF Keyed
    <2>3. JobKeyed(j)
        BY <1>3, <2>2 DEF Jobs, JobKeyed
    <2> HIDE DEF j
    <2>4. \A v \in Workers : job'[v] = IF v = w THEN j ELSE job[v]
        BY <2>1 DEF Keyed
    <2>5. ASSUME NEW v \in Workers, Busy(v)'
          PROVE  JobKeyed(job'[v])
        BY <2>3, <2>4, <2>5 DEF Keyed, Busy
    <2>6. \A k : JobKeyed(k)' <=> JobKeyed(k)
        BY <1>1 DEF JobKeyed, OpKeyed, Present, Key
    <2>7. ASSUME NEW v \in Workers, Busy(v)'
          PROVE  JobKeyed(job[v])'
        <3>1. PICK k : k = job'[v]
            OBVIOUS
        <3>2. JobKeyed(k)'
            BY <2>5, <2>6, <2>7, <3>1
        <3> QED
            BY <3>1, <3>2 DEF JobKeyed
    <2>8. DOMAIN job' = Workers
        BY <2>1 DEF Keyed
    <2> QED
        BY <1>1, <2>1, <2>7, <2>8 DEF Keyed, StoreType
<1> QED
    BY <1>2, <1>3

(* Of several operations on a record one is the last. *)
LEMMA LastOperation ==
    ASSUME NEW doc \in Documents, NEW ops, ops # {},
           \A o \in ops : OpKeyed(o, doc)
    PROVE  Last(ops) \in ops
<1> DEFINE IsLast(o) == \A p \in ops : ~Before(o, p)
           n == Cardinality(DOMAIN doc)
<1>1. n \in Nat /\ DOMAIN doc = 1 .. n
    BY IngestAssumption, FS_CardinalityType
<1> HIDE DEF n
<1>2. ASSUME NEW same \in SUBSET ops, same # {}, \A o \in same : o.kind # "remove"
      PROVE  \E o \in same : \A p \in same : p.pos <= o.pos
    <2> DEFINE Bounds == {k \in Nat : \A o \in same : o.pos <= k}
    <2>1. \A o \in same : o.pos \in 1 .. n
        BY <1>1, <1>2 DEF OpKeyed
    <2>2. n \in Bounds
        BY <1>1, <2>1
    <2>3. PICK k \in Bounds : \A l \in Bounds : k <= l
        BY <2>2, LeastNatural
    <2>4. ASSUME \A o \in same : o.pos # k
          PROVE  FALSE
        <3>1. \A o \in same : o.pos <= k - 1
            BY <1>1, <2>1, <2>3, <2>4
        <3>2. k - 1 \in Bounds
            BY <1>1, <1>2, <2>1, <2>3, <3>1
        <3> QED
            BY <2>3, <3>2
    <2> QED
        BY <2>3, <2>4
<1>3. CASE \E o \in ops : o.kind = "remove"
    <2>1. PICK o \in ops : o.kind = "remove" /\ o.pos = 0
        BY <1>3 DEF OpKeyed
    <2>2. IsLast(o)
        BY <2>1 DEF Before, OpKeyed
    <2> QED
        BY <2>2, Zenon DEF Last
<1>4. CASE /\ \A o \in ops : o.kind # "remove"
           /\ \E o \in ops : o.kind = "replace"
    <2> DEFINE same == {o \in ops : o.kind = "replace"}
    <2>1. PICK o \in same : \A p \in same : p.pos <= o.pos
        BY <1>2, <1>4
    <2>2. \A p \in same : p.pos \in Nat
        BY <1>1 DEF OpKeyed
    <2>3. IsLast(o)
        BY <1>4, <2>1, <2>2 DEF Before
    <2> QED
        BY <2>1, <2>3, Zenon DEF Last
<1>5. CASE \A o \in ops : o.kind # "remove" /\ o.kind # "replace"
    <2>1. PICK o \in ops : \A p \in ops : p.pos <= o.pos
        BY <1>2, <1>5
    <2>2. \A p \in ops : p.pos \in Nat
        BY <1>1, <1>5 DEF OpKeyed
    <2>3. \A p \in ops : p.kind = "insert" /\ p.pos <= o.pos
        BY <1>5, <2>1 DEF OpKeyed
    <2>4. IsLast(o)
        BY <2>1, <2>2, <2>3 DEF Before
    <2> QED
        BY <2>1, <2>4, Zenon DEF Last
<1> QED
    BY <1>3, <1>4, <1>5

(* What one transaction makes of a record, whether or not its operations   *)
(* still fit the store.                                                    *)
LEMMA CommitOutcome ==
    ASSUME NEW doc \in Documents, NEW plan \in SUBSET Ops,
           \A o \in plan : OpKeyed(o, doc),
           NEW batch \in SUBSET plan, Lookup(batch),
           NEW new \in NewIds(batch), Persist(batch, new), NEW m \in Ids
    PROVE  \/ store'[m] = store[m]
           \/ \E o \in batch : /\ o.kind = "insert" /\ store[m] = Unused
                               /\ store'[m] = Written(o)
           \/ \E o \in batch : /\ o.kind = "replace" /\ o.id = m /\ Present(m)
                               /\ store'[m] = Written(o)
           \/ \E o \in batch : /\ o.kind = "remove" /\ o.id = m /\ Present(m)
                               /\ store'[m] = Removed(store[m])
<1> DEFINE ops == {o \in batch : Target(o, new, m)}
<1>1. store'[m] = Result(ops, store[m])
    BY DEF Persist
<1>2. CASE ops = {}
    BY <1>1, <1>2 DEF Result
<1>3. CASE ops # {}
    <2>1. \A o \in ops : o \in batch /\ Target(o, new, m) /\ OpKeyed(o, doc)
        OBVIOUS
    <2> HIDE DEF ops
    <2>2. Last(ops) \in ops
        BY <1>3, <2>1, LastOperation
    <2>3. PICK o \in ops : o = Last(ops)
        BY <2>2
    <2>4. store'[m] = IF o.kind = "remove" THEN Removed(store[m]) ELSE Written(o)
        BY <1>1, <1>3, <2>3 DEF Result
    <2>5. CASE o.kind = "insert"
        <3>1. store[new[o]] = Unused
            BY <2>1, <2>3, <2>5 DEF NewIds, Inserts
        <3> QED
            BY <2>1, <2>3, <2>4, <2>5, <3>1 DEF Target
    <2>6. CASE o.kind # "insert"
        <3>1. o.id = m /\ Present(m)
            BY <2>1, <2>3, <2>6 DEF Target, Lookup, Inserts
        <3> QED
            BY <2>1, <2>3, <2>4, <2>6, <3>1 DEF OpKeyed
    <2> QED
        BY <2>5, <2>6
<1> QED
    BY <1>2, <1>3

LEMMA CommitKeepsKeys ==
    ASSUME StoreType, NEW doc \in Documents, NEW plan \in SUBSET Ops,
           \A o \in plan : OpKeyed(o, doc),
           NEW batch \in SUBSET plan, Lookup(batch),
           NEW new \in NewIds(batch), Persist(batch, new)
    PROVE  StoreType' /\ KeysKept
<1>1. ASSUME NEW m \in Ids
      PROVE  /\ store'[m] \in Record \cup {Unused, Gone}
             /\ store[m] # Unused =>
                  /\ store'[m] # Unused
                  /\ Present(m)' => Present(m) /\ Key(m)' = Key(m)
    <2>1. store[m] \in Record \cup {Unused, Gone}
        BY DEF StoreType
    <2>2. CASE store'[m] = store[m]
        BY <2>1, <2>2 DEF Present, Key
    <2>3. ASSUME NEW o \in batch, o.kind = "insert", store[m] = Unused,
                 store'[m] = Written(o)
          PROVE  store'[m] \in Record
        BY <2>3, WrittenRecord
    <2>4. ASSUME NEW o \in batch, o.kind = "replace", o.id = m, Present(m),
                 store'[m] = Written(o)
          PROVE  store'[m] \in Record /\ Key(m)' = Key(m)
        <3>1. Key(m) = SourceHash(o.chunk)
            BY <2>4 DEF OpKeyed
        <3> QED
            BY <2>4, <3>1, WrittenRecord DEF Key
    <2>5. ASSUME Present(m), store'[m] = Removed(store[m])
          PROVE  /\ store'[m] \in Record \cup {Gone}
                 /\ Present(m)' => Key(m)' = Key(m)
        BY <2>1, <2>5, RemovedRecord DEF Key, Present
    <2> QED
        BY <2>1, <2>2, <2>3, <2>4, <2>5, CommitOutcome, AbsentAssumption
<1> QED
    BY <1>1 DEF StoreType, KeysKept, Persist

LEMMA DisturbedIsKeyed ==
    ASSUME NEW j, JobKeyed(j)
    PROVE  JobKeyed(Disturbed(j))
<1>1. /\ Disturbed(j) \in Jobs /\ Disturbed(j).plan = j.plan
      /\ Disturbed(j).doc = j.doc
    BY DEF JobKeyed, Jobs, Disturbed
<1> QED
    BY <1>1 DEF JobKeyed

LEMMA CommitKeepsKeyed ==
    ASSUME Keyed, NEW w \in Workers, Commit(w)
    PROVE  Keyed'
<1>1. PICK batch \in Batches(job[w].plan) :
        LET rest == job[w].plan \ batch
        IN  /\ Lookup(batch)
            /\ \E new \in NewIds(batch) : Persist(batch, new)
            /\ job' = [v \in Workers |->
                         IF v = w THEN Committed(job[w], rest)
                         ELSE Disturbed(job[v])]
            /\ synced' = IF rest = {} /\ ~job[w].dirty THEN job[w].doc ELSE None
    BY DEF Commit, Persist, Target
<1>2. PICK new \in NewIds(batch) : Persist(batch, new)
    BY <1>1
<1>3. /\ job[w] \in Jobs /\ job[w].doc \in Documents
      /\ job[w].plan \in SUBSET Ops /\ batch \in SUBSET job[w].plan
      /\ \A o \in job[w].plan : OpKeyed(o, job[w].doc)
    BY DEF Keyed, JobKeyed, Jobs, Commit, Busy, Batches
<1>4. StoreType' /\ KeysKept
    BY <1>1, <1>2, <1>3, CommitKeepsKeys DEF Keyed
<1>5. synced' \in Documents \cup {None} /\ raced' \in BOOLEAN
    BY <1>1, <1>3 DEF Commit, Keyed
<1>6. ASSUME NEW v \in Workers, Busy(v)'
      PROVE  JobKeyed(job[v])'
    <2>1. PICK k : k = job'[v]
        OBVIOUS
    <2>2. JobKeyed(k)
        <3>1. CASE v = w
            <4> DEFINE rest == job[w].plan \ batch
            <4>1. k = Committed(job[w], rest)
                BY <1>1, <2>1, <3>1
            <4>2. rest # {} /\ k = [job[w] EXCEPT !.plan = rest]
                BY <1>6, <2>1, <4>1 DEF Committed, Busy
            <4>3. k \in Jobs /\ k.plan = rest /\ k.doc = job[w].doc
                BY <1>3, <4>2 DEF Jobs
            <4> QED
                BY <1>3, <4>2, <4>3 DEF JobKeyed
        <3>2. CASE v # w
            <4>1. k = Disturbed(job[v])
                BY <1>1, <2>1, <3>2
            <4>2. Busy(v)
                BY <1>6, <2>1, <4>1 DEF Disturbed, Busy
            <4> QED
                BY <4>1, <4>2, DisturbedIsKeyed DEF Keyed
        <3> QED
            BY <3>1, <3>2
    <2>3. JobKeyed(k)'
        BY <1>4, <2>2, JobStaysKeyed
    <2> QED
        BY <2>1, <2>3 DEF JobKeyed
<1>7. DOMAIN job' = Workers
    BY <1>1
<1> QED
    BY <1>4, <1>5, <1>6, <1>7 DEF Keyed

LEMMA DisturbedJobs ==
    ASSUME Keyed, KeysKept, NEW v \in Workers, Busy(v)',
           job' = [w \in Workers |-> Disturbed(job[w])]
    PROVE  JobKeyed(job[v])'
<1>1. PICK k : k = job'[v] /\ k = Disturbed(job[v])
    OBVIOUS
<1>2. Busy(v)
    BY <1>1 DEF Disturbed, Busy
<1>3. JobKeyed(k)'
    BY <1>1, <1>2, DisturbedIsKeyed, JobStaysKeyed DEF Keyed
<1> QED
    BY <1>1, <1>3 DEF JobKeyed

LEMMA PrivacyKeepsKeyed ==
    ASSUME Keyed, NEW op \in PrivacyOps, Privacy(op)
    PROVE  Keyed'
<1>1. ASSUME NEW m \in Ids
      PROVE  /\ store'[m] \in Record \cup {Unused, Gone}
             /\ store[m] # Unused =>
                  /\ store'[m] # Unused
                  /\ Present(m)' => Present(m) /\ Key(m)' = Key(m)
    <2>1. store[m] \in Record \cup {Unused, Gone}
        BY DEF Keyed, StoreType
    <2>2. \/ store'[m] = store[m]
          \/ Present(m) /\ store'[m] = Gone
          \/ Present(m) /\ \E s \in Statuses :
               store'[m] = [store[m] EXCEPT !.status = s, !.shown = FALSE]
          \/ Present(m) /\ store'[m] = [store[m] EXCEPT !.shown = FALSE]
        BY DEF Privacy, PrivacyOps, Statuses
    <2>3. ASSUME Present(m), NEW s \in Statuses,
                 \/ store'[m] = [store[m] EXCEPT !.status = s, !.shown = FALSE]
                 \/ store'[m] = [store[m] EXCEPT !.shown = FALSE]
          PROVE  store'[m] \in Record /\ store'[m].chunk = store[m].chunk
        <3>1. store[m] \in Record
            BY <2>1, <2>3 DEF Present
        <3> QED
            BY <2>3, <3>1 DEF Record
    <2> QED
        BY <2>1, <2>2, <2>3, AbsentAssumption DEF Present, Key, Statuses
<1>2. store' = [m \in Ids |-> store'[m]]
    BY DEF Privacy
<1>3. StoreType' /\ KeysKept
    BY <1>1, <1>2 DEF StoreType, KeysKept
<1>4. ASSUME NEW v \in Workers, Busy(v)'
      PROVE  JobKeyed(job[v])'
    BY <1>3, <1>4, DisturbedJobs DEF Privacy
<1>5. /\ DOMAIN job' = Workers /\ raced' \in BOOLEAN
      /\ synced' \in Documents \cup {None}
    BY DEF Privacy, Keyed
<1> QED
    BY <1>3, <1>4, <1>5 DEF Keyed

LEMMA RedactKeepsKeyed ==
    ASSUME Keyed, NEW pattern \in Patterns, Redact(pattern)
    PROVE  Keyed'
<1>1. ASSUME NEW m \in Ids
      PROVE  /\ store'[m] \in Record \cup {Unused, Gone}
             /\ store[m] # Unused =>
                  /\ store'[m] # Unused
                  /\ Present(m)' => Present(m) /\ Key(m)' = Key(m)
    BY RedactWrites, AbsentAssumption DEF Keyed, StoreType, Present, Key
<1>2. store' = [m \in Ids |-> store'[m]]
    BY DEF Redact
<1>3. StoreType' /\ KeysKept
    BY <1>1, <1>2 DEF StoreType, KeysKept
<1>4. ASSUME NEW v \in Workers, Busy(v)'
      PROVE  JobKeyed(job[v])'
    BY <1>3, <1>4, DisturbedJobs DEF Redact
<1>5. /\ DOMAIN job' = Workers /\ raced' \in BOOLEAN
      /\ synced' \in Documents \cup {None}
    BY DEF Redact, Keyed
<1> QED
    BY <1>3, <1>4, <1>5 DEF Keyed

LEMMA ReopenKeepsKeyed ==
    ASSUME Keyed, Reopen
    PROVE  Keyed'
<1>1. \A m \in Ids : store'[m] \in Record \cup {Unused, Gone}
    BY ReopenRenumbers DEF Keyed, StoreType
<1>2. store' = [m \in Ids |-> store'[m]]
    BY DEF Reopen
<1>3. /\ job' = job /\ synced' = synced /\ raced' = raced
      /\ \A w \in Workers : ~Busy(w)
    BY DEF Reopen, Busy
<1> QED
    BY <1>1, <1>2, <1>3 DEF Keyed, StoreType, Busy

LEMMA KeyedInit ==
    ASSUME Init
    PROVE  Keyed
<1>1. StoreType /\ \A w \in Workers : ~Busy(w)
    BY DEF Init, StoreType, Busy
<1> QED
    BY <1>1 DEF Init, Keyed

LEMMA KeyedStep ==
    ASSUME Keyed, [Next]_vars
    PROVE  Keyed'
<1>1. ASSUME NEW w \in Workers, Fail(w)
      PROVE  Keyed'
    <2>1. store' = store /\ synced' = synced /\ raced' = raced
        BY <1>1 DEF Fail
    <2>2. DOMAIN job' = Workers
        BY <1>1 DEF Fail, Keyed
    <2>3. \A v \in Workers : job'[v] = job[v] \/ ~Busy(v)'
        BY <1>1 DEF Fail, Keyed, Busy
    <2>4. ASSUME NEW v \in Workers, Busy(v)'
          PROVE  JobKeyed(job[v])'
        BY <2>1, <2>3, <2>4 DEF Keyed, Busy, JobKeyed, OpKeyed, Present, Key
    <2> QED
        BY <2>1, <2>2, <2>3, <2>4 DEF Keyed, StoreType, Busy
<1>2. CASE UNCHANGED vars
    BY <1>2 DEF vars, Keyed, StoreType, Busy, JobKeyed, OpKeyed, Present, Key
<1> QED
    BY <1>1, <1>2, PlanKeepsKeyed, CommitKeepsKeyed, PrivacyKeepsKeyed,
       RedactKeepsKeyed, ReopenKeepsKeyed DEF Next

LEMMA KeyedInvariance == Spec => []Keyed
    BY KeyedInit, KeyedStep, PTL DEF Spec

-----------------------------------------------------------------------------
(* If the keys within a document differ, a section's part has one record   *)
(* at most as long as no two workers were between plan and commit: partial *)
(* commits, retries, removals and privacy operations between the plan and  *)
(* the commit never make two.                                              *)
THEOREM OneRecord ==
    ASSUME DistinctKeys
    PROVE  Spec => []OneRecordPerKey
<1>1. IInv => OneRecordPerKey
    BY DEF IInv, Alone, OneEach, OneRecordPerKey, Key
<1> QED
    BY <1>1, Invariance, PTL

(* After an undisturbed ingestion searches see the document and nothing    *)
(* else, whatever the database held before.                                *)
THEOREM SearchesSeeTheDocument ==
    ASSUME DistinctKeys
    PROVE  Spec => []Synchronized
<1>1. IInv => Synchronized
    BY SettledShows DEF IInv, Alone, Synchronized
<1> QED
    BY <1>1, Invariance, PTL

(* Ingesting the same document again plans nothing. *)
THEOREM AgainWritesNothing ==
    ASSUME DistinctKeys
    PROVE  Spec => []SkipsUnchanged
<1>1. IInv => SkipsUnchanged
    BY SettledPlan DEF IInv, Alone, SkipsUnchanged
<1> QED
    BY <1>1, Invariance, PTL

(* No step brings a chunk back under an id that was hard-deleted, with any *)
(* number of workers and whatever the keys are: insertions take unused ids *)
(* and the other operations look their record up.                          *)
THEOREM HardDeleteKept == Spec => HardDeleteIsFinal
<1>1. ASSUME [Next]_vars, NEW m \in Ids, store[m] = Gone
      PROVE  store'[m] = Gone
    <2>1. ASSUME NEW w \in Workers, Commit(w)
          PROVE  store'[m] = Gone
        <3>1. PICK batch \in Batches(job[w].plan) :
                /\ Lookup(batch)
                /\ \E new \in NewIds(batch) : Persist(batch, new)
            BY <2>1 DEF Commit, Persist, Target
        <3>2. PICK new \in NewIds(batch) : Persist(batch, new)
            BY <3>1
        <3>3. ASSUME NEW o \in batch, Target(o, new, m)
              PROVE  FALSE
            <4>1. CASE o.kind = "insert"
                <5>1. store[new[o]] = Unused
                    BY <4>1 DEF NewIds, Inserts
                <5> QED
                    BY <1>1, <3>3, <4>1, <5>1, AbsentAssumption DEF Target
            <4>2. CASE o.kind # "insert"
                BY <1>1, <3>1, <3>3, <4>2
                   DEF Target, Lookup, Inserts, Present
            <4> QED
                BY <4>1, <4>2
        <3>4. {o \in batch : Target(o, new, m)} = {}
            BY <3>3
        <3>5. Result({}, store[m]) = store[m]
            BY DEF Result
        <3> QED
            BY <1>1, <3>2, <3>4, <3>5 DEF Persist
    <2>2. ASSUME NEW op \in PrivacyOps, Privacy(op)
          PROVE  store'[m] = Gone
        BY <1>1, <2>2 DEF Privacy, Present
    <2>3. CASE Reopen
        BY <1>1, <2>3 DEF Reopen, Present
    <2>4. ASSUME NEW w \in Workers,
                 Fail(w) \/ \E doc \in Documents : Plan(w, doc)
          PROVE  store'[m] = Gone
        BY <1>1, <2>4 DEF Fail, Plan
    <2>5. ASSUME NEW pattern \in Patterns, Redact(pattern)
          PROVE  store'[m] = Gone
        BY <1>1, <2>5 DEF Redact, Present
    <2> QED
        BY <1>1, <2>1, <2>2, <2>3, <2>4, <2>5 DEF Next, vars
<1>2. [Next]_vars =>
        [\A m \in Ids : store[m] = Gone => store'[m] = Gone]_vars
    BY <1>1
<1> QED
    BY <1>2, PTL DEF Spec, HardDeleteIsFinal

(* The variables have their types in all executions: however many records  *)
(* share a key, the planner finds one of them, and what it plans are       *)
(* writes of chunks of the document and removals of records.               *)
THEOREM IngestTypeCorrect == Spec => []TypeOK
<1>1. Keyed => TypeOK
    BY DEF Keyed, TypeOK, StoreType, Busy, JobKeyed, Jobs, OpKeyed
<1> QED
    BY <1>1, KeyedInvariance, PTL

(* Re-ingestion is never an outage, with any number of workers and         *)
(* whatever the keys are: a plan that was overtaken may write an old text, *)
(* but takes no part away that its own document has.                       *)
THEOREM NeverAnOutage == Spec => StaysVisible
<1>1. ASSUME Keyed, [Next]_vars, NEW m \in Ids, Visible(m), ~Visible(m)'
      PROVE  \/ \E op \in PrivacyOps : Privacy(op)
             \/ \E w \in Workers :
                  /\ job'[w] # job[w] /\ job[w] # Idle
                  /\ SourceHash(store[m].chunk) \notin Keys(job[w].doc)
    <2>1. store' # store
        BY <1>1 DEF Visible, Present
    <2>2. ASSUME NEW w \in Workers, Commit(w)
          PROVE  /\ job'[w] # job[w] /\ job[w] # Idle
                 /\ SourceHash(store[m].chunk) \notin Keys(job[w].doc)
        <3>1. PICK batch \in Batches(job[w].plan) :
                /\ Lookup(batch)
                /\ \E new \in NewIds(batch) : Persist(batch, new)
                /\ job' = [v \in Workers |->
                             IF v = w THEN Committed(job[w], job[w].plan \ batch)
                             ELSE Disturbed(job[v])]
            BY <2>2 DEF Commit, Persist, Target
        <3>2. PICK new \in NewIds(batch) : Persist(batch, new)
            BY <3>1
        <3>3. /\ job[w] # Idle /\ job[w].doc \in Documents
              /\ job[w].plan \in SUBSET Ops
              /\ batch \in SUBSET job[w].plan /\ batch # {}
              /\ \A o \in job[w].plan : OpKeyed(o, job[w].doc)
            BY <1>1, <2>2 DEF Keyed, JobKeyed, Jobs, Commit, Busy, Batches
        <3>4. job'[w] # job[w]
            <4>1. job'[w] = Committed(job[w], job[w].plan \ batch)
                BY <3>1
            <4>2. CASE job[w].plan \ batch = {}
                BY <3>3, <4>1, <4>2 DEF Committed
            <4>3. CASE job[w].plan \ batch # {}
                <5>1. job[w] \in Jobs
                    BY <1>1, <3>3 DEF Keyed, JobKeyed, Busy
                <5>2. job'[w].plan = job[w].plan \ batch
                    BY <4>1, <4>3, <5>1 DEF Committed, Jobs
                <5> QED
                    BY <3>3, <5>2
            <4> QED
                BY <4>2, <4>3
        <3>5. ASSUME NEW o \in batch, store'[m] = Written(o)
              PROVE  FALSE
            <4>1. /\ store'[m] \in Record
                  /\ store'[m].status = "active" /\ store'[m].shown
                BY <3>3, <3>5, WrittenRecord
            <4> QED
                BY <1>1, <4>1, AbsentAssumption DEF Visible, Present
        <3>6. store'[m] # store[m]
            BY <1>1 DEF Visible, Present
        <3>7. PICK o \in batch : o.kind = "remove" /\ o.id = m /\ Present(m)
            BY <3>1, <3>2, <3>3, <3>5, <3>6, CommitOutcome
        <3>8. Key(m) \notin Keys(job[w].doc)
            BY <3>3, <3>7 DEF OpKeyed
        <3> QED
            BY <3>3, <3>4, <3>8 DEF Key
    <2>3. CASE Reopen
        BY <1>1, <2>3, ReopenRenumbers, AbsentAssumption
           DEF Keyed, Visible, Present
    <2>4. ASSUME NEW pattern \in Patterns, Redact(pattern)
          PROVE  Visible(m)'
        BY <1>1, <2>4, RedactWrites, AbsentAssumption
           DEF Keyed, Visible, Present
    <2> QED
        BY <1>1, <2>1, <2>2, <2>3, <2>4 DEF Next, vars, Plan, Fail
<1>2. Keyed /\ [Next]_vars =>
        [\A m \in Ids : Visible(m) /\ ~Visible(m)' =>
           \/ \E op \in PrivacyOps : Privacy(op)
           \/ \E w \in Workers :
                /\ job'[w] # job[w] /\ job[w] # Idle
                /\ SourceHash(store[m].chunk) \notin Keys(job[w].doc)]_vars
    BY <1>1
<1> QED
    BY <1>2, KeyedInvariance, PTL DEF Spec, StaysVisible
=============================================================================
