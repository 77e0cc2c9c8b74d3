--------------------------- MODULE DocumentIngest ---------------------------
(***************************************************************************)
(* Ingestion of one markdown document: services/ingestion_document.py over *)
(* the chunk queries of arcade/queries.py.                                 *)
(*                                                                         *)
(* A worker parses the file, compares its chunks with the stored ones and  *)
(* plans insertions, replacements and removals; then it embeds, and then   *)
(* it commits the plan in transactions of BatchSize operations.  The plan  *)
(* is not looked at again in between, a failure leaves the transactions    *)
(* already committed, and privacy operations and other workers may write   *)
(* at any point.  (Clients that update single chunks by their ids do so in *)
(* module Memories.)                                                       *)
(***************************************************************************)
EXTENDS Naturals, FiniteSets

CONSTANTS
    Workers,         \* threads that ingest the document
    Documents,       \* the contents the file can have: sequences of chunks
    Patterns,        \* what redact is called with
    Ids,             \* bound: the memory ids (naturals) there are to use
    BatchSize,       \* ingestion.max_chunks_per_transaction
    IncludeHeadings, \* chunking.include_heading_path
    HardRemove,      \* chunking.removed_chunk_policy = "hard_delete"
    Unused, Gone,    \* an id without a record: never used, or deleted
    None

(* A chunk is a part of a section: the path of headings above the section, *)
(* the section's number, the part's number within the section, the text.   *)
ChunkFields == {"heading", "section", "part", "text"}

Chunks == UNION {{doc[i] : i \in DOMAIN doc} : doc \in Documents}
Texts  == {c.text : c \in Chunks}

(* The texts that a pattern matches, and those whose content hashes it     *)
(* matches, which redact finds in the metadata.                            *)
Pattern == [texts: SUBSET Texts, hashes: SUBSET Texts]

ASSUME IngestAssumption ==
    /\ \A doc \in Documents :
         /\ IsFiniteSet(DOMAIN doc)
         /\ DOMAIN doc = 1 .. Cardinality(DOMAIN doc)
         /\ \A i \in DOMAIN doc : /\ DOMAIN doc[i] = ChunkFields
                                 /\ doc[i].section \in Nat
    /\ Patterns \subseteq Pattern
    /\ Ids \subseteq Nat /\ IsFiniteSet(Ids)
    /\ BatchSize \in Nat \ {0}
    /\ IncludeHeadings \in BOOLEAN /\ HardRemove \in BOOLEAN
    /\ None \notin Documents /\ None \notin Ids

VARIABLES
    store,     \* the chunk record under each id
    job,       \* what each worker is committing
    synced,    \* history: the document that the last write completed, if no
               \* other write came between its plan and its last transaction
    raced      \* history: two workers were ever between plan and commit

vars == <<store, job, synced, raced>>

Statuses == {"active", "forgotten", "deleted", "removed"}

(* `chunk` is the one that chunk_id is computed from, and `redacted` tells *)
(* which of the text and the content hash are not that chunk's any more.   *)
Record == [chunk: Chunks, pos: Nat, status: Statuses, shown: BOOLEAN,
           redacted: SUBSET {"text", "hash"}]

ASSUME AbsentAssumption ==
    Unused \notin Record /\ Gone \notin Record /\ Unused # Gone

Present(m) == store[m] \notin {Unused, Gone}

(* Searches return the record (by its words alone, when it is redacted).   *)
Visible(m) ==
    Present(m) /\ store[m].status = "active" /\ store[m].shown

Idle == [doc |-> None, plan |-> {}, dirty |-> FALSE]

Init ==
    /\ store = [m \in Ids |-> Unused]
    /\ job = [w \in Workers |-> Idle]
    /\ synced = None
    /\ raced = FALSE

-----------------------------------------------------------------------------
(* compute_source_hash, the stable key of a chunk. *)
SourceHash(chunk) ==
    <<IF IncludeHeadings THEN chunk.heading ELSE None, chunk.part>>

Keys(doc) == {SourceHash(doc[i]) : i \in DOMAIN doc}

StoredUnder(key) ==
    {m \in Ids : Present(m) /\ SourceHash(store[m].chunk) = key}

StoredKeys == {SourceHash(store[m].chunk) : m \in {n \in Ids : Present(n)}}

(* ORDER BY document_chunk_index, section_index, (the part,) memory_id. *)
ListedBefore(m, n) ==
    LET r == store[m]
        s == store[n]
    IN  \/ r.pos < s.pos
        \/ r.pos = s.pos /\ r.chunk.section < s.chunk.section
        \/ r.pos = s.pos /\ r.chunk.section = s.chunk.section /\ m < n

(* existing_by_source_hash keeps the last record listed under a key. *)
Existing(key) ==
    CHOOSE m \in StoredUnder(key) :
      \A n \in StoredUnder(key) \ {m} : ListedBefore(n, m)

(* mutant: the planner does not see the records that searches do not see *)
KnownVisible(key) == \E m \in StoredUnder(key) : Visible(m)

Known(key) == StoredUnder(key) # {}

(* The two hashes are of the text when it was written, not of the text     *)
(* that is stored.                                                         *)
SameHashes(record, chunk) ==
    record.chunk.text = chunk.text /\ "hash" \notin record.redacted

(* mutant: a chunk with the same content is left alone, visible or not *)
SameContent(chunk) ==
    Known(SourceHash(chunk)) /\ SameHashes(store[Existing(SourceHash(chunk))], chunk)

(* chunk_id and content_hash agree, and searches return the record.        *)
Unchanged(chunk) ==
    LET key == SourceHash(chunk)
    IN  /\ Known(key) /\ Visible(Existing(key))
        /\ SameHashes(store[Existing(key)], chunk)

Writes(doc) ==
    {[kind |-> IF Known(SourceHash(doc[i])) THEN "replace" ELSE "insert",
      id |-> IF Known(SourceHash(doc[i])) THEN Existing(SourceHash(doc[i]))
             ELSE None,
      chunk |-> doc[i], pos |-> i]
       : i \in {j \in DOMAIN doc : ~Unchanged(doc[j])}}

(* mutant: sections that are still in the document are removed too *)
AllObsolete(doc) ==
    {Existing(key) : key \in StoredKeys}

(* mutant: what was removed or deleted is removed again *)
ObsoleteAgain(doc) ==
    {Existing(key) : key \in StoredKeys \ Keys(doc)}

Obsolete(doc) ==
    {m \in {Existing(key) : key \in StoredKeys \ Keys(doc)} :
       store[m].status \notin {"removed", "deleted"}}

PlanFor(doc) ==
    Writes(doc) \cup
    {[kind |-> "remove", id |-> m, chunk |-> store[m].chunk, pos |-> 0]
       : m \in Obsolete(doc)}

(* The file is read and compared; from here on the plan is fixed.  A plan  *)
(* without operations ends the ingestion at once.                          *)
Plan(w, doc) ==
    LET plan == PlanFor(doc)
    IN  /\ job[w] = Idle
        /\ IF plan = {}
           THEN synced' = doc /\ UNCHANGED <<job, raced>>
           ELSE /\ job' = [job EXCEPT ![w] =
                             [doc |-> doc, plan |-> plan, dirty |-> FALSE]]
                /\ raced' = (raced \/ \E v \in Workers : job[v] # Idle)
                /\ UNCHANGED synced
        /\ UNCHANGED store

(* The operations are committed in this order: insertions, replacements,   *)
(* both in document order, removals.                                       *)
Before(o, p) ==
    \/ o.kind = "insert" /\ p.kind # "insert"
    \/ o.kind = "replace" /\ p.kind = "remove"
    \/ o.kind = p.kind /\ o.pos < p.pos

Batches(plan) ==
    {batch \in SUBSET plan :
       /\ batch # {}
       /\ Cardinality(batch) <= BatchSize
       /\ Cardinality(batch) < BatchSize => batch = plan
       /\ \A o \in batch, p \in plan \ batch : ~Before(p, o)}

Inserts(batch) == {o \in batch : o.kind = "insert"}

(* New records get new ids. *)
NewIds(batch) ==
    {new \in [Inserts(batch) -> {m \in Ids : store[m] = Unused}] :
       \A o, p \in Inserts(batch) : new[o] = new[p] => o = p}

Written(o) == [chunk |-> o.chunk, pos |-> o.pos, status |-> "active",
               shown |-> TRUE, redacted |-> {}]

Removed(r) == IF HardRemove THEN Gone
              ELSE [r EXCEPT !.status = "removed", !.shown = FALSE]

Last(ops) == CHOOSE o \in ops : \A p \in ops : ~Before(o, p)

(* What the last operation on a record makes of it. *)
Result(ops, old) ==
    IF ops = {} THEN old
    ELSE IF Last(ops).kind = "remove" THEN Removed(old)
    ELSE Written(Last(ops))

(* mutant: a replacement does not look whether its record still exists *)
NoLookup(batch) == \A o \in batch : o.kind = "remove" => Present(o.id)

(* _persist_existing, _update_memory and _delete_memory look them up. *)
Lookup(batch) == \A o \in batch \ Inserts(batch) : Present(o.id)

Committed(j, rest) == IF rest = {} THEN Idle ELSE [j EXCEPT !.plan = rest]

(* Somebody else writes. *)
Disturbed(j) == IF j = Idle THEN j ELSE [j EXCEPT !.dirty = TRUE]

(* One transaction of _persist_document_ingestion. *)
Commit(w) ==
    /\ job[w] # Idle
    /\ \E batch \in Batches(job[w].plan) :
         LET rest == job[w].plan \ batch
         IN  /\ Lookup(batch)
             /\ \E new \in NewIds(batch) :
                  store' = [m \in Ids |->
                    Result({o \in batch :
                              IF o.kind = "insert" THEN new[o] = m
                              ELSE o.id = m}, store[m])]
             /\ job' = [v \in Workers |->
                          IF v = w THEN Committed(job[w], rest)
                          ELSE Disturbed(job[v])]
             /\ synced' = IF rest = {} /\ ~job[w].dirty THEN job[w].doc
                          ELSE None
    /\ UNCHANGED raced

(* A dry run, an embedding that fails, a record that is gone, any error of *)
(* the database or a crash: the transaction rolls back and the ingestion   *)
(* ends with the operations it has committed.                              *)
Fail(w) ==
    /\ job[w] # Idle
    /\ job' = [job EXCEPT ![w] = Idle]
    /\ UNCHANGED <<store, synced, raced>>

-----------------------------------------------------------------------------
PrivacyOps == {"forget_by_user", "soft_delete", "disable", "hard_delete"}

(* The bulk operations of privacy.py on a scope that has the document.     *)
(* Each is one step: Memories models their own races.                      *)
Privacy(op) ==
    LET ids == {m \in Ids : Present(m) /\
                  CASE op = "forget_by_user" ->
                         store[m].status \notin
                           {"forgotten", "deleted", "removed"}
                    [] op = "soft_delete" -> store[m].status # "deleted"
                    [] op = "disable" -> store[m].shown
                    [] OTHER -> TRUE}
        After(r) ==
          CASE op = "forget_by_user" ->
                 [r EXCEPT !.status = "forgotten", !.shown = FALSE]
            [] op = "soft_delete" ->
                 [r EXCEPT !.status = "deleted", !.shown = FALSE]
            [] op = "disable" -> [r EXCEPT !.shown = FALSE]
            [] OTHER -> Gone
    IN  /\ ids # {}
        /\ store' = [m \in Ids |-> IF m \in ids THEN After(store[m])
                                   ELSE store[m]]
        /\ job' = [v \in Workers |-> Disturbed(job[v])]
        /\ synced' = None
        /\ UNCHANGED raced

(* redact replaces what the pattern matches, in whatever status a record   *)
(* is, and takes its embedding away; chunk_id and status stay.             *)
Redact(pattern) ==
    LET Matched(r) ==
          {field \in {"text", "hash"} :
             r.chunk.text \in IF field = "text" THEN pattern.texts
                              ELSE pattern.hashes}
        ids == {m \in Ids : Present(m) /\ Matched(store[m]) # {}}
    IN  /\ ids # {}
        /\ store' = [m \in Ids |->
             IF m \in ids THEN [store[m] EXCEPT !.redacted = @ \cup Matched(store[m])]
             ELSE store[m]]
        /\ job' = [v \in Workers |-> Disturbed(job[v])]
        /\ synced' = None
        /\ UNCHANGED raced

(* Opening the database renumbers the chunks of a document, the removed    *)
(* ones included, by section (_backfill_document_chunk_positions).         *)
SectionBefore(m, n) ==
    LET c == store[m].chunk
        d == store[n].chunk
    IN  \/ c.section < d.section
        \/ c.section = d.section /\ c.part < d.part
        \/ c.section = d.section /\ c.part = d.part /\ m < n

Reopen ==
    /\ \A w \in Workers : job[w] = Idle
    /\ store' = [m \in Ids |->
         IF ~Present(m) THEN store[m]
         ELSE [store[m] EXCEPT !.pos = 1 +
                 Cardinality({n \in Ids : Present(n) /\ SectionBefore(n, m)})]]
    /\ UNCHANGED <<job, synced, raced>>

Next ==
    \/ \E w \in Workers :
         \/ \E doc \in Documents : Plan(w, doc)
         \/ Commit(w)
         \/ Fail(w)
    \/ \E op \in PrivacyOps : Privacy(op)
    \/ \E pattern \in Patterns : Redact(pattern)
    \/ Reopen

Spec == Init /\ [][Next]_vars

-----------------------------------------------------------------------------
(* The variables hold values of their types, and a worker at work has      *)
(* operations left, which write chunks of its document or remove records.  *)
TypeOK ==
    /\ store \in [Ids -> Record \cup {Unused, Gone}]
    /\ synced \in Documents \cup {None}
    /\ raced \in BOOLEAN
    /\ \A w \in Workers :
         \/ job[w] = Idle
         \/ /\ job[w].doc \in Documents
            /\ job[w].dirty \in BOOLEAN
            /\ job[w].plan # {}
            /\ \A o \in job[w].plan :
                 \/ o.kind = "remove" /\ o.id \in Ids
                 \/ /\ o.pos \in DOMAIN job[w].doc
                    /\ o.chunk = job[w].doc[o.pos]
                    /\ \/ o.kind = "insert"
                       \/ o.kind = "replace" /\ o.id \in Ids

(* A section's part has one record at most, whatever failed, was retried,  *)
(* removed, forgotten or deleted before, as long as no two workers were    *)
(* between plan and commit at once (and the keys within a document differ).*)
OneRecordPerKey ==
    ~raced => \A m, n \in Ids :
      /\ Present(m) /\ Present(n)
      /\ SourceHash(store[m].chunk) = SourceHash(store[n].chunk)
      => m = n

(* After an ingestion that nothing disturbed, searches see the document:   *)
(* each of its parts and no other, with its text or with what redact made  *)
(* of exactly that text.  Partial ingestions, removals, privacy operations *)
(* and redactions of older texts leave nothing behind.  (That a redaction  *)
(* of the present text stays is what the comparison of hashes does; it     *)
(* does not when the pattern matches the content hash as well.)            *)
Synchronized ==
    ~raced /\ synced # None =>
      /\ {<<SourceHash(store[m].chunk), store[m].chunk.text>>
            : m \in {n \in Ids : Visible(n)}}
           = {<<SourceHash(synced[i]), synced[i].text>> : i \in DOMAIN synced}
      /\ \A m \in Ids : Visible(m) => "hash" \notin store[m].redacted

(* Ingesting the same file again writes nothing: "re-ingesting the same    *)
(* file twice skips unchanged chunks".  It holds when the keys within a    *)
(* document differ; headings that repeat break it (ingest_same_headings).  *)
SkipsUnchanged ==
    ~raced /\ synced # None => PlanFor(synced) = {}

(* Re-ingestion is never an outage: a step takes a section's part out of   *)
(* the searches only if it is a privacy operation, or commits a document   *)
(* without that part.  A changed part has its old or its new text.         *)
StaysVisible ==
    [][\A m \in Ids : Visible(m) /\ ~Visible(m)' =>
         \/ \E op \in PrivacyOps : Privacy(op)
         \/ \E w \in Workers :
              /\ job'[w] # job[w] /\ job[w] # Idle
              /\ SourceHash(store[m].chunk) \notin Keys(job[w].doc)]_vars

(* A plan made before a hard delete does not bring the chunk back under    *)
(* its old id.                                                             *)
HardDeleteIsFinal ==
    [][\A m \in Ids : store[m] = Gone => store'[m] = Gone]_vars

(* The records that list_chunk_window returns around a record, on the side *)
(* get_chunk_context puts them, for before = after = 1.                    *)
ContextBefore(m) ==
    {n \in Ids \ {m} : Present(n) /\ store[n].pos + 1 = store[m].pos}

ContextAfter(m) ==
    {n \in Ids \ {m} : Present(n) /\
       store[n].pos \in {store[m].pos, store[m].pos + 1}}

(* "chunk-context: Fetch surrounding chunks by stable chunk ID": the chunk *)
(* before and the chunk after it in the document.  It does not hold of the *)
(* code (run ingest_wrong_context): chunks that are left alone keep their  *)
(* old positions, and removed ones keep theirs too.                        *)
ContextSurrounds ==
    ~raced /\ synced # None =>
      \A i \in DOMAIN synced, m \in Ids :
        Visible(m) /\ SourceHash(store[m].chunk) = SourceHash(synced[i]) =>
          /\ {store[n].chunk.text : n \in ContextBefore(m)} =
               {synced[j].text : j \in {k \in DOMAIN synced : k + 1 = i}}
          /\ {store[n].chunk.text : n \in ContextAfter(m)} =
               {synced[j].text : j \in {k \in DOMAIN synced : k = i + 1}}
=============================================================================
