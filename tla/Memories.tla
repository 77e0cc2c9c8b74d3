------------------------------ MODULE Memories ------------------------------
(***************************************************************************)
(* Memory records and the operations that rewrite them: lifecycle.py,      *)
(* privacy.py and the write side of arcade/queries.py, called by           *)
(* concurrent clients (the REST handlers are plain functions, so the       *)
(* server runs them on a pool of threads).                                 *)
(*                                                                         *)
(* An operation reads its records, builds whole new records from what it   *)
(* read, and writes them in one transaction.  Nothing locks, or compares   *)
(* versions, between the read and the write: the two are separate steps,   *)
(* and supersede and contradict read their two records in separate steps.  *)
(***************************************************************************)
EXTENDS Naturals

CONSTANTS
    Clients,      \* threads that call the store
    Ids,          \* ids of agent memories
    Scopes,       \* the sets of ids that callers' scope filters match
    Payloads,     \* the records that add_memory and import files bring in
    Patches,      \* the fields that callers' updates set
    Unused, Gone, \* an id without a record: never used, or hard-deleted
    Nobody,       \* superseded_by = None
    MaxVersion    \* bound: a record at this version is not rewritten again

(* "removed" is given by re-ingestion only; here it stands in the guards. *)
Statuses == {"active", "candidate", "superseded", "contradicted", "expired",
             "deleted", "forgotten", "removed"}
Erased   == {"forgotten", "deleted", "removed"}

(* The fields that decide whether a record may be returned.  `due` says    *)
(* that expires_at is set, to a time already past.  Text, scores and       *)
(* allow_llm_context, which no retrieval code reads, are left out.         *)
Record == [status: Statuses, retrieval: BOOLEAN, due: BOOLEAN,
           supersededBy: Ids \cup {Nobody}, version: Nat]
Slot   == Record \cup {Unused, Gone}

SingleOps == {"promote", "expire", "forget", "feedback"}
PairOps   == {"supersede", "contradict"}
ScopeOps  == {"forget_by_user", "soft_delete", "hard_delete", "disable",
              "redact"}

(* An update that patches no field of Record rewrites the text only; an    *)
(* upsert of a known stable key patches status, retrieval and due.  Both   *)
(* can patch a record to "superseded" bypassing supersede: that is left    *)
(* out, here and in the payloads.                                          *)
PatchFields == {"status", "retrieval", "due"}

ASSUME MemoriesAssumption ==
    /\ Scopes \subseteq SUBSET Ids
    /\ \A r \in Payloads : r \in Record /\ r.status # "superseded"
    /\ \A p \in Patches :
         /\ DOMAIN p \subseteq PatchFields
         /\ "status" \in DOMAIN p => p["status"] \in Statuses \ {"superseded"}
         /\ "retrieval" \in DOMAIN p => p["retrieval"] \in BOOLEAN
         /\ "due" \in DOMAIN p => p["due"] \in BOOLEAN
    /\ Nobody \notin Ids
    /\ Unused \notin Record /\ Gone \notin Record /\ Unused # Gone
    /\ MaxVersion \in Nat

VARIABLES
    store,      \* the record under each id
    edges,      \* SUPERSEDES edges, <<new, old>>
    job,        \* what each client has read and is about to write
    forgotten,  \* history: ids whose erasure was committed and whose
                \* visibility no caller has set out to rewrite since
    stale,      \* history: ids where a commit overwrote a change that was
                \* made after the commit's own read
    deleted     \* history: ids that were ever hard-deleted

vars == <<store, edges, job, forgotten, stale, deleted>>

Empty == <<>>

(* `write` maps the ids an operation has read to what it will write, and   *)
(* `late` has those that others have written since.  `pair` is <<op, a, b>>*)
(* while a pair operation has read a and not yet b.                        *)
Prepared(pair, write) ==
    [pair |-> pair, write |-> write, edges |-> {}, late |-> {}]

NoJob == Prepared(Empty, Empty)

Idle(c) == job[c] = NoJob

Present(m) == store[m] \notin {Unused, Gone}

Rewritable(m) == Present(m) /\ store[m].version < MaxVersion

(* is_record_retrievable and the default statuses of a search. *)
Retrievable(r) == r.status = "active" /\ r.retrieval /\ ~r.due

Init ==
    /\ store = [m \in Ids |-> Unused]
    /\ edges = {}
    /\ job = [c \in Clients |-> NoJob]
    /\ forgotten = {}
    /\ stale = {}
    /\ deleted = {}

-----------------------------------------------------------------------------
(* mutant: supersede and contradict accept records that were erased *)
BlockedSinglesOnly(op) ==
    CASE op = "promote" -> Erased \cup {"expired", "superseded"}
      [] op \in SingleOps -> Erased
      [] OTHER -> {}

(* The statuses in which _ensure_transitionable refuses an operation. *)
Blocked(op) ==
    CASE op = "promote" -> Erased \cup {"expired", "superseded"}
      [] op \in SingleOps \cup PairOps -> Erased
      [] OTHER -> {}

(* The fields that an operation on one record, or on a scope, changes. *)
Changed(op, r) ==
    CASE op = "promote" -> [r EXCEPT !.status = "active"]
      [] op = "expire" ->
           [r EXCEPT !.status = "expired", !.retrieval = FALSE, !.due = TRUE]
      [] op \in {"forget", "forget_by_user"} ->
           [r EXCEPT !.status = "forgotten", !.retrieval = FALSE]
      [] op = "soft_delete" ->
           [r EXCEPT !.status = "deleted", !.retrieval = FALSE]
      [] op = "disable" -> [r EXCEPT !.retrieval = FALSE]
      [] OTHER -> r                                   \* feedback, redact

(* _update_memory and _replace_record: the given fields replace the old. *)
Patched(r, patch) ==
    [f \in DOMAIN r |-> IF f \in DOMAIN patch THEN patch[f] ELSE r[f]]

ChangedFirst(op, r, b) ==
    IF op = "supersede"
    THEN [r EXCEPT !.status = "superseded", !.retrieval = FALSE,
                   !.supersededBy = b]
    ELSE [r EXCEPT !.status = "contradicted"]

ChangedSecond(op, r) ==
    IF op = "supersede"
    THEN [r EXCEPT !.status = "active", !.retrieval = TRUE]
    ELSE [r EXCEPT !.status = "contradicted"]

(* _build_updated_record numbers what it builds. *)
Numbered(r) == [r EXCEPT !.version = @ + 1]

(* A client has read the records of DOMAIN write and will overwrite them. *)
Prepare(c, pair, write) ==
    /\ Idle(c)
    /\ \A m \in DOMAIN write : Rewritable(m)
    /\ job' = [job EXCEPT ![c] = Prepared(pair, write)]

-----------------------------------------------------------------------------
(* A lifecycle operation on one record: _require_agent_memory, the guard,  *)
(* _build_updated_record.                                                  *)
Transition(c, op, m) ==
    /\ Present(m) /\ store[m].status \notin Blocked(op)
    /\ Prepare(c, Empty, [i \in {m} |-> Numbered(Changed(op, store[i]))])
    /\ UNCHANGED <<store, edges, forgotten, stale, deleted>>

(* update_memory, or upsert_memory of a known key: no status is refused. *)
Update(c, m, patch) ==
    /\ Present(m)
    /\ Prepare(c, Empty, [i \in {m} |-> Numbered(Patched(store[i], patch))])
    /\ forgotten' = IF patch = Empty THEN forgotten ELSE forgotten \ {m}
    /\ UNCHANGED <<store, edges, stale, deleted>>

(* supersede(a, b) and contradict(a, b) read a, ...  (The code checks both *)
(* guards after both reads: a refused first record writes nothing.)        *)
ReadFirst(c, op, a, b) ==
    /\ a # b
    /\ Present(a) /\ store[a].status \notin Blocked(op)
    /\ Prepare(c, <<op, a, b>>,
               [i \in {a} |-> Numbered(ChangedFirst(op, store[i], b))])
    /\ UNCHANGED <<store, edges, forgotten, stale, deleted>>

(* mutant: the edge of a supersede is forgotten *)
NoEdges(op, a, b) == {}

NewEdges(op, a, b) == IF op = "supersede" THEN {<<b, a>>} ELSE {}

(* ... then b; a missing or refused b ends the operation. *)
ReadSecond(c) ==
    LET j  == job[c]
        op == j.pair[1]
        a  == j.pair[2]
        b  == j.pair[3]
        ok == Rewritable(b) /\ store[b].status \notin Blocked(op)
    IN  /\ j.pair # Empty
        /\ job' = [job EXCEPT ![c] =
             IF ok
             THEN [j EXCEPT
                     !.pair = Empty,
                     !.edges = NewEdges(op, a, b),
                     !.write = [m \in {a, b} |->
                        IF m = a THEN j.write[a]
                        ELSE Numbered(ChangedSecond(op, store[b]))]]
             ELSE NoJob]
        /\ UNCHANGED <<store, edges, forgotten, stale, deleted>>

(* The records of a scope that a bulk operation of privacy.py rewrites. *)
Selected(op, scope) ==
    {m \in scope : Present(m) /\
       CASE op = "forget_by_user" -> store[m].status \notin Erased
         [] op = "soft_delete" -> store[m].status # "deleted"
         [] op = "disable" -> store[m].retrieval
         [] OTHER -> TRUE}

(* Redaction rewrites any of the records, those whose text matches. *)
OverScope(c, op, scope) ==
    /\ \E ids \in SUBSET Selected(op, scope) :
         /\ ids # {}
         /\ op # "redact" => ids = Selected(op, scope)
         /\ Prepare(c, Empty,
                    [m \in ids |-> IF op = "hard_delete" THEN Gone
                                   ELSE Numbered(Changed(op, store[m]))])
    /\ UNCHANGED <<store, edges, forgotten, stale, deleted>>

-----------------------------------------------------------------------------
(* The other clients' reads of these records are out of date from now on. *)
MarkLate(c, ids) ==
    [d \in Clients |->
       IF d = c THEN NoJob
       ELSE [job[d] EXCEPT !.late = @ \cup (ids \cap DOMAIN job[d].write)]]

(* mutant: deleting a record leaves its edges behind *)
AllEdges(es, records) == es

(* Deleting a vertex deletes its edges. *)
Attached(es, records) ==
    {e \in es : records[e[1]] # Gone /\ records[e[2]] # Gone}

(* mutant: the write does not look whether the records still exist *)
NoLookup(ids) == TRUE

(* _persist_existing, _delete_memory and _create_edge look each up again. *)
Lookup(ids) == \A m \in ids : Present(m)

(* The transaction overwrites every record whole. *)
Apply(c) ==
    LET j   == job[c]
        ids == DOMAIN j.write
    IN  /\ Lookup(ids)
        /\ store' = [m \in Ids |-> IF m \in ids THEN j.write[m] ELSE store[m]]
        /\ edges' = Attached(edges \cup j.edges, store')
        /\ job' = MarkLate(c, ids)
        /\ forgotten' = forgotten \cup
             {m \in ids : j.write[m] # Gone /\ j.write[m].status \in Erased}
        /\ stale' = stale \cup j.late
        /\ deleted' = deleted \cup {m \in ids : j.write[m] = Gone}

(* A record that is gone, or any database error, rolls all of it back. *)
Rollback(c) ==
    /\ job' = [job EXCEPT ![c] = NoJob]
    /\ UNCHANGED <<store, edges, forgotten, stale, deleted>>

Commit(c) ==
    /\ ~Idle(c) /\ job[c].pair = Empty
    /\ Apply(c) \/ Rollback(c)

(* add_memory: a new uuid. *)
Add(m, r) ==
    /\ store[m] = Unused
    /\ store' = [store EXCEPT ![m] = r]
    /\ UNCHANGED <<edges, job, forgotten, stale, deleted>>

(* mutant: the version of an imported record is the payload's *)
IncomingVersion(old, r) == r.version

(* _merge_import_record: max(existing.version + 1, incoming.version). *)
MergedVersion(old, r) ==
    IF old.version + 1 > r.version THEN old.version + 1 ELSE r.version

(* The ids that an import writes: it skips those that are there in mode    *)
(* "insert" and those that are not in mode "replace".                      *)
Written(batch, mode) ==
    {m \in DOMAIN batch : mode # IF Present(m) THEN "insert" ELSE "replace"}

(* import_memories reads and writes the whole file in one transaction. *)
Import(batch, mode) ==
    LET ids == Written(batch, mode)
    IN  /\ \A m \in ids : Present(m) => Rewritable(m)
        /\ store' = [m \in Ids |->
             IF m \notin ids THEN store[m]
             ELSE IF ~Present(m) THEN batch[m]
             ELSE [batch[m] EXCEPT !.version = MergedVersion(store[m], batch[m])]]
        /\ job' = [d \in Clients |->
             [job[d] EXCEPT !.late = @ \cup (ids \cap DOMAIN job[d].write)]]
        /\ forgotten' = forgotten \ ids
        /\ UNCHANGED <<edges, stale, deleted>>

Next ==
    \/ \E m \in Ids, r \in Payloads : Add(m, r)
    \/ \E ids \in SUBSET Ids : \E batch \in [ids -> Payloads] :
         \E mode \in {"insert", "upsert", "replace"} : Import(batch, mode)
    \/ \E c \in Clients :
         \/ \E m \in Ids :
              \/ \E op \in SingleOps : Transition(c, op, m)
              \/ \E patch \in Patches : Update(c, m, patch)
         \/ \E op \in PairOps, a, b \in Ids : ReadFirst(c, op, a, b)
         \/ ReadSecond(c)
         \/ \E op \in ScopeOps, scope \in Scopes : OverScope(c, op, scope)
         \/ Commit(c)

Spec == Init /\ [][Next]_vars

-----------------------------------------------------------------------------
(* The variables hold values of their types, and a SUPERSEDES edge joins   *)
(* two different records that exist.                                       *)
TypeOK ==
    /\ store \in [Ids -> Slot]
    /\ edges \subseteq {e \in Ids \X Ids : e[1] # e[2]}
    /\ \A e \in edges : Present(e[1]) /\ Present(e[2])
    /\ forgotten \in SUBSET Ids
    /\ stale \in SUBSET Ids
    /\ deleted \in SUBSET Ids
    /\ \A c \in Clients :
         /\ DOMAIN job[c].write \subseteq Ids
         /\ \A m \in DOMAIN job[c].write :
              job[c].write[m] \in Record \cup {Gone}
         /\ job[c].late \subseteq DOMAIN job[c].write
         /\ \A e \in job[c].edges : {e[1], e[2]} = DOMAIN job[c].write

(* A forgotten memory is not returned by normal retrieval: what the        *)
(* architecture document promises.  It does not hold of the code (run      *)
(* memories_forget_undone).                                                *)
ForgottenNeverRetrieved ==
    \A m \in forgotten : Present(m) => ~Retrievable(store[m])

(* What does hold: unless a commit overwrote a change it had not read, no  *)
(* promote, supersede, contradict, feedback, redaction or bulk operation   *)
(* brings back what forget, forget_by_user or a soft delete has hidden;    *)
(* only a caller that rewrites the visibility itself does.                 *)
ForgottenStaysHidden ==
    \A m \in forgotten \ stale : Present(m) => ~Retrievable(store[m])

(* A superseded record names its replacement, and the SUPERSEDES edge from *)
(* it is there unless one of the two was hard-deleted since: the two       *)
(* writes and the edge of a supersede never come apart, whatever other     *)
(* clients write in between, lost updates included.                        *)
SupersededIsLinked ==
    \A m \in Ids : Present(m) /\ store[m].status = "superseded" =>
      LET n == store[m].supersededBy
      IN  n # Nobody /\ (<<n, m>> \in edges \/ {m, n} \cap deleted # {})

(* The version of a record grows with every rewrite, imports of older      *)
(* payloads included, unless the commit overwrote a change it had not read *)
(* (then two different contents may share one version).                    *)
VersionGrows ==
    [][\A m \in Ids : Present(m) /\ Present(m)' /\ store'[m] # store[m]
         => store'[m].version > store[m].version \/ m \in stale']_vars

(* A hard delete is final for the operations under way: what they were     *)
(* about to write never brings the record back, only an import does.       *)
HardDeleteIsFinal ==
    [][\A m \in Ids : store[m] = Gone /\ store'[m] # Gone
         => store'[m] \in Payloads]_vars
=============================================================================
