# ByteBox: a TLA+ verification project

ByteBox is an embedded memory store for agents: a Python library, a command
line and a REST server over one embedded ArcadeDB database, which ingests
markdown documents, keeps "memories" with a lifecycle, embeds them through
local or remote models and searches them.  This directory holds TLA+ modules of
its core, the TLC configurations that check them on small instances, and proofs
that TLAPS checks for every instance.  Paths below are those of the repository
(`src/bytebox/...` is the package).

- `<Component>.tla`: the state and the operations of one component, with its
  properties at the end and, next to the definitions, the mutated forms
  (`mutant: ...`) that show each property to be sensitive to the code.
- `MC<Component>.tla`: the sets of the small instances.  `MCDatabase`,
  `MCModels`, `MCSearch`, `MCService` and `MCWrites` put several components side
  by side (section 3).
- `<Component>.cfg`, `<Component><Question>.cfg`: the instances that are
  checked.
- `<Component>_proofs.tla`: theorems and their proofs.  `Database_proofs` is
  about ProcessLock, Upgrade and FolderIngest, `Reading_proofs` about Retrieval,
  Scoring and Inventory, `Service_proofs` about Container and Configuration.
- `PROJECT.json`: the index: which lines each definition translates, the runs,
  mutants, findings, hazards and theorems.

To check: `tlc -workers 2 -config Memories.cfg MCMemories`; to prove:
`tlapm Memories_proofs.tla`.

## 1. The system

### Components, their state and operations

| Component | State | Operations | What is hard | What makes it correct |
|---|---|---|---|---|
| Process lock, database handle (`arcade/connection.py`) | the lock file; per process, whether it holds the database | acquire (O_EXCL create, read, reclaim, retry), write metadata, open, close, release, `unlock`, `unlock --force`; backup, restore | several processes between two system calls; crashes; reuse of pids | at most one owner, unless a lock changes between its read and its unlink; a live owner's lock stays; a dead owner's goes |
| Container, service lifetime (`bootstrap/container.py`, `service.py`, `store.py`) | `readiness_state`, `_accepting_operations`, `_in_flight_operations`, the handle | start, operation, close; lazy opening; the close and reopening in a folder ingestion | threads that call, start and close at once; each step may fail; the grace period; an operation that closes the service | operations work on an open database; what is down holds nothing |
| Memory lifecycle (`lifecycle.py`) | records: status, retrieval flag, expiry, version, edges | promote, supersede, contradict, expire, forget, feedback | a read and a later write of whole records, by many threads | what is forgotten stays hidden; supersede is all or nothing |
| Privacy operations (`privacy.py`) | the same records | forget_by_user, soft and hard delete, disable, redact, export, import | bulk writes against the writes of single records | a hard delete is final |
| Record repository (`arcade/queries.py`, `transactions.py`) | vertices and edges | insert, update, upsert, overwrite, delete, edges, queries | one transaction per call, no version check | writes look their records up |
| Remote provider client (`embeddings/remote_http.py`) | circuit breaker, semaphore, portal | request with retries, close | late outcomes; permits on every way out | permits are conserved; an outage neither floods nor outlives itself |
| Document ingestion (`services/ingestion_document.py`, `ingestion/hashing.py`) | the chunk records of a file | plan, embed, commit in batches | a plan is made, then committed later in several transactions; records redacted since they were written | one record per section part; re-ingestion converges |
| Folder ingestion (`services/ingestion_folder.py`) | the manifest file and its .tmp file; per run, its own copy of the manifest | ingest_folder with since, resume_from, only_failed, limit, stop_on_error and three connection strategies | crash between a file and its manifest entry, and in a write of the manifest; two runs over one folder | nothing is recorded as ingested that was not; everything gets ingested |
| Schema and migrations (`arcade/migrations.py`, `schema.py`) | types, indexes, migration records, version row | run at every opening | crash between any two writes | a restart completes what was begun; a whole copy is always left |
| Database operations (`database_ops.py`) | backups, a migrated copy, embeddings of all records | migrate, reembed, backup, restore | one transaction per record; removal before a copy | a restart completes it; no whole copy is lost |
| Embedding mismatch policy (`service.py`, `embeddings/validation.py`) | status of a memory before its write | error, quarantine, reembed | the policy calls itself | no vector of a wrong dimension is stored |
| Chunking (`ingestion/chunking.py`, `markdown.py`, `frontmatter.py`) | none | parse, split, pack, overlap | limits and overlaps at boundaries | no text is lost, no chunk too long |
| Retrieval (`services/retrieval.py`, `retrieval/*`, `scoring.py`) | the candidates of one search; the reranker, once built | vector and full-text candidates, fusion, deduplication, graph expansion, scores, reranking, context | several queries without a transaction, among the writes of others | only records that were retrievable; no match lost or doubled |
| Local model management (`embeddings/model_management.py`, `manifests.py`) | the model directory and its manifest | install, verify | an installation broken off between two files; a process that has the old model loaded | no vector under the label of another model |
| Embedding providers (`embeddings/fastembed_provider.py`, `ollama_provider.py`) | the loaded runtime; the HTTP client | load, verify, embed, startup probe | lazy construction by several threads | one identity for what is computed and what is compared |
| Inventory (`services/administration.py`, `arcade/queries.py`, `observability/diagnostics.py`) | none | count records by status, type, scope; metrics | a report is many queries, without a transaction | its numbers are of the time of the report |
| Configuration and its migration (`config.py`, `config_migration.py`) | YAML and env files | load_settings; migrate legacy files | six sources of one setting; a migration that may be run again | the last source wins; migrating leaves nothing to migrate |
| REST API, command line, evaluation | none | | none of their own | |

### How they interact

The REST handlers (plain functions, which the server runs on a thread pool) and
library users call `MemoryStore`.  Every call runs `container.start()` and then,
inside `container.operation()`, a method of the service, which opens the
database when there is no handle.  Opening takes the process lock, runs the
migrations (and renumbers document chunks) and publishes the handle.  Lifecycle,
privacy and ingestion read records through the repository, compute, and write
in transactions; between the read and the write they may call a provider, for
instance the remote client, which all threads share.  Nothing locks a record
over that span.  Other processes meet this one at the lock file alone.

## 2. The modules

### ProcessLock and Lock (`arcade/connection.py`)

`file` is what the lock path names: nothing, or a file with the pid and start
time of its creator and whether they were written yet.  `pc[p]` is where
process p is inside acquire, open, close or unlock; `inc[p]` is the start time
of the process that runs under pid p, so that a pid in use again is a new run.
Each system call is a step and a process may crash before any of them: the read
of the metadata (`ReadMetadata`, `Unlock`), the probe of its owner (`Judge`; for
`unlock` a look whether the file is still there comes first, `LookAgain`) and the
unlink are three.  `seen[p]` is the file that was read.
`Unlink` removes whatever file the path then names, as `Path.unlink` does.  A
failing write of the metadata, a failing open and a failing close are
alternatives of their own.  `raced` is history: it records that a process has
unlinked another lock than the one it had read and judged.

`Lock` is what a lock promises without files, pids or system calls: it is taken
only when it is free, by one user, given back by its holder, abandoned by a
holder that dies, and only an abandoned lock is cleared.  ProcessLock maps to
it (`L`): the lock is free when nothing is at the path, and a process holds it
from its exclusive create to its release.

### Container (`bootstrap/container.py`, `service.py`, `store.py`)

A step is a read or write of the state other threads see: start, unlike
operation and close, holds no lock, so `readiness`, the handle and
`_accepting_operations` are separate steps.  `open` and `locked` are what the
operating system sees, `handle` what the service thinks it has.  With
`Failures` every step that calls out may raise.  The lock file of the own,
live process refuses a second handle.

A remote model provider is built lazily too (`FindProvider`, `FindClient`,
`CreateClient`, `Assign`): by `start` in api_mode, otherwise by the first
operation that embeds something.  `provider` and `client` are the service's
fields, `running` the HTTP clients whose thread runs.  Each client starts that
thread in its constructor and may fail after it (`halfBuilt`).  `Probe` is the
startup check of the provider.

An operation may also be an ingestion of a folder, which after a document or a
failure closes the service, looks for the lock file and opens the database
again, by itself or by the next document (`Recycle`, `Verify`, `Result`), while
other operations are in flight.  `disorder` is history, the worst that happened
so far: an operation closed the service which nobody else used, a close went on
after its grace period, or calls crossed (a start or a close began while another
thread was in one, or an operation closed the service while others used it).
Each property names the worst disorder it holds in.

### Memories (`lifecycle.py`, `privacy.py`, writes of `arcade/queries.py`)

`store[m]` holds the fields that decide whether a record may be returned, its
version and its replacement.  An operation reads (`Transition`, `Update`,
`ReadFirst`/`ReadSecond`, `OverScope`), which puts what it will write into
`job[c]`, and later commits or rolls back (`Commit`).  `Blocked` is
`_ensure_transitionable`, `Changed`, `ChangedFirst` and `ChangedSecond` are what
each operation changes, `Numbered` is the version increment of
`_build_updated_record`.  `Import` reads and writes in one transaction, as the
code does.  History variables: `forgotten` (erasures that were committed and
that no caller has set out to rewrite), `stale` (a commit overwrote a change it
had not read), `deleted`.

Left out: the text, scores, audit vertices, `allow_llm_context` (no retrieval
code reads it), the creation of a stable key by two upserts at once, and a
caller who sets a record to "superseded" by an update, which bypasses
`supersede` (`MemoriesAssumption` excludes it).

### RemoteClient (`embeddings/remote_http.py`)

`breaker` is `_opened_at` (None, set recently, or set longer ago than the
reset time), `failures` the count, `permits` the semaphore.  A request passes
the breaker, waits for a permit, and makes up to `MaxRetries + 1` attempts,
telling the breaker each outcome; it may also leave without telling (malformed
JSON, a portal that was stopped).  Closing is possible at any time.

### DocumentIngest (`services/ingestion_document.py`, `arcade/queries.py`)

A document is a sequence of chunks, a chunk a heading path, the number of its
section, its number within the section, and a text.  `SourceHash` is the key
the code derives from them.  `Plan` reads the stored chunks and fixes the
insertions, replacements and removals (`PlanFor`); `Commit` runs one
transaction of up to `BatchSize` of them, in the code's order, and fails as a
whole when a record is gone; `Fail` is any way to stop early: the operations
already committed remain.  `Privacy` stands for the bulk operations of
`privacy.py`, here one step each (their own races are those of `Memories`), and
`Redact` for a redaction, which changes the text and takes the embedding but
leaves `chunk_id`, and the content hash unless the pattern matches that as well.
A record has the chunk that it was written from and says which of the text and
the hash are redacted.  `Unchanged` compares, as the planner does, the two hashes
(`SameHashes`) and the visibility, and not the text: a redacted chunk counts as
unchanged.
`Reopen` is `_backfill_document_chunk_positions`, which renumbers chunks at
every opening.  `synced` is history: the document whose ingestion completed
last without other writes between its plan and its end; `raced`: two workers
were between plan and commit at once.

Updates of single chunks by clients (module Memories) and the limits on files,
sections and chunks (which raise before the plan is made) are left out;
`Result` handles several operations on one record, which repeated keys cause.

### FolderIngest and Delivery (`services/ingestion_folder.py`)

`manifest` is the file, `runs[r]` where a run is, with its own copy of the
manifest (`copy`), the files it has yet to take (`todo`) and the one under way.
`Start` loads and synchronises the manifest and selects the candidates, or is
refused when the file does not parse.  After that, after `Take`, `Record` and
`Finish`, the run's whole copy is written, whatever other runs have written
since, in three steps: `OpenTemp` opens and truncates the one .tmp file of all
runs (`temp`), `WriteTemp` writes it, `Rename` makes it the manifest, for those
too that still have it open.  When two runs have it open at once, the one file
gets what the two have written of it, in whatever mixture (`Mixed`), torn or
not; `clashed` is history and records that.  A crash in between leaves the .tmp
file torn, and the next write truncates it.
`Ingest` stores a file, `Fail` is a `MemoryStoreError`; `Close`, `Verify` and
`Reopen` are the steps of the strategies `reopen_per_file` and
`reopen_on_failure`, in which a run may meet the lock file of another one of
its own process.  `Abort` is any other exception, `ProcessDies` a crash.

`Delivery` is what the manifest promises without any of that: items are
delivered, and acknowledged only after that; acknowledgements may be lost.
`ImplementsDelivery` is its specification under the mapping "stored" =
delivered, "recorded as succeeded" = acknowledged, as long as no two runs have
been writing the manifest at once.

Left out: dry runs, and edits of the files.  A file recorded as succeeded is
skipped even when it has changed since (`_select_ingest_candidates` looks at
the status only), until its entry is removed from the manifest.

### Upgrade (`arcade/migrations.py`, `arcade/schema.py`, `service.py`, `database_ops.py`)

A database is a record of what an upgrade looks at or changes: version row,
migration records, types, chunk positions, dimension of the vector index.
`paths` has the configured database and the copy that `database migrate` makes.
An opening is `OpenLive`, `Plan`, a backup (begun, finished), then for each
migration due types, index, backfill, migration record and version row, one
step each, then the final `ensure_schema` and the checks.  `Interrupt` ends the
process or fails the step before any of them.  `BeginRestore` and `EndRestore`
are `restore_arcade_database`: removal first, then the copy; `OpenRemains` is a
start over what an interrupted restore left.

Assumed, as docs/operations/backup-restore-disaster-recovery-guide.md has it:
the service is stopped for a restore, and the backup is a finished one.
`backup --overwrite` and a backup or restore under a running owner are left out.

### Embeddings (`embeddings/model_management.py`, `manifests.py`, `fastembed_provider.py`, `service.py`, `database_ops.py`)

`directory` is the model directory: for each file the revision it belongs to,
and the manifest: a name, a revision, a digest and a dimension, of which only the
name must be there, and for each file whether it is listed and with whose
checksum.  A *version* is what labels have, the name of a revision or a digest.
An installation removes and copies file by file (the manifest in any order when
the source has one, last when it is built); it may stop between any two steps,
and in the middle of the manifest: `Parts` is what there is of one then, in the
order in which the fields are written, and some of that parses.  It
runs beside a service that has loaded the old files.  `provider` is the
provider of the running process: verified once, its runtime loaded once, while
its identity is read from the manifest at each call.  What labels a vector
(`ProviderIdentity`: the manifest's revision, the configured one, then the two
digests) and what it is compared with (`ServiceIdentity`: revision, digest, then
the configured version) are two functions, as in the code.  A write embeds, compares
with the configured identity and follows the policy (`ValidateMemory`, which
may go back to `EmbedMemory`).  `Reembed` takes batches and replaces records
one transaction each.  A vector in `stored` remembers the files that computed
it (`by`), which the code does not, and whether the manifest then spoke for all
of them (`vouched`: each file listed, with the checksum of the revision of the
label): that is what its labels are compared with.

### Chunking (`ingestion/markdown.py`, `ingestion/chunking.py`)

The three loops, an action per line or block: `ReadHeading` and `ReadLine` fill
`sections`, `SplitLine` cuts a section that is over the budget into `blocks`,
`PackBlock` fills the chunk that is `open`; `scan` is the loop's place and what it
has collected.  A line is what decides something: blank, text of so many words,
heading of a level, fence of a length.  A text is its lines and the sequence of
its words, each known by its place, so that lost, doubled and moved words can be
told apart.  A chunk keeps what it repeats and what is its own.

### Retrieval (`services/retrieval.py`, `retrieval/*.py`, `arcade/queries.py`)

A search is the sequence of its queries (record ids, nearest vectors, full
text, one link query per candidate), and `Show`, `Hide`, `Lapse`, `Delete` and
`Link` change the database between them.  Which records are near or contain a
word is given; fusion, deduplication, the link expansion and the limits are the
code's.  A sort is the set of the lists that it may return (`InOrder`): the
order is total, but that it is one list is then a fact and not a definition.
The reranker is built by the first search that comes to it (`BuildReranker`),
outside the handler that catches its errors later: `reranker` says whether the
service holds it, and a search that has to build it may raise.  `past` is
history: what was visible at some moment of the search, and throughout, and
whether the reranker was there when it began.

### Scoring (`scoring.py`, `retrieval/rerank.py`)

Normalisation over the candidates, weights without what a candidate does not
have, the share-out of the reranker's weight, and the second scoring after the
reranker, in exact fractions.  How equal scores are ordered is left out.

### Inventory (`services/administration.py`, `arcade/queries.py`, `observability/diagnostics.py`)

`stock` is the database, a record described by what it is counted by; `report`
is the report under way.  Each query is a step: four for the summary, six more
for the scopes, and for the types one with the groups and, for each group, its
global records and its statuses, in the order of the types (`Turn` is the next
of those `pending`).  Others insert, change the status of and
delete records between any two of them; `changes` is history and counts that.
What the summary, the three scopes, the types and the metric lines show is
computed from the numbers as the code does (`Scoped`, `Dimension`,
`TypeInventory`, `RecordsMetric`).  Of the names of a scope we keep which are
shown, not their order; `Marks` stands for the sum of the metric lines, one mark
for each unit of a line's value.  The query for a type's oldest and newest
time is left out.

### Configuration (`config_migration.py`, `config.py`)

A configuration is nested dictionaries.  One of them is a function from the
paths of all that is in it, sections included, to a value or to the marker
`Section`; so the loops and the recursion of the code become functions over a
set of paths: `DeepMerge` keeps what is in the first and neither replaced by the
second nor below something that it replaces, `Update` (`dict.update`) lets a
section of the second take the whole place of the first's, `Without` takes out
paths and what is below them and leaves emptied dictionaries.
`MigrateLegacyConfig` lifts the `memory_store` section, rewrites legacy paths
and takes the secrets out of a YAML file, or renames, rewrites and drops the
lines of an env file; the loop over these assigns one after the other, which
leaves of two lines with one target the later.  `LoadSettings` merges defaults,
file, environment and overrides and switches debug output off in production.
The case of names, what pydantic accepts as a value, files in which a section
has a plain value, and the list `api.auth.tokens`, which is no setting, are left
out.

## 3. What the runs check

All bounds are in the `.cfg` files and the MC modules.  Symmetry is used in
safety runs only, over sets whose members the modules only compare for
equality.

| Run | Instance | Shows |
|---|---|---|
| `process_lock` | lock: 3 processes, 1 operator, 1 crash of each of two | TypeOK; ExclusiveUnlessRaced; LiveLockKept; StaleLockCleared |
| | folder: 2 runs, 2 files, 2 requests, 1 fault or clash | ImplementsDelivery; FoldersAreIngested |
| | upgrade: 6 older databases or none, 2 interruptions | BackedUp; ServedIsUpToDate; UpgradesStartAgain |
| `lock_two_owners` | 3 processes, no operator | MutualExclusion is **violated** |
| `memories_races` | memories: 2 clients, 2 memories, versions to 3 | ForgottenStaysHidden; VersionGrows |
| | local: 2 memories, 2 revisions, 2 model files, 3 sources, 3 events | LabelsAreTrue; OwnEmbeddingFits |
| `memories_bulk` | memories: the same, versions to 2, bulk operations | TypeOK; SupersededIsLinked; HardDeleteIsFinal |
| | chunking: documents of 4 lines of 8 kinds, 3 settings | NothingIsLost; ChunksAreBounded; PathsAreAncestors |
| | search: 4 records in 2 libraries, 2 changes by others | ResultsWereVisible; OneResultPerKey; SearchIsComplete |
| | scoring: 3 candidates of 12 profiles, 2 weight maps | EvidenceCounts |
| | inventory: 2 records, 2 changes by others, 1 name shown | InventoryIsCurrent |
| `memories_forget_undone` | the memories of `memories_races` | ForgottenNeverRetrieved is **violated** |
| `container` | serve: 2 callers, 1 closer, both api_modes, 3 handles, 2 clients, failures, folder ingestions | TypeOK; WorksOnOpenDatabase; DownIsReleased; OpenIsLocked |
| | configure: 7 settings, YAML files, env files of 3 lines | LaterSourcesWin; NothingLeftToMigrate |
| `container_double_start` | 2 callers, no failures, no api_mode | OpenedOnce is **violated** |
| `remote_client` | remote: 3 callers, 2 permits, 1 retry, threshold 2 | TypeOK; BreakerAgrees; FailuresBounded; Recovers |
| | local: the same model, 2 events | LocalIsReembedded |
| `document_ingest` | 2 workers, 3 versions of a file, 3 ids, batches of 2, 1 pattern | OneRecordPerKey; Synchronized; SkipsUnchanged; StaysVisible; HardDeleteIsFinal |
| `ingest_same_headings` | a file with two sections under one heading | SkipsUnchanged is **violated** |
| `ingest_wrong_context` | a file and the file with a section put first | ContextSurrounds is **violated** |
| `upgrade_interrupted` | one old database, 1 interruption | ServedAcceptsRecords is **violated** |

Five runs put several components side by side.  Their variable `part` says at
the start which component a behaviour is about; the variables of the others
stay at one initial state.  The components share no variable (a folder run or
an upgrade happens while its process holds the lock; a service has one
embedding provider; the embedding of a memory decides nothing in its lifecycle;
no setting of the configurations decides anything in the
container), so nothing is lost by not interleaving them, and the
states are a sum and not a product.  An invariant of a component is checked in
all its behaviours and in one constant state elsewhere; the temporal properties
are those of the component with `part = ...` in front.

Why the bounds are enough.  *Lock*: the two-owner scenario needs two processes
that reclaim and one that died; one crash per pid suffices for a pid in use
again by a live process, and the third pid, whose process never dies, is the one
that others may take for dead.  *Folder*: two runs are enough to write over each
other's manifest and to meet each other's lock file, two files to have one done
and one to do; the requests are the complete run and a retry of a failed file
that reopens the database for each file and stops at an error.  Two runs that
have the .tmp file open at once count as a fault (`OpenTemp`): of crashes,
failures and clashes an execution has one.  The third connection strategy,
`reuse`, is the first without its recovery; the proofs are about all of them.  *Upgrade*: one interruption leaves every intermediate database, two
interrupt its completion, or a restore after an upgrade; the package has one
migration.  *Memories*: the longest interaction is supersede (two records, two
reads) against one other client; version 3 leaves room for a creation, a write
and the write that overwrites it.  The bulk operations with version 3 exceed
the time a run should take, so they are checked to version 2; the theorem
`ForgottenHidden` covers both at once.  *Chunking*: four lines make a fence
with a heading inside, three headings with a skipped level and a text, and a
text cut off an overlap of another; the budgets of two and three words make one
line too long or exactly fit.  *Search*: three records share keys in a chain,
the fourth is outside the scope and linked through two hops; two changes hide a
candidate and a neighbour.  *Scoring*: three candidates are one with, one
without the reranker's score, and one to normalise against.  *Inventory*: two
records of different types and scopes, any of them absent at first, and two
changes, so that what one query counted may vanish before the next and another
record come.  *Configuration*: the seven settings are two secrets (one of them
in a nested section), a path, the environment, a debug setting that the files
mention and one that they do not, and one that nothing treats specially; every
subset of the first six is at the top, every subset of five under
`memory_store`; three lines give a legacy name, its new name and another, in any
order; three environments and three sets of overrides mention settings that the
file has and settings that it has not.  *Container*: every
action concerns at most two threads and the handle; three handles let the
database be opened, closed by an ingestion and opened again, and once more by
an operation that a close has left behind; two clients let one be built, closed
and replaced.  The constraint `Uncrossed` ends an execution once calls have
crossed: no property of the run says anything of what comes after, but for
`TypeOK`, which is proved without that bound.  Without api_mode, or after an ingestion closed the service, two
operations may each build a client (the second overwrites the first, which is
then never closed), so the last part of `DownIsReleased` excepts both.
*RemoteClient*: with two permits and three callers one waits while two fail,
and three late failures follow the one that opened the breaker.  *Embeddings*:
an installation, a write and a crash, in any order, over two revisions
of two files: a mixture needs two files, a wrong label an installation beside a
running process or a manifest that does not speak for all files.  The sources
have no manifest, one with a revision and one with a digest only; the directory
is empty or has any of them at first, and each manifest may be written in part.
The labels are checked with all three events (`memories_races`), the liveness
with two (`remote_client`), where the constraint `FewRaces` ends executions with
an installation under a running process unless it is the only event and leaves
a whole manifest or an unreadable one.  *DocumentIngest*: the three versions make a plan with two
insertions, with a replacement and a removal, and with all three kinds
(transactions of two then split it); three ids let two documents' chunks be
there at once and one be deleted.  The pattern matches a text, a text and its
hash, and a hash; the constraint `RacesUnredacted` leaves redactions out once two
workers have raced, where only `StaysVisible` and `HardDeleteIsFinal` say
anything, which are proved without it.

The artificial bounds are `MaxCrashes`, `MaxFaults`, `MaxInterrupts`,
`MaxVersion`, `MaxHandles`, `MaxClients`, `MaxLines`, `MaxSearches`,
`MaxChanges`, `ReportChanges`, `MaxInstalls`, `MaxWrites`, `MaxEvents` and `Ids`.  An execution
of DocumentIngest that has used all ids (the code's are uuids) ends an
insertion in `Fail`.

### Fairness

`ProcessLock`: a call that has begun goes on while its process runs, callers
retry acquire, and crashed processes are started again; unlocking, closing, a
failing write and crashes are not fair, so the property that a dead owner's lock
is got rid of does not depend on an operator.  `RemoteClient`: every wait of
the code has a timeout (weak fairness of `Proceed`), time passes
(`ResetElapses`), and callers come again (`Request`); the last is an assumption
on the callers, needed because only a request notices that the reset time is
over.

`FolderIngest`: a run that has begun goes on (weak fairness of `Progress`: its
loop waits for nobody), and somebody keeps asking for a complete run with the
default options (strong fairness of one `Start`, which other runs may disable
by taking the threads).  Faults are bounded, so they stop some day; without
that nothing could be promised.  `Upgrade`: a start, migration or copy under
way goes on; whoever runs the service starts it again (strong fairness of
`OpenLive`, which a migration or restore in between disables); nobody need ever
migrate, restore or stop it.  `Embeddings`: installations, calls and batches
under way go on; the service is stopped now and then and then somebody runs
`database reembed` over all records (strong fairness of both, since each
excludes the other).

### Findings

1. `lock_two_owners` (`arcade/connection.py:282`).  A process reads the lock of
   an owner that then releases it and exits; a third process creates its lock
   and opens the database; the first finds the owner that it had read about
   dead, unlinks the third one's lock and opens the database too.  Two processes
   that reclaim one stale lock come to the same.  README.md:33 promises
   single-process persistence; the docstring calls the lock best effort.
   `ExclusiveUnlessRaced` states what does hold.
2. `memories_forget_undone` (`lifecycle.py:263`).  A feedback or update that
   read a record before it was forgotten writes it back as active.
   docs/architecture.md:764 says of forgotten records "Not returned by normal
   retrieval."  `ForgottenStaysHidden` states what does hold.
3. `container_double_start` (`bootstrap/container.py:73`).  Two first calls can
   both start; the loser closes the winner's database.
   docs/ByteBoxPlan.md:955: "Exactly one database handle is opened per
   application process."
4. `ingest_same_headings` (`services/ingestion_document.py:141`).  Sections under
   one heading path share a key; ingesting an unchanged file again rewrites a
   chunk, and one section's text is lost.  docs/architecture.md:1013:
   "re-ingesting the same file twice skips unchanged chunks".
5. `ingest_wrong_context` (`services/ingestion_document.py:163`).  Unchanged
   chunks keep the positions of an older version of the document, and removed
   chunks keep theirs; the context of a chunk then has wrong neighbours.
6. `upgrade_interrupted` (`arcade/migrations.py:158`).  After an interruption
   between the migration record and the version row every later start skips the
   migration and its version row; the store then stamps records with schema
   version 0, which its own model refuses, so that nothing can be inserted.
   docs/architecture.md:521: "Run idempotent migrations if needed."
   `ServedIsUpToDate` states what does hold.

Noted while modelling, where no document of the repository says otherwise:
neighbours over links are filtered by every hard filter but the scope;
deduplication joins records that share any key, so that two sections under one
heading path are one result; after a skipped heading level a sibling comes
below its predecessor (`LevelsAreUnbroken` excludes it); `update_memory` with a
new text keeps the old embedding; `database reembed` selects by labels, so a
vector under a wrong label stays; an HTTP client whose construction fails after
its thread was started leaves the thread (`halfBuilt`); a section of a legacy
`memory_store` root is dropped as a whole, without a line in the report, when
the file has a section of that name at the top, whatever that one mentions
(`LiftRoot`); the "scoped" number of an inventory is the difference of two
queries and may be one that was never true, though no further off than the
changes made meanwhile; two folder ingestions that write the manifest at the
same time share one .tmp file, and may leave a manifest that does not parse,
which every later run refuses until somebody removes it (`clashed`); a manifest
of a model that lists only some of its files, because it was written by hand or
cut short, is verified by those, so that a mixed installation gets one label
(`vouched`); with a manifest that has a digest and no revision and settings that
have a revision, every embedding that the service computes fails its own check,
and the policy `reembed` calls itself until Python's limit (`Disagrees`); a
redaction of a chunk's text stays when the document is ingested again, but is
undone when its pattern matches the content hash too; a search whose reranker
cannot be built raises, while one whose reranker fails later does not.

## 4. What is proved

Every theorem holds for every value of the constants that satisfies the named
assumption of its module; the assumptions say what the code guarantees of its
inputs and are evaluated by TLC in the runs.

**Database_proofs**, the lock (`ProcessLockAssumption`).  `LockTypeCorrect` is
inductive.  `Exclusive` is not: it says nothing of a process about to unlink.  The
strengthening `LockGuarded`, which holds while nobody has unlinked another file
than it had read, says that a process past its exclusive create owns the linked
file.  With `SeenIsDead` it is inductive: a process that is about to unlink has
read the lock of a run that is dead by now, which stays so while the files at
the path come and go; so whatever it removes, if it is what it had read, is
nobody's.  `LiveLockIsKept` follows for every step.  `LockImplemented` says what
the two come to: `Spec /\ []~raced => L!Spec`, an execution without a race is
one of the abstract `Lock`.  A create takes the lock, a release gives it back,
the crash of a holder abandons it, an unlink by reclaim or unlock clears an
abandoned one, and every other step is hidden (`StepOfLock`).

**Database_proofs**, upgrades (`UpgradeAssumption`).  That a whole copy is left says
nothing of what a migration has done to the open database so far.  The
invariant adds, for each phase of an opening, what holds of the database then:
the migrations that the opening takes for applied are, and types and index are
there once their step is done (`Informed`); and a database that was there is
whole itself or has a finished backup at its migrations, which a step that
changes or removes it requires (`UpgradeGuarded`).  `AlwaysBackedUp` and
`ServesUpToDate` follow.

**Database_proofs**, folders (`FolderAssumption`).  Neither the types nor the
refinement follow from the manifest and the database alone: any run may write
its copy over the manifest later.  The invariant says that each run is `Honest`:
a file that it is about to record without a failure is stored; and, until two
runs clash, that the runs are `Apart`: every copy acknowledges only what is
stored, one run at most is writing, and the .tmp file that it is about to rename
is its own copy.  `FolderTypeCorrect` follows, and `FolderDelivers`:
every step delivers one file, replaces the acknowledgements by true ones or by
fewer, or is a stutter of `Delivery`.

**Memories_proofs** (`MemoriesAssumption`).  The invariant `IInv` joins four
parts: the types of records and pending jobs; what a pending job may write over
a forgotten record (Hidden); that what it writes has a version above what it
read, unless it is late (Newer); and that a job which supersedes carries its
edge (Linked).  The lemma `Steps` says once what any step does to one record
and one job, and the parts are preserved by it.  From it follow `TypeCorrect`,
`ForgottenHidden`, `SupersededLinked`, `VersionsGrow` and `HardDeleteFinal`, for
all operations together and any bound on versions.

**RemoteClient_proofs** (`RemoteClientAssumption`).  `TypeCorrect` with the
conservation of permits (a cardinality argument over the callers that hold
one), `BreakerConsistent`, and `LoadStops`, whose invariant counts, for each
caller past the breaker, the attempts it has left.

**DocumentIngest_proofs** (`IngestAssumption`, `AbsentAssumption`, and for the
first three `DistinctKeys`: the keys within a document differ, which finding 4
shows to be needed).  The invariant, which holds while no two workers were
between plan and commit at once (`Alone`), says that there is one record under
each key, that the plan under way still fits the store (`Fits`: insertions are
of keys that are not stored, replacements and removals name records that kept
their key or are gone, and no two operations meet in a key or a record), that
what the plan leaves alone is as the document wants it unless somebody else
wrote since (`RestSettled`), and that the store shows exactly the document last
completed (`Settled`).  That a record *shows* a chunk is said with the planner's
own comparison (`SameHashes`), so that a redaction disturbs a worker
(`DisturbedFits`) but never leaves a record that passes for a text it was not
made of.  `Effect` and `Origin` say what one transaction makes of
each record; `OneRecord`, `SearchesSeeTheDocument` and `AgainWritesNothing`
follow.  `HardDeleteKept` needs no invariant: it holds for any number of
workers and any keys.

Two more theorems are about all executions, with any overlap of workers and
repeated keys.  `IngestTypeCorrect` is the types.  `NeverAnOutage` (a commit
that has a part of the document visible before leaves one visible) rests on
`Keyed`: what a worker is going to write names records by the keys that it read
them under, and a transaction writes its operations in a row, of which the last
one for a record counts.  That there is such a last one is an induction over
the batch, and `Keyed` is one over the plan; both go over the least natural
number, or a finite set that contains no smaller one, for which a statement is
false (`LeastNatural`, `LeastSubset`).

**Reading_proofs**, searches (`RetrievalAssumption`).  Results that were visible,
once each, and none lost, say nothing of the lists between the queries.
`SearchInv` adds what each of them has: every candidate was visible at some
moment of the search (or was reached from one over a link, and then passes the
filters that links are checked by), no two share a key, and every record that
was found by a query and visible throughout is in the list, or a candidate that
shares a key with it through others is (`Represented`); and that a search which
raised had not been embedded, met a deletion, or began without its reranker.  Each step of the
pipeline preserves that: fusion because the sorted list has every match
(`ListsAll`, from cardinalities), deduplication because of each group of
candidates its first one is kept (`DeduplicatedStands`), the limits because
they are only cut where the property does not promise anything.
`SearchShowsTheVisible`, `SearchShowsEachOnce` and `SearchLosesNoMatch` follow,
for any records, keys, links, limits and changes by others.

**Reading_proofs**, inventories (`InventoryAssumption`).  Once a number was
counted, it must stay near what it counts while others write.  An insertion,
update or removal moves the cardinality of every set that is counted by one at
most (`RecordsMove`, `ScopesMove`), and raises `changes` by one.  But it is not
enough that single numbers are near: `InventoryInv` says so too of each
difference of two numbers, at the moment the second one is counted, since "total
minus global" may be off by the changes, not by twice as many; of the names that
are shown and should not be; and of the sum of the metric lines over the types
counted so far (`Settled`), which grows by all records of a type at once
(`MarksCountRecords`: one mark for each record, a bijection).  `ReportIsCurrent`
follows, for any records, types, statuses, scopes and limits.

**Reading_proofs**, scores (`ScoringAssumption`).  The scores are those of the
components that are there at that moment (`ScoringInv`).  Normalising keeps the
order of two scores whatever the lowest and highest are, which exist
(`ScoresAreBounded`), weights are not negative and the denominators of a
candidate and of one that it dominates are the same; so every term, and the
score, is at least as high: `DominatingComesFirst`, for any candidates, scores,
weights and answers of the reranker.

**Chunking_proofs** (`ChunkingAssumption`).  The three properties speak of the
end; `ChunkingInv` says what each loop has done by then.  The sections found, and
the text collected since, are the lines read so far but for headings outside
fences and lines without a word, in order (`Collected`, which says the same of
the blocks of a section while it is split).  The stack has, where no level was
left out, one heading of each level down to that of the last, and they are the
ones above the next line (`IsPathAt`: that the code may cut by level rests on
it).  The own words of the chunks and of the open one are those of the sections
and blocks that are done (`Placed`), every chunk's come after those of the chunks
before it, what it repeats ends the chunk before it, and it is within the budget
or one block (`Follows`, `Fits`).  No induction over the lists is needed: an action
appends to them, and what it appends is the next line or block.  `TextIsKept`,
`BudgetIsKept` and `PathsAreAbove` follow, for documents of any length and lines,
and any settings.

**Service_proofs**, the container (`ContainerAssumption`).  `Owned` says whose an open
database is: the service's, or that of the one thread which has opened it and
not yet assigned or closed it; `Alone`, that an operation which closes the
service is the only one that uses it.  `Phased` says that operations are in flight
only between a completed start and the end of a close's wait, `Counted` that
the counter counts them, `Equipped` that a ready container has its database and,
in api_mode, its provider until an ingestion closes it, and `Retained` that what
a close or a failed start has not come to is as it was.  From them follow
`WorksOnOpen` and `DownReleased`, in executions where no start or close overlaps
another, no ingestion closes the service while others use it, and no close
outlasts its grace period.  `OpenLocked` needs only the first two conditions
(finding 3 shows what happens without the first), and `TypeCorrect`, with the
count, none.

**Service_proofs**, the configuration (`ConfigurationAssumption`: no setting is
a section of another, none is at the top or under the old root, settings that
are secrets have no default, and a rewritten path is no legacy path again).
The invariant `ConfigInv` only says what each variable was computed from; the
content is in the lemmas.  Every dictionary on the way is one of settings
(`IsTree`: with a path all that is above it, and a marker where it is a section
and only there), and for each operation there is a lemma that says which paths
its result has and what is at them (`SomeIsTree`, `MergeFacts`, `UpdateFacts`,
`CleanFacts`); a dictionary that has every setting is then determined by their
values (`WholeTree`).  Lifting the root is `Update` of its content by the top
(`LiftedRoot`, which is about prefixes of sequences), and of the at most two
lines that name one setting one is last (`LastLine`), so no induction over a file
is needed.  `LastSourceWins` and `MigrationComplete` follow, for any settings,
nesting, files, environments and overrides.  (The proof found that an earlier
`Explicit` had a CASE with two true guards: an override and a variable for one
setting.)

**Embeddings_proofs** (`EmbeddingsAssumption`).  A vector's label is right
because of what its process did long before.  The invariant says that what
a process has verified and loaded is what the directory holds unless something
was installed since (`Loaded`), and that every vector on its way into the
database for which a manifest spoke has the label of the files that computed it
(`Labelled`): nothing is said of the manifest, which may be any, only that the
files it lists were compared with it.  `LabelsTrue` follows, and
`OwnEmbeddingsFit` from what is known of the last write (`Recent`).

The type invariants of `DocumentIngest`, `FolderIngest`, `Upgrade`, `Embeddings`,
`Retrieval`, `Inventory` and `Scoring` are part of these proofs and of no run.

### Only model-checked

- Liveness (`StaleLockCleared`, `Recovers`, `FoldersAreIngested`,
  `UpgradesStartAgain`, `LocalIsReembedded`): proofs under fairness and about
  ENABLED are out of the prover's reach.

## 5. Not modelled

Not modelled, with no plan: the REST API and the command line beyond their
concurrency (they translate one request into one call), evaluation, scripts and
examples: they keep no state that the components above read, or are input and
output.  Of the modelled components: frontmatter and size limits of documents,
archives as model sources, what the Ollama and llama.cpp adapters parse,
endpoint validation and redirects of the remote client, the audit vertices of
privacy operations, updates of single chunks during an ingestion, backups
and restores under a running owner (what a torn copy means is up to the
embedded engine), the validation of settings, logging with its redaction,
request counters and readiness reports.

Those, and two upserts of one new stable key (section 6), are what could still
be added.

## 6. Hazards

PROJECT.json lists each hazard at the line where it bites with the properties
that would catch it.  Two have none: two upserts of one new stable key (the
code does nothing against it, and promises nothing), and backup and restore
without the lock (section 5).
