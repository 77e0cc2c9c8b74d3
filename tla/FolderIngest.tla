---------------------------- MODULE FolderIngest ----------------------------
(***************************************************************************)
(* Ingestion of a folder and its manifest (services/ingestion_folder.py),  *)
(* run by threads of one process that share the database handle and the    *)
(* manifest file: POST /documents/ingest-folder starts a run per request.  *)
(*                                                                         *)
(* A run loads the manifest, keeps its own copy of it, and after every     *)
(* change writes the whole copy to <manifest>.tmp and renames that over    *)
(* the manifest.  The .tmp is the same for all runs, and nothing stops two *)
(* runs over one folder, or a crash between any two steps.                 *)
(*                                                                         *)
(* Left out: dry runs, which write nothing, and the inside of              *)
(* ingest_document (module DocumentIngest): here it stores the file whole, *)
(* or fails.  Edits of the files are left out too: a file that is recorded *)
(* as succeeded is skipped even when it has changed since.                 *)
(***************************************************************************)
EXTENDS Naturals, FiniteSets

CONSTANTS
    Slots,       \* threads that run ingest_folder
    LastFile,    \* files are 1 .. LastFile, in the order of their paths
    Requests,    \* the options that callers pass
    Torn,        \* what is in a file that does not hold one whole manifest
    NoTemp,      \* there is no .tmp file
    MaxFaults    \* bound: crashes, failures and exceptions, altogether

Files == 1 .. LastFile

Entries    == {"absent", "pending", "running", "succeeded", "failed"}
Manifest   == [Files -> Entries]
Strategies == {"reuse", "reopen_on_failure", "reopen_per_file"}

(* `window` are the files that `since` and `resume_from` leave. *)
Request == [window: SUBSET Files, onlyFailed: BOOLEAN, limit: Nat,
            stop: BOOLEAN, strategy: Strategies]

(* No option given: every file, reopen_on_failure. *)
Default == [window |-> Files, onlyFailed |-> FALSE, limit |-> LastFile,
            stop |-> FALSE, strategy |-> "reopen_on_failure"]

ASSUME FolderAssumption ==
    /\ LastFile \in Nat /\ Requests \subseteq Request /\ MaxFaults \in Nat
    /\ Torn \notin Manifest /\ NoTemp \notin Manifest \cup {Torn}

VARIABLES
    stored,    \* the files whose chunks are in the database
    manifest,  \* the manifest file: the status of each entry
    temp,      \* the .tmp file
    opened,    \* the database is open, and its lock file there
    runs,      \* where each run is, and its copy of the manifest
    clashed,   \* history: a run has opened the .tmp file before another,
               \* that had opened it too, had renamed it
    faults     \* how many faults there were

folderVars == <<stored, manifest, temp, opened, runs, clashed, faults>>
files == <<manifest, temp, clashed>>

Steps == {"open", "write", "rename", "next", "ingest", "close", "verify",
          "recover", "recheck", "reopen", "record"}

(* `todo` are the files yet to take, `file` the one under way (0: none).   *)
(* While the manifest is written, `then` is where the run goes afterwards, *)
(* `at` the file that its descriptor is for, and `alone` says that nobody  *)
(* else has had that file open since.                                      *)
Run == [pc: Steps, file: 0 .. LastFile, todo: SUBSET Files,
        copy: Manifest, failed: BOOLEAN, stop: BOOLEAN, strategy: Strategies,
        then: {"next", "ingest", "idle"}, at: {"temp", "manifest", "gone"},
        alone: BOOLEAN]

NoRun == [pc |-> "idle"]

FolderInit ==
    /\ stored = {}
    /\ manifest = [f \in Files |-> "absent"]
    /\ temp = NoTemp
    /\ opened = FALSE
    /\ runs = [r \in Slots |-> NoRun]
    /\ clashed = FALSE
    /\ faults = 0

-----------------------------------------------------------------------------
(* _synchronize_manifest_with_files: interrupted entries are pending       *)
(* again, new files are added; size and date of a known file are updated   *)
(* but its status is kept, "succeeded" included.                           *)
Synchronized(window) ==
    [f \in Files |->
       IF manifest[f] = "running" THEN "pending"
       ELSE IF manifest[f] = "absent" /\ f \in window THEN "pending"
       ELSE manifest[f]]

(* mutant: a failed file is not tried again *)
CandidatesPendingOnly(request, entries) ==
    {f \in request.window : entries[f] = "pending"}

(* _select_ingest_candidates: the first `limit` of the files to ingest.    *)
Candidates(request, entries) ==
    LET chosen == {f \in request.window :
                     /\ entries[f] # "succeeded"
                     /\ request.onlyFailed => entries[f] = "failed"}
    IN  {f \in chosen : Cardinality({g \in chosen : g < f}) < request.limit}

(* A manifest that does not parse is refused (an IngestionError): no run.  *)
Start(r, request) ==
    /\ runs[r] = NoRun
    /\ LET entries == Synchronized(request.window)
           run == [pc |-> "open", then |-> "next", at |-> "temp", alone |-> TRUE,
                   file |-> 0, failed |-> FALSE,
                   copy |-> entries, todo |-> Candidates(request, entries),
                   stop |-> request.stop, strategy |-> request.strategy]
       IN  runs' = IF manifest = Torn THEN runs ELSE [runs EXCEPT ![r] = run]
    /\ UNCHANGED <<stored, files, opened, faults>>

At(r, pc) == runs[r] # NoRun /\ runs[r].pc = pc

StepTo(r, pc) == runs' = [runs EXCEPT ![r].pc = pc]

(* _write_ingest_manifest, three steps: open and truncate the .tmp file,   *)
(* write and close it, rename it.  (That another run has it open too       *)
(* counts as a fault, and so is bounded by MaxFaults.)                     *)
OpenTemp(r) ==
    /\ At(r, "open")
    /\ temp' = Torn
    /\ LET sharers == {q \in Slots \ {r} : At(q, "write") /\ runs[q].at = "temp"}
       IN  runs' = [q \in Slots |->
             IF q = r THEN [runs[q] EXCEPT !.pc = "write", !.at = "temp",
                                           !.alone = sharers = {}]
             ELSE IF q \in sharers THEN [runs[q] EXCEPT !.alone = FALSE]
             ELSE runs[q]]
    /\ IF \E q \in Slots \ {r} : At(q, "write") \/ At(q, "rename")
       THEN faults < MaxFaults /\ faults' = faults + 1 /\ clashed' = TRUE
       ELSE UNCHANGED <<faults, clashed>>
    /\ UNCHANGED <<stored, manifest, opened>>

(* The file that the run has open now holds `content`. *)
Hold(r, content) ==
    /\ temp' = IF runs[r].at = "temp" THEN content ELSE temp
    /\ manifest' = IF runs[r].at = "manifest" THEN content ELSE manifest

(* What two runs that write one file make of it: a manifest that happens   *)
(* to parse has its statuses from the two; any other is torn.              *)
Mixed(copy, content) ==
    {Torn} \cup
    {m \in Manifest : \A f \in Files :
       \E g \in Files : m[f] \in {copy[g]} \cup (IF content \in Manifest
                                              THEN {content[g]} ELSE {})}

WriteTemp(r) ==
    /\ At(r, "write")
    /\ LET run == runs[r]
           content == IF run.at = "temp" THEN temp ELSE manifest
       IN  \/ \E new \in IF run.alone THEN {run.copy} ELSE Mixed(run.copy, content) :
                Hold(r, new) /\ StepTo(r, "rename")
           \* A part of it, while another run writes, or has written.
           \/ ~run.alone /\ Hold(r, Torn) /\ UNCHANGED runs
    /\ UNCHANGED <<stored, opened, clashed, faults>>

(* The .tmp file becomes the manifest, for those too that have it open.    *)
(* When another run has renamed it, that is a FileNotFoundError, which     *)
(* nothing catches: the run ends.                                          *)
Rename(r) ==
    /\ At(r, "rename")
    /\ LET run == runs[r]
           left == IF temp = NoTemp \/ run.then = "idle" THEN NoRun
                   ELSE [run EXCEPT !.pc = run.then, !.then = "next",
                                    !.at = "temp", !.alone = TRUE]
           moved(q) == IF temp # NoTemp /\ At(q, "write")
                       THEN [runs[q] EXCEPT !.at = IF @ = "temp" THEN "manifest"
                                                   ELSE "gone"]
                       ELSE runs[q]
       IN  runs' = [q \in Slots |-> IF q = r THEN left ELSE moved(q)]
    /\ manifest' = IF temp = NoTemp THEN manifest ELSE temp
    /\ temp' = NoTemp
    /\ UNCHANGED <<stored, opened, clashed, faults>>

Take(r) ==
    /\ At(r, "next")
    /\ LET run == runs[r]
       IN  \E f \in run.todo :
             /\ \A g \in run.todo : f <= g
             /\ runs' = [runs EXCEPT ![r] =
                  [run EXCEPT !.pc = "open", !.then = "ingest", !.file = f,
                     !.todo = @ \ {f}, !.copy = [@ EXCEPT ![f] = "running"]]]
    /\ UNCHANGED <<stored, files, opened, faults>>

(* ingest_document; the repository opens the database when it is closed.  *)
Ingest(r) ==
    /\ At(r, "ingest")
    /\ stored' = stored \cup {runs[r].file}
    /\ opened' = TRUE
    /\ StepTo(r, IF runs[r].strategy = "reopen_per_file"
               THEN "close" ELSE "record")
    /\ UNCHANGED <<files, faults>>

(* _should_recover_after_failure, and not stop_on_error. *)
Recovers(run, persistence) ==
    /\ ~run.stop
    /\ \/ run.strategy = "reopen_per_file"
       \/ run.strategy = "reopen_on_failure" /\ persistence

(* except MemoryStoreError: the file counts as failed. *)
Caught(r, persistence) ==
    runs' = [runs EXCEPT ![r].failed = TRUE,
               ![r].pc = IF Recovers(runs[r], persistence)
                         THEN "recover" ELSE "record"]

(* Reading fails with an IngestionError, storing with a PersistenceError.  *)
Fail(r) ==
    /\ At(r, "ingest")
    /\ faults < MaxFaults
    /\ \E persistence \in BOOLEAN : Caught(r, persistence)
    /\ faults' = faults + 1
    /\ UNCHANGED <<stored, files, opened>>

(* close(), after a file or to recover. *)
Close(r) ==
    /\ \/ At(r, "close") /\ StepTo(r, "verify")
       \/ At(r, "recover") /\ StepTo(r, "recheck")
    /\ opened' = FALSE
    /\ UNCHANGED <<stored, files, faults>>

(* _verify_lock_released.  When another run has opened the database again  *)
(* in between, the lock file is there: after a file that is a failure of   *)
(* the file, although it was stored; while recovering it ends the run.     *)
Verify(r) ==
    /\ \/ At(r, "verify") /\ ~opened /\ StepTo(r, "record")
       \/ At(r, "verify") /\ opened /\ Caught(r, TRUE)
       \/ At(r, "recheck") /\ ~opened /\ StepTo(r, "reopen")
       \/ At(r, "recheck") /\ opened /\ runs' = [runs EXCEPT ![r] = NoRun]
    /\ UNCHANGED <<stored, files, opened, faults>>

Reopen(r) ==
    /\ At(r, "reopen")
    /\ opened' = TRUE
    /\ StepTo(r, "record")
    /\ UNCHANGED <<stored, files, faults>>

(* mutant: a failure is recorded as a success *)
OutcomeIgnoringFailure(run) == "succeeded"

(* The status that _record_manifest_result gives a file. *)
Outcome(run) == IF run.failed THEN "failed" ELSE "succeeded"

(* _record_manifest_result; a failure may stop the run. *)
Record(r) ==
    /\ At(r, "record")
    /\ LET run == runs[r]
       IN  runs' = [runs EXCEPT ![r] =
             [run EXCEPT !.pc = "open", !.file = 0,
                !.failed = FALSE,
                !.todo = IF run.failed /\ run.stop THEN {} ELSE @,
                !.copy = [@ EXCEPT ![run.file] = Outcome(run)]]]
    /\ UNCHANGED <<stored, files, opened, faults>>

Finish(r) ==
    /\ At(r, "next") /\ runs[r].todo = {}
    /\ runs' = [runs EXCEPT ![r].pc = "open", ![r].then = "idle"]
    /\ UNCHANGED <<stored, files, opened, faults>>

(* Any other exception (the manifest cannot be written, the progress       *)
(* callback raises, the database does not open again) ends the run.        *)
Abort(r) ==
    /\ runs[r] # NoRun
    /\ faults < MaxFaults
    /\ faults' = faults + 1
    /\ runs' = [runs EXCEPT ![r] = NoRun]
    /\ UNCHANGED <<stored, files, opened>>

(* The process dies with all its runs; the next one removes its lock. *)
ProcessDies ==
    /\ faults < MaxFaults
    /\ faults' = faults + 1
    /\ runs' = [r \in Slots |-> NoRun]
    /\ opened' = FALSE
    /\ UNCHANGED <<stored, files>>

Progress(r) ==
    \/ OpenTemp(r) \/ WriteTemp(r) \/ Rename(r)
    \/ Take(r) \/ Ingest(r) \/ Close(r)
    \/ Verify(r) \/ Reopen(r) \/ Record(r) \/ Finish(r)

FolderNext ==
    \/ \E r \in Slots :
         \/ \E request \in Requests : Start(r, request)
         \/ Progress(r) \/ Fail(r) \/ Abort(r)
    \/ ProcessDies

FolderSpec == FolderInit /\ [][FolderNext]_folderVars

-----------------------------------------------------------------------------
(* The variables hold values of their types, and a run that is past        *)
(* storing a file which did not fail has stored it.                        *)
FolderTypeOK ==
    /\ stored \in SUBSET Files
    /\ manifest \in Manifest \cup {Torn}
    /\ temp \in Manifest \cup {Torn, NoTemp}
    /\ opened \in BOOLEAN
    /\ runs \in [Slots -> Run \cup {NoRun}]
    /\ clashed \in BOOLEAN
    /\ faults \in Nat
    /\ \A r \in Slots :
         LET run == runs[r]
             past == {"close", "verify", "recover", "recheck", "reopen", "record"}
         IN  run # NoRun =>
               /\ run.pc \in past \cup {"ingest"} \/ run.then = "ingest" => run.file \in Files
               /\ run.pc \in past => run.failed \/ run.file \in stored

(* The manifest is an acknowledgement of what the database holds, as long  *)
(* as no two runs have been writing it at the same time.                   *)
Acknowledged ==
    {f \in Files : ~clashed /\ manifest[f] = "succeeded"}

D == INSTANCE Delivery
       WITH Items <- Files, delivered <- stored, acked <- Acknowledged

(* Whatever runs overlap, fail or crash, and however the whole-file writes *)
(* of their manifests follow each other, a file is recorded as succeeded,  *)
(* and so skipped by every later run, only when its chunks were stored.    *)
(* Not so any more once two runs were between opening and renaming the one *)
(* .tmp file at the same time: what is read back then is whatever they     *)
(* have made of it.                                                        *)
ImplementsDelivery == D!Spec

(* As long as somebody keeps asking for a complete run, with its default   *)
(* options, everything is recorded as succeeded again and again, whatever  *)
(* crashed, failed or was interrupted before, and whatever other runs with *)
(* other options there are: no entry stays "running" for good.  A crash in *)
(* the middle of a write leaves a torn .tmp file, which does no harm; but  *)
(* two runs that have been writing at the same time may leave a torn       *)
(* manifest, which every later run refuses: the promise ends there.        *)
EverythingIngested ==
    []<>(\/ clashed /\ manifest = Torn
         \/ \A f \in Files : manifest[f] = "succeeded")
=============================================================================
