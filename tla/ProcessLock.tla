---------------------------- MODULE ProcessLock ----------------------------
(***************************************************************************)
(* The lock file that guards an embedded database (arcade/connection.py).  *)
(* A process creates <database>.lock with O_CREAT|O_EXCL, writes its pid   *)
(* and start time into it, opens the database, and unlinks the path on     *)
(* close.  A process that finds the file reads it and, when the recorded   *)
(* owner is dead, unlinks the path and creates it once more;               *)
(* unlock_arcade_database makes the same read and unlink and opens nothing.*)
(*                                                                         *)
(* Each system call is a step: processes interleave between them, and may  *)
(* crash between any two.  unlink acts on whatever file the path names.    *)
(***************************************************************************)
EXTENDS Naturals

CONSTANTS
    Procs,       \* the pids of the processes that open the database
    Operators,   \* those that may also run `bytebox unlock`
    NoFile,      \* "no file at the lock path"
    StartTimes,  \* does the platform report a process's start time?
    MaxCrashes   \* bound on the crashes, and so on the reuse, of each pid

(* `inc` is the start time in the metadata: it tells the runs of one pid   *)
(* apart.  `written` says whether os.write has happened yet.               *)
LockFile == [pid: Procs, inc: Nat, written: BOOLEAN]

ASSUME ProcessLockAssumption ==
    /\ Operators \subseteq Procs
    /\ StartTimes \in BOOLEAN
    /\ MaxCrashes \in [Procs -> Nat]
    /\ NoFile \notin LockFile

VARIABLES
    file,   \* the file the lock path names
    pc,     \* what each process is doing, see Locations
    inc,    \* the start time of the process that runs under each pid
    seen,   \* the lock file that a process has read and is judging by
    raced   \* history: a process unlinked another file than it had read

vars == <<file, pc, inc, seen, raced>>

Locations == {
    "idle",        \* no handle, not inside a call
    "reading",     \* acquire: O_EXCL failed, about to read the metadata
    "judging",     \* _reclaim_stale_lock: has read, about to probe the owner
    "reclaiming",  \* _reclaim_stale_lock: found a dead owner, about to unlink
    "checking",    \* unlock_arcade_database: has read, about to look again
    "probing",     \* unlock_arcade_database: about to probe the owner
    "forcing",     \* the same call with force, about to look
    "unlocking",   \* unlock_arcade_database: checked, about to unlink
    "retrying",    \* acquire: reclaimed, about to create the file again
    "writing",     \* created the file, about to write the metadata
    "opening",     \* locked, inside DatabaseFactory.open or create
    "owner",       \* holds an open ArcadeDatabaseHandle
    "releasing",   \* database closed or never opened, about to unlink
    "dead" }       \* crashed, pid not reused yet

Unlinking == {"reclaiming", "unlocking"}
Holding   == {"writing", "opening", "owner", "releasing"}
InUse     == {"opening", "owner"}

Init ==
    /\ file = NoFile
    /\ pc = [p \in Procs |-> "idle"]
    /\ inc = [p \in Procs |-> 0]
    /\ seen = [p \in Procs |-> NoFile]
    /\ raced = FALSE

Goto(p, loc) == pc' = [pc EXCEPT ![p] = loc]

Saw(p, f) == seen' = [seen EXCEPT ![p] = f]

(* The call returns or raises. *)
Leave(p) == Goto(p, "idle") /\ Saw(p, NoFile)

(* The very process that created f is still running. *)
CreatorRuns(f) == pc[f.pid] # "dead" /\ inc[f.pid] = f.inc

OwnFile(p) == file # NoFile /\ file.pid = p /\ file.inc = inc[p]

(* mutant: the owner is judged by its pid alone *)
PidIsAlive(f) == pc[f.pid] # "dead"

(* _lock_owner_is_alive: the pid exists and, where start times are known,  *)
(* belongs to the same run.                                                *)
OwnerIsAlive(f) == pc[f.pid] # "dead" /\ (StartTimes => inc[f.pid] = f.inc)

(* mutant: an empty file is taken for a stale one *)
IsStaleOrEmpty(f) == f # NoFile /\ (f.written => ~OwnerIsAlive(f))
(* mutant: the owner's liveness is not looked at *)
IsReadable(f) == f # NoFile /\ f.written

(* What both callers establish before they unlink: the metadata can be     *)
(* read (a missing or empty file has none) and its owner is dead.          *)
IsStale(f) == f # NoFile /\ f.written /\ ~OwnerIsAlive(f)

-----------------------------------------------------------------------------
(* mutant: the metadata has the time of locking, after the process started *)
CreateFileDated(p) ==
    /\ file = NoFile
    /\ file' = [pid |-> p, inc |-> inc[p] + 1, written |-> FALSE]
    /\ Goto(p, "writing")

(* os.open(path, O_CREAT | O_EXCL | O_RDWR), when the path is free. *)
CreateFile(p) ==
    /\ file = NoFile
    /\ file' = [pid |-> p, inc |-> inc[p], written |-> FALSE]
    /\ Goto(p, "writing")

Acquire(p) ==
    /\ pc[p] = "idle"
    /\ \/ CreateFile(p)
       \/ file # NoFile /\ Goto(p, "reading") /\ UNCHANGED file
    /\ UNCHANGED <<inc, seen, raced>>

ReadMetadata(p) ==
    /\ pc[p] = "reading"
    /\ Saw(p, file)
    /\ Goto(p, "judging")
    /\ UNCHANGED <<file, inc, raced>>

(* A live, missing or unreadable owner makes acquire and unlock raise.  By *)
(* now the path may name another file than the one that was read.          *)
Judge(p) ==
    /\ pc[p] \in {"judging", "probing"}
    /\ \/ /\ IsStale(seen[p])
          /\ Goto(p, IF pc[p] = "judging" THEN "reclaiming" ELSE "unlocking")
          /\ UNCHANGED seen
       \/ ~IsStale(seen[p]) /\ Leave(p)
    /\ UNCHANGED <<file, inc, raced>>

(* Two files of one run are its lock, released and taken again. *)
SameLock(f, g) == f.pid = g.pid /\ f.inc = g.inc

(* From the read to the unlink nothing keeps others out: `raced` records   *)
(* that the file which is removed is not the one that was judged.          *)
Unlink(p) ==
    /\ pc[p] \in Unlinking
    /\ file' = NoFile
    /\ raced' = (raced \/ (file # NoFile /\ ~SameLock(file, seen[p])))
    /\ Goto(p, IF pc[p] = "reclaiming" THEN "retrying" ELSE "idle")
    /\ Saw(p, NoFile)
    /\ UNCHANGED inc

(* The second and last attempt: a file that is there again makes it raise. *)
Retry(p) ==
    /\ pc[p] = "retrying"
    /\ \/ CreateFile(p)
       \/ file # NoFile /\ Goto(p, "idle") /\ UNCHANGED file
    /\ UNCHANGED <<inc, seen, raced>>

(* os.write goes to the descriptor: a file unlinked meanwhile gets it. *)
WriteMetadata(p) ==
    /\ pc[p] = "writing"
    /\ file' = IF OwnFile(p) THEN [file EXCEPT !.written = TRUE] ELSE file
    /\ Goto(p, "opening")
    /\ UNCHANGED <<inc, seen, raced>>

(* os.write failed: acquire calls release and raises. *)
WriteFails(p) ==
    /\ pc[p] = "writing"
    /\ Goto(p, "releasing")
    /\ UNCHANGED <<file, inc, seen, raced>>

OpenDatabase(p) ==
    /\ pc[p] = "opening"
    /\ \/ Goto(p, "owner")
       \/ Goto(p, "releasing")     \* open or create raised
    /\ UNCHANGED <<file, inc, seen, raced>>

(* ArcadeDatabaseHandle.close: the database, then (always) the lock. *)
CloseDatabase(p) ==
    /\ pc[p] = "owner"
    /\ Goto(p, "releasing")
    /\ UNCHANGED <<file, inc, seen, raced>>

(* ArcadeProcessLock.release unlinks the path whosever file it names. *)
Release(p) ==
    /\ pc[p] = "releasing"
    /\ file' = NoFile
    /\ Goto(p, "idle")
    /\ UNCHANGED <<inc, seen, raced>>

(* unlock_arcade_database: the read. *)
Unlock(p) ==
    /\ p \in Operators /\ pc[p] = "idle"
    /\ Saw(p, file)
    /\ Goto(p, "checking")
    /\ UNCHANGED <<file, inc, raced>>

(* unlock --force skips the probe; the operations guide reserves it for an *)
(* owner that is confirmed dead, and the operator has confirmed that of    *)
(* the file that is there before the call.                                 *)
ForceUnlock(p) ==
    /\ p \in Operators /\ pc[p] = "idle"
    /\ file # NoFile /\ ~CreatorRuns(file)
    /\ Saw(p, file)
    /\ Goto(p, "forcing")
    /\ UNCHANGED <<file, inc, raced>>

(* lock_path.exists(): without a file the call is over. *)
LookAgain(p) ==
    /\ pc[p] \in {"checking", "forcing"}
    /\ \/ file = NoFile /\ Leave(p)
       \/ /\ file # NoFile
          /\ Goto(p, IF pc[p] = "checking" THEN "probing" ELSE "unlocking")
          /\ UNCHANGED seen
    /\ UNCHANGED <<file, inc, raced>>

Crash(p) ==
    /\ pc[p] # "dead"
    /\ inc[p] < MaxCrashes[p]
    /\ Goto(p, "dead")
    /\ Saw(p, NoFile)
    /\ UNCHANGED <<file, inc, raced>>

(* The pid is used again by a new process of the program. *)
Restart(p) ==
    /\ pc[p] = "dead"
    /\ inc' = [inc EXCEPT ![p] = @ + 1]
    /\ Goto(p, "idle")
    /\ UNCHANGED <<file, seen, raced>>

Next == \E p \in Procs :
    \/ Acquire(p) \/ ReadMetadata(p) \/ Judge(p) \/ Unlink(p) \/ Retry(p)
    \/ WriteMetadata(p) \/ WriteFails(p) \/ OpenDatabase(p)
    \/ CloseDatabase(p) \/ Release(p)
    \/ Unlock(p) \/ ForceUnlock(p) \/ LookAgain(p)
    \/ Crash(p) \/ Restart(p)

(* A call that has begun goes on while its process runs, callers retry     *)
(* acquire, and crashed processes are started again.                       *)
GoesOn(p) ==
    \/ Acquire(p) \/ ReadMetadata(p) \/ Judge(p) \/ Unlink(p) \/ Retry(p)
    \/ WriteMetadata(p) \/ OpenDatabase(p) \/ Release(p) \/ LookAgain(p)
    \/ Restart(p)

Fairness == \A p \in Procs : WF_vars(GoesOn(p))

Spec == Init /\ [][Next]_vars /\ Fairness

-----------------------------------------------------------------------------
(* The variables hold values of their types, and a lock file, at the path  *)
(* or read, never names a run of a pid that has not started yet.           *)
TypeOK ==
    /\ file \in LockFile \cup {NoFile}
    /\ pc \in [Procs -> Locations]
    /\ inc \in [Procs -> Nat]
    /\ seen \in [Procs -> LockFile \cup {NoFile}]
    /\ raced \in BOOLEAN
    /\ \A f \in {file} \cup {seen[p] : p \in Procs} :
         f # NoFile => f.inc <= inc[f.pid]

(* Two processes never have the database open at once: what the lock is    *)
(* for.  It does not hold of the code (run lock_two_owners).               *)
MutualExclusion ==
    \A p, q \in Procs : pc[p] \in InUse /\ pc[q] \in InUse => p = q

(* What does hold: as long as nobody has unlinked another lock file than   *)
(* the one it had read and judged, at most one process has the database    *)
(* open, through every crash, pid reuse, failed write, failed open and     *)
(* unlock, and however the files change between a read and its unlink.     *)
ExclusiveUnlessRaced == ~raced => MutualExclusion

(* In the same executions a lock file disappears only after its process    *)
(* has died or when that very process releases it: neither reclaiming, nor *)
(* unlock, nor another process's release removes a lock that is in use.    *)
LiveLockKept ==
    [][~raced' /\ file # NoFile /\ file' # file /\ CreatorRuns(file)
         => \/ file' # NoFile /\ pc[file.pid] = "writing"
            \/ pc[file.pid] = "releasing"]_vars

(* The abstract lock: it is free when nothing is at the path, and held by  *)
(* whoever is past its exclusive create and not yet past its release.      *)
Holders == {p \in Procs : pc[p] \in Holding}
Free    == file = NoFile

L == INSTANCE Lock WITH Users <- Procs, holders <- Holders, free <- Free

StaleFile(p, i) ==
    /\ file # NoFile /\ file.written
    /\ file.pid = p /\ file.inc = i
    /\ ~CreatorRuns(file)

(* A dead process's lock does not shut the database for good: once its     *)
(* metadata is written, callers that retry get rid of it, even when its    *)
(* pid is in use again.  (A lock whose process died before os.write is     *)
(* left to unlock --force.)                                                *)
StaleLockCleared ==
    \A p \in Procs : \A i \in 0..MaxCrashes[p] : StaleFile(p, i) ~> ~StaleFile(p, i)
=============================================================================
