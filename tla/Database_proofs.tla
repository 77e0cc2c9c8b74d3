--------------------------- MODULE Database_proofs ---------------------------
(***************************************************************************)
(* Proofs about what happens to one database directory: its lock           *)
(* (ProcessLock), upgrades of what is in it (Upgrade) and the ingestion of *)
(* folders into it (FolderIngest).  They hold for any processes, files,    *)
(* options and databases of older releases, any number of overlapping runs *)
(* and of migrations in the package, and any number of crashes, faults and *)
(* interruptions.                                                          *)
(***************************************************************************)
EXTENDS ProcessLock, FolderIngest, Upgrade, TLAPS

-----------------------------------------------------------------------------
(* The lock.                                                               *)

(* A process that is about to unlink, or told to, holds the file of a dead *)
(* run in its hands: files at the path come and go, but the dead stay so.  *)
SeenIsDead ==
    \A p \in Procs : pc[p] \in Unlinking \cup {"forcing"} =>
      seen[p] # NoFile /\ ~CreatorRuns(seen[p])

(* What holds while nobody has unlinked another file than the one it had   *)
(* read: a process that is past its exclusive create owns the linked file. *)
LockGuarded == \A p \in Procs : pc[p] \in Holding => OwnFile(p)

(* ExclusiveUnlessRaced is not inductive: it says nothing of a process     *)
(* that has created the file and not opened the database yet, or that is   *)
(* about to unlink.                                                        *)
LockInv == TypeOK /\ SeenIsDead /\ (~raced => LockGuarded)

LEMMA LockInvInit == Init => LockInv
<1> SUFFICES ASSUME Init
             PROVE  TypeOK /\ SeenIsDead /\ LockGuarded
    BY DEF LockInv
<1>1. \A p \in Procs : pc[p] = "idle" /\ seen[p] = NoFile
    BY DEF Init
<1>2. file = NoFile
    BY DEF Init
<1>3. TypeOK
    BY <1>1, <1>2 DEF Init, TypeOK, Locations
<1>4. SeenIsDead /\ LockGuarded
    BY <1>1 DEF SeenIsDead, LockGuarded, Holding, Unlinking
<1>5. QED
    BY <1>3, <1>4

(* The runs of a pid only go up: what is known of the files stays true.    *)
LEMMA RunsGoUp ==
    ASSUME TypeOK, [Next]_vars
    PROVE  /\ inc' \in [Procs -> Nat]
           /\ \A p \in Procs : inc[p] <= inc'[p]
<1>1. CASE inc' = inc
    BY <1>1 DEF TypeOK
<1>2. ASSUME NEW p \in Procs, Restart(p) PROVE inc' = [inc EXCEPT ![p] = @ + 1]
    BY <1>2 DEF Restart
<1>3. inc' = inc \/ \E p \in Procs : Restart(p)
    BY DEF Next, vars, Acquire, ReadMetadata, Judge, Unlink, Retry, WriteMetadata,
           WriteFails, OpenDatabase, CloseDatabase, Release, Unlock, ForceUnlock,
           LookAgain, Crash, Restart
<1>4. QED
    BY <1>1, <1>2, <1>3 DEF TypeOK

(* The process that created a file, once it is dead, does not come back.   *)
LEMMA DeadStaysDead ==
    ASSUME TypeOK, [Next]_vars, NEW f \in LockFile,
           f.inc <= inc[f.pid], ~CreatorRuns(f)
    PROVE  ~CreatorRuns(f)'
<1>1. f.pid \in Procs /\ f.inc \in Nat
    BY DEF LockFile
<1>2. CASE inc[f.pid] # f.inc
    BY <1>1, <1>2, RunsGoUp DEF CreatorRuns, TypeOK
<1>3. CASE pc[f.pid] = "dead"
    <2>1. ASSUME NEW p \in Procs, Restart(p), f.pid = p PROVE inc'[p] = inc[p] + 1
        BY <2>1 DEF Restart, TypeOK
    <2>2. ASSUME NEW p \in Procs, Restart(p), f.pid # p PROVE pc'[f.pid] = "dead"
        BY <1>1, <1>3, <2>2 DEF Restart, Goto, TypeOK
    <2>3. ASSUME ~(\E p \in Procs : Restart(p)) PROVE pc'[f.pid] = "dead"
        BY <1>1, <1>3, <2>3
        DEF Next, vars, Acquire, CreateFile, ReadMetadata, Judge, Unlink, Retry,
            WriteMetadata, WriteFails, OpenDatabase, CloseDatabase, Release,
            Unlock, ForceUnlock, LookAgain, Crash, Goto, Leave, TypeOK, Unlinking
    <2>4. QED
        BY <1>1, <2>1, <2>2, <2>3 DEF CreatorRuns, TypeOK
<1>4. QED
    BY <1>2, <1>3 DEF CreatorRuns

(* The type invariant is inductive by itself. *)
LEMMA LockTypeStep == TypeOK /\ [Next]_vars => TypeOK'
<1> SUFFICES ASSUME TypeOK, [Next]_vars
             PROVE  TypeOK'
    OBVIOUS
<1> DEFINE Dated(f) == f \in LockFile \cup {NoFile} /\ (f # NoFile => f.inc <= inc[f.pid])
<1>1. Dated(file) /\ \A p \in Procs : Dated(seen[p])
    BY DEF TypeOK
<1>2. inc' \in [Procs -> Nat] /\ \A p \in Procs : inc[p] <= inc'[p]
    BY RunsGoUp
<1>3. ASSUME NEW f, Dated(f) PROVE f \in LockFile \cup {NoFile} /\ (f # NoFile => f.inc <= inc'[f.pid])
    BY <1>2, <1>3 DEF LockFile, TypeOK
<1>4. pc' \in [Procs -> Locations] /\ raced' \in BOOLEAN
    BY DEF TypeOK, Next, vars, Acquire, CreateFile, ReadMetadata, Judge, Unlink,
           Retry, WriteMetadata, WriteFails, OpenDatabase, CloseDatabase, Release,
           Unlock, ForceUnlock, LookAgain, Crash, Restart, Goto, Leave, Locations
<1>5. seen' = seen \/ \E p \in Procs, f \in {file, NoFile} : Saw(p, f)
    BY DEF Next, vars, Acquire, ReadMetadata, Judge, Unlink, Retry, WriteMetadata,
           WriteFails, OpenDatabase, CloseDatabase, Release, Unlock, ForceUnlock,
           LookAgain, Crash, Restart, Leave
<1>6. seen' \in [Procs -> LockFile \cup {NoFile}] /\ \A p \in Procs : Dated(seen'[p])
    <2>1. CASE seen' = seen
        BY <1>1, <2>1 DEF TypeOK
    <2>2. ASSUME NEW p \in Procs, NEW f \in {file, NoFile}, Saw(p, f)
          PROVE  seen' \in [Procs -> LockFile \cup {NoFile}] /\ \A q \in Procs : Dated(seen'[q])
        <3>1. Dated(f)
            BY <1>1
        <3>2. seen \in [Procs -> LockFile \cup {NoFile}]
            BY DEF TypeOK
        <3>3. QED
            BY <1>1, <2>2, <3>1, <3>2 DEF Saw
    <2>3. QED
        BY <1>5, <2>1, <2>2
<1>7. \/ file' \in {file, NoFile}
      \/ \E p \in Procs : CreateFile(p) \/ WriteMetadata(p)
    BY DEF Next, vars, Acquire, ReadMetadata, Judge, Unlink, Retry, WriteMetadata,
           WriteFails, OpenDatabase, CloseDatabase, Release, Unlock, ForceUnlock,
           LookAgain, Crash, Restart
<1>8. Dated(file')
    <2>1. CASE file' \in {file, NoFile}
        BY <1>1, <2>1
    <2>2. ASSUME NEW p \in Procs, CreateFile(p) PROVE Dated(file')
        BY <2>2 DEF CreateFile, LockFile, TypeOK
    <2>3. ASSUME NEW p \in Procs, WriteMetadata(p) PROVE Dated(file')
        BY <1>1, <2>3 DEF WriteMetadata, LockFile, OwnFile
    <2>4. QED
        BY <1>7, <2>1, <2>2, <2>3
<1>9. QED
    <2>1. \A f \in {file'} \cup {seen'[p] : p \in Procs} : f # NoFile => f.inc <= inc'[f.pid]
        BY <1>3, <1>6, <1>8
    <2>2. file' \in LockFile \cup {NoFile}
        BY <1>8
    <2>3. QED
        BY <1>2, <1>4, <1>6, <2>1, <2>2 DEF TypeOK

(* The lock's types, and that no lock file is ahead of its pid. *)
THEOREM LockTypeCorrect == Spec => []TypeOK
<1>1. Init => TypeOK
    BY LockInvInit DEF LockInv
<1>2. QED
    BY <1>1, LockTypeStep, PTL DEF Spec

(* A process comes to hold a file in its hands as a dead run's by judging  *)
(* it, or by being told of it, and keeps it until it unlinks.              *)
LEMMA SeenStep == TypeOK /\ SeenIsDead /\ [Next]_vars => SeenIsDead'
<1> SUFFICES ASSUME TypeOK, SeenIsDead, [Next]_vars,
                    NEW p \in Procs, pc'[p] \in Unlinking \cup {"forcing"}
             PROVE  seen'[p] # NoFile /\ ~CreatorRuns(seen[p])'
    BY DEF SeenIsDead
<1>1. /\ seen[p] \in LockFile \cup {NoFile}
      /\ seen[p] # NoFile => seen[p].inc <= inc[seen[p].pid]
    BY DEF TypeOK
<1>2. ASSUME seen'[p] = seen[p], seen[p] # NoFile, ~CreatorRuns(seen[p])
      PROVE  seen'[p] # NoFile /\ ~CreatorRuns(seen[p])'
    BY <1>1, <1>2, DeadStaysDead DEF CreatorRuns
<1>3. CASE pc[p] \in Unlinking \cup {"forcing"} /\ seen'[p] = seen[p]
    BY <1>2, <1>3 DEF SeenIsDead
<1>4. CASE Judge(p) /\ IsStale(seen[p]) /\ seen'[p] = seen[p]
    BY <1>2, <1>4 DEF IsStale, OwnerIsAlive, CreatorRuns
<1>5. CASE ForceUnlock(p)
    <2>1. file # NoFile /\ ~CreatorRuns(file) /\ seen'[p] = file
        BY <1>5 DEF ForceUnlock, Saw, TypeOK
    <2>2. file \in LockFile /\ file.inc <= inc[file.pid]
        BY <2>1 DEF TypeOK
    <2>3. ~CreatorRuns(file)'
        BY <1>5, <2>1, <2>2 DEF ForceUnlock, CreatorRuns, Goto, TypeOK, LockFile
    <2>4. QED
        BY <1>5, <2>1, <2>3 DEF ForceUnlock, CreatorRuns
<1>6. \/ pc[p] \in Unlinking \cup {"forcing"} /\ seen'[p] = seen[p]
      \/ Judge(p) /\ IsStale(seen[p]) /\ seen'[p] = seen[p]
      \/ ForceUnlock(p)
    <2>1. CASE pc'[p] = pc[p] /\ seen'[p] = seen[p]
        BY <2>1
    <2>2. ASSUME NEW q \in Procs, q # p,
                 UNCHANGED pc \/ \E loc \in Locations : Goto(q, loc),
                 UNCHANGED seen \/ \E f \in {file, NoFile} : Saw(q, f)
          PROVE  pc'[p] = pc[p] /\ seen'[p] = seen[p]
        BY <2>2 DEF Goto, Saw, TypeOK
    <2>3. CASE Judge(p)
        BY <2>3 DEF Judge, Leave, Goto, TypeOK, Unlinking
    <2>4. CASE LookAgain(p)
        BY <2>4 DEF LookAgain, Leave, Goto, TypeOK, Unlinking
    <2>5. CASE UNCHANGED vars
        BY <2>1, <2>5 DEF vars
    <2>6. ASSUME NEW q \in Procs, q # p,
                 \/ Acquire(q) \/ ReadMetadata(q) \/ Judge(q) \/ Unlink(q) \/ Retry(q)
                 \/ WriteMetadata(q) \/ WriteFails(q) \/ OpenDatabase(q)
                 \/ CloseDatabase(q) \/ Release(q)
                 \/ Unlock(q) \/ ForceUnlock(q) \/ LookAgain(q)
                 \/ Crash(q) \/ Restart(q)
          PROVE  /\ UNCHANGED pc \/ \E loc \in Locations : Goto(q, loc)
                 /\ UNCHANGED seen \/ \E f \in {file, NoFile} : Saw(q, f)
        BY <2>6 DEF Acquire, CreateFile, ReadMetadata, Judge, Unlink, Retry,
            WriteMetadata, WriteFails, OpenDatabase, CloseDatabase, Release,
            Unlock, ForceUnlock, LookAgain, Crash, Restart, Leave, Locations
    <2>7. CASE \/ Acquire(p) \/ ReadMetadata(p) \/ Unlink(p) \/ Retry(p)
               \/ WriteMetadata(p) \/ WriteFails(p) \/ OpenDatabase(p)
               \/ CloseDatabase(p) \/ Release(p) \/ Unlock(p)
               \/ Crash(p) \/ Restart(p)
        BY <2>7 DEF Acquire, CreateFile, ReadMetadata, Unlink, Retry,
            WriteMetadata, WriteFails, OpenDatabase, CloseDatabase, Release,
            Unlock, Crash, Restart, Goto, TypeOK, Unlinking
    <2>8. QED
        BY <2>1, <2>2, <2>3, <2>4, <2>5, <2>6, <2>7 DEF Next
<1>7. QED
    BY <1>3, <1>4, <1>5, <1>6

(***************************************************************************)
(* LockGuarded, one action at a time.  Wherever the file goes, the process *)
(* that removes it holds it, or removes a dead run's.                      *)
(***************************************************************************)

(* Two processes that hold the lock are one. *)
LEMMA HoldingIsUnique ==
    ASSUME TypeOK, LockGuarded,
           NEW p \in Procs, pc[p] \in Holding,
           NEW q \in Procs, pc[q] \in Holding
    PROVE  p = q
  BY DEF LockGuarded, OwnFile

(* The file of a dead run is nobody's. *)
LEMMA DeadIsNotHeld ==
    ASSUME TypeOK, LockGuarded, file # NoFile, ~CreatorRuns(file),
           NEW q \in Procs
    PROVE  pc[q] \notin Holding
  BY DEF LockGuarded, OwnFile, CreatorRuns, Holding

(* Without a race, what is unlinked is nothing or a dead run's file.       *)
LEMMA UnlinkIsSafe ==
    ASSUME TypeOK, SeenIsDead, LockGuarded, NEW p \in Procs, Unlink(p), ~raced'
    PROVE  /\ file # NoFile => ~CreatorRuns(file)
           /\ \A q \in Procs : pc[q] \notin Holding
<1>1. seen[p] # NoFile /\ ~CreatorRuns(seen[p])
    BY DEF Unlink, SeenIsDead
<1>2. file # NoFile => ~CreatorRuns(file)
    BY <1>1 DEF Unlink, SameLock, CreatorRuns, TypeOK
<1>3. \A q \in Procs : pc[q] \notin Holding
    BY <1>2, DeadIsNotHeld DEF LockGuarded, OwnFile
<1>4. QED
    BY <1>2, <1>3

(* A process that moves without touching the file, and does not begin to   *)
(* hold it, disturbs nothing.  Its death is such a move.                   *)
LEMMA MoveStep ==
    ASSUME TypeOK, LockGuarded, UNCHANGED <<file, inc>>,
           NEW p \in Procs, NEW loc \in Locations, Goto(p, loc),
           loc \in Holding => pc[p] \in Holding
    PROVE  LockGuarded'
  BY DEF TypeOK, LockGuarded, Goto, OwnFile, Holding

(* The exclusive create finds no file, so nobody holds it. *)
LEMMA CreateStep ==
    ASSUME TypeOK, LockGuarded, UNCHANGED inc, NEW p \in Procs, CreateFile(p)
    PROVE  LockGuarded'
<1>1. \A q \in Procs : pc[q] \notin Holding
    BY DEF CreateFile, LockGuarded, OwnFile
<1>2. \A q \in Procs : q # p => pc'[q] = pc[q]
    BY DEF CreateFile, Goto, TypeOK
<1>3. file' \in LockFile /\ file'.pid = p /\ file'.inc = inc'[p]
    BY DEF CreateFile, LockFile, TypeOK
<1>4. OwnFile(p)'
    BY <1>3, ProcessLockAssumption DEF OwnFile
<1>5. QED
    BY <1>1, <1>2, <1>4 DEF LockGuarded, Holding

(* Whoever removes the file when nobody else holds it. *)
LEMMA RemoveStep ==
    ASSUME TypeOK, NEW p \in Procs, \A q \in Procs \ {p} : pc[q] \notin Holding,
           NEW loc \in {"idle", "retrying"}, Goto(p, loc)
    PROVE  LockGuarded'
<1>1. \A q \in Procs : pc'[q] = IF q = p THEN loc ELSE pc[q]
    BY DEF Goto, TypeOK
<1>2. QED
    BY <1>1 DEF LockGuarded, Holding

(* The metadata reaches the linked file only if it is the writer's own.    *)
LEMMA WriteStep ==
    ASSUME TypeOK, LockGuarded, NEW p \in Procs, WriteMetadata(p)
    PROVE  LockGuarded'
<1>1. pc[p] = "writing" /\ pc[p] \in Holding
    BY DEF WriteMetadata, Holding
<1>2. OwnFile(p)
    BY <1>1 DEF LockGuarded
<1>3. \A q \in Procs : pc[q] \in Holding => q = p
    BY <1>1, HoldingIsUnique
<1>4. \A q \in Procs : pc'[q] = IF q = p THEN "opening" ELSE pc[q]
    BY DEF WriteMetadata, Goto, TypeOK
<1>5. OwnFile(p)'
    BY <1>2, ProcessLockAssumption DEF WriteMetadata, OwnFile, LockFile, TypeOK
<1>6. QED
    BY <1>3, <1>4, <1>5 DEF LockGuarded, Holding

(* A reused pid is a new run, which holds nothing. *)
LEMMA RestartStep ==
    ASSUME TypeOK, LockGuarded, NEW p \in Procs, Restart(p)
    PROVE  LockGuarded'
<1>1. \A q \in Procs : q # p => pc'[q] = pc[q] /\ inc'[q] = inc[q]
    BY DEF Restart, Goto, TypeOK
<1>2. pc'[p] = "idle" /\ file' = file
    BY DEF Restart, Goto, TypeOK
<1>3. QED
    BY <1>1, <1>2 DEF LockGuarded, OwnFile, Holding

LEMMA LockInvStep == LockInv /\ [Next]_vars => LockInv'
<1> SUFFICES ASSUME TypeOK, SeenIsDead, ~raced => LockGuarded, [Next]_vars, ~raced'
             PROVE  LockGuarded'
    BY LockTypeStep, SeenStep DEF LockInv
<1>1. LockGuarded
    BY DEF Next, vars, Acquire, ReadMetadata, Judge, Unlink, Retry, WriteMetadata,
           WriteFails, OpenDatabase, CloseDatabase, Release, Unlock,
           ForceUnlock, LookAgain, Crash, Restart, TypeOK
<1> USE <1>1
<1>2. ASSUME NEW p \in Procs, Acquire(p) PROVE LockGuarded'
    BY <1>2, CreateStep, MoveStep DEF Acquire, Locations, Holding
<1>3. ASSUME NEW p \in Procs, Retry(p) PROVE LockGuarded'
    BY <1>3, CreateStep, MoveStep DEF Retry, Locations, Holding
<1>4. ASSUME NEW p \in Procs,
             \/ ReadMetadata(p) \/ Judge(p) \/ Unlock(p) \/ ForceUnlock(p)
             \/ LookAgain(p)
      PROVE  LockGuarded'
    BY <1>4, MoveStep
    DEF ReadMetadata, Judge, Unlock, ForceUnlock, LookAgain, Leave, Locations,
        Holding
<1>5. ASSUME NEW p \in Procs, Unlink(p) PROVE LockGuarded'
    BY <1>5, UnlinkIsSafe, RemoveStep DEF Unlink
<1>6. ASSUME NEW p \in Procs, WriteMetadata(p) PROVE LockGuarded'
    BY <1>6, WriteStep
<1>7. ASSUME NEW p \in Procs,
             WriteFails(p) \/ OpenDatabase(p) \/ CloseDatabase(p) \/ Crash(p)
      PROVE  LockGuarded'
    BY <1>7, MoveStep
    DEF WriteFails, OpenDatabase, CloseDatabase, Crash, Locations, Holding
<1>8. ASSUME NEW p \in Procs, Release(p) PROVE LockGuarded'
    <2>1. \A q \in Procs \ {p} : pc[q] \notin Holding
        BY <1>8, HoldingIsUnique DEF Release, Holding
    <2>2. QED
        BY <1>8, <2>1, RemoveStep DEF Release
<1>9. ASSUME NEW p \in Procs, Restart(p) PROVE LockGuarded'
    BY <1>9, RestartStep
<1>10. CASE UNCHANGED vars
    BY <1>10 DEF vars, LockGuarded, OwnFile
<1>11. QED
    BY <1>2, <1>3, <1>4, <1>5, <1>6, <1>7, <1>8, <1>9, <1>10 DEF Next

LEMMA LockInvariance == Spec => []LockInv
  BY LockInvInit, LockInvStep, PTL DEF Spec

(* While nobody unlinked another file than the one it had judged, at most  *)
(* one process has the database open, whatever crashes and however pids    *)
(* are reused.                                                             *)
THEOREM Exclusive == Spec => []ExclusiveUnlessRaced
<1>1. LockInv => ExclusiveUnlessRaced
    BY HoldingIsUnique DEF LockInv, ExclusiveUnlessRaced, MutualExclusion, InUse, Holding
<1>2. QED
    BY <1>1, LockInvariance, PTL

(* In the same executions no step removes the lock file of a process that  *)
(* runs, except that process's own release.                                *)
THEOREM LiveLockIsKept == Spec => LiveLockKept
<1> DEFINE Kept == ~raced' /\ file # NoFile /\ file' # file /\ CreatorRuns(file)
                     => \/ file' # NoFile /\ pc[file.pid] = "writing"
                        \/ pc[file.pid] = "releasing"
<1>1. LockInv /\ [Next]_vars => [Kept]_vars
    <2> SUFFICES ASSUME TypeOK, SeenIsDead, ~raced => LockGuarded, Next, ~raced',
                        file # NoFile, file' # file, CreatorRuns(file)
                 PROVE  \/ file' # NoFile /\ pc[file.pid] = "writing"
                        \/ pc[file.pid] = "releasing"
        BY DEF LockInv
    <2>1. PICK p \in Procs : Unlink(p) \/ WriteMetadata(p) \/ Release(p)
        BY DEF Next, Acquire, ReadMetadata, Judge, Retry, CreateFile, WriteFails,
               OpenDatabase, CloseDatabase, Unlock, ForceUnlock, LookAgain, Crash,
               Restart
    <2>2. LockGuarded
        BY <2>1 DEF Unlink, WriteMetadata, Release, TypeOK
    <2>3. CASE Unlink(p)
        BY <2>2, <2>3, UnlinkIsSafe
    <2>4. CASE WriteMetadata(p)
        BY <2>2, <2>4, ProcessLockAssumption
        DEF WriteMetadata, OwnFile, TypeOK, LockFile
    <2>5. CASE Release(p)
        BY <2>2, <2>5 DEF Release, LockGuarded, Holding, OwnFile
    <2>6. QED
        BY <2>1, <2>3, <2>4, <2>5
<1>2. QED
    BY <1>1, LockInvariance, PTL DEF Spec, LiveLockKept

(***************************************************************************)
(* The abstract lock.                                                      *)
(***************************************************************************)

(* Processes that move without touching the file or beginning or ending to *)
(* hold it do nothing that the abstract lock can see.                      *)
LEMMA MoveIsHidden ==
    ASSUME TypeOK, (file' = NoFile) <=> (file = NoFile),
           NEW p \in Procs, NEW loc \in Locations, Goto(p, loc),
           pc[p] \in Holding <=> loc \in Holding
    PROVE  UNCHANGED <<Holders, Free>>
<1>1. \A q \in Procs : pc'[q] \in Holding <=> pc[q] \in Holding
    BY DEF TypeOK, Goto
<1>2. Holders' = Holders
    BY <1>1 DEF Holders, Holding
<1>3. Free' = Free
    BY DEF Free
<1>4. QED
    BY <1>2, <1>3

(* The exclusive create takes the free lock, which nobody holds. *)
LEMMA CreateTakes ==
    ASSUME TypeOK, LockGuarded, NEW p \in Procs, CreateFile(p)
    PROVE  L!Take
<1>1. \A q \in Procs : pc'[q] \in Holding <=> q = p
    BY DEF CreateFile, Goto, TypeOK, LockGuarded, OwnFile, Holding
<1>2. Holders' = {p}
    BY <1>1 DEF Holders, Holding
<1>3. Free
    BY DEF CreateFile, Free
<1>4. Free' = FALSE
    <2>1. file' \in LockFile
        BY DEF CreateFile, LockFile, TypeOK
    <2>2. QED
        BY <2>1, ProcessLockAssumption DEF Free
<1>5. QED
    BY <1>2, <1>3, <1>4 DEF L!Take

(* A holder that stops holding was the only one. *)
LEMMA NoHolderLeft ==
    ASSUME TypeOK, LockGuarded, NEW p \in Procs, pc[p] \in Holding,
           NEW loc \in Locations \ Holding, Goto(p, loc)
    PROVE  Holders # {} /\ Holders' = {} /\ ~Free
<1>1. \A q \in Procs : pc[q] \in Holding => q = p
    BY HoldingIsUnique
<1>2. \A q \in Procs : pc'[q] \notin Holding
    BY <1>1 DEF Goto, TypeOK
<1>3. ~Free
    BY DEF LockGuarded, OwnFile, Free
<1>4. p \in Holders /\ Holders' = {}
    BY <1>2 DEF Holders, Holding
<1>5. QED
    BY <1>3, <1>4

(* Without a race every step of a process is one of the abstract lock: a   *)
(* create takes it, a release gives it back, the crash of its holder       *)
(* abandons it, an unlink clears an abandoned one; the rest is hidden.     *)
LEMMA StepOfLock ==
    ASSUME TypeOK, SeenIsDead, LockGuarded, [Next]_vars, ~raced'
    PROVE  [L!Next]_<<Holders, Free>>
<1> DEFINE Hidden == UNCHANGED <<Holders, Free>>
<1> HIDE DEF Hidden
<1>1. ASSUME NEW p \in Procs, Acquire(p) PROVE L!Next \/ Hidden
    <2>1. CASE CreateFile(p)
        BY <2>1, CreateTakes DEF L!Next
    <2>2. CASE ~CreateFile(p)
        BY <1>1, <2>2, MoveIsHidden DEF Acquire, Locations, Holding, Hidden
    <2>3. QED
        BY <2>1, <2>2
<1>2. ASSUME NEW p \in Procs, Retry(p) PROVE L!Next \/ Hidden
    <2>1. CASE CreateFile(p)
        BY <2>1, CreateTakes DEF L!Next
    <2>2. CASE ~CreateFile(p)
        BY <1>2, <2>2, MoveIsHidden DEF Retry, Locations, Holding, Hidden
    <2>3. QED
        BY <2>1, <2>2
<1>3. ASSUME NEW p \in Procs,
             \/ ReadMetadata(p) \/ Judge(p) \/ Unlock(p) \/ ForceUnlock(p)
             \/ LookAgain(p)
      PROVE  Hidden
    BY <1>3, MoveIsHidden
    DEF ReadMetadata, Judge, Unlock, ForceUnlock, LookAgain, Leave, Locations,
        Holding, Hidden
<1>4. ASSUME NEW p \in Procs, Unlink(p) PROVE L!Next \/ Hidden
    <2>1. file' = NoFile
        BY <1>4 DEF Unlink
    <2>2. \A q \in Procs : pc[q] \notin Holding
        BY <1>4, UnlinkIsSafe
    <2>3. \A q \in Procs : pc'[q] \notin Holding
        BY <1>4, <2>2 DEF Unlink, Goto, TypeOK, Holding
    <2>4. Holders = {} /\ Holders' = {}
        BY <2>2, <2>3 DEF Holders, Holding
    <2>5. Free' = TRUE
        BY <2>1 DEF Free
    <2>6. CASE ~Free
        BY <2>4, <2>5, <2>6 DEF L!Next, L!Clear
    <2>7. CASE Free
        BY <2>4, <2>5, <2>7 DEF Hidden, Free
    <2>8. QED
        BY <2>6, <2>7
<1>5. ASSUME NEW p \in Procs, WriteMetadata(p) PROVE Hidden
    <2>1. OwnFile(p) /\ file \in LockFile
        BY <1>5 DEF WriteMetadata, LockGuarded, Holding, OwnFile, TypeOK
    <2>2. file' \in LockFile
        BY <1>5, <2>1 DEF WriteMetadata, LockFile
    <2>3. (file' = NoFile) <=> (file = NoFile)
        BY <2>1, <2>2, ProcessLockAssumption
    <2>4. QED
        BY <1>5, <2>3, MoveIsHidden DEF WriteMetadata, Locations, Holding, Hidden
<1>6. ASSUME NEW p \in Procs, WriteFails(p) \/ OpenDatabase(p) \/ CloseDatabase(p)
      PROVE  Hidden
    BY <1>6, MoveIsHidden
    DEF WriteFails, OpenDatabase, CloseDatabase, Locations, Holding, Hidden
<1>7. ASSUME NEW p \in Procs, Release(p) PROVE L!Next
    <2>1. pc[p] \in Holding /\ Goto(p, "idle") /\ file' = NoFile
        BY <1>7 DEF Release, Holding
    <2>2. "idle" \in Locations \ Holding
        BY DEF Locations, Holding
    <2>3. Free' = TRUE
        BY <2>1 DEF Free
    <2>4. Holders # {} /\ Holders' = {}
        BY <2>1, <2>2, NoHolderLeft
    <2>5. QED
        BY <2>3, <2>4 DEF L!Next, L!Give
<1>8. ASSUME NEW p \in Procs, Crash(p) PROVE L!Next \/ Hidden
    <2>1. Goto(p, "dead") /\ "dead" \in Locations \ Holding /\ file' = file
        BY <1>8 DEF Crash, Locations, Holding
    <2>2. CASE pc[p] \in Holding
        <3>1. Holders # {} /\ Holders' = {}
            BY <2>1, <2>2, NoHolderLeft
        <3>2. Free' = Free
            BY <2>1 DEF Free
        <3>3. QED
            BY <3>1, <3>2 DEF L!Abandon, L!Next
    <2>3. CASE pc[p] \notin Holding
        BY <2>1, <2>3, MoveIsHidden DEF Hidden
    <2>4. QED
        BY <2>2, <2>3
<1>9. ASSUME NEW p \in Procs, Restart(p) PROVE Hidden
    BY <1>9, MoveIsHidden DEF Restart, Locations, Holding, Hidden
<1>10. ASSUME UNCHANGED vars PROVE Hidden
    BY <1>10 DEF vars, Hidden, Holders, Free, Holding
<1>11. L!Next \/ Hidden
    <2>1. CASE UNCHANGED vars
        BY <1>10, <2>1
    <2>2. CASE Next
        BY <1>1, <1>2, <1>3, <1>4, <1>5, <1>6, <1>7, <1>8, <1>9, <2>2 DEF Next
    <2>3. QED
        BY <2>1, <2>2
<1>12. QED
    BY <1>11 DEF Hidden

(* Executions in which nobody unlinks another file than it has judged are  *)
(* executions of the abstract lock: it is taken only when it is free, given back only by *)
(* its holder, and cleared by others only when its holder has died.        *)
THEOREM LockImplemented == Spec /\ []~raced => L!Spec
<1>1. Init => L!Init
    BY DEF Init, L!Init, Holders, Free, Holding
<1>2. LockInv /\ ~raced /\ ~raced' /\ [Next]_vars
          => [L!Next]_<<Holders, Free>>
    BY StepOfLock DEF LockInv
<1>3. QED
    BY <1>1, <1>2, LockInvariance, PTL DEF Spec, L!Spec

-----------------------------------------------------------------------------
(* Upgrades.                                                               *)

Choosing == {"choose", "types", "index", "backfill", "record", "version"}

Serving == {"validate", "serving"}

Pcs == {"down", "plan", "backup", "copying", "survey", "migrated", "source",
        "target", "copy", "restore"} \cup Choosing \cup Serving

Process == [pc: Pcs, on: {"live", "target"}, existed: BOOLEAN, current: Nat,
            seen: SUBSET Nat, migration: Nat]

(* The variables have their types; an opening on its way has its database  *)
(* open, and a migration has something to copy.                            *)
Typed ==
    /\ "live" \in DOMAIN paths /\ DOMAIN paths \subseteq {"live", "target"}
    /\ \A p \in DOMAIN paths : paths[p] \in Database \cup {Absent, Partial}
    /\ backups \subseteq Database \cup {Partial}
    /\ upgrade \in Process
    /\ upgrade.on \in DOMAIN paths
    /\ original \in Database \cup {Absent}
    /\ upgrade.pc \in {"plan", "backup", "copying", "survey", "migrated"}
                        \cup Choosing \cup Serving => Opened \in Database
    /\ upgrade.pc \in {"plan", "backup", "copying", "serving"}
         => upgrade.on = "live"
    /\ upgrade.pc = "migrated" => upgrade.on = "target"
    /\ upgrade.pc \in {"source", "target", "copy"} => paths["live"] \in Database

AllApplied(d) == \A v \in 1 .. Expected : v \in d.applied \/ v <= d.version

(* What an upgrade has read is what the database holds, and what it has    *)
(* done so far is done.                                                    *)
Informed ==
    /\ upgrade.pc \in Choosing => upgrade.current = Opened.version
    /\ upgrade.pc \in Choosing => Opened.applied =
         IF upgrade.pc = "version" THEN upgrade.seen \cup {upgrade.migration}
         ELSE upgrade.seen
    /\ upgrade.pc \in {"types", "index", "backfill"} /\ upgrade.migration = 0
         => AllApplied(Opened)
    /\ upgrade.pc \in {"index", "backfill"} => Opened.typed
    /\ upgrade.pc = "backfill" => Opened.dimension # 0
    /\ upgrade.pc \in Serving \cup {"migrated"} => UpToDate(Opened)
    /\ upgrade.pc = "serving" => Opened.dimension = Dimension

(* There is a finished backup at the original migrations. *)
Safe == \E backup \in backups \ {Partial} : Keeps(backup)

(* Before the first change of a database that was there, there is one: an  *)
(* upgrade without a backup has nothing to do.  And if there is any        *)
(* finished backup then there is one at the original migrations.           *)
UpgradeGuarded ==
    original \in Database =>
      /\ paths["live"] # Absent
      /\ Safe \/ (paths["live"] \in Database /\ Keeps(paths["live"]))
      /\ backups \ {Partial} # {} => Safe
      /\ upgrade.pc = "plan" => upgrade.existed
      /\ upgrade.on = "live" /\ ~Safe =>
           /\ upgrade.pc = "survey" => Opened.version >= Expected
           /\ upgrade.pc \in Choosing => upgrade.current >= Expected
           /\ upgrade.pc \in {"types", "index", "backfill"}
                => upgrade.migration = 0
           /\ upgrade.pc \notin {"record", "version"}

UpgradeInv == Typed /\ Informed /\ UpgradeGuarded

-----------------------------------------------------------------------------
USE UpgradeAssumption DEF Versions

LEMMA NoDatabase == Absent \notin Database /\ Partial \notin Database
    OBVIOUS

LEMMA EmptyIsDatabase == Empty \in Database
    BY DEF Empty, Database

(* What Put makes of the paths. *)
LEMMA PutEffect ==
    ASSUME NEW path, NEW content, Put(path, content)
    PROVE  /\ DOMAIN paths' = DOMAIN paths \cup {path}
           /\ paths'[path] = content
           /\ \A p \in DOMAIN paths : p # path => paths'[p] = paths[p]
    BY DEF Put

LEMMA UpgradeInvImpliesTypes == UpgradeInv => UpgradeTypeOK
    BY DEF UpgradeInv, Typed, UpgradeTypeOK

LEMMA UpgradeInvImpliesBackedUp == UpgradeInv => BackedUp
    BY DEF UpgradeInv, UpgradeGuarded, Safe, BackedUp, There, Typed

LEMMA UpgradeInvImpliesUpToDate == UpgradeInv => ServedIsUpToDate
    BY DEF UpgradeInv, Informed, Typed, ServedIsUpToDate, InStep, Opened, Serving

LEMMA UpgradeInvInit == UpgradeInit => UpgradeInv
<1> SUFFICES ASSUME UpgradeInit PROVE UpgradeInv
    OBVIOUS
<1>1. /\ DOMAIN paths = {"live"} /\ paths["live"] \in Database \cup {Absent}
      /\ original = paths["live"] /\ backups = {} /\ upgrade = Resting
    BY DEF UpgradeInit
<1>2. upgrade \in Process /\ upgrade.pc = "down" /\ upgrade.on = "live"
    BY <1>1 DEF Resting, Process, Pcs
<1>3. Typed
    BY <1>1, <1>2 DEF Typed, Choosing, Serving
<1>4. Informed
    BY <1>2 DEF Informed, Choosing, Serving
<1>5. UpgradeGuarded
    BY <1>1, <1>2, NoDatabase DEF UpgradeGuarded, Keeps, Safe, Choosing
<1>6. QED
    BY <1>3, <1>4, <1>5 DEF UpgradeInv

(* A process that is down or has only begun leaves everything as it was.   *)
LEMMA Rests ==
    ASSUME UpgradeInv, upgrade' = Resting, UNCHANGED <<paths, backups, original>>
    PROVE  UpgradeInv'
<1>1. upgrade' \in Process /\ upgrade'.pc = "down" /\ upgrade'.on = "live"
    BY DEF Resting, Process, Pcs
<1>2. Typed'
    BY <1>1 DEF UpgradeInv, Typed, Choosing, Serving
<1>3. Informed'
    BY <1>1 DEF Informed, Choosing, Serving
<1>4. UpgradeGuarded'
    BY <1>1 DEF UpgradeInv, UpgradeGuarded, Keeps, Safe, Choosing
<1>5. QED
    BY <1>2, <1>3, <1>4 DEF UpgradeInv

LEMMA OpenKeeps ==
    ASSUME UpgradeInv, OpenLive \/ OpenRemains
    PROVE  UpgradeInv'
<1>1. PICK existed \in BOOLEAN, content \in Database :
        /\ upgrade' = [Resting EXCEPT !.pc = "plan", !.existed = existed]
        /\ Put("live", content)
        /\ paths["live"] # Absent => existed
        /\ paths["live"] \in Database => content = paths["live"]
    BY EmptyIsDatabase, NoDatabase DEF OpenLive, OpenRemains, UpgradeInv, Typed
<1>2. UNCHANGED <<backups, original>>
    BY DEF OpenLive, OpenRemains
<1>3. /\ DOMAIN paths' = DOMAIN paths \cup {"live"} /\ paths'["live"] = content
      /\ \A p \in DOMAIN paths : p # "live" => paths'[p] = paths[p]
    BY <1>1, PutEffect
<1>4. /\ upgrade' \in Process /\ upgrade'.pc = "plan" /\ upgrade'.on = "live"
      /\ upgrade'.existed = existed
    BY <1>1 DEF Resting, Process, Pcs
<1>5. Typed'
    BY <1>2, <1>3, <1>4 DEF UpgradeInv, Typed, Opened, Choosing, Serving
<1>6. Informed'
    BY <1>4 DEF Informed, Choosing, Serving
<1>7. UpgradeGuarded'
    BY <1>1, <1>2, <1>3, <1>4, NoDatabase DEF UpgradeInv, UpgradeGuarded, Keeps, Safe, Choosing
<1>8. QED
    BY <1>5, <1>6, <1>7 DEF UpgradeInv

(* Steps that only move on, having read or copied something. *)
LEMMA PlanKeeps ==
    ASSUME UpgradeInv, Plan
    PROVE  UpgradeInv'
<1>1. PICK then \in {"down", "backup", "survey"} :
        /\ upgrade' = [upgrade EXCEPT !.pc = then]
        /\ then = "survey" => ~(Opened.version > Expected)
                              /\ ~MakesBackup(upgrade.existed, Opened.version)
    BY DEF Plan, Advance
<1>2. UNCHANGED <<paths, backups, original>> /\ upgrade.pc = "plan"
    BY DEF Plan, InStep
<1>3. upgrade.on = "live" /\ Opened \in Database /\ upgrade \in Process
    BY <1>2 DEF UpgradeInv, Typed
<1>4. /\ upgrade' \in Process /\ upgrade'.pc = then /\ upgrade'.on = "live"
    BY <1>1, <1>3 DEF Process, Pcs
<1>5. Typed'
    BY <1>2, <1>3, <1>4 DEF UpgradeInv, Typed, Opened, Choosing, Serving
<1>6. Informed'
    BY <1>4 DEF Informed, Choosing, Serving
<1>7. upgrade.existed /\ then = "survey" => Opened.version >= Expected
    BY <1>1, <1>3 DEF MakesBackup, Database
<1>8. UpgradeGuarded'
    BY <1>2, <1>3, <1>4, <1>7 DEF UpgradeInv, UpgradeGuarded, Keeps, Safe, Choosing, Opened
<1>9. QED
    BY <1>5, <1>6, <1>8 DEF UpgradeInv

LEMMA BackupKeeps ==
    ASSUME UpgradeInv, BeginBackup \/ EndBackup
    PROVE  UpgradeInv'
<1>1. PICK then \in {"copying", "survey"}, copy \in Database \cup {Partial} :
        /\ upgrade' = [upgrade EXCEPT !.pc = then]
        /\ backups' = backups \cup {copy}
        /\ then = "copying" => copy = Partial
        /\ then = "survey" => copy = Opened
    BY DEF BeginBackup, EndBackup, Advance, InStep, UpgradeInv, Typed
<1>2. UNCHANGED <<paths, original>> /\ upgrade.pc \in {"backup", "copying"}
    BY DEF BeginBackup, EndBackup, InStep
<1>3. upgrade.on = "live" /\ Opened \in Database /\ upgrade \in Process
    BY <1>2 DEF UpgradeInv, Typed
<1>4. /\ upgrade' \in Process /\ upgrade'.pc = then /\ upgrade'.on = "live"
    BY <1>1, <1>3 DEF Process, Pcs
<1>5. Typed'
    BY <1>1, <1>2, <1>3, <1>4 DEF UpgradeInv, Typed, Opened, Choosing, Serving
<1>6. Informed'
    BY <1>4 DEF Informed, Choosing, Serving
<1>7. ASSUME original \in Database PROVE UpgradeGuarded'
  <2>1. Safe => Safe'
      BY <1>1, <1>2 DEF Safe, Keeps
  <2>2. then = "survey" => Safe'
      BY <1>1, <1>2, <1>3, <1>7, <2>1, NoDatabase
      DEF UpgradeInv, UpgradeGuarded, Safe, Keeps, Opened
  <2>3. backups' \ {Partial} # {} => Safe'
      BY <1>1, <1>7, <2>1, <2>2 DEF UpgradeInv, UpgradeGuarded
  <2>4. QED
      BY <1>2, <1>4, <1>7, <2>1, <2>2, <2>3
      DEF UpgradeInv, UpgradeGuarded, Keeps, Choosing
<1>8. original \notin Database => UpgradeGuarded'
    BY <1>2 DEF UpgradeGuarded
<1>9. QED
    BY <1>5, <1>6, <1>7, <1>8 DEF UpgradeInv

LEMMA SurveyKeeps ==
    ASSUME UpgradeInv, Survey
    PROVE  UpgradeInv'
<1>1. /\ upgrade' = [upgrade EXCEPT !.pc = "choose",
                       !.current = Opened.version, !.seen = Opened.applied]
      /\ UNCHANGED <<paths, backups, original>> /\ upgrade.pc = "survey"
    BY DEF Survey, InStep
<1>2. Opened \in Database /\ upgrade \in Process
    BY <1>1 DEF UpgradeInv, Typed
<1>3. /\ upgrade' \in Process /\ upgrade'.pc = "choose"
      /\ upgrade'.on = upgrade.on /\ upgrade'.current = Opened.version
      /\ upgrade'.seen = Opened.applied
    BY <1>1, <1>2 DEF Process, Pcs, Choosing, Database
<1>4. Opened' = Opened
    BY <1>1, <1>3 DEF Opened
<1>5. Typed'
    BY <1>1, <1>2, <1>3, <1>4 DEF UpgradeInv, Typed, Choosing, Serving
<1>6. Informed'
    BY <1>3, <1>4 DEF Informed, Choosing, Serving
<1>7. UpgradeGuarded'
    BY <1>1, <1>3 DEF UpgradeInv, UpgradeGuarded, Keeps, Safe, Choosing
<1>8. QED
    BY <1>5, <1>6, <1>7 DEF UpgradeInv

LEMMA ChooseKeeps ==
    ASSUME UpgradeInv, Choose
    PROVE  UpgradeInv'
<1> DEFINE due == Due(upgrade.current, upgrade.seen)
<1>1. PICK v \in due \cup {0} :
        /\ v = 0 => due = {}
        /\ upgrade' = [upgrade EXCEPT !.pc = "types", !.migration = v]
    BY DEF Choose
<1>2. UNCHANGED <<paths, backups, original>> /\ upgrade.pc = "choose"
    BY DEF Choose, InStep
<1>3. /\ Opened \in Database /\ upgrade \in Process
      /\ upgrade.current = Opened.version /\ upgrade.seen = Opened.applied
    BY <1>2 DEF UpgradeInv, Typed, Informed, Choosing
<1>4. v \in Nat
    BY DEF Due
<1>5. /\ upgrade' \in Process /\ upgrade'.pc = "types"
      /\ upgrade'.on = upgrade.on /\ upgrade'.current = upgrade.current
      /\ upgrade'.seen = upgrade.seen /\ upgrade'.migration = v
    BY <1>1, <1>3, <1>4 DEF Process, Pcs, Choosing
<1>6. Opened' = Opened
    BY <1>2, <1>5 DEF Opened
<1>7. v = 0 => AllApplied(Opened)
    BY <1>1, <1>3 DEF Due, AllApplied, Database
<1>8. Typed'
    BY <1>2, <1>3, <1>5, <1>6 DEF UpgradeInv, Typed, Choosing, Serving
<1>9. AllApplied(Opened) => AllApplied(Opened)'
    BY <1>6 DEF AllApplied
<1>10. Informed'
    BY <1>3, <1>5, <1>6, <1>7, <1>9 DEF Informed, Choosing, Serving
<1>11. upgrade.current >= Expected => v = 0
    BY <1>3 DEF Due, Database
<1>12. UpgradeGuarded'
    BY <1>2, <1>5, <1>11 DEF UpgradeInv, UpgradeGuarded, Keeps, Safe, Choosing
<1>13. QED
    BY <1>8, <1>10, <1>12 DEF UpgradeInv

(* One step of ensure_schema or of a migration: it changes the database    *)
(* that is open, and goes on to the next.                                  *)
LEMMA WorkKeepsTypes ==
    ASSUME UpgradeInv, NEW d \in Database, upgrade' \in Process,
           upgrade'.pc \in Choosing \cup {"validate"},
           upgrade'.on = upgrade.on,
           Put(upgrade.on, d), UNCHANGED <<backups, original>>
    PROVE  /\ Typed' /\ Opened' = d
           /\ upgrade.on # "live" => paths'["live"] = paths["live"]
           /\ upgrade.on = "live" => paths'["live"] = d
<1>1. /\ DOMAIN paths' = DOMAIN paths \cup {upgrade.on}
      /\ paths'[upgrade.on] = d
      /\ \A p \in DOMAIN paths : p # upgrade.on => paths'[p] = paths[p]
    BY PutEffect
<1>2. Opened' = d
    BY <1>1 DEF Opened
<1>3. "live" \in DOMAIN paths /\ upgrade.on \in {"live", "target"}
    BY DEF UpgradeInv, Typed, Process
<1>4. Typed'
    BY <1>1, <1>2, <1>3 DEF UpgradeInv, Typed, Choosing
<1>5. QED
    BY <1>1, <1>2, <1>3, <1>4

(* A step keeps to the backup rule when it works on the copy, when there is *)
(* a backup, or when it leaves the migrations alone.                       *)
LEMMA WorkKeepsGuarded ==
    ASSUME UpgradeInv, upgrade.pc \in Choosing, UNCHANGED <<backups, original>>,
           upgrade'.pc \in Choosing \cup Serving, upgrade'.on = upgrade.on,
           upgrade.on # "live" => paths'["live"] = paths["live"],
           upgrade.on = "live" => paths'["live"] \in Database,
           original \in Database /\ upgrade.on = "live" /\ ~Safe =>
             /\ Migrations(paths'["live"]) = Migrations(paths["live"])
             /\ upgrade'.current >= Expected /\ upgrade'.migration = 0
             /\ upgrade'.pc \notin {"record", "version"}
    PROVE  UpgradeGuarded'
<1> SUFFICES ASSUME original \in Database PROVE UpgradeGuarded'
    BY DEF UpgradeGuarded
<1>1. Safe' <=> Safe
    BY DEF Safe, Keeps
<1>2. upgrade'.pc \notin {"plan", "survey"}
    BY DEF Choosing, Serving
<1>3. paths'["live"] # Absent
    BY NoDatabase DEF UpgradeInv, UpgradeGuarded
<1>4. Safe' \/ (paths'["live"] \in Database /\ Keeps(paths["live"])')
    BY <1>1 DEF UpgradeInv, UpgradeGuarded, Keeps
<1>5. backups' \ {Partial} # {} => Safe'
    BY <1>1 DEF UpgradeInv, UpgradeGuarded
<1>6. upgrade'.on = "live" /\ ~Safe' =>
        upgrade'.current >= Expected /\ upgrade'.migration = 0
          /\ upgrade'.pc \notin {"record", "version"}
    BY <1>1
<1>7. QED
    BY <1>2, <1>3, <1>4, <1>5, <1>6 DEF UpgradeGuarded

LEMMA SchemaKeeps ==
    ASSUME UpgradeInv, EnsureTypes \/ EnsureIndex \/ Backfill
    PROVE  UpgradeInv'
<1> DEFINE d == CASE upgrade.pc = "types" -> [Opened EXCEPT !.typed = TRUE]
                  [] upgrade.pc = "index" -> [Opened EXCEPT !.dimension =
                                                IF @ = 0 THEN Dimension ELSE @]
                  [] OTHER -> [Opened EXCEPT !.placed =
                                 @ \/ Backfills(upgrade.migration)]
           then == CASE upgrade.pc = "types" -> "index"
                     [] upgrade.pc = "index" -> "backfill"
                     [] OTHER -> IF upgrade.migration # 0 THEN "record"
                                 ELSE "validate"
<1>1. upgrade.pc \in {"types", "index", "backfill"}
    BY DEF EnsureTypes, EnsureIndex, Backfill, InStep
<1>2. /\ Opened \in Database /\ upgrade \in Process
      /\ upgrade.current = Opened.version /\ upgrade.seen = Opened.applied
      /\ upgrade.migration = 0 => AllApplied(Opened)
      /\ upgrade.pc \in {"index", "backfill"} => Opened.typed
      /\ upgrade.pc = "backfill" => Opened.dimension # 0
    BY <1>1 DEF UpgradeInv, Typed, Informed, Choosing
<1>3. /\ upgrade' = [upgrade EXCEPT !.pc = then]
      /\ Put(upgrade.on, d) /\ UNCHANGED <<backups, original>>
    BY <1>1 DEF EnsureTypes, EnsureIndex, Backfill, InStep, Advance
<1>4. /\ d \in Database
      /\ d.version = Opened.version /\ d.applied = Opened.applied
    BY <1>1, <1>2 DEF Database, Backfills
<1>5. /\ upgrade.pc = "types" => d.typed
      /\ upgrade.pc = "index" => d.typed /\ d.dimension # 0
      /\ upgrade.pc = "backfill" => d.typed /\ d.dimension # 0 /\ d.placed
    BY <1>1, <1>2 DEF Database, Backfills
<1>6. /\ upgrade.pc = "types" => then = "index"
      /\ upgrade.pc = "index" => then = "backfill"
      /\ upgrade.pc = "backfill" =>
           then = IF upgrade.migration # 0 THEN "record" ELSE "validate"
    OBVIOUS
<1> HIDE DEF d, then
<1>7. then \in {"index", "backfill", "record", "validate"}
    BY <1>1, <1>6
<1>8. /\ upgrade' \in Process /\ upgrade'.pc = then /\ upgrade'.on = upgrade.on
      /\ upgrade'.current = upgrade.current /\ upgrade'.seen = upgrade.seen
      /\ upgrade'.migration = upgrade.migration
      /\ upgrade'.pc \in Choosing \cup {"validate"}
    BY <1>2, <1>3, <1>7 DEF Process, Pcs, Choosing, Serving
<1>9. /\ Typed' /\ Opened' = d
      /\ upgrade.on # "live" => paths'["live"] = paths["live"]
      /\ upgrade.on = "live" => paths'["live"] = d
    BY <1>3, <1>4, <1>8, WorkKeepsTypes
<1>10. upgrade.pc \in Choosing /\ upgrade'.pc \in Choosing \cup Serving
    BY <1>1, <1>8 DEF Choosing, Serving
<1>11. upgrade.migration = 0 => AllApplied(Opened)'
    BY <1>2, <1>4, <1>8, <1>9 DEF AllApplied
<1>12. Informed'
  <2>1. then = "validate" => UpToDate(Opened)'
      BY <1>1, <1>5, <1>6, <1>8, <1>9, <1>11 DEF UpToDate, AllApplied
  <2>2. QED
      BY <1>1, <1>2, <1>4, <1>5, <1>6, <1>8, <1>9, <1>11, <2>1
      DEF Informed, Choosing, Serving
<1>13. UpgradeGuarded'
  <2>1. original \in Database /\ upgrade.on = "live" /\ ~Safe =>
          upgrade.current >= Expected /\ upgrade.migration = 0
      BY <1>1 DEF UpgradeInv, UpgradeGuarded, Choosing
  <2>2. upgrade.on = "live" =>
          Migrations(paths'["live"]) = Migrations(paths["live"])
      BY <1>4, <1>9 DEF Migrations, Opened
  <2>3. QED
      BY <1>1, <1>2, <1>3, <1>4, <1>6, <1>8, <1>9, <1>10, <2>1, <2>2,
         WorkKeepsGuarded
<1>14. QED
    BY <1>9, <1>12, <1>13 DEF UpgradeInv

LEMMA MigrationKeeps ==
    ASSUME UpgradeInv, RecordMigration \/ UpsertVersion
    PROVE  UpgradeInv'
<1>1. upgrade.pc \in {"record", "version"}
    BY DEF RecordMigration, UpsertVersion, InStep
<1>2. /\ Opened \in Database /\ upgrade \in Process
      /\ upgrade.current = Opened.version
      /\ upgrade.pc \in Choosing
      /\ upgrade.pc = "record" => upgrade.seen = Opened.applied
    BY <1>1 DEF UpgradeInv, Typed, Informed, Choosing
<1>3. UNCHANGED <<backups, original>>
    BY DEF RecordMigration, UpsertVersion
<1>4. original \in Database /\ upgrade.on = "live" => Safe
    BY <1>1 DEF UpgradeInv, UpgradeGuarded
<1>5. upgrade.migration \in Nat /\ upgrade.current \in Nat
        /\ upgrade.seen \in SUBSET Nat
    BY <1>2 DEF Process
<1>6. CASE RecordMigration
  <2> DEFINE d == [Opened EXCEPT !.applied = @ \cup {upgrade.migration}]
  <2>1. d \in Database /\ d.version = Opened.version
      BY <1>2, <1>5 DEF Database
  <2>2. /\ upgrade' \in Process /\ upgrade'.pc = "version"
        /\ upgrade'.on = upgrade.on /\ upgrade'.current = upgrade.current
        /\ upgrade'.seen = upgrade.seen
        /\ upgrade'.migration = upgrade.migration
        /\ upgrade'.pc \in Choosing \cup {"validate"}
      BY <1>2, <1>6 DEF RecordMigration, Advance, Process, Pcs, Choosing
  <2>3. Put(upgrade.on, d)
      BY <1>6 DEF RecordMigration
  <2>4. /\ Typed' /\ Opened' = d
        /\ upgrade.on # "live" => paths'["live"] = paths["live"]
        /\ upgrade.on = "live" => paths'["live"] = d
      BY <1>3, <2>1, <2>2, <2>3, WorkKeepsTypes
  <2>9. upgrade.pc = "record" /\ d.applied = upgrade.seen \cup {upgrade.migration}
      BY <1>2, <1>6 DEF RecordMigration, InStep, Database
  <2> HIDE DEF d
  <2>5. Informed'
      BY <1>2, <2>1, <2>2, <2>4, <2>9 DEF Informed, Choosing, Serving
  <2>6. UpgradeGuarded'
      BY <1>2, <1>3, <1>4, <2>1, <2>2, <2>4, WorkKeepsGuarded
  <2>7. QED
      BY <2>4, <2>5, <2>6 DEF UpgradeInv
<1>7. CASE UpsertVersion
  <2> DEFINE d == [Opened EXCEPT !.version = upgrade.migration]
             known == upgrade.seen \cup {upgrade.migration}
  <2>1. /\ d \in Database /\ d.version = upgrade.migration
        /\ d.applied = Opened.applied
      BY <1>2, <1>5 DEF Database
  <2>2. /\ upgrade' \in Process /\ upgrade'.pc = "choose"
        /\ upgrade'.on = upgrade.on /\ upgrade'.current = upgrade.migration
        /\ upgrade'.seen = known
        /\ upgrade'.pc \in Choosing \cup {"validate"}
      BY <1>2, <1>5, <1>7 DEF UpsertVersion, Process, Pcs, Choosing
  <2>3. Put(upgrade.on, d) /\ upgrade.pc = "version"
      BY <1>7 DEF UpsertVersion, InStep
  <2>4. known = Opened.applied
      BY <1>2, <2>3 DEF UpgradeInv, Informed
  <2> HIDE DEF d, known
  <2>5. /\ Typed' /\ Opened' = d
        /\ upgrade.on # "live" => paths'["live"] = paths["live"]
        /\ upgrade.on = "live" => paths'["live"] = d
      BY <1>3, <2>1, <2>2, <2>3, WorkKeepsTypes
  <2>6. Informed'
      BY <2>1, <2>2, <2>4, <2>5 DEF Informed, Choosing, Serving
  <2>7. UpgradeGuarded'
      BY <1>2, <1>3, <1>4, <2>1, <2>2, <2>5, WorkKeepsGuarded
  <2>8. QED
      BY <2>5, <2>6, <2>7 DEF UpgradeInv
<1>8. QED
    BY <1>6, <1>7

LEMMA FinishedKeeps ==
    ASSUME UpgradeInv, Finished
    PROVE  UpgradeInv'
<1>1. upgrade.pc = "validate" /\ UNCHANGED <<paths, backups, original>>
    BY DEF Finished, InStep
<1>2. CASE upgrade' = Resting
    BY <1>1, <1>2, Rests
<1>3. CASE upgrade' # Resting
  <2>1. PICK then \in {"serving", "migrated"} :
          /\ upgrade' = [upgrade EXCEPT !.pc = then]
          /\ then = "serving" => upgrade.on = "live" /\ Opened.dimension = Dimension
          /\ then = "migrated" => upgrade.on # "live"
      BY <1>3 DEF Finished, Advance
  <2>2. /\ upgrade \in Process /\ Opened \in Database /\ UpToDate(Opened)
      BY <1>1 DEF UpgradeInv, Typed, Informed, Serving
  <2>3. /\ upgrade' \in Process /\ upgrade'.pc = then /\ upgrade'.on = upgrade.on
      BY <2>1, <2>2 DEF Process, Pcs, Serving
  <2>4. Opened' = Opened
      BY <1>1, <2>3 DEF Opened
  <2>5. Typed'
      BY <1>1, <2>1, <2>2, <2>3, <2>4 DEF UpgradeInv, Typed, Choosing, Serving, Process
  <2>9. UpToDate(Opened)'
      BY <2>2, <2>4 DEF UpToDate
  <2>6. Informed'
      BY <2>1, <2>3, <2>4, <2>9 DEF Informed, Choosing, Serving
  <2>7. UpgradeGuarded'
      BY <1>1, <2>3 DEF UpgradeInv, UpgradeGuarded, Keeps, Safe, Choosing
  <2>8. QED
      BY <2>5, <2>6, <2>7 DEF UpgradeInv
<1>4. QED
    BY <1>2, <1>3

-----------------------------------------------------------------------------
(* Migration of a copy, and restore. *)
LEMMA CopyKeeps ==
    ASSUME UpgradeInv, BeginMigrate \/ BackUpSource \/ OpenTarget
                   \/ \E overwrite \in BOOLEAN : CopySource(overwrite)
    PROVE  UpgradeInv'
<1>1. CASE BeginMigrate
  <2>1. /\ upgrade' \in Process /\ upgrade'.pc = "source"
        /\ upgrade'.on = "live" /\ paths["live"] \in Database
      BY <1>1 DEF BeginMigrate, Resting, Process, Pcs, There
  <2>2. UNCHANGED <<paths, backups, original>>
      BY <1>1 DEF BeginMigrate
  <2>3. QED
      BY <2>1, <2>2 DEF UpgradeInv, Typed, Informed, UpgradeGuarded, Safe, Keeps, Choosing,
                        Serving
<1>2. CASE BackUpSource
  <2>1. /\ upgrade' = [upgrade EXCEPT !.pc = "target"]
        /\ upgrade.pc = "source" /\ upgrade \in Process
        /\ paths["live"] \in Database
      BY <1>2 DEF BackUpSource, Advance, InStep, UpgradeInv, Typed
  <2>2. /\ upgrade' \in Process /\ upgrade'.pc = "target"
        /\ upgrade'.on = upgrade.on
      BY <2>1 DEF Process, Pcs
  <2>3. /\ backups' = backups \cup {paths["live"]}
        /\ UNCHANGED <<paths, original>>
      BY <1>2 DEF BackUpSource
  <2>4. Typed'
      BY <2>1, <2>2, <2>3 DEF UpgradeInv, Typed, Choosing, Serving
  <2>5. Informed'
      BY <2>2 DEF Informed, Choosing, Serving
  <2>6. ASSUME original \in Database PROVE Safe'
      BY <2>1, <2>3, <2>6, NoDatabase DEF UpgradeInv, UpgradeGuarded, Safe, Keeps
  <2>7. UpgradeGuarded'
      BY <2>2, <2>3, <2>6 DEF UpgradeInv, UpgradeGuarded, Choosing
  <2>8. QED
      BY <2>4, <2>5, <2>7 DEF UpgradeInv
<1>3. ASSUME NEW overwrite \in BOOLEAN, CopySource(overwrite) PROVE UpgradeInv'
  <2>1. UNCHANGED <<backups, original>> /\ upgrade.pc = "target"
      BY <1>3 DEF CopySource, InStep
  <2>2. CASE upgrade' = Resting /\ UNCHANGED paths
      BY <2>1, <2>2, Rests
  <2>3. CASE Put("target", Partial) /\ Advance("copy")
    <3>1. /\ DOMAIN paths' = DOMAIN paths \cup {"target"}
          /\ paths'["target"] = Partial
          /\ \A p \in DOMAIN paths : p # "target" => paths'[p] = paths[p]
        BY <2>3, PutEffect
    <3>2. /\ upgrade' \in Process /\ upgrade'.pc = "copy"
          /\ upgrade'.on = upgrade.on
        BY <2>3 DEF Advance, UpgradeInv, Typed, Process, Pcs
    <3>3. paths'["live"] = paths["live"] /\ paths["live"] \in Database
        BY <2>1, <3>1 DEF UpgradeInv, Typed
    <3>4. Typed'
        BY <2>1, <3>1, <3>2, <3>3 DEF UpgradeInv, Typed, Choosing, Serving
    <3>5. Informed'
        BY <3>2 DEF Informed, Choosing, Serving
    <3>6. UpgradeGuarded'
        BY <2>1, <3>2, <3>3 DEF UpgradeInv, UpgradeGuarded, Safe, Keeps, Choosing
    <3>7. QED
        BY <3>4, <3>5, <3>6 DEF UpgradeInv
  <2>4. QED
      BY <1>3, <2>2, <2>3 DEF CopySource
<1>4. CASE OpenTarget
  <2>1. /\ UNCHANGED <<backups, original>> /\ upgrade.pc = "copy"
        /\ Put("target", paths["live"])
      BY <1>4 DEF OpenTarget, InStep
  <2>2. /\ DOMAIN paths' = DOMAIN paths \cup {"target"}
        /\ paths'["target"] = paths["live"]
        /\ \A p \in DOMAIN paths : p # "target" => paths'[p] = paths[p]
      BY <2>1, PutEffect
  <2>3. paths'["live"] = paths["live"] /\ paths["live"] \in Database
      BY <2>1, <2>2 DEF UpgradeInv, Typed
  <2>4. /\ upgrade' \in Process /\ upgrade'.pc \in {"down", "survey"}
        /\ upgrade'.pc = "survey" => upgrade'.on = "target"
        /\ upgrade'.pc = "down" => upgrade'.on = "live"
      BY <1>4 DEF OpenTarget, Resting, UpgradeInv, Typed, Process, Pcs
  <2>5. Typed'
      BY <2>1, <2>2, <2>3, <2>4 DEF UpgradeInv, Typed, Opened, Choosing, Serving
  <2>6. Informed'
      BY <2>4 DEF Informed, Choosing, Serving
  <2>7. UpgradeGuarded'
      BY <2>1, <2>3, <2>4 DEF UpgradeInv, UpgradeGuarded, Safe, Keeps, Choosing
  <2>8. QED
      BY <2>5, <2>6, <2>7 DEF UpgradeInv
<1>5. QED
    BY <1>1, <1>2, <1>3, <1>4

LEMMA RestoreKeeps ==
    ASSUME UpgradeInv, Restore
    PROVE  UpgradeInv'
<1>1. UNCHANGED <<backups, original>>
    BY DEF Restore, BeginRestore, EndRestore
<1>2. PICK content \in Database \cup {Partial} :
        /\ Put("live", content)
        /\ upgrade' = Resting \/ Advance("restore")
        /\ upgrade.pc \in {"down", "restore"}
        /\ \/ upgrade.pc = "down" /\ backups \ {Partial} # {}
           \/ content \in backups \ {Partial}
    BY DEF Restore, BeginRestore, EndRestore, InStep, UpgradeInv, Typed
<1>3. /\ DOMAIN paths' = DOMAIN paths \cup {"live"} /\ paths'["live"] = content
      /\ \A p \in DOMAIN paths : p # "live" => paths'[p] = paths[p]
    BY <1>2, PutEffect
<1>4. /\ upgrade' \in Process /\ upgrade'.pc \in {"down", "restore"}
      /\ upgrade'.on \in {upgrade.on, "live"}
  <2>1. CASE upgrade' = Resting
      BY <2>1 DEF Resting, Process, Pcs
  <2>2. CASE Advance("restore")
    <3>1. upgrade \in Process /\ upgrade' = [upgrade EXCEPT !.pc = "restore"]
        BY <2>2 DEF Advance, UpgradeInv, Typed
    <3>2. QED
        BY <3>1 DEF Process, Pcs
  <2>3. QED
      BY <1>2, <2>1, <2>2
<1>5. Typed'
    BY <1>1, <1>3, <1>4 DEF UpgradeInv, Typed, Choosing, Serving
<1>6. Informed'
    BY <1>4 DEF Informed, Choosing, Serving
<1>7. ASSUME original \in Database PROVE Safe'
    BY <1>1, <1>2, <1>7 DEF UpgradeInv, UpgradeGuarded, Safe, Keeps
<1>8. UpgradeGuarded'
  <2>1. paths'["live"] # Absent
      BY <1>2, <1>3, NoDatabase
  <2>2. upgrade'.pc # "plan"
      BY <1>4
  <2>3. QED
      BY <1>1, <1>7, <2>1, <2>2 DEF UpgradeGuarded
<1>9. QED
    BY <1>5, <1>6, <1>8 DEF UpgradeInv

LEMMA UpgradeInvStep == UpgradeInv /\ [UpgradeNext]_upgradeVars => UpgradeInv'
<1> SUFFICES ASSUME UpgradeInv, [UpgradeNext]_upgradeVars PROVE UpgradeInv'
    OBVIOUS
<1>1. CASE OpenLive \/ OpenRemains
    BY <1>1, OpenKeeps
<1>2. CASE Plan \/ BeginBackup \/ EndBackup \/ Survey \/ Choose
    BY <1>2, PlanKeeps, BackupKeeps, SurveyKeeps, ChooseKeeps
<1>3. CASE EnsureTypes \/ EnsureIndex \/ Backfill
    BY <1>3, SchemaKeeps
<1>4. CASE RecordMigration \/ UpsertVersion
    BY <1>4, MigrationKeeps
<1>5. CASE Finished
    BY <1>5, FinishedKeeps
<1>6. CASE RecordRefused \/ CloseLive \/ Interrupt
    BY <1>6, Rests DEF RecordRefused, CloseLive, Interrupt
<1>7. CASE BeginMigrate \/ MigrateCopy
    BY <1>7, CopyKeeps DEF MigrateCopy
<1>8. CASE Restore
    BY <1>8, RestoreKeeps
<1>9. CASE UNCHANGED upgradeVars
    BY <1>9 DEF upgradeVars, UpgradeInv, Typed, Informed, UpgradeGuarded, Safe, Keeps,
       Opened, AllApplied, UpToDate
<1>10. QED
    BY <1>1, <1>2, <1>3, <1>4, <1>5, <1>6, <1>7, <1>8, <1>9
    DEF UpgradeNext, StartUp

(* The types of the variables hold, and what is open is there.             *)
THEOREM UpgradeTypeCorrect == UpgradeSpec => []UpgradeTypeOK
    BY UpgradeInvInit, UpgradeInvStep, UpgradeInvImpliesTypes, PTL DEF UpgradeSpec

(* However upgrades, migrations and restores are interrupted, a database   *)
(* that was there is never without a whole copy at its migrations.         *)
THEOREM AlwaysBackedUp == UpgradeSpec => []BackedUp
    BY UpgradeInvInit, UpgradeInvStep, UpgradeInvImpliesBackedUp, PTL DEF UpgradeSpec

(* What is served is up to date, whatever an interrupted upgrade left.     *)
THEOREM ServesUpToDate == UpgradeSpec => []ServedIsUpToDate
    BY UpgradeInvInit, UpgradeInvStep, UpgradeInvImpliesUpToDate, PTL DEF UpgradeSpec

-----------------------------------------------------------------------------
(* Folder ingestion.                                                       *)

(* What a run knows is true: a file that it is about to record without a   *)
(* failure is stored.                                                      *)
Placed  == {"ingest", "close", "verify", "recover", "recheck", "reopen", "record"}
Writing == {"write", "rename"}

Honest(x, S) ==
    /\ x \in Run
    /\ x.pc \in Placed \/ x.then = "ingest" => x.file \in Files
    /\ x.pc \notin {"open", "write", "rename"} => x.then = "next"
    /\ x.pc \in {"close", "verify"} => x.file \in S
    /\ x.pc \in {"recover", "recheck", "reopen"} => x.failed
    /\ x.pc = "record" => x.failed \/ x.file \in S

(* ImplementsDelivery needs more than the manifest and the database: the   *)
(* copies of all the runs, each of which may become the manifest, and, as  *)
(* long as no two runs have clashed, that the .tmp file that a run is      *)
(* about to rename is its own copy.                                        *)
Acknowledges(entries, S) == \A f \in Files : entries[f] = "succeeded" => f \in S

Apart ==
    /\ manifest \in Manifest /\ Acknowledges(manifest, stored)
    /\ \A r \in Slots : runs[r] # NoRun =>
         /\ Acknowledges(runs[r].copy, stored)
         /\ runs[r].pc \in Writing =>
              /\ runs[r].at = "temp" /\ runs[r].alone
              /\ \A q \in Slots \ {r} : runs[q] # NoRun => runs[q].pc \notin Writing
         /\ runs[r].pc = "rename" => temp = runs[r].copy

FolderInv ==
    /\ stored \in SUBSET Files
    /\ manifest \in Manifest \cup {Torn}
    /\ temp \in Manifest \cup {Torn, NoTemp}
    /\ opened \in BOOLEAN /\ clashed \in BOOLEAN /\ faults \in Nat
    /\ DOMAIN runs = Slots /\ runs = [r \in Slots |-> runs[r]]
    /\ \A r \in Slots : runs[r] = NoRun \/ Honest(runs[r], stored)
    /\ ~clashed => Apart

LEMMA NoRunIsNoRun == NoRun \notin Run
    BY DEF NoRun, Run, Steps

LEMMA FolderInvImpliesType == FolderInv => FolderTypeOK
<1> SUFFICES ASSUME FolderInv PROVE FolderTypeOK
    OBVIOUS
<1>1. \A r \in Slots : runs[r] \in Run \cup {NoRun}
    BY DEF FolderInv, Honest
<1>2. runs \in [Slots -> Run \cup {NoRun}]
    BY <1>1 DEF FolderInv
<1>3. ASSUME NEW r \in Slots, runs[r] # NoRun
      PROVE  /\ runs[r].pc \in Placed \/ runs[r].then = "ingest" => runs[r].file \in Files
             /\ runs[r].pc \in Placed \ {"ingest"}
                  => runs[r].failed \/ runs[r].file \in stored
  <2>1. Honest(runs[r], stored)
      BY <1>3 DEF FolderInv
  <2>2. QED
      BY <2>1 DEF Honest, Placed
<1>4. QED
    BY <1>2, <1>3 DEF FolderInv, FolderTypeOK, Placed

(* What a run has found stored remains stored. *)
LEMMA HonestGrows ==
    ASSUME NEW x, NEW S, NEW T, S \subseteq T, Honest(x, S)
    PROVE  Honest(x, T)
    BY DEF Honest

(* A step of one run that does not touch the manifest, after which that    *)
(* run is honest.                                                          *)
LEMMA OneRun ==
    ASSUME FolderInv, NEW r \in Slots, NEW x,
           runs' = [runs EXCEPT ![r] = x],
           stored \subseteq stored', stored' \in SUBSET Files,
           x = NoRun \/ /\ Honest(x, stored') /\ x.pc \notin Writing
                        /\ ~clashed => Acknowledges(x.copy, stored'),
           UNCHANGED files, opened' \in BOOLEAN, faults' \in Nat
    PROVE  FolderInv'
<1> USE DEF files
<1>1. DOMAIN runs' = Slots /\ runs' = [s \in Slots |-> runs'[s]]
    BY DEF FolderInv
<1>2. runs'[r] = x /\ \A s \in Slots \ {r} : runs'[s] = runs[s]
    BY DEF FolderInv
<1>3. \A s \in Slots : runs'[s] = NoRun \/ Honest(runs'[s], stored')
  <2>1. ASSUME NEW s \in Slots, s # r PROVE runs'[s] = NoRun \/ Honest(runs'[s], stored')
    <3>1. runs[s] = NoRun \/ Honest(runs[s], stored)
        BY DEF FolderInv
    <3>2. QED
        BY <1>2, <2>1, <3>1, HonestGrows
  <2>2. QED
      BY <1>2, <2>1
<1>4. ASSUME ~clashed PROVE Apart'
  <2>1. Apart
      BY <1>4 DEF FolderInv
  <2>2. QED
      BY <1>2, <1>4, <2>1 DEF Apart, Acknowledges, Writing
<1>5. QED
    BY <1>1, <1>3, <1>4 DEF FolderInv

LEMMA SynchronizedHonest ==
    ASSUME FolderInv, manifest # Torn, NEW window
    PROVE  /\ Synchronized(window) \in Manifest
           /\ ~clashed => Acknowledges(Synchronized(window), stored)
    BY DEF FolderInv, Apart, Synchronized, Acknowledges, Entries, Manifest

LEMMA StartKeeps ==
    ASSUME FolderInv, NEW r \in Slots, NEW request \in Requests, Start(r, request)
    PROVE  FolderInv'
<1> DEFINE entries == Synchronized(request.window)
           x == [pc |-> "open", then |-> "next", at |-> "temp", alone |-> TRUE,
                 file |-> 0, failed |-> FALSE,
                 copy |-> entries, todo |-> Candidates(request, entries),
                 stop |-> request.stop, strategy |-> request.strategy]
<1>1. request \in Request
    BY FolderAssumption
<1>2. UNCHANGED <<stored, files, opened, faults>>
    BY DEF Start
<1>3. CASE manifest = Torn
    BY <1>2, <1>3 DEF Start, FolderInv, Apart, files
<1>4. CASE manifest # Torn
  <2>1. entries \in Manifest /\ (~clashed => Acknowledges(entries, stored))
      BY <1>4, SynchronizedHonest
  <2>2. Candidates(request, entries) \in SUBSET Files
      BY <1>1 DEF Candidates, Request
  <2>3. x \in Run
      BY <1>1, <2>1, <2>2, FolderAssumption DEF Run, Request, Steps
  <2>4. Honest(x, stored) /\ x.pc \notin Writing
      BY <2>3 DEF Honest, Writing, Placed
  <2>5. runs' = [runs EXCEPT ![r] = x]
      BY <1>4 DEF Start
  <2>6. x.copy = entries
      OBVIOUS
  <2> HIDE DEF x
  <2>7. QED
      BY <1>2, <2>1, <2>4, <2>5, <2>6, OneRun DEF FolderInv
<1>5. QED
    BY <1>3, <1>4

(* The three steps that write the manifest. *)
LEMMA OpenTempKeeps ==
    ASSUME FolderInv, NEW r \in Slots, OpenTemp(r)
    PROVE  FolderInv'
<1>1. /\ UNCHANGED <<stored, manifest, opened>> /\ temp' = Torn
      /\ clashed' \in BOOLEAN /\ faults' \in Nat
      /\ DOMAIN runs' = Slots /\ runs' = [s \in Slots |-> runs'[s]]
  <2>1. UNCHANGED <<stored, manifest, opened>> /\ temp' = Torn
      BY DEF OpenTemp
  <2>2. clashed' \in BOOLEAN /\ faults' \in Nat
    <3>1. \/ faults' = faults + 1 /\ clashed' = TRUE
          \/ UNCHANGED <<faults, clashed>>
        BY DEF OpenTemp
    <3>2. faults \in Nat /\ clashed \in BOOLEAN
        BY DEF FolderInv
    <3>3. CASE faults' = faults + 1 /\ clashed' = TRUE
        BY <3>2, <3>3
    <3>4. CASE UNCHANGED <<faults, clashed>>
        BY <3>2, <3>4
    <3>5. QED
        BY <3>1, <3>3, <3>4
  <2>3. DOMAIN runs' = Slots /\ runs' = [s \in Slots |-> runs'[s]]
      BY DEF OpenTemp
  <2>4. QED
      BY <2>1, <2>2, <2>3
<1>2. runs[r] # NoRun /\ runs[r].pc = "open"
    BY DEF OpenTemp, At
<1>3. /\ runs'[r] # NoRun => runs'[r].copy = runs[r].copy
      /\ Honest(runs'[r], stored)
  <2>1. PICK b \in BOOLEAN :
          runs'[r] = [runs[r] EXCEPT !.pc = "write", !.at = "temp", !.alone = b]
      BY DEF OpenTemp
  <2>2. Honest(runs[r], stored)
      BY <1>2 DEF FolderInv
  <2>3. QED
      BY <1>2, <2>1, <2>2 DEF Honest, Run, Steps, Placed
<1>4. ASSUME NEW q \in Slots, q # r
      PROVE  runs'[q] = NoRun \/ Honest(runs'[q], stored)
  <2>1. \/ runs'[q] = runs[q]
        \/ runs[q] # NoRun /\ runs[q].pc = "write"
           /\ runs'[q] = [runs[q] EXCEPT !.alone = FALSE]
      BY <1>4 DEF OpenTemp, At
  <2>2. runs[q] = NoRun \/ Honest(runs[q], stored)
      BY DEF FolderInv
  <2>3. QED
      BY <2>1, <2>2 DEF Honest, Run, Steps, Placed
<1>5. ASSUME ~clashed' PROVE Apart'
  <2>1. ~clashed /\ \A q \in Slots \ {r} : runs[q] # NoRun => runs[q].pc \notin Writing
      BY <1>5 DEF OpenTemp, At, Writing, FolderInv
  <2>2. Apart
      BY <2>1 DEF FolderInv
  <2>3. \A q \in Slots \ {r} : runs'[q] = runs[q]
      BY <2>1 DEF OpenTemp, At, Writing
  <2>4. runs'[r] = [runs[r] EXCEPT !.pc = "write", !.at = "temp", !.alone = TRUE]
      BY <2>1 DEF OpenTemp, At, Writing
  <2>5. runs[r] \in Run
      BY <1>2 DEF FolderInv, Honest
  <2>6. /\ runs'[r].at = "temp" /\ runs'[r].alone /\ runs'[r].pc = "write"
        /\ runs'[r].copy = runs[r].copy
      BY <2>4, <2>5 DEF Run
  <2>7. QED
      BY <1>1, <1>2, <2>1, <2>2, <2>3, <2>6 DEF Apart, Writing
<1>6. QED
    BY <1>1, <1>3, <1>4, <1>5 DEF FolderInv

LEMMA WriteTempKeeps ==
    ASSUME FolderInv, NEW r \in Slots, WriteTemp(r)
    PROVE  FolderInv'
<1> DEFINE x == runs[r]
<1>1. /\ UNCHANGED <<stored, opened, clashed, faults>>
      /\ x # NoRun /\ x.pc = "write"
    BY DEF WriteTemp, At
<1>2. Honest(x, stored) /\ x \in Run
    BY <1>1 DEF FolderInv, Honest
<1>3. PICK new \in Manifest \cup {Torn} :
        /\ Hold(r, new)
        /\ \/ StepTo(r, "rename") /\ (x.alone => new = x.copy)
           \/ ~x.alone /\ UNCHANGED runs
    BY <1>2 DEF WriteTemp, Mixed, Run
<1>4. manifest' \in Manifest \cup {Torn} /\ temp' \in Manifest \cup {Torn, NoTemp}
    BY <1>3 DEF Hold, FolderInv
<1>5. DOMAIN runs' = Slots /\ runs' = [s \in Slots |-> runs'[s]]
    BY <1>3 DEF StepTo, FolderInv
<1>6. ASSUME NEW q \in Slots PROVE runs'[q] = NoRun \/ Honest(runs'[q], stored)
  <2>1. CASE runs'[q] = runs[q]
      BY <2>1 DEF FolderInv
  <2>2. CASE q = r /\ runs'[q] = [x EXCEPT !.pc = "rename"]
      BY <1>1, <1>2, <2>2 DEF Honest, Run, Steps, Placed
  <2>3. QED
      BY <1>3, <2>1, <2>2 DEF StepTo, FolderInv
<1>7. ASSUME ~clashed PROVE Apart'
  <2>1. Apart
      BY <1>7 DEF FolderInv
  <2>2. x.at = "temp" /\ x.alone
      BY <1>1, <2>1 DEF Apart, Writing
  <2>3. runs' = [runs EXCEPT ![r].pc = "rename"] /\ temp' = x.copy /\ UNCHANGED manifest
      BY <1>3, <2>2 DEF StepTo, Hold
  <2>4. /\ runs'[r] = [x EXCEPT !.pc = "rename"]
        /\ \A q \in Slots \ {r} : runs'[q] = runs[q]
      BY <2>3 DEF FolderInv
  <2>5. runs'[r].pc = "rename" /\ runs'[r].at = "temp" /\ runs'[r].alone
        /\ runs'[r].copy = x.copy
      BY <1>2, <2>2, <2>4 DEF Run
  <2>6. QED
      BY <1>1, <2>1, <2>3, <2>4, <2>5 DEF Apart, Writing
<1>8. QED
    BY <1>1, <1>4, <1>5, <1>6, <1>7 DEF FolderInv

LEMMA RenameKeeps ==
    ASSUME FolderInv, NEW r \in Slots, Rename(r)
    PROVE  FolderInv'
<1> DEFINE x == runs[r]
           y == [x EXCEPT !.pc = x.then, !.then = "next", !.at = "temp",
                          !.alone = TRUE]
<1>1. /\ UNCHANGED <<stored, opened, clashed, faults>>
      /\ x # NoRun /\ x.pc = "rename" /\ temp' = NoTemp
      /\ manifest' = IF temp = NoTemp THEN manifest ELSE temp
      /\ DOMAIN runs' = Slots /\ runs' = [s \in Slots |-> runs'[s]]
    BY DEF Rename, At
<1>2. Honest(x, stored) /\ x \in Run
    BY <1>1 DEF FolderInv, Honest
<1>3. runs'[r] = NoRun \/ (runs'[r] = y /\ x.then # "idle")
    BY DEF Rename
<1>4. y.copy = x.copy /\ y.pc = x.then
    BY <1>2 DEF Run
<1>5. x.then # "idle" => Honest(y, stored)
    BY <1>1, <1>2 DEF Honest, Run, Steps, Placed
<1>6. ASSUME NEW q \in Slots, q # r PROVE runs'[q] = NoRun \/ Honest(runs'[q], stored)
  <2>1. \/ runs'[q] = runs[q]
        \/ runs[q] # NoRun /\ \E at \in {"manifest", "gone"} :
             runs'[q] = [runs[q] EXCEPT !.at = at]
      BY <1>6 DEF Rename, At
  <2>2. runs[q] = NoRun \/ Honest(runs[q], stored)
      BY DEF FolderInv
  <2>3. QED
      BY <2>1, <2>2 DEF Honest, Run, Steps, Placed
<1>7. ASSUME ~clashed PROVE Apart'
  <2>1. Apart
      BY <1>7 DEF FolderInv
  <2>2. /\ temp = x.copy /\ x.copy \in Manifest /\ Acknowledges(x.copy, stored)
        /\ \A q \in Slots \ {r} : runs[q] # NoRun => runs[q].pc \notin Writing
      BY <1>1, <1>2, <2>1 DEF Apart, Writing, Run
  <2>3. \A q \in Slots \ {r} : runs'[q] = runs[q]
      BY <2>2 DEF Rename, At, Writing
  <2>4. manifest' = x.copy
      BY <1>1, <2>2, FolderAssumption
  <2>5. runs'[r] # NoRun => runs'[r].copy = x.copy /\ runs'[r].pc \notin Writing
      BY <1>2, <1>3, <1>4 DEF Run, Writing
  <2>6. QED
      BY <1>1, <2>1, <2>2, <2>3, <2>4, <2>5 DEF Apart, Writing
<1>8. manifest' \in Manifest \cup {Torn}
    BY <1>1 DEF FolderInv
<1> HIDE DEF y
<1>9. \A q \in Slots : runs'[q] = NoRun \/ Honest(runs'[q], stored)
    BY <1>3, <1>5, <1>6
<1>10. QED
    BY <1>1, <1>7, <1>8, <1>9 DEF FolderInv

(* Every other step of a run leaves it honest.  The run is named x before  *)
(* the step and y after it.                                                *)
LEMMA ProgressKeeps ==
    ASSUME FolderInv, NEW r \in Slots, Progress(r)
    PROVE  FolderInv'
<1> DEFINE x == runs[r]
<1>1. x # NoRun /\ x \in Run /\ Honest(x, stored)
    BY DEF Progress, OpenTemp, WriteTemp, Rename, Take, Ingest, Close, Verify,
           Reopen, Record, Finish, At, FolderInv, Honest
<1>2. stored \in SUBSET Files /\ opened \in BOOLEAN /\ faults \in Nat /\ DOMAIN runs = Slots
    BY DEF FolderInv
<1>3. x.copy \in Manifest /\ (~clashed => Acknowledges(x.copy, stored))
    BY <1>1 DEF FolderInv, Apart, Run
<1>4. CASE OpenTemp(r) \/ WriteTemp(r) \/ Rename(r)
    BY <1>4, OpenTempKeeps, WriteTempKeeps, RenameKeeps
<1>5. CASE Take(r)
  <2>1. PICK f \in x.todo : runs' = [runs EXCEPT ![r] =
               [x EXCEPT !.pc = "open", !.then = "ingest", !.file = f,
                         !.todo = @ \ {f}, !.copy = [@ EXCEPT ![f] = "running"]]]
      BY <1>5 DEF Take
  <2> DEFINE y == [x EXCEPT !.pc = "open", !.then = "ingest", !.file = f,
                            !.todo = @ \ {f}, !.copy = [@ EXCEPT ![f] = "running"]]
  <2>2. UNCHANGED <<stored, files, opened, faults>>
      BY <1>5 DEF Take
  <2>3. f \in Files
      BY <1>1 DEF Run
  <2>4. y.copy \in Manifest /\ (~clashed => Acknowledges(y.copy, stored'))
      BY <1>1, <1>3, <2>2, <2>3 DEF Run, Entries, Acknowledges, Manifest
  <2>5. f \in 0 .. LastFile /\ x.todo \ {f} \in SUBSET Files
      BY <1>1, <2>3, FolderAssumption DEF Run, Files
  <2>6. y \in Run
      BY <1>1, <2>4, <2>5 DEF Run, Steps
  <2>7. Honest(y, stored') /\ y.pc \notin Writing
      BY <1>1, <2>3, <2>6 DEF Honest, Run, Placed, Writing
  <2> HIDE DEF y
  <2>8. runs' = [runs EXCEPT ![r] = y]
      BY <2>1 DEF y
  <2>9. QED
      BY <1>2, <2>2, <2>4, <2>7, <2>8, OneRun
<1>6. CASE Ingest(r)
  <2> DEFINE y == [x EXCEPT !.pc = IF x.strategy = "reopen_per_file"
                                   THEN "close" ELSE "record"]
  <2>1. runs' = [runs EXCEPT ![r] = y]
      BY <1>6 DEF Ingest, StepTo
  <2>2. /\ stored' = stored \cup {x.file} /\ opened' = TRUE
        /\ UNCHANGED <<files, faults>>
      BY <1>6 DEF Ingest
  <2>3. x.file \in Files
      BY <1>1, <1>6 DEF Ingest, At, Honest, Placed
  <2>4. Honest(y, stored') /\ y.copy = x.copy /\ y.pc \notin Writing
      BY <1>1, <1>6, <2>2, <2>3 DEF Ingest, At, Run, Steps, Honest, Writing
  <2> HIDE DEF y
  <2>5. QED
      BY <1>2, <1>3, <2>1, <2>2, <2>3, <2>4, OneRun DEF Acknowledges
<1>7. CASE Close(r)
  <2>1. PICK p \in {"verify", "recheck"} :
          /\ \/ x.pc = "close" /\ p = "verify"
             \/ x.pc = "recover" /\ p = "recheck"
          /\ runs' = [runs EXCEPT ![r] = [x EXCEPT !.pc = p]]
      BY <1>7 DEF Close, At, StepTo
  <2> DEFINE y == [x EXCEPT !.pc = p]
  <2>2. opened' = FALSE /\ UNCHANGED <<stored, files, faults>>
      BY <1>7 DEF Close
  <2>3. Honest(y, stored') /\ y.copy = x.copy /\ y.pc \notin Writing
      BY <1>1, <2>1, <2>2 DEF Run, Steps, Honest, Writing, Placed
  <2> HIDE DEF y
  <2>4. runs' = [runs EXCEPT ![r] = y]
      BY <2>1 DEF y
  <2>5. QED
      BY <1>2, <1>3, <2>2, <2>3, <2>4, OneRun
<1>8. CASE Verify(r)
  <2>1. PICK y : /\ runs' = [runs EXCEPT ![r] = y]
                 /\ \/ y = NoRun
                    \/ Honest(y, stored) /\ y.copy = x.copy /\ y.pc \notin Writing
    <3>1. CASE At(r, "verify") /\ StepTo(r, "record")
      <4> DEFINE y == [x EXCEPT !.pc = "record"]
      <4>1. Honest(y, stored) /\ y.copy = x.copy /\ y.pc \notin Writing
          BY <1>1, <3>1 DEF At, Run, Steps, Honest, Writing, Placed
      <4>2. QED
          BY <3>1, <4>1 DEF StepTo
    <3>2. CASE At(r, "verify") /\ Caught(r, TRUE)
      <4> DEFINE y == [x EXCEPT !.failed = TRUE,
                         !.pc = IF Recovers(x, TRUE) THEN "recover"
                                ELSE "record"]
      <4>1. Honest(y, stored) /\ y.copy = x.copy /\ y.pc \notin Writing
          BY <1>1, <3>2 DEF At, Run, Steps, Honest, Writing, Placed
      <4>2. QED
          BY <3>2, <4>1 DEF Caught
    <3>3. CASE At(r, "recheck") /\ StepTo(r, "reopen")
      <4> DEFINE y == [x EXCEPT !.pc = "reopen"]
      <4>1. Honest(y, stored) /\ y.copy = x.copy /\ y.pc \notin Writing
          BY <1>1, <3>3 DEF At, Run, Steps, Honest, Writing, Placed
      <4>2. QED
          BY <3>3, <4>1 DEF StepTo
    <3>4. CASE runs' = [runs EXCEPT ![r] = NoRun]
        BY <3>4
    <3>5. QED
        BY <1>8, <3>1, <3>2, <3>3, <3>4 DEF Verify
  <2>2. UNCHANGED <<stored, files, opened, faults>>
      BY <1>8 DEF Verify
  <2>3. QED
      BY <1>2, <1>3, <2>1, <2>2, OneRun
<1>9. CASE Reopen(r)
  <2> DEFINE y == [x EXCEPT !.pc = "record"]
  <2>1. runs' = [runs EXCEPT ![r] = y]
      BY <1>9 DEF Reopen, StepTo
  <2>2. opened' = TRUE /\ UNCHANGED <<stored, files, faults>>
      BY <1>9 DEF Reopen
  <2>3. Honest(y, stored') /\ y.copy = x.copy /\ y.pc \notin Writing
      BY <1>1, <1>9, <2>2 DEF Reopen, At, Run, Steps, Honest, Writing, Placed
  <2> HIDE DEF y
  <2>4. QED
      BY <1>2, <1>3, <2>1, <2>2, <2>3, OneRun
<1>10. CASE Record(r)
  <2> DEFINE y == [x EXCEPT !.pc = "open", !.file = 0, !.failed = FALSE,
                     !.todo = IF x.failed /\ x.stop THEN {} ELSE @,
                     !.copy = [@ EXCEPT ![x.file] = Outcome(x)]]
  <2>1. runs' = [runs EXCEPT ![r] = y]
      BY <1>10 DEF Record
  <2>2. UNCHANGED <<stored, files, opened, faults>>
      BY <1>10 DEF Record
  <2>3. /\ x.pc = "record" /\ x.then # "ingest"
        /\ x.file \in Files /\ (x.failed \/ x.file \in stored)
      BY <1>1, <1>10 DEF Record, At, Honest, Placed
  <2>4. y.copy \in Manifest /\ (~clashed => Acknowledges(y.copy, stored'))
      BY <1>1, <1>3, <2>2, <2>3 DEF Run, Entries, Acknowledges, Outcome, Manifest
  <2>5. 0 \in 0 .. LastFile /\ {} \in SUBSET Files
      BY FolderAssumption
  <2>6. y \in Run
      BY <1>1, <2>4, <2>5 DEF Run, Steps
  <2>7. Honest(y, stored') /\ y.pc \notin Writing
      BY <1>1, <2>3, <2>6 DEF Honest, Run, Placed, Writing
  <2> HIDE DEF y
  <2>8. QED
      BY <1>2, <2>1, <2>2, <2>4, <2>7, OneRun
<1>11. CASE Finish(r)
  <2> DEFINE y == [x EXCEPT !.pc = "open", !.then = "idle"]
  <2>1. runs' = [runs EXCEPT ![r] = y] /\ UNCHANGED <<stored, files, opened, faults>>
      BY <1>11 DEF Finish
  <2>2. Honest(y, stored') /\ y.copy = x.copy /\ y.pc \notin Writing
      BY <1>1, <2>1 DEF Run, Steps, Honest, Placed, Writing
  <2> HIDE DEF y
  <2>3. QED
      BY <1>2, <1>3, <2>1, <2>2, OneRun
<1>12. QED
    BY <1>4, <1>5, <1>6, <1>7, <1>8, <1>9, <1>10, <1>11 DEF Progress

LEMMA FaultKeeps ==
    ASSUME FolderInv, NEW r \in Slots, Fail(r) \/ Abort(r)
    PROVE  FolderInv'
<1>1. CASE Fail(r)
  <2>1. PICK persistence \in BOOLEAN : Caught(r, persistence)
      BY <1>1 DEF Fail
  <2> DEFINE x == runs[r]
             y == [x EXCEPT !.failed = TRUE,
                     !.pc = IF Recovers(x, persistence) THEN "recover"
                            ELSE "record"]
  <2>2. runs' = [runs EXCEPT ![r] = y]
      BY <2>1 DEF Caught
  <2>3. faults' \in Nat /\ UNCHANGED <<stored, files, opened>>
      BY <1>1 DEF Fail, FolderInv
  <2>4. Honest(x, stored) /\ x.pc = "ingest"
      BY <1>1 DEF Fail, At, FolderInv
  <2>5. Honest(y, stored') /\ y.copy = x.copy /\ y.pc \notin Writing
      BY <2>3, <2>4 DEF Run, Steps, Honest, Writing, Placed
  <2>6. ~clashed => Acknowledges(x.copy, stored')
      BY <1>1, <2>3 DEF Fail, At, FolderInv, Apart
  <2> HIDE DEF y
  <2>7. QED
      BY <2>2, <2>3, <2>5, <2>6, OneRun DEF FolderInv
<1>2. CASE Abort(r)
  <2>1. runs' = [runs EXCEPT ![r] = NoRun]
      BY <1>2 DEF Abort
  <2>2. faults' \in Nat /\ UNCHANGED <<stored, files, opened>>
      BY <1>2 DEF Abort, FolderInv
  <2>3. QED
      BY <2>1, <2>2, OneRun DEF FolderInv
<1>3. QED
    BY <1>1, <1>2

LEMMA FolderInvStep == FolderInv /\ [FolderNext]_folderVars => FolderInv'
<1> SUFFICES ASSUME FolderInv, [FolderNext]_folderVars PROVE FolderInv'
    OBVIOUS
<1>1. ASSUME NEW r \in Slots, NEW request \in Requests, Start(r, request)
      PROVE  FolderInv'
    BY <1>1, StartKeeps
<1>2. ASSUME NEW r \in Slots, Progress(r) PROVE FolderInv'
    BY <1>2, ProgressKeeps
<1>3. ASSUME NEW r \in Slots, Fail(r) \/ Abort(r) PROVE FolderInv'
    BY <1>3, FaultKeeps
<1>4. CASE ProcessDies
  <2>1. /\ runs' = [r \in Slots |-> NoRun] /\ opened' = FALSE
        /\ UNCHANGED <<stored, files>>
      BY <1>4 DEF ProcessDies
  <2>2. faults' \in Nat
      BY <1>4 DEF ProcessDies, FolderInv
  <2>3. DOMAIN runs' = Slots /\ runs' = [r \in Slots |-> runs'[r]]
      BY <2>1
  <2>4. \A r \in Slots : runs'[r] = NoRun
      BY <2>1
  <2>5. ~clashed => Apart'
      BY <2>1, <2>4 DEF FolderInv, Apart, files, Acknowledges
  <2>6. QED
      BY <2>1, <2>2, <2>3, <2>4, <2>5 DEF FolderInv, files
<1>5. CASE UNCHANGED folderVars
    BY <1>5 DEF folderVars, FolderInv, Apart
<1>6. QED
    BY <1>1, <1>2, <1>3, <1>4, <1>5 DEF FolderNext

LEMMA FolderInvInit == FolderInit => FolderInv
<1> SUFFICES ASSUME FolderInit PROVE FolderInv
    OBVIOUS
<1>1. /\ stored \in SUBSET Files /\ manifest \in Manifest /\ temp = NoTemp
      /\ opened \in BOOLEAN /\ clashed \in BOOLEAN /\ faults \in Nat
      /\ Acknowledges(manifest, stored)
    BY DEF FolderInit, Acknowledges, Entries, Manifest
<1>2. DOMAIN runs = Slots /\ runs = [r \in Slots |-> runs[r]]
    BY DEF FolderInit
<1>3. \A r \in Slots : runs[r] = NoRun
    BY DEF FolderInit
<1>4. QED
    BY <1>1, <1>2, <1>3 DEF FolderInv, Apart

(* The types of the variables, and of the runs' places, hold throughout.   *)
THEOREM FolderTypeCorrect == FolderSpec => []FolderTypeOK
    BY FolderInvInit, FolderInvStep, FolderInvImpliesType, PTL DEF FolderSpec

(* Every step of a run, a crash or a failure delivers one file, replaces   *)
(* the acknowledgements by some that are true, or changes neither.         *)
LEMMA StepDelivers ==
    FolderInv /\ FolderInv' /\ [FolderNext]_folderVars
      => [D!Next]_<<stored, Acknowledged>>
<1> SUFFICES ASSUME FolderInv, FolderInv', [FolderNext]_folderVars
             PROVE  D!Next \/ UNCHANGED <<stored, Acknowledged>>
    OBVIOUS
<1>1. CASE UNCHANGED stored
  <2>1. Acknowledged' \in SUBSET stored
      BY <1>1 DEF FolderInv, Apart, Acknowledged, Acknowledges
  <2>2. QED
      BY <1>1, <2>1 DEF D!Next, D!Acknowledge
<1>2. CASE UNCHANGED files /\ ~UNCHANGED stored
  <2>1. PICK r \in Slots : Ingest(r)
      BY <1>2 DEF FolderNext, folderVars, Start, Progress, OpenTemp,
         WriteTemp, Rename, Take, Close, Verify, Reopen, Record, Finish, Fail, Abort, ProcessDies
  <2>2. runs[r].file \in Files
      BY <2>1 DEF Ingest, At, FolderInv, Honest, Placed
  <2>3. stored' = stored \cup {runs[r].file} /\ UNCHANGED Acknowledged
      BY <1>2, <2>1 DEF Ingest, Acknowledged, files
  <2>4. QED
      BY <2>2, <2>3 DEF D!Next, D!Deliver
<1>3. UNCHANGED stored \/ UNCHANGED files
    BY DEF FolderNext, folderVars, Start, Progress, OpenTemp, WriteTemp,
       Rename, Take, Ingest, Close, Verify, Reopen, Record, Finish, Fail, Abort, ProcessDies
<1>4. QED
    BY <1>1, <1>2, <1>3

(* Folder ingestion implements at-least-once delivery: a file is recorded  *)
(* as succeeded only when its chunks were stored, whatever runs overlap.   *)
THEOREM FolderDelivers == FolderSpec => ImplementsDelivery
<1>1. FolderInit => D!Init
    BY DEF FolderInit, D!Init, Acknowledged
<1>2. QED
    BY <1>1, FolderInvInit, FolderInvStep, StepDelivers, PTL
    DEF FolderSpec, ImplementsDelivery, D!Spec

==============================================================================
