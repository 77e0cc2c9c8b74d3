----------------------------- MODULE MCDatabase -----------------------------
(* Three things that happen to one database directory: processes take and  *)
(* give up its lock, it is upgraded when it is opened, and folders are     *)
(* ingested into it.  They share no state (a folder run and an upgrade     *)
(* hold the lock throughout), so a behaviour is one of the three.          *)
EXTENDS MCProcessLock, FolderIngest, Upgrade

VARIABLE part

databaseVars == <<vars, folderVars, upgradeVars, part>>

(* A complete run, and one that retries the second file when it failed,    *)
(* opens the database for every file and stops at the first error.         *)
MCRequests ==
    {Default,
     [Default EXCEPT !.window = {2}, !.onlyFailed = TRUE, !.limit = 1,
                     !.stop = TRUE, !.strategy = "reopen_per_file"]}

(* Databases without a version row, of version 1, and of a later release,  *)
(* with the vector index of dimension 3, of another one, or without any.   *)
Older(version, typed, placed, dimension) ==
    [version |-> version, applied |-> 1 .. version, typed |-> typed,
     placed |-> placed, dimension |-> dimension]

MCLegacy ==
    {Older(0, FALSE, FALSE, 0), Older(0, FALSE, FALSE, 3),
     Older(0, FALSE, TRUE, 4), Older(1, TRUE, FALSE, 3),
     Older(1, TRUE, TRUE, 4), Older(2, TRUE, TRUE, 3)}

DatabaseInit ==
    /\ part \in {"lock", "folder", "upgrade"}
    /\ Init /\ FolderInit /\ UpgradeInit
    /\ part = "upgrade" \/ original = Absent

DatabaseNext ==
    /\ \/ part = "lock" /\ Next /\ UNCHANGED <<folderVars, upgradeVars>>
       \/ part = "folder" /\ FolderNext /\ UNCHANGED <<vars, upgradeVars>>
       \/ part = "upgrade" /\ UpgradeNext /\ UNCHANGED <<vars, folderVars>>
    /\ UNCHANGED part

(* The fairness of the parts: a process that takes or holds the lock goes  *)
(* on and a dead one comes back, a folder run goes on, and an operator     *)
(* keeps asking for complete runs and restarts the service.                *)
DatabaseFairness ==
    /\ \A p \in Procs :
         WF_databaseVars(part = "lock" /\ GoesOn(p)
                         /\ UNCHANGED <<folderVars, upgradeVars, part>>)
    /\ \A r \in Slots :
         WF_databaseVars(/\ part = "folder" /\ Progress(r)
                         /\ UNCHANGED <<vars, upgradeVars, part>>)
    /\ SF_databaseVars(/\ part = "folder" /\ \E r \in Slots : Start(r, Default)
                       /\ UNCHANGED <<vars, upgradeVars, part>>)
    /\ WF_databaseVars(/\ part = "upgrade" /\ ~InStep("down")
                       /\ StartUp \/ MigrateCopy \/ EndRestore
                       /\ UNCHANGED <<vars, folderVars, part>>)
    /\ WF_databaseVars(/\ part = "upgrade" /\ InStep("migrated") /\ CloseLive
                       /\ UNCHANGED <<vars, folderVars, part>>)
    /\ SF_databaseVars(/\ part = "upgrade" /\ OpenLive
                       /\ UNCHANGED <<vars, folderVars, part>>)

DatabaseSpec ==
    DatabaseInit /\ [][DatabaseNext]_databaseVars /\ DatabaseFairness

(* In the behaviours that ingest folders: as long as somebody keeps asking *)
(* for a complete run, with its default options, everything is recorded as *)
(* succeeded again and again (EverythingIngested of FolderIngest).         *)
FoldersAreIngested == part = "folder" => EverythingIngested

(* In the behaviours that upgrade: interrupted upgrades and restores never *)
(* keep a database from being served again (StartsAgain of Upgrade).       *)
UpgradesStartAgain == part = "upgrade" => StartsAgain
=============================================================================
