------------------------------ MODULE Upgrade ------------------------------
(***************************************************************************)
(* Opening a database and bringing its schema up to date:                  *)
(* MemoryStoreService._ensure_repository, arcade/migrations.py and         *)
(* arcade/schema.py, and `bytebox database migrate`, which does the same   *)
(* to a copy (database_ops.migrate_database).  One process at a time holds *)
(* the database lock (module ProcessLock); it may die, or a transaction    *)
(* may fail, between any two steps, and somebody starts it again.          *)
(*                                                                         *)
(* A database is known by what the steps of an upgrade look at or change:  *)
(* the version row, the migration records, whether types and indexes are   *)
(* there, whether document chunks have their positions, and the dimension  *)
(* of the vector index (0: no index).                                      *)
(***************************************************************************)
EXTENDS Naturals

CONSTANTS
    Supported,     \* the highest migration of the package
    Expected,      \* settings.database.schema_version
    Dimension,     \* settings.embeddings.dim
    Legacy,        \* databases that older releases have left
    Absent,        \* no directory under a path
    Partial,       \* a directory removed or copied in part
    MaxInterrupts  \* bound: crashes and failed transactions

Versions == 1 .. Supported

Database == [version: Nat, applied: SUBSET Nat, typed: BOOLEAN,
             placed: BOOLEAN, dimension: Nat]

ASSUME UpgradeAssumption ==
    /\ Supported \in Nat /\ Expected \in Versions /\ Dimension \in Nat \ {0}
    /\ Legacy \subseteq Database /\ MaxInterrupts \in Nat
    /\ {Absent, Partial} \cap Database = {} /\ Absent # Partial

VARIABLES
    paths,       \* what is at the configured path and at migrate's target
    backups,     \* the backups, finished and interrupted
    upgrade,     \* where the process is, and what it has read
    interrupts,  \* how often it was interrupted
    original     \* history: what was at the configured path at first

upgradeVars == <<paths, backups, upgrade, interrupts, original>>

Empty == [version |-> 0, applied |-> {}, typed |-> FALSE, placed |-> TRUE,
          dimension |-> 0]

(* `on` is the path whose database is open; `current` and `seen` are the   *)
(* version and the applied migrations it had when the upgrade began.       *)
Resting == [pc |-> "down", on |-> "live", existed |-> FALSE, current |-> 0,
            seen |-> {}, migration |-> 0]

UpgradeInit ==
    /\ paths \in [{"live"} -> Legacy \cup {Absent}]
    /\ backups = {}
    /\ upgrade = Resting
    /\ interrupts = 0
    /\ original = paths["live"]

-----------------------------------------------------------------------------
There(path) == path \in DOMAIN paths /\ paths[path] \in Database

Opened == paths[upgrade.on]

InStep(pc) == upgrade.pc = pc

Advance(pc) == upgrade' = [upgrade EXCEPT !.pc = pc]

Put(path, content) ==
    paths' = [p \in DOMAIN paths \cup {path} |->
                IF p = path THEN content ELSE paths[p]]

(* _ensure_repository: open_arcade_database creates what is not there. *)
OpenLive ==
    /\ InStep("down") /\ paths["live"] # Partial
    /\ upgrade' = [Resting EXCEPT !.pc = "plan",
                                  !.existed = paths["live"] # Absent]
    /\ Put("live", IF paths["live"] = Absent THEN Empty ELSE paths["live"])
    /\ UNCHANGED <<backups, interrupts, original>>

(* What is left of an interrupted restore is refused, or taken for a path  *)
(* without a database.                                                     *)
OpenRemains ==
    /\ InStep("down") /\ paths["live"] = Partial
    /\ upgrade' = [Resting EXCEPT !.pc = "plan", !.existed = TRUE]
    /\ Put("live", Empty)
    /\ UNCHANGED <<backups, interrupts, original>>

(* mutant: no backup is made of a database that has no version row *)
BackupOfVersioned(existed, version) == existed /\ version \in 1 .. Expected - 1

(* create_backup and plan.needs_migration. *)
MakesBackup(existed, version) == existed /\ version < Expected

(* plan_database_migrations; a database that is too new is refused, and    *)
(* closed again.                                                           *)
Plan ==
    /\ InStep("plan")
    /\ Advance(IF Opened.version > Expected THEN "down"
               ELSE IF MakesBackup(upgrade.existed, Opened.version)
               THEN "backup" ELSE "survey")
    /\ UNCHANGED <<paths, backups, interrupts, original>>

(* backup_arcade_database, under a new name: begun, and finished. *)
BeginBackup ==
    /\ InStep("backup") /\ backups' = backups \cup {Partial}
    /\ Advance("copying")
    /\ UNCHANGED <<paths, interrupts, original>>

EndBackup ==
    /\ InStep("copying") /\ backups' = backups \cup {Opened}
    /\ Advance("survey")
    /\ UNCHANGED <<paths, interrupts, original>>

(* mutant: a migration is due whenever the version row says so *)
DueByVersion(current, seen) == {v \in Versions : v <= Expected /\ v > current}

(* The migrations that ensure_database_schema does not skip. *)
Due(current, seen) ==
    {v \in Versions : v <= Expected /\ v > current /\ v \notin seen}

(* ensure_database_schema reads the version and the applied migrations. *)
Survey ==
    /\ InStep("survey")
    /\ upgrade' = [upgrade EXCEPT !.pc = "choose",
                     !.current = Opened.version, !.seen = Opened.applied]
    /\ UNCHANGED <<paths, backups, interrupts, original>>

(* The next migration that is due, or 0: the ensure_schema at the end. *)
Choose ==
    /\ InStep("choose")
    /\ LET due == Due(upgrade.current, upgrade.seen)
       IN  \E v \in due \cup {0} :
             /\ v = 0 => due = {}
             /\ v # 0 => \A w \in due : v <= w
             /\ upgrade' = [upgrade EXCEPT !.pc = "types", !.migration = v]
    /\ UNCHANGED <<paths, backups, interrupts, original>>

(* ensure_schema: types and indexes, then the vector index, if there is    *)
(* none; then _backfill_document_chunk_positions, in one transaction.      *)
EnsureTypes ==
    /\ InStep("types") /\ Advance("index")
    /\ Put(upgrade.on, [Opened EXCEPT !.typed = TRUE])
    /\ UNCHANGED <<backups, interrupts, original>>

EnsureIndex ==
    /\ InStep("index") /\ Advance("backfill")
    /\ Put(upgrade.on, [Opened EXCEPT !.dimension =
                          IF @ = 0 THEN Dimension ELSE @])
    /\ UNCHANGED <<backups, interrupts, original>>

(* mutant: a backfill in front of the migration record only *)
BackfillsFinally(migration) == migration # 0

Backfills(migration) == TRUE

Backfill ==
    /\ InStep("backfill")
    /\ Advance(IF upgrade.migration # 0 THEN "record" ELSE "validate")
    /\ Put(upgrade.on, [Opened EXCEPT !.placed =
                          @ \/ Backfills(upgrade.migration)])
    /\ UNCHANGED <<backups, interrupts, original>>

(* _record_migration: the index on the version is unique. *)
RecordMigration ==
    /\ InStep("record") /\ upgrade.migration \notin Opened.applied
    /\ Advance("version")
    /\ Put(upgrade.on, [Opened EXCEPT !.applied = @ \cup {upgrade.migration}])
    /\ UNCHANGED <<backups, interrupts, original>>

RecordRefused ==
    /\ InStep("record") /\ upgrade.migration \in Opened.applied
    /\ upgrade' = Resting
    /\ UNCHANGED <<paths, backups, interrupts, original>>

(* _upsert_schema_version, a transaction of its own. *)
UpsertVersion ==
    /\ InStep("version")
    /\ upgrade' = [upgrade EXCEPT !.pc = "choose",
                     !.current = upgrade.migration,
                     !.seen = @ \cup {upgrade.migration}]
    /\ Put(upgrade.on, [Opened EXCEPT !.version = upgrade.migration])
    /\ UNCHANGED <<backups, interrupts, original>>

(* validate_schema_version returns the stored version, whatever it is;     *)
(* validate_active_index_dimension refuses an index of another dimension.  *)
(* The migrated copy is closed; its dimension is reported, not refused.    *)
Finished ==
    /\ InStep("validate")
    /\ IF upgrade.on = "live"
       THEN upgrade' = IF Opened.dimension = Dimension
                       THEN [upgrade EXCEPT !.pc = "serving"] ELSE Resting
       ELSE Advance("migrated")
    /\ UNCHANGED <<paths, backups, interrupts, original>>

(* close(), of the service or after the migration was verified. *)
CloseLive ==
    /\ InStep("serving") \/ InStep("migrated")
    /\ upgrade' = Resting
    /\ UNCHANGED <<paths, backups, interrupts, original>>

(* migrate_database: a backup of the source, then the copy; without        *)
(* overwrite an existing target ends it there.                             *)
BeginMigrate ==
    /\ InStep("down") /\ There("live")
    /\ upgrade' = [Resting EXCEPT !.pc = "source"]
    /\ UNCHANGED <<paths, backups, interrupts, original>>

BackUpSource ==
    /\ InStep("source") /\ backups' = backups \cup {paths["live"]}
    /\ Advance("target")
    /\ UNCHANGED <<paths, interrupts, original>>

CopySource(overwrite) ==
    /\ InStep("target")
    /\ IF "target" \in DOMAIN paths /\ ~overwrite
       THEN upgrade' = Resting /\ UNCHANGED paths
       ELSE Put("target", Partial) /\ Advance("copy")
    /\ UNCHANGED <<backups, interrupts, original>>

OpenTarget ==
    /\ InStep("copy")
    /\ Put("target", paths["live"])
    /\ upgrade' = IF paths["live"].version > Expected THEN Resting
                  ELSE [upgrade EXCEPT !.pc = "survey", !.on = "target"]
    /\ UNCHANGED <<backups, interrupts, original>>

(* restore_arcade_database, with the service stopped and from a finished   *)
(* backup, as the disaster recovery guide has it: with overwrite, what is  *)
(* there is removed before the copy begins.                                *)
BeginRestore(overwrite) ==
    /\ InStep("down") /\ backups \ {Partial} # {}
    /\ paths["live"] = Absent \/ overwrite
    /\ Put("live", Partial) /\ Advance("restore")
    /\ UNCHANGED <<backups, interrupts, original>>

EndRestore ==
    /\ InStep("restore")
    /\ \E backup \in backups \ {Partial} : Put("live", backup)
    /\ upgrade' = Resting
    /\ UNCHANGED <<backups, interrupts, original>>

(* The process dies, or a transaction or a copy fails: the handle is       *)
(* closed and the error raised.                                            *)
Interrupt ==
    /\ ~InStep("down")
    /\ interrupts < MaxInterrupts
    /\ interrupts' = interrupts + 1
    /\ upgrade' = Resting
    /\ UNCHANGED <<paths, backups, original>>

StartUp ==
    \/ OpenLive \/ Plan \/ BeginBackup \/ EndBackup \/ Survey \/ Choose
    \/ EnsureTypes \/ EnsureIndex \/ Backfill \/ RecordMigration
    \/ RecordRefused \/ UpsertVersion \/ Finished

MigrateCopy ==
    BackUpSource \/ (\E overwrite \in BOOLEAN : CopySource(overwrite))
      \/ OpenTarget

Restore == (\E overwrite \in BOOLEAN : BeginRestore(overwrite)) \/ EndRestore

UpgradeNext ==
    \/ OpenRemains \/ StartUp \/ CloseLive \/ BeginMigrate \/ MigrateCopy
    \/ Restore \/ Interrupt

(* A start or a migration that is under way goes on, and somebody starts   *)
(* the service again as long as it does not run.                           *)
UpgradeFairness ==
    /\ WF_upgradeVars(~InStep("down") /\ (StartUp \/ MigrateCopy \/ EndRestore))
    /\ WF_upgradeVars(InStep("migrated") /\ CloseLive)
    /\ SF_upgradeVars(OpenLive)

UpgradeSpec == UpgradeInit /\ [][UpgradeNext]_upgradeVars /\ UpgradeFairness

-----------------------------------------------------------------------------
(* The variables hold values of their types; an open path is there.        *)
UpgradeTypeOK ==
    /\ "live" \in DOMAIN paths /\ DOMAIN paths \subseteq {"live", "target"}
    /\ \A p \in DOMAIN paths : paths[p] \in Database \cup {Absent, Partial}
    /\ backups \subseteq Database \cup {Partial}
    /\ upgrade.on \in DOMAIN paths

Migrations(d) == <<d.version, d.applied>>

Keeps(d) == Migrations(d) = Migrations(original)

(* A database that was there before is never without a whole copy at the   *)
(* migrations it had: the live one, or a finished backup, however often an *)
(* upgrade, or a restore, which removes before it copies, is interrupted.  *)
BackedUp ==
    original \in Database /\ ~(There("live") /\ Keeps(paths["live"])) =>
      \E backup \in backups \ {Partial} : Keeps(backup)

(* Everything that the configured version asks for. *)
UpToDate(d) ==
    /\ d.typed /\ d.placed /\ d.dimension # 0
    /\ \A v \in 1 .. Expected : v \in d.applied \/ v <= d.version

(* What is served, and what a migration hands over, is up to date, whatever *)
(* an interrupted upgrade had left behind; the service has the vector index *)
(* of the configured dimension.                                             *)
ServedIsUpToDate ==
    /\ InStep("serving") => UpToDate(Opened) /\ Opened.dimension = Dimension
    /\ InStep("migrated") => UpToDate(paths["target"])

(* Interrupted upgrades never keep a database from being opened: it is     *)
(* served again and again, unless it was too new or of another dimension,  *)
(* or a restore was interrupted and nobody restores it again.              *)
StartsAgain ==
    \/ []<>InStep("serving")
    \/ <>[](paths["live"] = Partial)
    \/ original \in Database /\ ( \/ original.version > Expected
                                  \/ original.dimension \notin {0, Dimension})

(* _new_record numbers a record with the version that the upgrade          *)
(* returned, and MemoryRecord refuses a number below 1.                    *)
AcceptsRecords(version) == version >= 1

(* "Run idempotent migrations if needed", then the store is ready for use  *)
(* (docs/architecture.md): what is served can be written to.  Not so after *)
(* a crash between the migration record and the version row.               *)
ServedAcceptsRecords == InStep("serving") => AcceptsRecords(Opened.version)
=============================================================================
