----------------------------- MODULE Inventory ------------------------------
(***************************************************************************)
(* An inventory of the database (services/administration.py): four         *)
(* queries for the summary, six more for the scopes, and one for the       *)
(* groups by type and three for each of them, while others write between   *)
(* any two.  The numbers of one report are of different moments.           *)
(*                                                                         *)
(* Of a record we keep what it is counted by: its type, its status and its *)
(* scope.  The query for the oldest and newest time of a type is left out. *)
(***************************************************************************)
EXTENDS Integers, FiniteSets, SequencesExt

CONSTANTS
    Held,           \* the ids under which there may be a record
    Descriptions,   \* what a record may be
    MemoryTypes,    \* the types in use, in alphabetical order
    NamesLimit,     \* names_limit
    Requests,       \* the options of the reports that are asked for
    ReportChanges   \* bound: changes by others during a report

(* The dimensions of a scope; names are numbers, in alphabetical order, *)
(* and 0 is None.                                                       *)
Dimensions == {"user_id", "project_id", "agent_id"}

StatusesInUse == {d.status : d \in Descriptions}

ASSUME InventoryAssumption ==
    /\ IsFiniteSet(Held)
    /\ MemoryTypes \in Seq(STRING)
    /\ \A i, j \in DOMAIN MemoryTypes : i # j => MemoryTypes[i] # MemoryTypes[j]
    /\ Descriptions \subseteq
         [memory_type: ToSet(MemoryTypes), status: STRING,
          user_id: Nat, project_id: Nat, agent_id: Nat]
    /\ NamesLimit \in Nat \ {0} /\ ReportChanges \in Nat
    /\ Requests \subseteq [full: BOOLEAN, chunks: BOOLEAN, named: BOOLEAN]

VARIABLES
    stock,     \* the description of each record, or NoRecord
    report,    \* the report under way and what was counted for it
    changes    \* history: changes since the report was asked for

inventoryVars == <<stock, report, changes>>

NoRecord == << >>

NoReport == [pc |-> "idle"]

InventoryInit ==
    /\ stock \in [Held -> Descriptions \cup {NoRecord}]
    /\ report = NoReport
    /\ changes = 0

-----------------------------------------------------------------------------
(* Insertions, changes of the status, and deletions by others. *)
Disturb(m, description) ==
    /\ changes < ReportChanges /\ stock[m] # description
    /\ stock' = [stock EXCEPT ![m] = description]
    /\ changes' = IF report = NoReport THEN changes ELSE changes + 1
    /\ UNCHANGED report

InsertRecord(m) == stock[m] = NoRecord /\ \E d \in Descriptions : Disturb(m, d)

UpdateRecord(m) ==
    /\ stock[m] # NoRecord
    /\ \E status \in StatusesInUse : Disturb(m, [stock[m] EXCEPT !.status = status])

RemoveRecord(m) == stock[m] # NoRecord /\ Disturb(m, NoRecord)

-----------------------------------------------------------------------------
Stored == {m \in Held : stock[m] # NoRecord}

(* _inventory_where: include_document_chunks *)
Inventoried(chunks) == {m \in Stored : chunks \/ stock[m].memory_type # "document_chunk"}

Reported == Inventoried(report.chunks)

OfType(type) == {m \in Reported : stock[m].memory_type = type}

(* ... user_id IS NULL AND project_id IS NULL AND agent_id IS NULL *)
Global(records) == {m \in records : \A dim \in Dimensions : stock[m][dim] = 0}

(* mutant: the condition is left out of the query with GROUP BY *)
GroupAll(field, records) ==
    [v \in {stock[m][field] : m \in Stored} |->
       Cardinality({m \in Stored : stock[m][field] = v})]

(* _group_counts *)
GroupCounts(field, records) ==
    [v \in {stock[m][field] : m \in records} |->
       Cardinality({m \in records : stock[m][field] = v})]

(* _count_distinct_scope_tuples *)
ScopeOf(m) == [dim \in Dimensions |-> stock[m][dim]]

ScopeTuples(records) == {ScopeOf(m) : m \in records}

NamesIn(dim, records) == {stock[m][dim] : m \in records} \ {0}

(* _aggregate_scope_dimension: the first names, in alphabetical order. *)
Dimension(dim, records) ==
    LET values == NamesIn(dim, records)
        names  == {v \in values : /\ report.named
                                  /\ Cardinality({u \in values : u < v}) < NamesLimit}
    IN  [count |-> Cardinality(values), names |-> names,
         remaining |-> IF report.named THEN Cardinality(values \ names) ELSE 0]

(* max(total - global, 0) *)
Scoped(total, global) == IF total > global THEN total - global ELSE 0

-----------------------------------------------------------------------------
(* Each query is a step, and changes the report and nothing else. *)
Query(at, then, counted) ==
    /\ report.pc = at
    /\ report' = [counted EXCEPT !.pc = then]
    /\ UNCHANGED <<stock, changes>>

BeginReport ==
    /\ report = NoReport
    /\ \E request \in Requests :
         report' = [pc |-> "total",
                    full |-> request.full, chunks |-> request.chunks,
                    named |-> request.named,
                    total |-> 0, global |-> 0,
                    statuses |-> << >>, types |-> << >>,
                    scopeTotal |-> 0, scopeGlobal |-> 0, tuples |-> 0,
                    scopes |-> << >>, groups |-> << >>,
                    pending |-> {}, perType |-> << >>]
    /\ changes' = 0
    /\ UNCHANGED stock

(* aggregate_inventory_summary *)
CountTotal ==
    Query("total", "global", [report EXCEPT !.total = Cardinality(Reported)])

CountGlobal ==
    Query("global", "statuses",
          [report EXCEPT !.global = Cardinality(Global(Reported))])

CountStatuses ==
    Query("statuses", "types",
          [report EXCEPT !.statuses = GroupCounts("status", Reported)])

CountTypes ==
    Query("types", IF report.full THEN "scope_total" ELSE "done",
          [report EXCEPT !.types = GroupCounts("memory_type", Reported)])

(* aggregate_inventory_scopes *)
CountScopeTotal ==
    Query("scope_total", "scope_global",
          [report EXCEPT !.scopeTotal = Cardinality(Reported)])

CountScopeGlobal ==
    Query("scope_global", "tuples",
          [report EXCEPT !.scopeGlobal = Cardinality(Global(Reported))])

CountTuples ==
    Query("tuples", "user_id",
          [report EXCEPT !.tuples = Cardinality(ScopeTuples(Reported))])

AfterDimension == [user_id |-> "project_id", project_id |-> "agent_id", agent_id |-> "groups"]

CountDimension(dim) ==
    Query(dim, AfterDimension[dim],
          [report EXCEPT !.scopes =
             [d \in DOMAIN @ \cup {dim} |->
                IF d = dim THEN Dimension(dim, Reported) ELSE @[d]]])

(* aggregate_inventory_memory_types: the groups, and the queries for each  *)
(* type that had records then, by their places in MemoryTypes.             *)
CountGroups ==
    LET groups  == GroupCounts("memory_type", Reported)
        pending == {i \in DOMAIN MemoryTypes : MemoryTypes[i] \in DOMAIN groups}
    IN  Query("groups", IF pending = {} THEN "done" ELSE "type_global",
              [report EXCEPT !.groups = groups, !.pending = pending])

Turn == Min(report.pending)

CountTypeGlobal ==
    LET type == MemoryTypes[Turn]
    IN  Query("type_global", "type_statuses",
              [report EXCEPT !.perType =
                 [t \in DOMAIN @ \cup {type} |->
                    IF t # type THEN @[t]
                    ELSE [count |-> report.groups[type], statuses |-> << >>,
                          global |-> Cardinality(Global(OfType(type)))]]])

CountTypeStatuses ==
    LET type == MemoryTypes[Turn]
    IN  Query("type_statuses",
              IF report.pending = {Turn} THEN "done" ELSE "type_global",
              [report EXCEPT !.pending = @ \ {Turn},
                 !.perType[type].statuses = GroupCounts("status", OfType(type))])

EndReport ==
    /\ report.pc = "done"
    /\ report' = NoReport
    /\ changes' = 0
    /\ UNCHANGED stock

Report ==
    \/ BeginReport
    \/ CountTotal \/ CountGlobal \/ CountStatuses \/ CountTypes
    \/ CountScopeTotal \/ CountScopeGlobal \/ CountTuples
    \/ \E dim \in Dimensions : CountDimension(dim)
    \/ CountGroups \/ CountTypeGlobal \/ CountTypeStatuses
    \/ EndReport

InventoryNext ==
    \/ Report
    \/ \E m \in Held : InsertRecord(m) \/ UpdateRecord(m) \/ RemoveRecord(m)

InventorySpec == InventoryInit /\ [][InventoryNext]_inventoryVars

-----------------------------------------------------------------------------
(* The report: types without records are shown with zeros. *)
At(counts, v) == IF v \in DOMAIN counts THEN counts[v] ELSE 0

TypeInventory(type) ==
    IF type \in DOMAIN report.perType THEN report.perType[type]
    ELSE [count |-> 0, statuses |-> << >>, global |-> 0]

(* A number may be off by what others changed since the report began.      *)
Near(number, records) ==
    number - Cardinality(records) \in -changes .. changes

(* What the report is about, from the database as it is. *)
Wanted ==
    {m \in Held : /\ stock[m] # NoRecord
                  /\ stock[m].memory_type = "document_chunk" => report.chunks}

WantedOf(type) == {m \in Wanted : stock[m].memory_type = type}

(* Scope.is_global *)
Unscoped(records) ==
    {m \in records : ~\E dim \in Dimensions : stock[m][dim] # 0}

WithStatus(status, records) == {m \in records : stock[m].status = status}

SummaryIsCurrent ==
    /\ Near(report.total, Wanted)
    /\ Near(report.global, Unscoped(Wanted))
    /\ Near(Scoped(report.total, report.global), Wanted \ Unscoped(Wanted))
    /\ \A status \in StatusesInUse :
         Near(At(report.statuses, status), WithStatus(status, Wanted))
    /\ \A type \in ToSet(MemoryTypes) : Near(At(report.types, type), WantedOf(type))

ScopesAreCurrent ==
    /\ Near(report.scopeGlobal, Unscoped(Wanted))
    /\ Near(Scoped(report.scopeTotal, report.scopeGlobal), Wanted \ Unscoped(Wanted))
    /\ Near(report.tuples, ScopeTuples(Wanted))
    /\ \A dim \in Dimensions :
         LET shown == report.scopes[dim]
         IN  /\ Near(shown.count, NamesIn(dim, Wanted))
             /\ report.named => shown.count = Cardinality(shown.names) + shown.remaining
             /\ Near(Cardinality(shown.names \ NamesIn(dim, Wanted)), {})

(* The lines of the metrics, one for each type and status that was found,  *)
(* made of a full report.                                                  *)
RecordsMetric ==
    UNION {{[memory_type |-> type, status |-> status, value |-> report.perType[type].statuses[status]] :
              status \in DOMAIN report.perType[type].statuses} :
           type \in DOMAIN report.perType}

(* The sum of the lines, a line of the value n counted as n marks. *)
Marks == UNION {{<<line, n>> : n \in 1 .. line.value} : line \in RecordsMetric}

TypesAreCurrent ==
    /\ Near(Cardinality(Marks), Wanted)
    /\ \A type \in ToSet(MemoryTypes) :
         LET shown == TypeInventory(type)
         IN  /\ Near(shown.count, WantedOf(type))
             /\ Near(Scoped(shown.count, shown.global), WantedOf(type) \ Unscoped(WantedOf(type)))
             /\ \A status \in StatusesInUse :
                  Near(At(shown.statuses, status), WithStatus(status, WantedOf(type)))

(* No number of a report is further from the database than the changes     *)
(* that others made since it began, the ones that are computed from two    *)
(* queries of different moments included; so a report that nobody          *)
(* disturbed is exact and its parts agree, with or without the chunks.     *)
InventoryIsCurrent ==
    report.pc = "done" =>
      SummaryIsCurrent /\ (report.full => ScopesAreCurrent /\ TypesAreCurrent)
=============================================================================
