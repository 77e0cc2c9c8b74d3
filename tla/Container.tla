----------------------------- MODULE Container -----------------------------
(***************************************************************************)
(* ApplicationContainer (bootstrap/container.py) and the service it owns,  *)
(* as threads use them through MemoryStore (store.py): every call first    *)
(* runs container.start(), then container.operation(), and inside it the   *)
(* service opens the database lazily (service.py, _ensure_repository).     *)
(* A remote model provider is made lazily too, with an HTTP client that    *)
(* runs a thread of its own (module RemoteClient); in api_mode start()     *)
(* makes it, otherwise the first operation that embeds something.          *)
(* One operation, ingest_folder, closes the service itself: after each     *)
(* document, or when one failed (services/ingestion_folder.py).            *)
(*                                                                         *)
(* Only operation() and the first half of close() hold the condition;      *)
(* start(), _ensure_repository, _embedding_provider, _shared_http_client   *)
(* and service.close() hold no lock.  A step here is a read or a write of  *)
(* the state that other threads see.                                       *)
(***************************************************************************)
EXTENDS Naturals, FiniteSets

CONSTANTS
    Callers,     \* threads that call MemoryStore methods
    Closers,     \* threads that call MemoryStore.close
    NoHandle,    \* _database_handle = None; no client, no provider
    ApiModes,    \* the api_mode in use
    Failures,    \* can opening, migrating, validating and closing fail?
    MaxHandles,  \* bound on the database handles that are ever opened
    MaxClients   \* bound on the HTTP clients that are ever made

Threads == Callers \cup Closers
Handles == 1..MaxHandles
Clients == 1..MaxClients

ASSUME ContainerAssumption ==
    /\ IsFiniteSet(Threads)
    /\ Failures \in BOOLEAN /\ ApiModes \subseteq BOOLEAN
    /\ MaxHandles \in Nat /\ MaxClients \in Nat
    /\ NoHandle \notin Nat

VARIABLES
    readiness,  \* readiness_state
    accepting,  \* _accepting_operations
    inFlight,   \* _in_flight_operations
    handle,     \* the service's _database_handle (and its repository)
    open,       \* the handles whose database is open
    locked,     \* does the lock file of this process exist?
    opened,     \* history: how many handles were ever opened
    apiMode,    \* api_mode
    provider,   \* the service's provider instance, by the client it has
    client,     \* the client in _shared_http_clients
    running,    \* the clients that are not closed
    made,       \* history: how many clients were ever made
    halfBuilt,  \* history: those that failed after their thread had started
    overwritten,\* history: those that another one took the place of
    pc,         \* what each thread is about to do, see Locations
    within,     \* the call it is in
    mine,       \* the handle it opened, works on, or is closing
    hand,       \* the client it is building a provider with, or closing
    disorder    \* history: the worst that happened so far, see Disorders

vars == <<readiness, accepting, inFlight, handle, open, locked, opened,
          apiMode, provider, client, running, made, halfBuilt, overwritten,
          pc, within, mine, hand, disorder>>
models   == <<apiMode, provider, client, running, made, halfBuilt, overwritten>>
database == <<handle, open, locked, opened>>

Disorders == {
    "none",
    "recycled",  \* an operation closed the service, and nobody else used it
    "overran",   \* a close went on after its grace period
    "crossed" }  \* start or close began while another thread was in one, or
                 \* an operation closed the service while others used it

Locations == {
    "idle",
    "mark_starting", \* start: not READY, STARTING or STOPPING
    "ensure",        \* _ensure_repository: looks for a handle
    "open",          \* open_arcade_database
    "migrate",       \* run_database_migrations on the new handle
    "publish",       \* assigns the new handle to the service
    "validate",      \* start: providers, refresh_runtime_view
    "provider",      \* _embedding_provider: looks for an instance
    "client",        \* _shared_http_client: looks for a client
    "create",        \* makes a client and stores it
    "assign",        \* assigns the new instance to the service
    "probe",         \* start: validate_startup of the provider
    "mark_ready",    \* start: about to set READY
    "accept",        \* start: about to set _accepting_operations
    "enter",         \* operation: about to check is_ready
    "work",          \* inside the operation, uses the repository
    "result",        \* operation: the call, or one document of a folder, is
                     \* done, or has raised
    "verify",        \* ingest_folder: about to look for the lock file
    "leave",         \* operation: about to count itself out
    "drain",         \* close: waits for the operations in flight
    "grab",          \* service.close: about to read the handle
    "clear",         \* service.close: about to set it to None
    "release",       \* about to close the client
    "shut",          \* about to close the database of the handle
    "unlock",        \* about to remove the lock file
    "mark_down" }    \* about to set CLOSED or FAILED

Closing     == {"grab", "clear", "release", "shut", "unlock"}
InOperation == {"ensure", "open", "migrate", "publish", "work", "provider",
                "client", "create", "assign", "result", "verify", "leave"}
               \cup Closing

Operating == {t \in Threads : within[t] = "operation" /\ pc[t] \in InOperation}

(* The threads that close the service in the middle of an operation, and   *)
(* those, other than t, that use it.                                       *)
Recycling == {t \in Operating : pc[t] \in Closing}
Using(t) ==
    {u \in Threads \ {t} :
       \/ u \in Operating \/ within[u] = "start"
       \/ within[u] = "close" /\ pc[u] # "drain"}

Init ==
    /\ readiness = "new" /\ accepting = FALSE /\ inFlight = 0
    /\ handle = NoHandle /\ open = {} /\ locked = FALSE /\ opened = 0
    /\ apiMode \in ApiModes
    /\ provider = NoHandle /\ client = NoHandle /\ running = {} /\ made = 0
    /\ halfBuilt = {} /\ overwritten = {}
    /\ pc = [t \in Threads |-> "idle"]
    /\ within = [t \in Threads |-> "none"]
    /\ mine = [t \in Threads |-> NoHandle]
    /\ hand = [t \in Threads |-> NoHandle]
    /\ disorder = "none"

Goto(t, loc) == pc' = [pc EXCEPT ![t] = loc]
Stay(t)      == UNCHANGED <<within, mine, hand>>

(* The call ends, with a result or an exception. *)
Return(t) ==
    /\ Goto(t, "idle")
    /\ within' = [within EXCEPT ![t] = "none"]
    /\ mine' = [mine EXCEPT ![t] = NoHandle]
    /\ hand' = [hand EXCEPT ![t] = NoHandle]

(* The thread begins to use the service, maybe while an operation closes it. *)
JoinIn(otherwise) == disorder' = IF Recycling = {} THEN otherwise ELSE "crossed"

(* The thread enters start() or close(). *)
Begin(t, call, loc) ==
    /\ IF \E u \in Threads \ {t} : within[u] \in {"start", "close"}
       THEN disorder' = "crossed"
       ELSE IF call = "start" THEN JoinIn(disorder) ELSE UNCHANGED disorder
    /\ within' = [within EXCEPT ![t] = call]
    /\ Goto(t, loc)
    /\ UNCHANGED <<mine, hand>>

-----------------------------------------------------------------------------
Startable == {"new", "failed", "closed"}

(* start(), the checks on the state: READY returns at once and the thread  *)
(* goes on to operation(), STARTING and STOPPING raise.                    *)
Call(t) ==
    /\ t \in Callers /\ pc[t] = "idle"
    /\ \/ /\ readiness = "ready"
          /\ Goto(t, "enter")
          /\ within' = [within EXCEPT ![t] = "operation"]
          /\ UNCHANGED <<mine, hand, disorder>>
       \/ readiness \in Startable /\ Begin(t, "start", "mark_starting")
       \/ /\ readiness \notin Startable \cup {"ready"}
          /\ UNCHANGED <<pc, within, mine, hand, disorder>>
    /\ UNCHANGED <<readiness, accepting, inFlight, database, models>>

MarkStarting(t) ==
    /\ pc[t] = "mark_starting"
    /\ readiness' = "starting" /\ accepting' = FALSE
    /\ Goto(t, "ensure") /\ Stay(t)
    /\ UNCHANGED <<inFlight, database, models, disorder>>

(* _ensure_repository is done: initialize() returns to start(), or the     *)
(* operation has its repository.                                           *)
Ensured(t, h) ==
    IF within[t] = "start"
    THEN Goto(t, "validate") /\ mine' = [mine EXCEPT ![t] = NoHandle]
    ELSE Goto(t, "work") /\ mine' = [mine EXCEPT ![t] = h]

(* mutant: an exception leaves the operation without counting it out *)
RaiseUncounted(t) ==
    /\ IF within[t] = "start"
       THEN Goto(t, "grab") /\ accepting' = FALSE
       ELSE Goto(t, "idle") /\ UNCHANGED accepting
    /\ mine' = [mine EXCEPT ![t] = NoHandle]

(* An exception: start() tears down; that is the operation's result. *)
Raise(t) ==
    /\ IF within[t] = "start"
       THEN Goto(t, "grab") /\ accepting' = FALSE
       ELSE Goto(t, "result") /\ UNCHANGED accepting
    /\ mine' = [mine EXCEPT ![t] = NoHandle]

Ensure(t) ==
    /\ pc[t] = "ensure"
    /\ IF handle # NoHandle THEN Ensured(t, handle)
       ELSE Goto(t, "open") /\ UNCHANGED mine
    /\ UNCHANGED <<readiness, accepting, inFlight, database, models, within,
                   hand, disorder>>

(* The lock file of a live process, this one, refuses a second handle. *)
Open(t) ==
    /\ pc[t] = "open"
    /\ \/ /\ ~locked /\ opened < MaxHandles
          /\ opened' = opened + 1
          /\ open' = open \cup {opened + 1}
          /\ locked' = TRUE
          /\ mine' = [mine EXCEPT ![t] = opened + 1]
          /\ Goto(t, "migrate")
          /\ UNCHANGED <<accepting, handle>>
       \/ /\ locked \/ Failures
          /\ Raise(t)
          /\ UNCHANGED database
    /\ UNCHANGED <<readiness, inFlight, models, within, hand, disorder>>

(* mutant: the handle stays open when its migration fails *)
MigrateLeaks(t) ==
    /\ pc[t] = "migrate"
    /\ \/ Goto(t, "publish") /\ UNCHANGED <<accepting, mine>>
       \/ Failures /\ Raise(t)
    /\ UNCHANGED <<readiness, inFlight, database, models, within, hand, disorder>>

(* A failed migration closes the new handle again. *)
Migrate(t) ==
    /\ pc[t] = "migrate"
    /\ \/ /\ Goto(t, "publish")
          /\ UNCHANGED <<accepting, mine, open, locked>>
       \/ /\ Failures
          /\ open' = open \ {mine[t]}
          /\ locked' = FALSE
          /\ Raise(t)
    /\ UNCHANGED <<readiness, inFlight, handle, opened, models, within, hand,
                   disorder>>

Publish(t) ==
    /\ pc[t] = "publish"
    /\ handle' = mine[t]
    /\ Ensured(t, mine[t])
    /\ UNCHANGED <<readiness, accepting, inFlight, open, locked, opened,
                   models, within, hand, disorder>>

(* validate_model_providers, in api_mode, and refresh_runtime_view. *)
Validate(t) ==
    /\ pc[t] = "validate"
    /\ \/ Goto(t, IF apiMode THEN "provider" ELSE "mark_ready")
          /\ UNCHANGED <<accepting, mine>>
       \/ Failures /\ Raise(t)
    /\ UNCHANGED <<readiness, inFlight, database, models, within, hand, disorder>>

(* The provider is there: start() validates it, an operation uses it. *)
Provided(t) ==
    Goto(t, IF within[t] = "start" THEN "probe" ELSE "work")

FindProvider(t) ==
    /\ pc[t] = "provider"
    /\ IF provider # NoHandle THEN Provided(t) ELSE Goto(t, "client")
    /\ Stay(t)
    /\ UNCHANGED <<readiness, accepting, inFlight, database, models, disorder>>

FindClient(t) ==
    /\ pc[t] = "client"
    /\ Goto(t, IF client # NoHandle THEN "assign" ELSE "create")
    /\ hand' = [hand EXCEPT ![t] = client]
    /\ UNCHANGED <<readiness, accepting, inFlight, database, models, within,
                   mine, disorder>>

(* Building a client starts its thread, then reads the certificates: when  *)
(* that fails nothing stops the thread.                                    *)
CreateClient(t) ==
    /\ pc[t] = "create"
    /\ \/ /\ made < MaxClients
          /\ made' = made + 1
          /\ running' = running \cup {made + 1}
          /\ client' = made + 1
          /\ overwritten' = overwritten \cup ({client} \ {NoHandle})
          /\ hand' = [hand EXCEPT ![t] = made + 1]
          /\ Goto(t, "assign")
          /\ UNCHANGED <<accepting, mine, halfBuilt>>
       \/ /\ made = MaxClients \/ Failures
          /\ Raise(t)
          /\ UNCHANGED <<client, running, made, halfBuilt, overwritten, hand>>
       \/ /\ Failures /\ made < MaxClients
          /\ made' = made + 1
          /\ running' = running \cup {made + 1}
          /\ halfBuilt' = halfBuilt \cup {made + 1}
          /\ Raise(t)
          /\ UNCHANGED <<client, overwritten, hand>>
    /\ UNCHANGED <<readiness, inFlight, database, apiMode, provider, within,
                   disorder>>

Assign(t) ==
    /\ pc[t] = "assign"
    /\ provider' = hand[t]
    /\ hand' = [hand EXCEPT ![t] = NoHandle]
    /\ Provided(t)
    /\ UNCHANGED <<readiness, accepting, inFlight, database, apiMode, client,
                   running, made, halfBuilt, overwritten, within, mine, disorder>>

Probe(t) ==
    /\ pc[t] = "probe"
    /\ \/ Goto(t, "mark_ready") /\ UNCHANGED <<accepting, mine>>
       \/ Failures /\ Raise(t)
    /\ UNCHANGED <<readiness, inFlight, database, models, within, hand, disorder>>

MarkReady(t) ==
    /\ pc[t] = "mark_ready"
    /\ readiness' = "ready"
    /\ Goto(t, "accept") /\ Stay(t)
    /\ UNCHANGED <<accepting, inFlight, database, models, disorder>>

Accept(t) ==
    /\ pc[t] = "accept"
    /\ accepting' = TRUE
    /\ Goto(t, "enter")
    /\ within' = [within EXCEPT ![t] = "operation"]
    /\ UNCHANGED <<readiness, inFlight, database, models, mine, hand, disorder>>

-----------------------------------------------------------------------------
IsReady == readiness = "ready" /\ accepting

(* operation(): the check and the count, under the condition. *)
Enter(t) ==
    /\ pc[t] = "enter"
    /\ \/ /\ IsReady /\ inFlight' = inFlight + 1 /\ JoinIn(disorder)
          /\ Goto(t, "ensure") /\ Stay(t)
       \/ ~IsReady /\ Return(t) /\ UNCHANGED <<inFlight, disorder>>
    /\ UNCHANGED <<readiness, accepting, database, models>>

(* The method of the service needs the provider, ends, or raises. *)
Work(t) ==
    /\ pc[t] = "work"
    /\ Goto(t, "result") \/ Goto(t, "provider")
    /\ Stay(t)
    /\ UNCHANGED <<readiness, accepting, inFlight, database, models, disorder>>

(* The operation goes on to service.close(). *)
Recycle(t) ==
    /\ Goto(t, "grab")
    /\ disorder' = IF Using(t) # {} THEN "crossed"
                   ELSE IF disorder = "none" THEN "recycled" ELSE disorder

(* The method returns or raises; a folder ingestion goes on with its next  *)
(* document, or closes the database after this one or because it failed.   *)
Result(t) ==
    /\ pc[t] = "result"
    /\ \/ \E loc \in {"leave", "ensure"} : Goto(t, loc) /\ UNCHANGED disorder
       \/ Recycle(t)
    /\ mine' = [mine EXCEPT ![t] = NoHandle]
    /\ UNCHANGED <<readiness, accepting, inFlight, database, models, within,
                   hand>>

(* _verify_lock_released: without a lock file the ingestion goes on or is  *)
(* done; a lock file is an error, which leads to a second close when this  *)
(* one was made after a document, and out of the operation otherwise.      *)
Verify(t) ==
    /\ pc[t] = "verify"
    /\ \/ Goto(t, "leave") /\ UNCHANGED disorder
       \/ ~locked /\ Goto(t, "ensure") /\ UNCHANGED disorder
       \/ locked /\ Recycle(t)
    /\ mine' = [mine EXCEPT ![t] = NoHandle]
    /\ hand' = [hand EXCEPT ![t] = NoHandle]
    /\ UNCHANGED <<readiness, accepting, inFlight, database, models, within>>

Leave(t) ==
    /\ pc[t] = "leave"
    /\ inFlight' = inFlight - 1
    /\ Return(t)
    /\ UNCHANGED <<readiness, accepting, database, models, disorder>>

-----------------------------------------------------------------------------
(* close(), under the condition up to the wait. *)
BeginClose(t) ==
    /\ t \in Closers /\ pc[t] = "idle"
    /\ accepting' = FALSE
    /\ readiness' = IF readiness = "ready" THEN "stopping" ELSE readiness
    /\ Begin(t, "close", "drain")
    /\ UNCHANGED <<inFlight, database, models>>

(* mutant: close() does not wait for the operations in flight *)
NoDrain(t) ==
    /\ pc[t] = "drain"
    /\ Goto(t, "grab") /\ Stay(t)
    /\ UNCHANGED <<readiness, accepting, inFlight, database, models, disorder>>

(* The wait ends when nothing is in flight, ... *)
Drained(t) ==
    /\ pc[t] = "drain"
    /\ inFlight = 0
    /\ Goto(t, "grab") /\ Stay(t)
    /\ UNCHANGED <<readiness, accepting, inFlight, database, models, disorder>>

(* ... or when the grace period is over. *)
GraceOver(t) ==
    /\ pc[t] = "drain"
    /\ inFlight > 0
    /\ JoinIn(IF disorder = "crossed" THEN disorder ELSE "overran")
    /\ Goto(t, "grab") /\ Stay(t)
    /\ UNCHANGED <<readiness, accepting, inFlight, database, models>>

(* service.close: reads the fields, sets them to None, ... *)
Grab(t) ==
    /\ pc[t] = "grab"
    /\ mine' = [mine EXCEPT ![t] = handle]
    /\ hand' = [hand EXCEPT ![t] = client]
    /\ Goto(t, "clear")
    /\ UNCHANGED <<readiness, accepting, inFlight, database, models, within,
                   disorder>>

(* Where service.close was called from. *)
AfterClose(t) == IF within[t] = "operation" THEN "verify" ELSE "mark_down"

(* What is left to close after the client. *)
AfterRelease(t) == IF mine[t] # NoHandle THEN "shut" ELSE AfterClose(t)

Clear(t) ==
    /\ pc[t] = "clear"
    /\ handle' = NoHandle /\ provider' = NoHandle /\ client' = NoHandle
    /\ Goto(t, IF hand[t] = NoHandle THEN AfterRelease(t) ELSE "release")
    /\ Stay(t)
    /\ UNCHANGED <<readiness, accepting, inFlight, open, locked, opened, apiMode,
                   running, made, halfBuilt, overwritten, disorder>>

(* ... and closes what it read: the client, whose errors are suppressed, *)
Release(t) ==
    /\ pc[t] = "release"
    /\ running' = running \ {hand[t]}
    /\ Goto(t, AfterRelease(t))
    /\ Stay(t)
    /\ UNCHANGED <<readiness, accepting, inFlight, database, apiMode, provider,
                   client, made, halfBuilt, overwritten, disorder>>

(* mutant: the lock file goes before the database is closed *)
UnlockFirst(t) ==
    /\ pc[t] = "shut"
    /\ locked' = FALSE
    /\ Goto(t, "unlock") /\ Stay(t)
    /\ UNCHANGED <<readiness, accepting, inFlight, handle, open, opened,
                   models, disorder>>

(* ... the database, then the lock file. *)
Shut(t) ==
    /\ pc[t] = "shut"
    /\ open' = open \ {mine[t]}
    /\ Goto(t, "unlock") /\ Stay(t)
    /\ UNCHANGED <<readiness, accepting, inFlight, handle, locked, opened,
                   models, disorder>>

(* When closing the database failed, the error is raised after the unlock  *)
(* and the readiness state stays as it is; in a folder ingestion that is a *)
(* failure of the document, or ends the operation.                         *)
RemoveLock(t) ==
    /\ pc[t] = "unlock"
    /\ locked' = FALSE
    /\ \/ Goto(t, AfterClose(t)) /\ Stay(t)
       \/ Failures /\ within[t] # "operation" /\ Return(t)
       \/ Failures /\ within[t] = "operation" /\ Goto(t, "result") /\ Stay(t)
    /\ UNCHANGED <<readiness, accepting, inFlight, handle, open, opened, models,
                   disorder>>

MarkDown(t) ==
    /\ pc[t] = "mark_down"
    /\ readiness' = IF within[t] = "start" THEN "failed" ELSE "closed"
    /\ Return(t)
    /\ UNCHANGED <<accepting, inFlight, database, models, disorder>>

Next == \E t \in Threads :
    \/ Call(t) \/ MarkStarting(t) \/ Ensure(t) \/ Open(t) \/ Migrate(t)
    \/ Publish(t) \/ Validate(t) \/ MarkReady(t) \/ Accept(t)
    \/ FindProvider(t) \/ FindClient(t) \/ CreateClient(t) \/ Assign(t) \/ Probe(t)
    \/ Enter(t) \/ Work(t) \/ Result(t) \/ Verify(t) \/ Leave(t)
    \/ BeginClose(t) \/ Drained(t) \/ GraceOver(t) \/ Grab(t) \/ Clear(t)
    \/ Release(t) \/ Shut(t) \/ RemoveLock(t) \/ MarkDown(t)

Spec == Init /\ [][Next]_vars

-----------------------------------------------------------------------------
(* The variables hold values of their types, and the count of operations   *)
(* in flight is the number of threads inside one, on every path out.       *)
TypeOK ==
    /\ readiness \in {"new", "starting", "ready", "stopping", "failed", "closed"}
    /\ accepting \in BOOLEAN
    /\ inFlight = Cardinality(Operating)
    /\ handle \in Handles \cup {NoHandle}
    /\ open \subseteq Handles
    /\ locked \in BOOLEAN
    /\ opened \in 0..MaxHandles
    /\ pc \in [Threads -> Locations]
    /\ within \in [Threads -> {"none", "start", "operation", "close"}]
    /\ mine \in [Threads -> Handles \cup {NoHandle}]
    /\ hand \in [Threads -> Clients \cup {NoHandle}]
    /\ {provider, client} \subseteq Clients \cup {NoHandle}
    /\ running \cup halfBuilt \cup overwritten \subseteq Clients
    /\ made \in 0..MaxClients
    /\ disorder \in Disorders

(* One database handle per process: while nothing is closed and nothing    *)
(* fails, the database is opened once.  It does not hold of the code when  *)
(* two threads make the first call together (run container_double_start).  *)
OpenedOnce == opened <= 1

(* Unless start or close overlapped with another start or close, a close   *)
(* outlasted its grace period, or a folder ingestion closed the database   *)
(* while others used the service:                                          *)
Orderly == disorder \in {"none", "recycled"}

(* an operation never works on a database that was closed under it, and    *)
(* the handle that the next one will find is that of an open database;     *)
WorksOnOpenDatabase ==
    Orderly =>
      /\ \A t \in Threads : pc[t] = "work" => mine[t] \in open
      /\ handle # NoHandle => handle \in open

(* and a container that is new, failed or closed has left nothing open and *)
(* no lock file behind, and no HTTP client but those half built and those  *)
(* overwritten, whichever step of starting or closing failed.  Overwritten *)
(* are clients that two operations made at the same time, which cannot be  *)
(* in api_mode, where start() makes it, before an ingestion has closed it. *)
DownIsReleased ==
    Orderly /\ readiness \in {"new", "failed", "closed"} =>
      /\ open = {} /\ ~locked
      /\ running \subseteq halfBuilt \cup overwritten
      /\ apiMode /\ disorder = "none" => overwritten = {}

(* Even when a close outlasts its grace period, an open database has its   *)
(* lock file and no second handle is open (start and close not             *)
(* overlapping, and no folder ingestion closing what others use).          *)
OpenIsLocked ==
    disorder # "crossed" =>
      (open # {} => locked) /\ Cardinality(open) <= 1
=============================================================================
