--------------------------- MODULE Service_proofs ---------------------------
(***************************************************************************)
(* Proofs about the container, for any number of threads that call, close  *)
(* and ingest folders, with and without api_mode and failures; and about   *)
(* the configuration that it starts from, for any settings and files.      *)
(***************************************************************************)
EXTENDS Container, Configuration, FiniteSetTheorems, SequenceTheorems, TLAPS

Down == {"release", "shut", "unlock", "mark_down"}

Equipping == {"provider", "client", "create", "assign"}

(* Where a thread can be in each call, and what it has in its hands there. *)
Located ==
    \A t \in Threads :
      /\ pc[t] = "idle" <=> within[t] = "none"
      /\ pc[t] \in {"mark_starting", "validate", "probe", "mark_ready", "accept"}
           => within[t] = "start"
      /\ pc[t] \in {"enter", "work", "result", "verify", "leave"}
           => within[t] = "operation"
      /\ pc[t] = "drain" => within[t] = "close"
      /\ pc[t] \in Closing => within[t] # "none"
      /\ pc[t] = "mark_down" => within[t] \in {"start", "close"}
      /\ pc[t] \in {"ensure", "open", "migrate", "publish"} \cup Equipping
           => within[t] \in {"start", "operation"}
      /\ pc[t] \in {"migrate", "publish", "shut"} => mine[t] # NoHandle
      /\ pc[t] = "assign" => hand[t] # NoHandle

Types ==
    /\ readiness \in {"new", "starting", "ready", "stopping", "failed", "closed"}
    /\ accepting \in BOOLEAN
    /\ handle \in Handles \cup {NoHandle}
    /\ open \subseteq Handles
    /\ locked \in BOOLEAN
    /\ opened \in 0 .. MaxHandles
    /\ apiMode \in BOOLEAN
    /\ pc \in [Threads -> Locations]
    /\ within \in [Threads -> {"none", "start", "operation", "close"}]
    /\ mine \in [Threads -> Handles \cup {NoHandle}]
    /\ hand \in [Threads -> Clients \cup {NoHandle}]
    /\ {provider, client} \subseteq Clients \cup {NoHandle}
    /\ running \cup halfBuilt \cup overwritten \subseteq Clients /\ made \in 0 .. MaxClients
    /\ disorder \in Disorders

Counted == inFlight = Cardinality(Operating)

Changing(t) == within[t] \in {"start", "close"}

InFlight(t) == within[t] = "operation" /\ pc[t] \in InOperation

Closes(t) == InFlight(t) /\ pc[t] \in Closing

Busy(t) ==
    \/ InFlight(t) \/ within[t] = "start"
    \/ within[t] = "close" /\ pc[t] # "drain"

(* While calls do not cross: an operation that closes the service is alone. *)
Alone ==
    disorder # "crossed" =>
      \A t, u \in Threads : Closes(t) /\ Busy(u) => t = u

(* The thread that has an open database, or its lock file, to itself. *)
Owns(t) ==
    \/ pc[t] \in {"migrate", "publish", "shut", "unlock"}
    \/ pc[t] = "release" /\ mine[t] # NoHandle

(* One thread is in start and close; the open database is the service's or *)
(* some thread's, and never both.                                          *)
Owned ==
    disorder # "crossed" =>
      /\ \A t, u \in Threads : Changing(t) /\ Changing(u) => t = u
      /\ \A t, u \in Threads : Owns(t) /\ Owns(u) => t = u
      /\ \A t \in Threads : Owns(t) =>
           /\ locked /\ handle = NoHandle
           /\ open = IF pc[t] = "unlock" THEN {} ELSE {mine[t]}
      /\ handle # NoHandle => locked /\ open = {handle}
      /\ open # {} => locked
      /\ \A g, h \in open : g = h
      /\ \A t \in Threads : pc[t] = "clear" /\ mine[t] # NoHandle => mine[t] = handle

(* And while no close outlasts its grace period: operations are in flight  *)
(* between a start and the end of a close's wait, and one that has its     *)
(* repository has the service's.                                           *)
Phased ==
    Orderly =>
      /\ accepting => readiness = "ready" /\ \A t \in Threads : ~Changing(t)
      /\ \A t \in Threads : InFlight(t) =>
           /\ readiness \in {"ready", "stopping"}
           /\ pc[t] \in {"work"} \cup Equipping => handle # NoHandle /\ mine[t] = handle
      /\ \A t \in Threads : Changing(t) /\ pc[t] # "drain" =>
           \A u \in Threads : ~InFlight(u)
      /\ \A t \in Threads : within[t] = "close" => readiness # "ready"
      /\ \A t \in Threads : within[t] = "start" =>
           /\ pc[t] = "mark_starting" => readiness \in Startable
           /\ pc[t] = "accept" => readiness = "ready"
           /\ pc[t] \notin {"mark_starting", "accept"} => readiness = "starting"
           /\ pc[t] \in {"validate", "probe", "mark_ready", "accept"} \cup Equipping
                => handle # NoHandle
           /\ pc[t] \in {"probe", "mark_ready", "accept"} /\ apiMode
                => provider # NoHandle

(* Before the first ingestion that closes the service, a ready container   *)
(* has its database and, in api_mode, its provider: operations find them.  *)
Equipped ==
    disorder = "none" =>
      /\ readiness = "ready" => handle # NoHandle /\ (apiMode => provider # NoHandle)
      /\ \A t \in Threads : InFlight(t) =>
           /\ handle # NoHandle /\ (apiMode => provider # NoHandle)
           /\ pc[t] \notin {"open", "migrate", "publish"} \cup Closing
           /\ apiMode => pc[t] \notin {"client", "create", "assign"}
      /\ apiMode => /\ overwritten = {}
                    /\ \A t \in Threads : pc[t] = "create" => client = NoHandle

(* What closing has not got to yet is the service's, and what it has taken *)
(* from the service is in its hands.                                       *)
Retained ==
    Orderly =>
      /\ locked => handle # NoHandle \/ \E t \in Threads : Owns(t)
      /\ readiness \in Startable => handle = NoHandle /\ client = NoHandle /\ ~locked
      /\ \A t \in Threads :
           /\ pc[t] = "clear" => mine[t] = handle /\ hand[t] = client
           /\ pc[t] \in Down => handle = NoHandle /\ client = NoHandle
           /\ pc[t] = "release" => readiness \notin Startable
      /\ \A c \in running :
           \/ c \in halfBuilt \cup overwritten \/ c = client
           \/ \E t \in Threads : pc[t] = "release" /\ hand[t] = c

IInv ==
    Types /\ Located /\ Counted /\ Alone /\ Owned /\ Phased /\ Equipped /\ Retained

(* What a thread can do next. *)
Step(t) ==
    \/ Call(t) \/ MarkStarting(t) \/ Ensure(t) \/ Open(t) \/ Migrate(t)
    \/ Publish(t) \/ Validate(t) \/ FindProvider(t) \/ FindClient(t)
    \/ CreateClient(t) \/ Assign(t) \/ Probe(t) \/ MarkReady(t) \/ Accept(t)
    \/ Enter(t) \/ Work(t) \/ Result(t) \/ Verify(t) \/ Leave(t)
    \/ BeginClose(t) \/ Drained(t) \/ GraceOver(t) \/ Grab(t) \/ Clear(t)
    \/ Release(t) \/ Shut(t) \/ RemoveLock(t) \/ MarkDown(t)

(* An exception. *)
LEMMA Raises ==
    ASSUME accepting \in BOOLEAN, NEW t, Raise(t)
    PROVE  /\ pc' = [pc EXCEPT ![t] = IF within[t] = "start" THEN "grab" ELSE "result"]
           /\ mine' = [mine EXCEPT ![t] = NoHandle]
           /\ accepting' = (within[t] # "start" /\ accepting)
BY DEF Raise, Goto

(* Opening and creating, without the counters. *)
Opening(t, h) ==
    /\ h # NoHandle /\ ~locked
    /\ open' = open \cup {h} /\ locked' = TRUE
    /\ mine' = [mine EXCEPT ![t] = h]
    /\ pc' = [pc EXCEPT ![t] = "migrate"]
    /\ UNCHANGED <<accepting, handle>>

LEMMA Opens ==
    ASSUME Types, NEW t \in Threads, Open(t)
    PROVE  /\ pc[t] = "open" /\ opened' \in 0 .. MaxHandles
           /\ UNCHANGED <<readiness, inFlight, models, within, hand, disorder>>
           /\ \/ Raise(t) /\ UNCHANGED database
              \/ \E h \in Handles : Opening(t, h)
<1>1. opened < MaxHandles => /\ opened + 1 \in Handles /\ opened + 1 \in 0 .. MaxHandles
                             /\ opened + 1 # NoHandle
    BY ContainerAssumption DEF Types, Handles
<1>2. CASE Raise(t) /\ UNCHANGED database
    BY <1>2 DEF Open, Types, database
<1>3. CASE ~(Raise(t) /\ UNCHANGED database)
    BY <1>1, <1>3 DEF Open, Goto, Opening
<1> QED
    BY <1>2, <1>3

Failing(t, c) ==
    /\ Raise(t) /\ UNCHANGED <<client, hand, overwritten>>
    /\ running' = running \cup {c} /\ halfBuilt' = halfBuilt \cup {c}

Creating(t, c) ==
    /\ c # NoHandle /\ client' = c
    /\ hand' = [hand EXCEPT ![t] = c]
    /\ running' = running \cup {c}
    /\ overwritten' = overwritten \cup ({client} \ {NoHandle})
    /\ pc' = [pc EXCEPT ![t] = "assign"]
    /\ UNCHANGED <<accepting, mine, halfBuilt>>

LEMMA Creates ==
    ASSUME Types, NEW t \in Threads, CreateClient(t)
    PROVE  /\ pc[t] = "create" /\ made' \in 0 .. MaxClients
           /\ UNCHANGED <<readiness, inFlight, database, apiMode, provider, within,
                          disorder>>
           /\ \/ Raise(t) /\ UNCHANGED <<client, running, halfBuilt, overwritten, hand>>
              \/ \E c \in Clients : Failing(t, c)
              \/ \E c \in Clients : Creating(t, c)
<1>1. made < MaxClients => /\ made + 1 \in Clients /\ made + 1 \in 0 .. MaxClients
                           /\ made + 1 # NoHandle
    BY ContainerAssumption DEF Types, Clients
<1>2. CASE made' = made
    BY <1>2 DEF CreateClient, Goto, Types
<1>3. CASE made' # made
    BY <1>1, <1>3 DEF CreateClient, Goto, Failing, Creating
<1> QED
    BY <1>2, <1>3

-----------------------------------------------------------------------------
(* Each part of the invariant, action by action. *)
LEMMA JoinsTyped ==
    ASSUME NEW otherwise \in Disorders, JoinIn(otherwise)
    PROVE  disorder' \in Disorders
BY DEF JoinIn, Disorders

LEMMA TypesStep ==
    ASSUME Types,
           NEW t \in Threads, Step(t)
    PROVE  Types'
<1> USE DEF Types, Locations, Disorders
<1>1. CASE Call(t)
    BY <1>1, JoinsTyped, ZenonT(60) DEF Call, Goto, Begin, Startable, database, models
<1>2. CASE MarkStarting(t)
    BY <1>2 DEF MarkStarting, Goto, Stay, database, models
<1>3. CASE Ensure(t)
    BY <1>3 DEF Ensure, Ensured, Goto, database, models
<1>4. CASE Open(t)
    <2>1. CASE Raise(t) /\ UNCHANGED database
        BY <1>4, <2>1, Opens, Raises, ZenonT(60) DEF database, models
    <2>2. ASSUME NEW h \in Handles, Opening(t, h)
          PROVE  Types'
        <3>1. open' \subseteq Handles /\ locked' \in BOOLEAN
            BY <2>2 DEF Opening
        <3>2. /\ mine' \in [Threads -> Handles \cup {NoHandle}]
              /\ pc' \in [Threads -> Locations]
            BY <2>2 DEF Opening
        <3>3. UNCHANGED <<accepting, handle>>
            BY <2>2 DEF Opening
        <3> QED
            BY <1>4, <3>1, <3>2, <3>3, Opens DEF models
    <2> QED
        BY <1>4, <2>1, <2>2, Opens
<1>5. CASE Migrate(t)
    <2>1. CASE Raise(t)
        BY <1>5, <2>1, Raises, ZenonT(60) DEF Migrate, database, models
    <2>2. CASE ~Raise(t)
        BY <1>5, <2>2 DEF Migrate, Goto, database, models
    <2> QED
        BY <2>1, <2>2
<1>6. CASE Publish(t)
    BY <1>6 DEF Publish, Ensured, Goto, database, models
<1>7. CASE Validate(t)
    <2>1. CASE Raise(t)
        BY <1>7, <2>1, Raises, ZenonT(60) DEF Validate, database, models
    <2>2. CASE ~Raise(t)
        BY <1>7, <2>2 DEF Validate, Goto, database, models
    <2> QED
        BY <2>1, <2>2
<1>8. CASE FindProvider(t)
    BY <1>8 DEF FindProvider, Provided, Goto, Stay, database, models
<1>9. CASE FindClient(t)
    BY <1>9 DEF FindClient, Goto, database, models
<1>10. CASE CreateClient(t)
    <2>1. CASE Raise(t) /\ UNCHANGED <<client, running, halfBuilt, overwritten, hand>>
        BY <1>10, <2>1, Creates, Raises, ZenonT(60) DEF database, models
    <2>2. ASSUME NEW c \in Clients, Failing(t, c)
          PROVE  Types'
        BY <1>10, <2>2, Creates, Raises, ZenonT(60) DEF Failing, database, models
    <2>3. ASSUME NEW c \in Clients, Creating(t, c)
          PROVE  Types'
        BY <1>10, <2>3, Creates DEF Creating, database, models
    <2> QED
        BY <1>10, <2>1, <2>2, <2>3, Creates
<1>11. CASE Assign(t)
    BY <1>11 DEF Assign, Provided, Goto, database, models
<1>12. CASE Probe(t)
    <2>1. CASE Raise(t)
        BY <1>12, <2>1, Raises, ZenonT(60) DEF Probe, database, models
    <2>2. CASE ~Raise(t)
        BY <1>12, <2>2 DEF Probe, Goto, database, models
    <2> QED
        BY <2>1, <2>2
<1>13. CASE MarkReady(t)
    BY <1>13 DEF MarkReady, Goto, Stay, database, models
<1>14. CASE Accept(t)
    BY <1>14 DEF Accept, Goto, database, models
<1>15. CASE Enter(t)
    BY <1>15, JoinsTyped DEF Enter, Goto, Stay, Return, database, models
<1>16. CASE Work(t)
    BY <1>16 DEF Work, Goto, Stay, database, models
<1>17. CASE Leave(t)
    BY <1>17 DEF Leave, Return, Goto, database, models
<1>18. CASE BeginClose(t)
    BY <1>18 DEF BeginClose, Begin, Goto, database, models
<1>19. CASE Drained(t)
    BY <1>19 DEF Drained, Goto, Stay, database, models
<1>20. CASE GraceOver(t)
    BY <1>20, JoinsTyped DEF GraceOver, Goto, Stay, database, models
<1>21. CASE Grab(t)
    BY <1>21 DEF Grab, Goto, database, models
<1>22. CASE Clear(t)
    BY <1>22 DEF Clear, AfterRelease, AfterClose, Goto, Stay, database, models
<1>23. CASE Release(t)
    BY <1>23 DEF Release, AfterRelease, AfterClose, Goto, Stay, database, models
<1>24. CASE Shut(t)
    BY <1>24 DEF Shut, Goto, Stay, database, models
<1>25. CASE RemoveLock(t)
    BY <1>25, ZenonT(60) DEF RemoveLock, AfterClose, Goto, Stay, Return, database, models
<1>26. CASE MarkDown(t)
    BY <1>26 DEF MarkDown, Return, Goto, database, models
<1>27. CASE Result(t)
    BY <1>27 DEF Result, Recycle, Using, Goto, database, models
<1>28. CASE Verify(t)
    BY <1>28 DEF Verify, Recycle, Using, Goto, database, models
<1> QED
    BY <1>1, <1>2, <1>3, <1>4, <1>5, <1>6, <1>7, <1>8, <1>9, <1>10, <1>11,
       <1>12, <1>13, <1>14, <1>15, <1>16, <1>17, <1>18, <1>19, <1>20, <1>21,
       <1>22, <1>23, <1>24, <1>25, <1>26, <1>27, <1>28 DEF Step

LEMMA LocatedStep ==
    ASSUME Types, Located,
           NEW t \in Threads, Step(t)
    PROVE  Located'
<1> USE DEF Types, Located, Down, Equipping, Closing
<1>1. CASE Call(t)
    BY <1>1 DEF Call, Goto, Begin, Startable, database, models
<1>2. CASE MarkStarting(t)
    BY <1>2 DEF MarkStarting, Goto, Stay, database, models
<1>3. CASE Ensure(t)
    BY <1>3 DEF Ensure, Ensured, Goto, database, models
<1>4. CASE Open(t)
    <2>1. CASE Raise(t) /\ UNCHANGED database
        BY <1>4, <2>1, Opens, Raises DEF database, models
    <2>2. ASSUME NEW h \in Handles, Opening(t, h)
          PROVE  Located'
        BY <1>4, <2>2, Opens, ZenonT(60) DEF Opening, database, models
    <2> QED
        BY <1>4, <2>1, <2>2, Opens
<1>5. CASE Migrate(t)
    <2>1. CASE Raise(t)
        BY <1>5, <2>1, Raises DEF Migrate, database, models
    <2>2. CASE ~Raise(t)
        BY <1>5, <2>2 DEF Migrate, Goto, database, models
    <2> QED
        BY <2>1, <2>2
<1>6. CASE Publish(t)
    BY <1>6 DEF Publish, Ensured, Goto, database, models
<1>7. CASE Validate(t)
    <2>1. CASE Raise(t)
        BY <1>7, <2>1, Raises DEF Validate, database, models
    <2>2. CASE ~Raise(t)
        BY <1>7, <2>2 DEF Validate, Goto, database, models
    <2> QED
        BY <2>1, <2>2
<1>8. CASE FindProvider(t)
    BY <1>8 DEF FindProvider, Provided, Goto, Stay, database, models
<1>9. CASE FindClient(t)
    BY <1>9 DEF FindClient, Goto, database, models
<1>10. CASE CreateClient(t)
    <2>1. CASE Raise(t) /\ UNCHANGED <<client, running, halfBuilt, overwritten, hand>>
        BY <1>10, <2>1, Creates, Raises DEF database, models
    <2>2. ASSUME NEW c \in Clients, Failing(t, c)
          PROVE  Located'
        BY <1>10, <2>2, Creates, Raises DEF Failing, database, models
    <2>3. ASSUME NEW c \in Clients, Creating(t, c)
          PROVE  Located'
        BY <1>10, <2>3, Creates DEF Creating, database, models
    <2> QED
        BY <1>10, <2>1, <2>2, <2>3, Creates
<1>11. CASE Assign(t)
    BY <1>11 DEF Assign, Provided, Goto, database, models
<1>12. CASE Probe(t)
    <2>1. CASE Raise(t)
        BY <1>12, <2>1, Raises DEF Probe, database, models
    <2>2. CASE ~Raise(t)
        BY <1>12, <2>2 DEF Probe, Goto, database, models
    <2> QED
        BY <2>1, <2>2
<1>13. CASE MarkReady(t)
    BY <1>13 DEF MarkReady, Goto, Stay, database, models
<1>14. CASE Accept(t)
    BY <1>14 DEF Accept, Goto, database, models
<1>15. CASE Enter(t)
    BY <1>15 DEF Enter, Goto, Stay, Return, database, models
<1>16. CASE Work(t)
    BY <1>16 DEF Work, Goto, Stay, database, models
<1>17. CASE Leave(t)
    BY <1>17 DEF Leave, Return, Goto, database, models
<1>18. CASE BeginClose(t)
    BY <1>18 DEF BeginClose, Begin, Goto, database, models
<1>19. CASE Drained(t)
    BY <1>19 DEF Drained, Goto, Stay, database, models
<1>20. CASE GraceOver(t)
    BY <1>20 DEF GraceOver, Goto, Stay, database, models
<1>21. CASE Grab(t)
    BY <1>21 DEF Grab, Goto, database, models
<1>22. CASE Clear(t)
    BY <1>22 DEF Clear, AfterRelease, AfterClose, Goto, Stay, database, models
<1>23. CASE Release(t)
    BY <1>23 DEF Release, AfterRelease, AfterClose, Goto, Stay, database, models
<1>24. CASE Shut(t)
    BY <1>24 DEF Shut, Goto, Stay, database, models
<1>25. CASE RemoveLock(t)
    BY <1>25 DEF RemoveLock, AfterClose, Goto, Stay, Return, database, models
<1>26. CASE MarkDown(t)
    BY <1>26 DEF MarkDown, Return, Goto, database, models
<1>27. CASE Result(t)
    BY <1>27 DEF Result, Recycle, Goto, database, models
<1>28. CASE Verify(t)
    BY <1>28 DEF Verify, Recycle, Goto, database, models
<1> QED
    BY <1>1, <1>2, <1>3, <1>4, <1>5, <1>6, <1>7, <1>8, <1>9, <1>10, <1>11,
       <1>12, <1>13, <1>14, <1>15, <1>16, <1>17, <1>18, <1>19, <1>20, <1>21,
       <1>22, <1>23, <1>24, <1>25, <1>26, <1>27, <1>28 DEF Step

(* Operations begin in Enter and end in Leave. *)
LEMMA OperatingStep ==
    ASSUME Types, Located, NEW t \in Threads, Step(t), ~Enter(t), ~Leave(t)
    PROVE  Operating' = Operating /\ UNCHANGED inFlight
<1> USE DEF Types, Located, Operating, InOperation, Down, Equipping, Closing
<1>1. CASE Call(t)
    BY <1>1 DEF Call, Goto, Begin, Startable, database, models
<1>2. CASE MarkStarting(t)
    BY <1>2 DEF MarkStarting, Goto, Stay, database, models
<1>3. CASE Ensure(t)
    BY <1>3 DEF Ensure, Ensured, Goto, database, models
<1>4. CASE Open(t)
    <2>1. CASE Raise(t) /\ UNCHANGED database
        BY <1>4, <2>1, Opens, Raises DEF database, models
    <2>2. ASSUME NEW h \in Handles, Opening(t, h)
          PROVE  Operating' = Operating /\ UNCHANGED inFlight
        BY <1>4, <2>2, Opens, ZenonT(60) DEF Opening, database, models
    <2> QED
        BY <1>4, <2>1, <2>2, Opens
<1>5. CASE Migrate(t)
    <2>1. CASE Raise(t)
        BY <1>5, <2>1, Raises DEF Migrate, database, models
    <2>2. CASE ~Raise(t)
        BY <1>5, <2>2 DEF Migrate, Goto, database, models
    <2> QED
        BY <2>1, <2>2
<1>6. CASE Publish(t)
    BY <1>6 DEF Publish, Ensured, Goto, database, models
<1>7. CASE Validate(t)
    <2>1. CASE Raise(t)
        BY <1>7, <2>1, Raises DEF Validate, database, models
    <2>2. CASE ~Raise(t)
        BY <1>7, <2>2 DEF Validate, Goto, database, models
    <2> QED
        BY <2>1, <2>2
<1>8. CASE FindProvider(t)
    BY <1>8 DEF FindProvider, Provided, Goto, Stay, database, models
<1>9. CASE FindClient(t)
    BY <1>9 DEF FindClient, Goto, database, models
<1>10. CASE CreateClient(t)
    <2>1. CASE Raise(t) /\ UNCHANGED <<client, running, halfBuilt, overwritten, hand>>
        BY <1>10, <2>1, Creates, Raises DEF database, models
    <2>2. ASSUME NEW c \in Clients, Failing(t, c)
          PROVE  Operating' = Operating /\ UNCHANGED inFlight
        BY <1>10, <2>2, Creates, Raises DEF Failing, database, models
    <2>3. ASSUME NEW c \in Clients, Creating(t, c)
          PROVE  Operating' = Operating /\ UNCHANGED inFlight
        BY <1>10, <2>3, Creates DEF Creating, database, models
    <2> QED
        BY <1>10, <2>1, <2>2, <2>3, Creates
<1>11. CASE Assign(t)
    BY <1>11 DEF Assign, Provided, Goto, database, models
<1>12. CASE Probe(t)
    <2>1. CASE Raise(t)
        BY <1>12, <2>1, Raises DEF Probe, database, models
    <2>2. CASE ~Raise(t)
        BY <1>12, <2>2 DEF Probe, Goto, database, models
    <2> QED
        BY <2>1, <2>2
<1>13. CASE MarkReady(t)
    BY <1>13 DEF MarkReady, Goto, Stay, database, models
<1>14. CASE Accept(t)
    BY <1>14 DEF Accept, Goto, database, models
<1>16. CASE Work(t)
    BY <1>16 DEF Work, Goto, Stay, database, models
<1>18. CASE BeginClose(t)
    BY <1>18 DEF BeginClose, Begin, Goto, database, models
<1>19. CASE Drained(t)
    BY <1>19 DEF Drained, Goto, Stay, database, models
<1>20. CASE GraceOver(t)
    BY <1>20 DEF GraceOver, Goto, Stay, database, models
<1>21. CASE Grab(t)
    BY <1>21 DEF Grab, Goto, database, models
<1>22. CASE Clear(t)
    BY <1>22 DEF Clear, AfterRelease, AfterClose, Goto, Stay, database, models
<1>23. CASE Release(t)
    BY <1>23 DEF Release, AfterRelease, AfterClose, Goto, Stay, database, models
<1>24. CASE Shut(t)
    BY <1>24 DEF Shut, Goto, Stay, database, models
<1>25. CASE RemoveLock(t)
    BY <1>25 DEF RemoveLock, AfterClose, Goto, Stay, Return, database, models
<1>26. CASE MarkDown(t)
    BY <1>26 DEF MarkDown, Return, Goto, database, models
<1>27. CASE Result(t)
    BY <1>27 DEF Result, Recycle, Goto, database, models
<1>28. CASE Verify(t)
    BY <1>28 DEF Verify, Recycle, Goto, database, models
<1> QED
    BY <1>1, <1>2, <1>3, <1>4, <1>5, <1>6, <1>7, <1>8, <1>9, <1>10, <1>11,
       <1>12, <1>13, <1>14, <1>16, <1>18, <1>19, <1>20, <1>21, <1>22, <1>23,
       <1>24, <1>25, <1>26, <1>27, <1>28 DEF Step

(* And those count. *)
LEMMA CountedStep ==
    ASSUME Types, Located, Counted, NEW t \in Threads, Step(t)
    PROVE  Counted'
<1>1. IsFiniteSet(Operating)
    BY ContainerAssumption, FS_Subset DEF Operating
<1>2. CASE Enter(t)
    <2>1. CASE inFlight' = inFlight + 1 /\ Goto(t, "ensure") /\ Stay(t)
        <3>1. Operating' = Operating \cup {t} /\ t \notin Operating
            BY <1>2, <2>1 DEF Enter, Goto, Stay, Operating, InOperation,
               Closing, Types, Located
        <3> QED
            BY <1>1, <2>1, <3>1, FS_AddElement DEF Counted
    <2>2. CASE Return(t) /\ UNCHANGED inFlight
        <3>1. Operating' = Operating
            BY <1>2, <2>2 DEF Enter, Return, Goto, Operating, InOperation,
               Closing, Types, Located
        <3> QED
            BY <2>2, <3>1 DEF Counted
    <2> QED
        BY <1>2, <2>1, <2>2 DEF Enter
<1>3. CASE Leave(t)
    <2>1. Operating' = Operating \ {t} /\ t \in Operating
        BY <1>3 DEF Leave, Return, Goto, Operating, InOperation, Closing,
           Types, Located
    <2>2. inFlight' = inFlight - 1
        BY <1>3 DEF Leave
    <2> QED
        BY <1>1, <2>1, <2>2, FS_RemoveElement DEF Counted
<1>4. CASE ~Enter(t) /\ ~Leave(t)
    BY <1>4, OperatingStep DEF Counted
<1> QED
    BY <1>2, <1>3, <1>4

(* Most steps bring no thread to use or to close the service, ... *)
Quiet ==
    /\ UNCHANGED disorder
    /\ \A u \in Threads : /\ Closes(u)' => Closes(u)
                          /\ Busy(u)' => Busy(u)

LEMMA QuietStep ==
    ASSUME Types, Located, NEW t \in Threads, Step(t),
           ~Call(t), ~Enter(t), ~Result(t), ~Verify(t), ~BeginClose(t),
           ~Drained(t), ~GraceOver(t)
    PROVE  Quiet
<1> USE DEF Types, Located, Down, Equipping, Quiet, Closes, Busy, InFlight,
            InOperation, Closing
<1>1. CASE MarkStarting(t)
    BY <1>1 DEF MarkStarting, Goto, Stay, database, models
<1>2. CASE Ensure(t)
    BY <1>2 DEF Ensure, Ensured, Goto, database, models
<1>3. CASE Open(t)
    <2>1. CASE Raise(t) /\ UNCHANGED database
        BY <1>3, <2>1, Opens, Raises DEF database, models
    <2>2. ASSUME NEW h \in Handles, Opening(t, h)
          PROVE  Quiet
        BY <1>3, <2>2, Opens, ZenonT(60) DEF Opening, database, models
    <2> QED
        BY <1>3, <2>1, <2>2, Opens
<1>4. CASE Migrate(t)
    <2>1. CASE Raise(t)
        BY <1>4, <2>1, Raises DEF Migrate, database, models
    <2>2. CASE ~Raise(t)
        BY <1>4, <2>2 DEF Migrate, Goto, database, models
    <2> QED
        BY <2>1, <2>2
<1>5. CASE Publish(t)
    BY <1>5 DEF Publish, Ensured, Goto, database, models
<1>6. CASE Validate(t)
    <2>1. CASE Raise(t)
        BY <1>6, <2>1, Raises DEF Validate, database, models
    <2>2. CASE ~Raise(t)
        BY <1>6, <2>2 DEF Validate, Goto, database, models
    <2> QED
        BY <2>1, <2>2
<1>7. CASE FindProvider(t)
    BY <1>7 DEF FindProvider, Provided, Goto, Stay, database, models
<1>8. CASE FindClient(t)
    BY <1>8 DEF FindClient, Goto, database, models
<1>9. CASE CreateClient(t)
    <2>1. CASE Raise(t) /\ UNCHANGED <<client, running, halfBuilt, overwritten, hand>>
        BY <1>9, <2>1, Creates, Raises DEF database, models
    <2>2. ASSUME NEW c \in Clients, Failing(t, c)
          PROVE  Quiet
        BY <1>9, <2>2, Creates, Raises DEF Failing, database, models
    <2>3. ASSUME NEW c \in Clients, Creating(t, c)
          PROVE  Quiet
        BY <1>9, <2>3, Creates DEF Creating, database, models
    <2> QED
        BY <1>9, <2>1, <2>2, <2>3, Creates
<1>10. CASE Assign(t)
    BY <1>10 DEF Assign, Provided, Goto, database, models
<1>11. CASE Probe(t)
    <2>1. CASE Raise(t)
        BY <1>11, <2>1, Raises DEF Probe, database, models
    <2>2. CASE ~Raise(t)
        BY <1>11, <2>2 DEF Probe, Goto, database, models
    <2> QED
        BY <2>1, <2>2
<1>12. CASE MarkReady(t)
    BY <1>12 DEF MarkReady, Goto, Stay, database, models
<1>13. CASE Accept(t)
    BY <1>13 DEF Accept, Goto, database, models
<1>14. CASE Work(t)
    BY <1>14 DEF Work, Goto, Stay, database, models
<1>15. CASE Leave(t)
    BY <1>15 DEF Leave, Return, Goto, database, models
<1>16. CASE Grab(t)
    BY <1>16 DEF Grab, Goto, database, models
<1>17. CASE Clear(t)
    BY <1>17 DEF Clear, AfterRelease, AfterClose, Goto, Stay, database, models
<1>18. CASE Release(t)
    BY <1>18 DEF Release, AfterRelease, AfterClose, Goto, Stay, database, models
<1>19. CASE Shut(t)
    BY <1>19 DEF Shut, Goto, Stay, database, models
<1>20. CASE RemoveLock(t)
    BY <1>20 DEF RemoveLock, AfterClose, Goto, Stay, Return, database, models
<1>21. CASE MarkDown(t)
    BY <1>21 DEF MarkDown, Return, Goto, database, models
<1> QED
    BY <1>1, <1>2, <1>3, <1>4, <1>5, <1>6, <1>7, <1>8, <1>9, <1>10, <1>11,
    <1>12, <1>13, <1>14, <1>15, <1>16, <1>17, <1>18, <1>19, <1>20, <1>21 DEF
    Step

(* ... the others are the worse for who is there already. *)
LEMMA Joins ==
    ASSUME NEW otherwise, JoinIn(otherwise), disorder' # "crossed"
    PROVE  disorder' = otherwise /\ \A u \in Threads : ~Closes(u)
BY DEF JoinIn, Recycling, Operating, Closes, InFlight

LEMMA Begins ==
    ASSUME Types, NEW t \in Threads, NEW call \in {"start", "close"}, NEW loc,
           Begin(t, call, loc), disorder' # "crossed"
    PROVE  /\ UNCHANGED <<disorder, mine, hand>>
           /\ \A u \in Threads \ {t} : ~Changing(u)
           /\ call = "start" => \A u \in Threads : ~Closes(u)
           /\ within' = [within EXCEPT ![t] = call] /\ pc' = [pc EXCEPT ![t] = loc]
<1>1. \A u \in Threads \ {t} : within[u] \notin {"start", "close"}
    BY DEF Begin
<1>2. CASE call = "start"
    BY <1>1, <1>2, Joins DEF Begin, Changing, Goto, Types
<1>3. CASE call # "start"
    BY <1>1, <1>3 DEF Begin, Changing, Goto, Types
<1> QED
    BY <1>2, <1>3

LEMMA Recycles ==
    ASSUME Types, NEW t \in Threads, Recycle(t), disorder' # "crossed"
    PROVE  /\ disorder # "crossed"
           /\ disorder' = IF disorder = "none" THEN "recycled" ELSE disorder
           /\ pc' = [pc EXCEPT ![t] = "grab"]
           /\ \A u \in Threads \ {t} : ~Busy(u)
<1>1. Using(t) = {} /\ disorder # "crossed"
    BY DEF Recycle, Types, Disorders
<1> QED
    BY <1>1 DEF Recycle, Goto, Using, Operating, Busy, InFlight, Types

(* Disorder is not forgotten. *)
LEMMA Disordered ==
    ASSUME Types, Located, NEW t \in Threads, Step(t)
    PROVE  /\ disorder' # "crossed" => disorder # "crossed"
           /\ Orderly' => Orderly
           /\ disorder' = "none" => disorder = "none"
<1> USE DEF Orderly, Types, Disorders
<1>1. CASE UNCHANGED disorder
    BY <1>1
<1>2. CASE disorder' = "crossed"
    BY <1>2
<1>3. CASE Call(t) /\ disorder' # "crossed"
    BY <1>3, Begins DEF Call
<1>4. CASE Enter(t) /\ disorder' # "crossed"
    BY <1>4, Joins DEF Enter
<1>5. CASE Recycle(t) /\ disorder' # "crossed"
    BY <1>5, Recycles
<1>6. CASE BeginClose(t) /\ disorder' # "crossed"
    BY <1>6, Begins DEF BeginClose
<1>7. CASE Drained(t)
    BY <1>7 DEF Drained
<1>8. CASE GraceOver(t) /\ disorder' # "crossed"
    BY <1>8, Joins DEF GraceOver
<1> QED
    BY <1>1, <1>2, <1>3, <1>4, <1>5, <1>6, <1>7, <1>8, QuietStep
    DEF Quiet, Result, Verify

LEMMA NothingInFlight ==
    ASSUME Types, Counted, inFlight = 0
    PROVE  \A u \in Threads : ~InFlight(u)
<1>1. IsFiniteSet(Operating)
    BY ContainerAssumption, FS_Subset DEF Operating
<1>2. Operating = {}
    BY <1>1, FS_EmptySet, ZenonT(60) DEF Counted
<1> QED
    BY <1>2 DEF Operating, InFlight

LEMMA AloneStep ==
    ASSUME Types, Located, Counted, Alone, NEW t \in Threads, Step(t)
    PROVE  Alone'
<1> USE DEF Types, Located, Alone
<1> SUFFICES ASSUME disorder' # "crossed"
             PROVE  \A u, v \in Threads : Closes(u)' /\ Busy(v)' => u = v
    OBVIOUS
<1>1. \A u, v \in Threads : Closes(u) /\ Busy(v) => u = v
    BY Disordered
<1>2. \A u \in Threads : pc'[u] = pc[u] /\ within'[u] = within[u] =>
        /\ Closes(u)' <=> Closes(u)
        /\ Busy(u)' <=> Busy(u)
    BY DEF Closes, Busy, InFlight
<1>3. CASE Quiet
    BY <1>1, <1>3 DEF Quiet
<1>4. CASE Call(t)
    <2>1. CASE Begin(t, "start", "mark_starting")
        <3>1. /\ \A u \in Threads : ~Closes(u)
              /\ within'[t] = "start"
              /\ \A u \in Threads \ {t} : pc'[u] = pc[u] /\ within'[u] = within[u]
            BY <2>1, Begins
        <3>2. ~Closes(t)'
            BY <3>1 DEF Closes, InFlight
        <3> QED
            BY <1>2, <3>1, <3>2
    <2>2. CASE ~Begin(t, "start", "mark_starting")
        <3>1. /\ \A u \in Threads \ {t} : pc'[u] = pc[u] /\ within'[u] = within[u]
              /\ \/ pc'[t] = "enter" /\ within'[t] = "operation"
                 \/ pc'[t] = pc[t] /\ within'[t] = within[t]
            BY <1>4, <2>2 DEF Call, Goto
        <3>2. pc'[t] = "enter" /\ within'[t] = "operation" => ~Busy(t)' /\ ~Closes(t)'
            BY DEF Busy, Closes, InFlight, InOperation, Closing
        <3> QED
            BY <1>1, <1>2, <3>1, <3>2
    <2> QED
        BY <2>1, <2>2
<1>5. CASE Enter(t)
    <2>1. CASE JoinIn(disorder) /\ Goto(t, "ensure") /\ Stay(t)
        <3>1. /\ \A u \in Threads : ~Closes(u)
              /\ pc' = [pc EXCEPT ![t] = "ensure"] /\ within' = within
            BY <2>1, Joins DEF Goto, Stay
        <3>2. ~Closes(t)'
            BY <3>1 DEF Closes, Closing
        <3> QED
            BY <1>2, <3>1, <3>2
    <2>2. CASE Return(t)
        <3>1. ~Busy(t)' /\ ~Closes(t)'
            BY <2>2 DEF Return, Goto, Busy, Closes, InFlight
        <3>2. \A u \in Threads \ {t} : pc'[u] = pc[u] /\ within'[u] = within[u]
            BY <2>2 DEF Return, Goto
        <3> QED
            BY <1>1, <1>2, <3>1, <3>2
    <2> QED
        BY <1>5, <2>1, <2>2 DEF Enter
<1>6. CASE Result(t) \/ Verify(t)
    <2>1. /\ pc[t] \in {"result", "verify"} /\ within' = within
          /\ \A u \in Threads \ {t} : pc'[u] = pc[u]
        BY <1>6 DEF Result, Verify, Recycle, Goto
    <2>2. Busy(t)
        BY <2>1 DEF Busy, InFlight, InOperation
    <2>3. CASE Recycle(t)
        BY <1>2, <2>1, <2>3, Recycles DEF Closes, Busy
    <2>4. CASE ~Recycle(t)
        <3>1. pc'[t] \in {"leave", "ensure"}
            BY <1>6, <2>4 DEF Result, Verify, Goto
        <3>2. ~Closes(t)'
            BY <3>1 DEF Closes, Closing
        <3> QED
            BY <1>1, <1>2, <2>1, <2>2, <3>2
    <2> QED
        BY <2>3, <2>4
<1>7. CASE BeginClose(t)
    <2>1. /\ \A u \in Threads \ {t} : pc'[u] = pc[u] /\ within'[u] = within[u]
          /\ pc'[t] = "drain" /\ within'[t] = "close"
        BY <1>7, Begins DEF BeginClose
    <2>2. ~Busy(t)' /\ ~Closes(t)'
        BY <2>1 DEF Busy, Closes, InFlight
    <2> QED
        BY <1>1, <1>2, <2>1, <2>2
<1>8. CASE Drained(t) \/ GraceOver(t)
    <2>1. \A u \in Threads : ~Closes(u)
        <3>1. CASE Drained(t)
            BY <3>1, NothingInFlight DEF Drained, Closes
        <3>2. CASE GraceOver(t)
            BY <3>2, Joins DEF GraceOver
        <3> QED
            BY <1>8, <3>1, <3>2
    <2>2. /\ \A u \in Threads \ {t} : pc'[u] = pc[u]
          /\ within' = within /\ pc[t] = "drain"
        BY <1>8 DEF Drained, GraceOver, Goto, Stay
    <2>3. ~Closes(t)'
        BY <2>2 DEF Closes, InFlight
    <2> QED
        BY <1>2, <2>1, <2>2, <2>3 DEF Closes
<1> QED
    BY <1>3, <1>4, <1>5, <1>6, <1>7, <1>8, QuietStep

LEMMA OwnedStep ==
    ASSUME Types, Located, Alone, Owned,
           NEW t \in Threads, Step(t)
    PROVE  Owned'
<1> USE DEF Types, Located, Down, Equipping, Changing, Owns, Owned
<1>0. disorder' # "crossed" => disorder # "crossed"
    BY Disordered
<1>1. CASE Call(t)
    <2>1. UNCHANGED <<handle, open, locked, mine>>
        BY <1>1 DEF Call, Begin, database
    <2>2. \A u \in Threads : /\ Owns(u)' <=> Owns(u)
                             /\ pc'[u] = "clear" <=> pc[u] = "clear"
                             /\ pc'[u] = "unlock" <=> pc[u] = "unlock"
        BY <1>1, <2>1 DEF Call, Begin, Goto
    <2>3. disorder' # "crossed" =>
            \A u, v \in Threads : Changing(u)' /\ Changing(v)' => u = v
        <3>1. CASE Begin(t, "start", "mark_starting")
            BY <3>1, Begins
        <3>2. CASE ~Begin(t, "start", "mark_starting")
            BY <1>1, <3>2 DEF Call
        <3> QED
            BY <3>1, <3>2
    <2> HIDE DEF Owns, Changing
    <2> QED
        BY <1>0, <2>1, <2>2, <2>3
<1>2. CASE MarkStarting(t)
    BY <1>2, <1>0 DEF MarkStarting, Goto, Stay, database, models
<1>3. CASE Ensure(t)
    BY <1>3, <1>0 DEF Ensure, Ensured, Goto, database, models
<1>4. CASE Open(t)
    <2>1. CASE Raise(t) /\ UNCHANGED database
        BY <1>4, <1>0, <2>1, Opens, Raises DEF database, models
    <2>2. ASSUME NEW h \in Handles, Opening(t, h)
          PROVE  Owned'
        <3> SUFFICES ASSUME disorder # "crossed" PROVE Owned'
            BY <1>4, Opens
        <3>1. /\ \A u \in Threads : ~Owns(u)
              /\ handle = NoHandle /\ open = {} /\ pc[t] = "open"
            BY <1>4, <2>2, Opens DEF Opening
        <3>2. /\ locked' = TRUE /\ handle' = NoHandle /\ open' = {h}
              /\ pc' = [pc EXCEPT ![t] = "migrate"] /\ mine' = [mine EXCEPT ![t] = h]
              /\ UNCHANGED within
            BY <1>4, <2>2, <3>1, Opens DEF Opening
        <3>3. \A u \in Threads : Owns(u)' <=> u = t
            BY <3>1, <3>2, ContainerAssumption DEF Clients
        <3> QED
            BY <3>1, <3>2, <3>3
    <2> QED
        BY <1>4, <2>1, <2>2, Opens
<1>5. CASE Migrate(t)
    <2>1. CASE Raise(t)
        BY <1>5, <1>0, <2>1, Raises DEF Migrate, database, models
    <2>2. CASE ~Raise(t)
        BY <1>5, <1>0, <2>2 DEF Migrate, Goto, database, models
    <2> QED
        BY <2>1, <2>2
<1>6. CASE Publish(t)
    BY <1>6, <1>0 DEF Publish, Ensured, Goto, database, models
<1>7. CASE Validate(t)
    <2>1. CASE Raise(t)
        BY <1>7, <1>0, <2>1, Raises DEF Validate, database, models
    <2>2. CASE ~Raise(t)
        BY <1>7, <1>0, <2>2 DEF Validate, Goto, database, models
    <2> QED
        BY <2>1, <2>2
<1>8. CASE FindProvider(t)
    BY <1>8, <1>0 DEF FindProvider, Provided, Goto, Stay, database, models
<1>9. CASE FindClient(t)
    BY <1>9, <1>0 DEF FindClient, Goto, database, models
<1>10. CASE CreateClient(t)
    <2>1. CASE Raise(t) /\ UNCHANGED <<client, running, halfBuilt, overwritten, hand>>
        BY <1>10, <1>0, <2>1, Creates, Raises DEF database, models
    <2>2. ASSUME NEW c \in Clients, Failing(t, c)
          PROVE  Owned'
        BY <1>10, <1>0, <2>2, Creates, Raises DEF Failing, database, models
    <2>3. ASSUME NEW c \in Clients, Creating(t, c)
          PROVE  Owned'
        BY <1>10, <1>0, <2>3, Creates DEF Creating, database, models
    <2> QED
        BY <1>10, <2>1, <2>2, <2>3, Creates
<1>11. CASE Assign(t)
    BY <1>11, <1>0 DEF Assign, Provided, Goto, database, models
<1>12. CASE Probe(t)
    <2>1. CASE Raise(t)
        BY <1>12, <1>0, <2>1, Raises DEF Probe, database, models
    <2>2. CASE ~Raise(t)
        BY <1>12, <1>0, <2>2 DEF Probe, Goto, database, models
    <2> QED
        BY <2>1, <2>2
<1>13. CASE MarkReady(t)
    BY <1>13, <1>0 DEF MarkReady, Goto, Stay, database, models
<1>14. CASE Accept(t)
    BY <1>14, <1>0 DEF Accept, Goto, database, models
<1>15. CASE Enter(t)
    BY <1>15, <1>0 DEF Enter, Goto, Stay, Return, database, models
<1>16. CASE Work(t)
    BY <1>16, <1>0 DEF Work, Goto, Stay, database, models
<1>17. CASE Result(t)
    <2>1. UNCHANGED <<handle, open, locked, within>> /\ pc[t] = "result"
        BY <1>17 DEF Result, database
    <2>2. \A u \in Threads \ {t} : pc'[u] = pc[u] /\ mine'[u] = mine[u]
        BY <1>17 DEF Result, Recycle, Goto
    <2>3. pc'[t] \in {"leave", "ensure", "grab"}
        BY <1>17 DEF Result, Recycle, Goto
    <2> QED
        BY <1>0, <2>1, <2>2, <2>3
<1>18. CASE Verify(t)
    <2>1. UNCHANGED <<handle, open, locked, within>> /\ pc[t] = "verify"
        BY <1>18 DEF Verify, database
    <2>2. \A u \in Threads \ {t} : pc'[u] = pc[u] /\ mine'[u] = mine[u]
        BY <1>18 DEF Verify, Recycle, Goto
    <2>3. pc'[t] \in {"leave", "ensure", "grab"}
        BY <1>18 DEF Verify, Recycle, Goto
    <2> QED
        BY <1>0, <2>1, <2>2, <2>3
<1>19. CASE Leave(t)
    BY <1>19, <1>0 DEF Leave, Return, Goto, database, models
<1>20. CASE BeginClose(t)
    <2> SUFFICES ASSUME disorder' # "crossed" PROVE Owned'
        OBVIOUS
    <2>1. UNCHANGED <<handle, open, locked>> /\ Begin(t, "close", "drain")
          /\ pc[t] = "idle"
        BY <1>20 DEF BeginClose, database
    <2>2. /\ disorder # "crossed" /\ \A u \in Threads \ {t} : ~Changing(u)
          /\ within' = [within EXCEPT ![t] = "close"]
          /\ pc' = [pc EXCEPT ![t] = "drain"] /\ UNCHANGED mine
        BY <2>1, Begins
    <2> QED
        BY <2>1, <2>2
<1>21. CASE Drained(t)
    BY <1>21, <1>0 DEF Drained, Goto, Stay, database, models
<1>22. CASE GraceOver(t)
    BY <1>22, <1>0 DEF GraceOver, Goto, Stay, database, models
<1>23. CASE Grab(t)
    BY <1>23, <1>0 DEF Grab, Goto, database, models
<1>24. CASE Clear(t)
    <2> SUFFICES ASSUME disorder # "crossed" PROVE Owned'
        BY <1>0
    <2>1. /\ pc[t] = "clear" /\ handle' = NoHandle
          /\ pc'[t] \in {"release", "shut", "verify", "mark_down"}
          /\ UNCHANGED <<open, locked, within, mine>>
          /\ \A u \in Threads \ {t} : pc'[u] = pc[u]
          /\ Owns(t)' <=> mine[t] # NoHandle
        BY <1>24 DEF Clear, AfterRelease, AfterClose, Goto, Stay
    <2>2. \A u \in Threads \ {t} : Owns(u)' <=> Owns(u)
        BY <2>1
    <2>3. \A u \in Threads \ {t} : pc[u] # "clear"
        BY <2>1 DEF Alone, Closes, Busy, InFlight, InOperation, Closing
    <2>4. Owns(t)' => mine[t] = handle
        BY <2>1
    <2> QED
        BY <2>1, <2>2, <2>3, <2>4
<1>25. CASE Release(t)
    BY <1>25, <1>0 DEF Release, AfterRelease, AfterClose, Goto, Stay, database, models
<1>26. CASE Shut(t)
    BY <1>26, <1>0 DEF Shut, Goto, Stay, database, models
<1>27. CASE RemoveLock(t)
    BY <1>27, <1>0 DEF RemoveLock, AfterClose, Goto, Stay, Return, database, models
<1>28. CASE MarkDown(t)
    BY <1>28, <1>0 DEF MarkDown, Return, Goto, database, models
<1> QED
    BY <1>1, <1>2, <1>3, <1>4, <1>5, <1>6, <1>7, <1>8, <1>9, <1>10, <1>11,
    <1>12, <1>13, <1>14, <1>15, <1>16, <1>17, <1>18, <1>19, <1>20, <1>21,
    <1>22, <1>23, <1>24, <1>25, <1>26, <1>27, <1>28 DEF Step

LEMMA PhasedStep ==
    ASSUME Types, Located, Counted, Alone, Owned, Phased,
           NEW t \in Threads, Step(t)
    PROVE  Phased'
<1> USE DEF Types, Located, Down, Equipping, Changing, Alone, Closes, Busy, Owned, Owns,
            Phased, InFlight, InOperation, Closing, Orderly, Startable
<1>0. Orderly' => Orderly
    BY Disordered
<1>1. CASE Call(t)
    <2>1. CASE Begin(t, "start", "mark_starting") /\ disorder' # "crossed"
        BY <1>1, <1>0, <2>1, Begins DEF Call, database, models
    <2>2. CASE ~Begin(t, "start", "mark_starting")
        BY <1>1, <1>0, <2>2 DEF Call, Goto, database, models
    <2> QED
        BY <2>1, <2>2
<1>2. CASE MarkStarting(t)
    BY <1>2, <1>0 DEF MarkStarting, Goto, Stay, database, models
<1>3. CASE Ensure(t)
    BY <1>3, <1>0 DEF Ensure, Ensured, Goto, database, models
<1>4. CASE Open(t)
    <2>1. CASE Raise(t) /\ UNCHANGED database
        BY <1>4, <1>0, <2>1, Opens, Raises DEF database, models
    <2>2. ASSUME NEW h \in Handles, Opening(t, h)
          PROVE  Phased'
        <3>1. /\ pc[t] = "open"
              /\ UNCHANGED <<handle, accepting, readiness, within, apiMode, provider,
                             disorder>>
            BY <1>4, <2>2, Opens DEF Opening, models
        <3>2. /\ pc' = [pc EXCEPT ![t] = "migrate"]
              /\ \A u \in Threads \ {t} : mine'[u] = mine[u]
            BY <2>2 DEF Opening
        <3> QED
            BY <3>1, <3>2
    <2> QED
        BY <1>4, <2>1, <2>2, Opens
<1>5. CASE Migrate(t)
    <2>1. CASE Raise(t)
        BY <1>5, <1>0, <2>1, Raises DEF Migrate, database, models
    <2>2. CASE ~Raise(t)
        BY <1>5, <1>0, <2>2 DEF Migrate, Goto, database, models
    <2> QED
        BY <2>1, <2>2
<1>6. CASE Publish(t)
    BY <1>6, <1>0 DEF Publish, Ensured, Goto, database, models
<1>7. CASE Validate(t)
    <2>1. CASE Raise(t)
        BY <1>7, <1>0, <2>1, Raises DEF Validate, database, models
    <2>2. CASE ~Raise(t)
        BY <1>7, <1>0, <2>2 DEF Validate, Goto, database, models
    <2> QED
        BY <2>1, <2>2
<1>8. CASE FindProvider(t)
    BY <1>8, <1>0 DEF FindProvider, Provided, Goto, Stay, database, models
<1>9. CASE FindClient(t)
    BY <1>9, <1>0 DEF FindClient, Goto, database, models
<1>10. CASE CreateClient(t)
    <2>1. CASE Raise(t) /\ UNCHANGED <<client, running, halfBuilt, overwritten, hand>>
        BY <1>10, <1>0, <2>1, Creates, Raises DEF database, models
    <2>2. ASSUME NEW c \in Clients, Failing(t, c)
          PROVE  Phased'
        BY <1>10, <1>0, <2>2, Creates, Raises DEF Failing, database, models
    <2>3. ASSUME NEW c \in Clients, Creating(t, c)
          PROVE  Phased'
        BY <1>10, <1>0, <2>3, Creates DEF Creating, database, models
    <2> QED
        BY <1>10, <2>1, <2>2, <2>3, Creates
<1>11. CASE Assign(t)
    BY <1>11, <1>0 DEF Assign, Provided, Goto, database, models
<1>12. CASE Probe(t)
    <2>1. CASE Raise(t)
        BY <1>12, <1>0, <2>1, Raises DEF Probe, database, models
    <2>2. CASE ~Raise(t)
        BY <1>12, <1>0, <2>2 DEF Probe, Goto, database, models
    <2> QED
        BY <2>1, <2>2
<1>13. CASE MarkReady(t)
    BY <1>13, <1>0 DEF MarkReady, Goto, Stay, database, models
<1>14. CASE Accept(t)
    BY <1>14, <1>0 DEF Accept, Goto, database, models
<1>15. CASE Enter(t)
    <2>1. UNCHANGED <<readiness, accepting, handle, provider, apiMode>>
        BY <1>15 DEF Enter, database, models
    <2>2. CASE IsReady /\ Goto(t, "ensure") /\ Stay(t)
        BY <1>15, <1>0, <2>1, <2>2 DEF Enter, IsReady, Goto, Stay
    <2>3. CASE Return(t)
        BY <1>15, <1>0, <2>1, <2>3 DEF Enter, Return, Goto
    <2> QED
        BY <1>15, <2>2, <2>3 DEF Enter
<1>16. CASE Work(t)
    BY <1>16, <1>0 DEF Work, Goto, Stay, database, models
<1>17. CASE Result(t)
    <2>1. /\ UNCHANGED <<readiness, accepting, handle, provider, apiMode, within>>
          /\ pc[t] = "result" /\ pc'[t] \in {"leave", "ensure", "grab"}
          /\ \A u \in Threads \ {t} : pc'[u] = pc[u] /\ mine'[u] = mine[u]
        BY <1>17 DEF Result, Recycle, Goto, database, models
    <2> QED
        BY <1>0, <2>1
<1>18. CASE Verify(t)
    <2>1. /\ UNCHANGED <<readiness, accepting, handle, provider, apiMode, within>>
          /\ pc[t] = "verify" /\ pc'[t] \in {"leave", "ensure", "grab"}
          /\ \A u \in Threads \ {t} : pc'[u] = pc[u] /\ mine'[u] = mine[u]
        BY <1>18 DEF Verify, Recycle, Goto, database, models
    <2> QED
        BY <1>0, <2>1
<1>19. CASE Leave(t)
    BY <1>19, <1>0 DEF Leave, Return, Goto, database, models
<1>20. CASE BeginClose(t)
    <2>1. CASE disorder' # "crossed"
        BY <1>20, <1>0, <2>1, Begins DEF BeginClose, database, models
    <2> QED
        BY <2>1
<1>21. CASE Drained(t)
    <2>1. \A u \in Threads : ~InFlight(u)
        BY <1>21, NothingInFlight DEF Drained
    <2> QED
        BY <1>21, <1>0, <2>1 DEF Drained, Goto, Stay, database, models
<1>22. CASE GraceOver(t)
    <2>1. CASE disorder' # "crossed"
        BY <1>22, <2>1, Joins DEF GraceOver
    <2> QED
        BY <2>1
<1>23. CASE Grab(t)
    BY <1>23, <1>0 DEF Grab, Goto, database, models
<1>24. CASE Clear(t)
    BY <1>24, <1>0 DEF Clear, AfterRelease, AfterClose, Goto, Stay, database, models
<1>25. CASE Release(t)
    BY <1>25, <1>0 DEF Release, AfterRelease, AfterClose, Goto, Stay, database, models
<1>26. CASE Shut(t)
    BY <1>26, <1>0 DEF Shut, Goto, Stay, database, models
<1>27. CASE RemoveLock(t)
    BY <1>27, <1>0 DEF RemoveLock, AfterClose, Goto, Stay, Return, database, models
<1>28. CASE MarkDown(t)
    BY <1>28, <1>0 DEF MarkDown, Return, Goto, database, models
<1> QED
    BY <1>1, <1>2, <1>3, <1>4, <1>5, <1>6, <1>7, <1>8, <1>9, <1>10, <1>11,
    <1>12, <1>13, <1>14, <1>15, <1>16, <1>17, <1>18, <1>19, <1>20, <1>21,
    <1>22, <1>23, <1>24, <1>25, <1>26, <1>27, <1>28 DEF Step

LEMMA EquippedStep ==
    ASSUME Types, Located, Owned, Phased, Equipped,
           NEW t \in Threads, Step(t)
    PROVE  Equipped'
<1> USE DEF Types, Located, Down, Equipping, Changing, Owned, Owns,
            Phased, Equipped, InFlight, InOperation, Closing, Orderly, Startable
<1>0. disorder' = "none" => disorder = "none"
    BY Disordered
<1>1. CASE Call(t)
    <2>1. CASE Begin(t, "start", "mark_starting") /\ disorder' # "crossed"
        BY <1>1, <1>0, <2>1, Begins DEF Call, database, models
    <2>2. CASE ~Begin(t, "start", "mark_starting")
        BY <1>1, <1>0, <2>2 DEF Call, Goto, database, models
    <2> QED
        BY <2>1, <2>2
<1>2. CASE MarkStarting(t)
    BY <1>2, <1>0 DEF MarkStarting, Goto, Stay, database, models
<1>3. CASE Ensure(t)
    BY <1>3, <1>0 DEF Ensure, Ensured, Goto, database, models
<1>4. CASE Open(t)
    <2>1. CASE Raise(t) /\ UNCHANGED database
        BY <1>4, <1>0, <2>1, Opens, Raises DEF database, models
    <2>2. ASSUME NEW h \in Handles, Opening(t, h)
          PROVE  Equipped'
        BY <1>4, <1>0, <2>2, Opens, ZenonT(60) DEF Opening, database, models
    <2> QED
        BY <1>4, <2>1, <2>2, Opens
<1>5. CASE Migrate(t)
    <2>1. CASE Raise(t)
        BY <1>5, <1>0, <2>1, Raises DEF Migrate, database, models
    <2>2. CASE ~Raise(t)
        BY <1>5, <1>0, <2>2 DEF Migrate, Goto, database, models
    <2> QED
        BY <2>1, <2>2
<1>6. CASE Publish(t)
    BY <1>6, <1>0 DEF Publish, Ensured, Goto, database, models
<1>7. CASE Validate(t)
    <2>1. CASE Raise(t)
        BY <1>7, <1>0, <2>1, Raises DEF Validate, database, models
    <2>2. CASE ~Raise(t)
        BY <1>7, <1>0, <2>2 DEF Validate, Goto, database, models
    <2> QED
        BY <2>1, <2>2
<1>8. CASE FindProvider(t)
    BY <1>8, <1>0 DEF FindProvider, Provided, Goto, Stay, database, models
<1>9. CASE FindClient(t)
    BY <1>9, <1>0 DEF FindClient, Goto, database, models
<1>10. CASE CreateClient(t)
    <2>1. CASE Raise(t) /\ UNCHANGED <<client, running, halfBuilt, overwritten, hand>>
        BY <1>10, <1>0, <2>1, Creates, Raises DEF database, models
    <2>2. ASSUME NEW c \in Clients, Failing(t, c)
          PROVE  Equipped'
        BY <1>10, <1>0, <2>2, Creates, Raises DEF Failing, database, models
    <2>3. ASSUME NEW c \in Clients, Creating(t, c)
          PROVE  Equipped'
        BY <1>10, <1>0, <2>3, Creates DEF Creating, database, models
    <2> QED
        BY <1>10, <2>1, <2>2, <2>3, Creates
<1>11. CASE Assign(t)
    BY <1>11, <1>0 DEF Assign, Provided, Goto, database, models
<1>12. CASE Probe(t)
    <2>1. CASE Raise(t)
        BY <1>12, <1>0, <2>1, Raises DEF Probe, database, models
    <2>2. CASE ~Raise(t)
        BY <1>12, <1>0, <2>2 DEF Probe, Goto, database, models
    <2> QED
        BY <2>1, <2>2
<1>13. CASE MarkReady(t)
    BY <1>13, <1>0 DEF MarkReady, Goto, Stay, database, models
<1>14. CASE Accept(t)
    BY <1>14, <1>0 DEF Accept, Goto, database, models
<1>15. CASE Enter(t)
    <2>1. UNCHANGED <<readiness, accepting, handle, provider, client, apiMode, overwritten>>
        BY <1>15 DEF Enter, database, models
    <2>2. CASE IsReady /\ Goto(t, "ensure") /\ Stay(t)
        BY <1>15, <1>0, <2>1, <2>2 DEF Enter, IsReady, Goto, Stay
    <2>3. CASE Return(t)
        BY <1>15, <1>0, <2>1, <2>3 DEF Enter, Return, Goto
    <2> QED
        BY <1>15, <2>2, <2>3 DEF Enter
<1>16. CASE Work(t)
    BY <1>16, <1>0 DEF Work, Goto, Stay, database, models
<1>17. CASE Result(t)
    <2>1. /\ UNCHANGED <<readiness, handle, provider, client, apiMode, overwritten,
                         within>>
          /\ \A u \in Threads \ {t} : pc'[u] = pc[u]
          /\ pc'[t] = "grab" => disorder' # "none"
          /\ pc[t] = "result" /\ pc'[t] \in {"leave", "ensure", "grab"}
        BY <1>17, Recycles DEF Result, Recycle, Goto, database, models
    <2> QED
        BY <1>0, <2>1
<1>18. CASE Verify(t)
    <2>1. /\ UNCHANGED <<readiness, handle, provider, client, apiMode, overwritten,
                         within>>
          /\ \A u \in Threads \ {t} : pc'[u] = pc[u]
          /\ pc'[t] = "grab" => disorder' # "none"
          /\ pc[t] = "verify" /\ pc'[t] \in {"leave", "ensure", "grab"}
        BY <1>18, Recycles DEF Verify, Recycle, Goto, database, models
    <2> QED
        BY <1>0, <2>1
<1>19. CASE Leave(t)
    BY <1>19, <1>0 DEF Leave, Return, Goto, database, models
<1>20. CASE BeginClose(t)
    <2>1. CASE disorder' # "crossed"
        BY <1>20, <1>0, <2>1, Begins DEF BeginClose, database, models
    <2> QED
        BY <2>1
<1>21. CASE Drained(t)
    BY <1>21, <1>0 DEF Drained, Goto, Stay, database, models
<1>22. CASE GraceOver(t)
    <2>1. CASE disorder' # "crossed"
        BY <1>22, <2>1, Joins DEF GraceOver
    <2> QED
        BY <2>1
<1>23. CASE Grab(t)
    BY <1>23, <1>0 DEF Grab, Goto, database, models
<1>24. CASE Clear(t)
    BY <1>24, <1>0 DEF Clear, AfterRelease, AfterClose, Goto, Stay, database, models
<1>25. CASE Release(t)
    BY <1>25, <1>0 DEF Release, AfterRelease, AfterClose, Goto, Stay, database, models
<1>26. CASE Shut(t)
    BY <1>26, <1>0 DEF Shut, Goto, Stay, database, models
<1>27. CASE RemoveLock(t)
    BY <1>27, <1>0 DEF RemoveLock, AfterClose, Goto, Stay, Return, database, models
<1>28. CASE MarkDown(t)
    BY <1>28, <1>0 DEF MarkDown, Return, Goto, database, models
<1> QED
    BY <1>1, <1>2, <1>3, <1>4, <1>5, <1>6, <1>7, <1>8, <1>9, <1>10, <1>11,
    <1>12, <1>13, <1>14, <1>15, <1>16, <1>17, <1>18, <1>19, <1>20, <1>21,
    <1>22, <1>23, <1>24, <1>25, <1>26, <1>27, <1>28 DEF Step

LEMMA KeptStep ==
    ASSUME Types, Located, Counted, Alone, Owned, Phased, Retained,
           NEW t \in Threads, Step(t)
    PROVE  Retained'
<1> USE DEF Types, Located, Down, Equipping, Changing, Alone, Closes, Busy, Owned, Owns,
            Phased, Retained, InFlight, InOperation, Closing, Orderly, Startable
<1>0. Orderly' => Orderly
    BY Disordered
<1>1. CASE Call(t)
    <2>1. CASE Begin(t, "start", "mark_starting") /\ disorder' # "crossed"
        BY <1>1, <1>0, <2>1, Begins DEF Call, database, models
    <2>2. CASE ~Begin(t, "start", "mark_starting")
        BY <1>1, <1>0, <2>2 DEF Call, Goto, database, models
    <2> QED
        BY <2>1, <2>2
<1>2. CASE MarkStarting(t)
    BY <1>2, <1>0 DEF MarkStarting, Goto, Stay, database, models
<1>3. CASE Ensure(t)
    BY <1>3, <1>0 DEF Ensure, Ensured, Goto, database, models
<1>4. CASE Open(t)
    <2>1. CASE Raise(t) /\ UNCHANGED database
        BY <1>4, <1>0, <2>1, Opens, Raises DEF database, models
    <2>2. ASSUME NEW h \in Handles, Opening(t, h)
          PROVE  Retained'
        <3> SUFFICES ASSUME Orderly PROVE Retained'
            BY <1>4, <1>0
        <3>1. /\ pc[t] = "open"
              /\ UNCHANGED <<handle, readiness, client, running, halfBuilt, overwritten,
                             hand, within>>
            BY <1>4, <2>2, Opens DEF Opening, models
        <3>2. /\ pc' = [pc EXCEPT ![t] = "migrate"]
              /\ \A u \in Threads \ {t} : mine'[u] = mine[u]
            BY <2>2 DEF Opening
        <3>3. readiness \notin Startable /\ Owns(t)'
            BY <3>1, <3>2
        <3>4. \A c \in running :
                c \in halfBuilt \cup overwritten \/ c = client
                  \/ \E u \in Threads : pc'[u] = "release" /\ hand'[u] = c
            BY <3>1, <3>2
        <3> QED
            BY <3>1, <3>2, <3>3, <3>4
    <2> QED
        BY <1>4, <2>1, <2>2, Opens
<1>5. CASE Migrate(t)
    <2>1. CASE Raise(t)
        BY <1>5, <1>0, <2>1, Raises DEF Migrate, database, models
    <2>2. CASE ~Raise(t)
        BY <1>5, <1>0, <2>2 DEF Migrate, Goto, database, models
    <2> QED
        BY <2>1, <2>2
<1>6. CASE Publish(t)
    BY <1>6, <1>0 DEF Publish, Ensured, Goto, database, models
<1>7. CASE Validate(t)
    <2>1. CASE Raise(t)
        BY <1>7, <1>0, <2>1, Raises DEF Validate, database, models
    <2>2. CASE ~Raise(t)
        BY <1>7, <1>0, <2>2 DEF Validate, Goto, database, models
    <2> QED
        BY <2>1, <2>2
<1>8. CASE FindProvider(t)
    BY <1>8, <1>0 DEF FindProvider, Provided, Goto, Stay, database, models
<1>9. CASE FindClient(t)
    BY <1>9, <1>0 DEF FindClient, Goto, database, models
<1>10. CASE CreateClient(t)
    <2>1. CASE Raise(t) /\ UNCHANGED <<client, running, halfBuilt, overwritten, hand>>
        BY <1>10, <1>0, <2>1, Creates, Raises DEF database, models
    <2>2. ASSUME NEW c \in Clients, Failing(t, c)
          PROVE  Retained'
        BY <1>10, <1>0, <2>2, Creates, Raises DEF Failing, database, models
    <2>3. ASSUME NEW c \in Clients, Creating(t, c)
          PROVE  Retained'
        <3> SUFFICES ASSUME Orderly PROVE Retained'
            BY <1>10, <1>0
        <3>1. /\ pc[t] = "create" /\ within[t] \in {"start", "operation"}
              /\ UNCHANGED <<readiness, handle, locked, within, mine, halfBuilt>>
              /\ pc' = [pc EXCEPT ![t] = "assign"]
              /\ client' = c /\ running' = running \cup {c}
              /\ overwritten' = overwritten \cup ({client} \ {NoHandle})
              /\ \A u \in Threads \ {t} : hand'[u] = hand[u]
            BY <1>10, <2>3, Creates DEF Creating, database
        <3>2. /\ readiness \notin Startable
              /\ \A u \in Threads : pc[u] \notin {"clear"} \cup Down
            BY <3>1
        <3>3. \A d \in running : d \in halfBuilt \cup overwritten \/ d = client
            BY <3>2
        <3>4. NoHandle \notin running
            BY ContainerAssumption DEF Clients
        <3> QED
            BY <3>1, <3>2, <3>3, <3>4
    <2> QED
        BY <1>10, <2>1, <2>2, <2>3, Creates
<1>11. CASE Assign(t)
    BY <1>11, <1>0 DEF Assign, Provided, Goto, database, models
<1>12. CASE Probe(t)
    <2>1. CASE Raise(t)
        BY <1>12, <1>0, <2>1, Raises DEF Probe, database, models
    <2>2. CASE ~Raise(t)
        BY <1>12, <1>0, <2>2 DEF Probe, Goto, database, models
    <2> QED
        BY <2>1, <2>2
<1>13. CASE MarkReady(t)
    BY <1>13, <1>0 DEF MarkReady, Goto, Stay, database, models
<1>14. CASE Accept(t)
    BY <1>14, <1>0 DEF Accept, Goto, database, models
<1>15. CASE Enter(t)
    BY <1>15, <1>0 DEF Enter, Goto, Stay, Return, database, models
<1>16. CASE Work(t)
    BY <1>16, <1>0 DEF Work, Goto, Stay, database, models
<1>17. CASE Result(t)
    <2>1. /\ UNCHANGED <<readiness, handle, locked, client, running, halfBuilt,
                         overwritten>>
          /\ \A u \in Threads \ {t} : pc'[u] = pc[u] /\ mine'[u] = mine[u]
                                     /\ hand'[u] = hand[u]
          /\ pc[t] = "result" /\ pc'[t] \in {"leave", "ensure", "grab"}
        BY <1>17 DEF Result, Recycle, Goto, database, models
    <2> QED
        BY <1>0, <2>1
<1>18. CASE Verify(t)
    <2>1. /\ UNCHANGED <<readiness, handle, locked, client, running, halfBuilt,
                         overwritten>>
          /\ \A u \in Threads \ {t} : pc'[u] = pc[u] /\ mine'[u] = mine[u]
                                     /\ hand'[u] = hand[u]
          /\ pc[t] = "verify" /\ pc'[t] \in {"leave", "ensure", "grab"}
        BY <1>18 DEF Verify, Recycle, Goto, database, models
    <2> QED
        BY <1>0, <2>1
<1>19. CASE Leave(t)
    BY <1>19, <1>0 DEF Leave, Return, Goto, database, models
<1>20. CASE BeginClose(t)
    <2>1. CASE disorder' # "crossed"
        BY <1>20, <1>0, <2>1, Begins DEF BeginClose, database, models
    <2> QED
        BY <2>1
<1>21. CASE Drained(t)
    BY <1>21, <1>0 DEF Drained, Goto, Stay, database, models
<1>22. CASE GraceOver(t)
    <2>1. CASE disorder' # "crossed"
        BY <1>22, <2>1, Joins DEF GraceOver
    <2> QED
        BY <2>1
<1>23. CASE Grab(t)
    BY <1>23, <1>0 DEF Grab, Goto, database, models
<1>24. CASE Clear(t)
    BY <1>24, <1>0 DEF Clear, AfterRelease, AfterClose, Goto, Stay, database, models
<1>25. CASE Release(t)
    BY <1>25, <1>0 DEF Release, AfterRelease, AfterClose, Goto, Stay, database, models
<1>26. CASE Shut(t)
    BY <1>26, <1>0 DEF Shut, Goto, Stay, database, models
<1>27. CASE RemoveLock(t)
    BY <1>27, <1>0 DEF RemoveLock, AfterClose, Goto, Stay, Return, database, models
<1>28. CASE MarkDown(t)
    BY <1>28, <1>0 DEF MarkDown, Return, Goto, database, models
<1> QED
    BY <1>1, <1>2, <1>3, <1>4, <1>5, <1>6, <1>7, <1>8, <1>9, <1>10, <1>11,
    <1>12, <1>13, <1>14, <1>15, <1>16, <1>17, <1>18, <1>19, <1>20, <1>21,
    <1>22, <1>23, <1>24, <1>25, <1>26, <1>27, <1>28 DEF Step

-----------------------------------------------------------------------------
LEMMA InvariantInit == Init => IInv
<1> SUFFICES ASSUME Init PROVE IInv
    OBVIOUS
<1>1. Types
    <2>1. apiMode \in BOOLEAN /\ opened \in 0 .. MaxHandles /\ made \in 0 .. MaxClients
        BY ContainerAssumption DEF Init
    <2> QED
        BY <2>1 DEF Init, Types, Locations, Disorders
<1>2. /\ Operating = {}
      /\ \A t \in Threads : ~Owns(t) /\ ~Changing(t) /\ ~InFlight(t) /\ ~Closes(t)
    BY DEF Init, Operating, Owns, Changing, InFlight, Closes
<1>3. Counted
    BY <1>2, FS_EmptySet DEF Counted, Init
<1>4. Located
    BY DEF Init, Located, Down, Equipping, Closing
<1>5. Alone /\ Owned
    BY <1>2 DEF Init, Alone, Owned
<1>6. Phased /\ Equipped
    BY <1>2 DEF Init, Phased, Changing, Equipped
<1>7. Retained
    BY DEF Init, Retained, Down
<1> QED
    BY <1>1, <1>3, <1>4, <1>5, <1>6, <1>7 DEF IInv

LEMMA InvariantStep == IInv /\ [Next]_vars => IInv'
<1> SUFFICES ASSUME IInv, [Next]_vars PROVE IInv'
    OBVIOUS
<1>1. ASSUME NEW t \in Threads, Step(t) PROVE IInv'
    BY <1>1, TypesStep, LocatedStep, CountedStep, AloneStep, OwnedStep, PhasedStep,
       EquippedStep, KeptStep
    DEF IInv
<1>2. CASE UNCHANGED vars
    BY <1>2 DEF vars, database, models, IInv, Types, Located, Counted, Alone,
       Closes, Busy, Operating, Owned, Owns, Changing, Phased, Equipped, InFlight,
       Orderly, Retained
<1> QED
    BY <1>1, <1>2 DEF Next, Step

LEMMA Invariant == Spec => []IInv
BY InvariantInit, InvariantStep, PTL DEF Spec

-----------------------------------------------------------------------------
(* The variables have their types, and the count of operations in flight   *)
(* is the number of threads inside one, whatever overlaps, fails or        *)
(* outlasts its grace period: every way out of operation() counts down.    *)
THEOREM TypeCorrect == Spec => []TypeOK
<1>1. IInv => TypeOK
    BY DEF IInv, Types, Counted, TypeOK
<1> QED
    BY <1>1, Invariant, PTL

(* While start and close do not overlap, and no folder ingestion closes    *)
(* what others use, an open database has its lock file and there is no     *)
(* second one, whatever fails, however many operations a close leaves      *)
(* behind, and however often ingestions close and open the database.       *)
THEOREM OpenLocked == Spec => []OpenIsLocked
<1>1. IInv => OpenIsLocked
  <2> SUFFICES ASSUME IInv, disorder # "crossed"
               PROVE  (open # {} => locked) /\ Cardinality(open) <= 1
      BY DEF OpenIsLocked
  <2>1. (open # {} => locked) /\ \A g, h \in open : g = h
      BY DEF IInv, Owned
  <2>2. CASE open = {}
      BY <2>1, <2>2, FS_EmptySet
  <2>3. CASE open # {}
    <3>1. PICK h \in open : open = {h}
        BY <2>1, <2>3
    <3> QED
        BY <2>1, <3>1, FS_Singleton
  <2> QED
      BY <2>2, <2>3
<1> QED
    BY <1>1, Invariant, PTL

(* While, besides, no close outlasts its grace period: an operation works  *)
(* on an open database, also when it has closed one itself and opened it   *)
(* again, and the service's handle is that of an open database.            *)
THEOREM WorksOnOpen == Spec => []WorksOnOpenDatabase
<1>1. IInv => WorksOnOpenDatabase
  <2> SUFFICES ASSUME IInv, Orderly
               PROVE  /\ \A t \in Threads : pc[t] = "work" => mine[t] \in open
                      /\ handle # NoHandle => handle \in open
      BY DEF WorksOnOpenDatabase
  <2>1. handle # NoHandle => handle \in open
      BY DEF IInv, Owned, Orderly
  <2>2. ASSUME NEW t \in Threads, pc[t] = "work"
        PROVE  mine[t] = handle /\ handle # NoHandle
    <3>1. InFlight(t)
        BY <2>2 DEF IInv, Located, InFlight, InOperation
    <3> QED
        BY <2>2, <3>1 DEF IInv, Phased
  <2> QED
      BY <2>1, <2>2
<1> QED
    BY <1>1, Invariant, PTL

(* And a container that is new, failed or closed has left nothing behind   *)
(* but clients half built or overwritten, and in api_mode none overwritten *)
(* before an ingestion closed the service, whichever step of starting or   *)
(* closing failed.                                                         *)
THEOREM DownReleased == Spec => []DownIsReleased
<1>1. IInv => DownIsReleased
  <2> SUFFICES ASSUME IInv, Orderly, readiness \in Startable
               PROVE  /\ open = {} /\ ~locked
                      /\ running \subseteq halfBuilt \cup overwritten
                      /\ apiMode /\ disorder = "none" => overwritten = {}
      BY DEF DownIsReleased, Startable
  <2>1. client = NoHandle /\ ~locked
      BY DEF IInv, Retained
  <2>2. open = {}
      BY <2>1 DEF IInv, Owned, Orderly
  <2>3. running \subseteq halfBuilt \cup overwritten
    <3>1. NoHandle \notin running
        BY ContainerAssumption DEF IInv, Types, Clients
    <3> QED
        BY <2>1, <3>1 DEF IInv, Retained
  <2>4. apiMode /\ disorder = "none" => overwritten = {}
      BY DEF IInv, Equipped
  <2> QED
      BY <2>1, <2>2, <2>3, <2>4
<1> QED
    BY <1>1, Invariant, PTL

-----------------------------------------------------------------------------
(***************************************************************************)
(* The configuration.  A nested dictionary is a function of paths, so a    *)
(* proof about one says which paths are in it, and what is at each.        *)
(***************************************************************************)

(* The keys; the provers do not know that "memory_store" is in STRING. *)
Words == STRING \cup {"memory_store"}

(* The dictionaries of the settings. *)
Inner == UNION {Above(p) : p \in Paths}

Key == <<"application", "environment">>

(* What is above a path is shorter, starts with the same key, and has      *)
(* above it only what is above the path.                                   *)
LEMMA AboveFacts ==
    ASSUME NEW p \in Seq(Words), NEW a \in Above(p)
    PROVE  /\ a \in Seq(Words)
           /\ Len(a) \in 1 .. Len(p) - 1
           /\ a = SubSeq(p, 1, Len(a))
           /\ a[1] = p[1]
           /\ Above(a) \subseteq Above(p)
<1>1. PICK n \in 1 .. Len(p) - 1 : a = SubSeq(p, 1, n)
  BY DEF Above
<1>2. n \in Nat /\ n >= 1 /\ n < Len(p) /\ Len(p) \in Nat /\ n \in 1 .. Len(p)
  BY LenProperties
<1>3. a \in Seq(Words) /\ Len(a) = n /\ a[1] = p[1]
  BY <1>1, <1>2, SubSeqProperties
<1>4. ASSUME NEW m \in 1 .. Len(a) - 1
      PROVE  SubSeq(a, 1, m) \in Above(p)
  <2>1. m \in 1 .. Len(p) - 1 /\ m \in 1 .. (1 + n - 1)
    BY <1>2, <1>3
  <2>2. SubSeq(SubSeq(p, 1, n), 1, m) = SubSeq(p, 1 + 1 - 1, 1 + m - 1)
    BY <1>2, <2>1, SubSeqOfSubSeq
  <2> QED
    BY <1>1, <1>2, <2>1, <2>2 DEF Above
<1> QED
  BY <1>1, <1>2, <1>3, <1>4 DEF Above

LEMMA OneKey ==
    ASSUME NEW S, NEW x \in S
    PROVE  <<x>> \in Seq(S) /\ Len(<<x>>) = 1 /\ <<x>>[1] = x
OBVIOUS

LEMMA NotEmpty ==
    ASSUME NEW S, NEW s \in Seq(S), Len(s) = 1
    PROVE  s # << >>
<1>1. Len(<< >>) = 0
  BY EmptySeq
<1> QED
  BY <1>1

LEMMA FirstKey ==
    ASSUME NEW p \in Seq(Words), Len(p) > 1
    PROVE  <<p[1]>> \in Above(p)
<1>1. Len(p) \in Nat /\ 1 \in 1 .. Len(p) - 1 /\ 1 \in 1 .. Len(p)
  BY LenProperties
<1>2. SubSeq(p, 1, 1) = <<p[1]>>
  <2>1. /\ SubSeq(p, 1, 1) \in Seq(Words) /\ Len(SubSeq(p, 1, 1)) = 1
        /\ SubSeq(p, 1, 1)[1] = p[1] /\ p[1] \in Words
    BY <1>1, SubSeqProperties
  <2>2. <<p[1]>> \in Seq(Words) /\ Len(<<p[1]>>) = 1 /\ <<p[1]>>[1] = p[1]
    BY <2>1, OneKey
  <2> DEFINE t == <<p[1]>>
           s == SubSeq(p, 1, 1)
  <2>3. /\ s \in Seq(Words) /\ t \in Seq(Words) /\ Len(s) = Len(t)
        /\ \A i \in 1 .. Len(s) : s[i] = t[i]
    BY <2>1, <2>2
  <2> HIDE DEF s, t
  <2>4. s = t
    BY <2>3, SeqEqual
  <2> QED
    BY <2>4 DEF s, t
<1> QED
  BY <1>1, <1>2 DEF Above

(* What is under the old root is what was in it, each path with its key in *)
(* front.                                                                  *)
LEMMA ShiftFacts ==
    ASSUME NEW p \in Seq(Words), p # << >>
    PROVE  /\ LegacyRoot \o p \in Seq(Words)
           /\ Len(LegacyRoot \o p) = Len(p) + 1
           /\ (LegacyRoot \o p)[1] = "memory_store"
           /\ Tail(LegacyRoot \o p) = p
           /\ Above(LegacyRoot \o p) = {LegacyRoot} \cup {LegacyRoot \o a : a \in Above(p)}
<1> DEFINE r == LegacyRoot \o p
<1>1. LegacyRoot \in Seq(Words) /\ Len(LegacyRoot) = 1 /\ LegacyRoot[1] = "memory_store"
  <2>1. "memory_store" \in Words
    BY DEF Words
  <2> QED
    BY <2>1, OneKey, Zenon DEF LegacyRoot
<1>2. Len(p) \in Nat /\ Len(p) >= 1
  BY LenProperties
<1>3. /\ r \in Seq(Words) /\ Len(r) = Len(p) + 1 /\ r[1] = "memory_store"
      /\ \A i \in 1 .. Len(p) : r[i + 1] = p[i]
  <2>1. /\ r \in Seq(Words) /\ Len(r) = 1 + Len(p)
        /\ \A i \in 1 .. 1 + Len(p) : r[i] = IF i <= 1 THEN LegacyRoot[i] ELSE p[i - 1]
    BY <1>1, ConcatProperties
  <2> QED
    BY <1>1, <1>2, <2>1
<1>4. Tail(r) = p
  <2>1. r # << >>
    BY <1>2, <1>3
  <2>2. /\ Tail(r) \in Seq(Words) /\ Len(Tail(r)) = Len(p)
        /\ \A i \in 1 .. Len(Tail(r)) : Tail(r)[i] = r[i + 1]
    BY <1>2, <1>3, <2>1, HeadTailProperties
  <2> QED
    BY <1>3, <2>2, SeqEqual
<1>5. SubSeq(r, 1, 1) = LegacyRoot
  <2>1. 1 \in 1 .. Len(LegacyRoot)
    BY <1>1
  <2>2. SubSeq(r, 1, 1) = SubSeq(LegacyRoot, 1, 1)
    BY <1>1, <2>1, SubSeqOfConcat1
  <2> QED
    BY <1>1, <2>2, SubSeqFull
<1>6. ASSUME NEW m \in 1 .. Len(p) - 1
      PROVE  SubSeq(r, 1, m + 1) = LegacyRoot \o SubSeq(p, 1, m)
  <2> DEFINE a == SubSeq(p, 1, m)
  <2>1. /\ a \in Seq(Words) /\ Len(a) = m
        /\ \A i \in 1 .. m : a[i] = p[i]
    <3>1. \A i \in 1 .. m : p[i] \in Words
      BY <1>2
    <3>2. /\ a \in Seq(Words)
          /\ Len(a) = IF 1 <= m THEN m - 1 + 1 ELSE 0
          /\ \A i \in 1 .. m - 1 + 1 : a[i] = p[1 + i - 1]
      BY <1>2, <3>1, SubSeqProperties
    <3> QED
      BY <1>2, <3>2
  <2>2. /\ LegacyRoot \o a \in Seq(Words) /\ Len(LegacyRoot \o a) = m + 1
        /\ \A i \in 1 .. m + 1 : (LegacyRoot \o a)[i] = IF i <= 1 THEN LegacyRoot[i] ELSE a[i - 1]
    <3> HIDE DEF a
    <3>1. /\ LegacyRoot \o a \in Seq(Words) /\ Len(LegacyRoot \o a) = Len(LegacyRoot) + Len(a)
          /\ \A i \in 1 .. Len(LegacyRoot) + Len(a) :
               (LegacyRoot \o a)[i] = IF i <= Len(LegacyRoot) THEN LegacyRoot[i]
                                      ELSE a[i - Len(LegacyRoot)]
      BY <1>1, <2>1, ConcatProperties
    <3> QED
      BY <1>1, <1>2, <2>1, <3>1
  <2>3. /\ SubSeq(r, 1, m + 1) \in Seq(Words) /\ Len(SubSeq(r, 1, m + 1)) = m + 1
        /\ \A i \in 1 .. m + 1 : SubSeq(r, 1, m + 1)[i] = r[i]
    <3>1. \A i \in 1 .. m + 1 : r[i] \in Words
      BY <1>2, <1>3
    <3>2. /\ SubSeq(r, 1, m + 1) \in Seq(Words)
          /\ Len(SubSeq(r, 1, m + 1)) = IF 1 <= m + 1 THEN m + 1 - 1 + 1 ELSE 0
          /\ \A i \in 1 .. m + 1 - 1 + 1 : SubSeq(r, 1, m + 1)[i] = r[1 + i - 1]
      BY <1>2, <3>1, SubSeqProperties
    <3> QED
      BY <1>2, <3>2
  <2>4. \A i \in 1 .. m + 1 : (LegacyRoot \o a)[i] = r[i]
    <3> SUFFICES ASSUME NEW i \in 1 .. m + 1
                 PROVE  (LegacyRoot \o a)[i] = r[i]
      OBVIOUS
    <3>1. CASE i = 1
      BY <1>1, <1>3, <2>2, <3>1
    <3>2. CASE i # 1
      <4>1. i - 1 \in 1 .. m /\ i - 1 \in 1 .. Len(p)
        BY <1>2, <3>2
      <4>2. r[(i - 1) + 1] = p[i - 1]
        BY <1>3, <4>1
      <4> QED
        BY <1>2, <2>1, <2>2, <3>2, <4>1, <4>2
    <3> QED
      BY <3>1, <3>2
  <2> QED
    BY <2>2, <2>3, <2>4, SeqEqual
<1>7. Above(r) = {LegacyRoot} \cup {LegacyRoot \o a : a \in Above(p)}
  <2>1. ASSUME NEW x \in Above(r)
        PROVE  x = LegacyRoot \/ \E a \in Above(p) : x = LegacyRoot \o a
    <3>1. PICK n \in 1 .. Len(r) - 1 : x = SubSeq(r, 1, n)
      BY DEF Above
    <3>2. n = 1 \/ n - 1 \in 1 .. Len(p) - 1
      BY <1>2, <1>3
    <3>3. ASSUME n # 1
          PROVE  x = LegacyRoot \o SubSeq(p, 1, n - 1)
      <4>1. SubSeq(r, 1, (n - 1) + 1) = LegacyRoot \o SubSeq(p, 1, n - 1)
        BY <1>6, <3>2, <3>3
      <4> QED
        BY <3>1, <4>1
    <3> QED
      BY <1>5, <3>1, <3>2, <3>3 DEF Above
  <2>2. LegacyRoot \in Above(r)
    BY <1>2, <1>3, <1>5 DEF Above
  <2>3. ASSUME NEW a \in Above(p)
        PROVE  LegacyRoot \o a \in Above(r)
    <3>1. PICK m \in 1 .. Len(p) - 1 : a = SubSeq(p, 1, m)
      BY DEF Above
    <3>2. m + 1 \in 1 .. Len(r) - 1
      BY <1>2, <1>3
    <3> QED
      BY <1>6, <3>1, <3>2 DEF Above
  <2> QED
    BY <2>1, <2>2, <2>3
<1> QED
  BY <1>3, <1>4, <1>7

(* A setting is in a dictionary and is none itself, and neither it nor a   *)
(* dictionary is under the old root.                                       *)
LEMMA SettingFacts ==
    /\ Paths \cap Inner = {}
    /\ \A p \in Paths \cup Inner :
         /\ p \in Seq(Words) /\ p # << >> /\ p[1] # "memory_store"
         /\ Above(p) \subseteq Inner
         /\ <<p[1]>> \in Inner /\ (<<p[1]>> = p \/ <<p[1]>> \in Above(p))
         /\ \A q \in Paths : Within(q, p) => p = q
<1> USE ConfigurationAssumption
<1>1. ASSUME NEW p \in Paths
      PROVE  p \in Seq(Words) /\ Len(p) > 1 /\ p # << >> /\ p[1] # "memory_store"
  <2>1. p \in Seq(STRING) /\ Len(p) > 1 /\ p[1] # "memory_store"
    BY DEF ConfigurationAssumption
  <2> QED
    BY <2>1 DEF Words
<1>2. \A p, q \in Paths : p \notin Above(q)
  BY DEF ConfigurationAssumption, Above
<1>3. Paths \cap Inner = {}
  BY <1>2 DEF Inner
<1>4. ASSUME NEW a \in Inner
      PROVE  /\ a \in Seq(Words) /\ a # << >> /\ a[1] # "memory_store"
             /\ Above(a) \subseteq Inner
             /\ <<a[1]>> \in Inner /\ (<<a[1]>> = a \/ <<a[1]>> \in Above(a))
  <2>1. PICK p \in Paths : a \in Above(p)
    BY DEF Inner
  <2>2. p \in Seq(Words) /\ Len(p) > 1 /\ p[1] # "memory_store"
    BY <1>1
  <2>3. /\ a \in Seq(Words) /\ Len(a) \in 1 .. Len(p) - 1 /\ a[1] = p[1]
        /\ Above(a) \subseteq Above(p)
    BY <2>1, <2>2, AboveFacts
  <2>4. Above(a) \subseteq Inner
    BY <2>3 DEF Inner
  <2>5. <<a[1]>> \in Inner
    <3>1. <<p[1]>> \in Above(p)
      BY <2>2, FirstKey
    <3> QED
      BY <2>3, <3>1 DEF Inner
  <2>6. CASE Len(a) > 1
    BY <2>2, <2>3, <2>4, <2>5, <2>6, FirstKey
  <2>7. CASE Len(a) = 1
    <3>1. a[1] \in Words
      <4>1. 1 \in 1 .. Len(a)
        BY <2>7
      <4> QED
        BY <2>3, <4>1, ElementOfSeq
    <3>2. <<a[1]>> \in Seq(Words) /\ Len(<<a[1]>>) = 1 /\ <<a[1]>>[1] = a[1]
      BY <3>1, OneKey
    <3> DEFINE t == <<a[1]>>
    <3>3. t \in Seq(Words) /\ Len(t) = Len(a) /\ \A i \in 1 .. Len(t) : t[i] = a[i]
      BY <2>7, <3>2
    <3> HIDE DEF t
    <3>4. t = a
      BY <2>3, <3>3, SeqEqual
    <3>5. <<a[1]>> = a
      BY <3>4, Zenon DEF t
    <3>6. a[1] # "memory_store"
      BY <2>2, <2>3
    <3>7. a # << >>
      BY <2>3, <2>7, NotEmpty
    <3> QED
      BY <2>3, <2>4, <2>5, <3>5, <3>6, <3>7, Zenon
  <2> QED
    BY <2>3, <2>6, <2>7
<1>5. ASSUME NEW p \in Paths
      PROVE  Above(p) \subseteq Inner /\ <<p[1]>> \in Above(p)
  BY <1>1, FirstKey DEF Inner
<1>6. ASSUME NEW p \in Paths \cup Inner, NEW q \in Paths, Within(q, p)
      PROVE  p = q
  <2>1. Above(p) \subseteq Inner
    BY <1>4, <1>5
  <2> QED
    BY <1>3, <1>6, <2>1 DEF Within
<1> QED
  BY <1>1, <1>3, <1>4, <1>5, <1>6

-----------------------------------------------------------------------------
(* Trees: a value at every setting, and the dictionaries above what is in. *)
IsTree(tree) ==
    /\ tree = [p \in DOMAIN tree |-> tree[p]]
    /\ DOMAIN tree \subseteq Paths \cup Inner
    /\ \A p \in DOMAIN tree : Above(p) \subseteq DOMAIN tree /\ (tree[p] = Section <=> p \in Inner)

LEMMA SomeIsTree ==
    ASSUME NEW leaves, SomeOf({leaves})
    PROVE  /\ IsTree(TreeOf(leaves))
           /\ \A p \in Paths : /\ Mentions(TreeOf(leaves), p) <=> p \in DOMAIN leaves
                               /\ p \in DOMAIN leaves => TreeOf(leaves)[p] = leaves[p]
           /\ \A p \in Paths : Mentions(TreeOf(leaves), <<p[1]>>) <=> p[1] \in Sections(leaves)
<1> DEFINE tree == TreeOf(leaves)
<1>1. DOMAIN leaves \subseteq Paths /\ \A p \in DOMAIN leaves : leaves[p] # Section
  BY DEF SomeOf
<1>2. /\ DOMAIN tree = DOMAIN leaves \cup UNION {Above(q) : q \in DOMAIN leaves}
      /\ tree = [p \in DOMAIN tree |-> tree[p]]
      /\ \A p \in DOMAIN tree : tree[p] = IF p \in DOMAIN leaves THEN leaves[p] ELSE Section
  BY DEF TreeOf
<1>3. UNION {Above(q) : q \in DOMAIN leaves} \subseteq Inner
  BY <1>1 DEF Inner
<1>4. ASSUME NEW p \in DOMAIN tree
      PROVE  Above(p) \subseteq DOMAIN tree
  <2>1. CASE p \in DOMAIN leaves
    BY <1>2, <2>1
  <2>2. CASE p \notin DOMAIN leaves
    <3>1. PICK q \in DOMAIN leaves : p \in Above(q)
      BY <1>2, <2>2
    <3>2. q \in Seq(Words)
      BY <1>1, SettingFacts
    <3>3. Above(p) \subseteq Above(q)
      BY <3>1, <3>2, AboveFacts
    <3> QED
      BY <1>2, <3>3
  <2> QED
    BY <2>1, <2>2
<1>5. ASSUME NEW p \in Paths
      PROVE  <<p[1]>> \in DOMAIN tree <=> p[1] \in Sections(leaves)
  <2>1. <<p[1]>> \in Inner
    BY SettingFacts
  <2>2. ASSUME NEW q \in DOMAIN leaves, <<p[1]>> \in Above(q)
        PROVE  q[1] = p[1]
    <3>1. q \in Seq(Words)
      BY <1>1, SettingFacts
    <3>2. <<p[1]>>[1] = q[1]
      BY <2>2, <3>1, AboveFacts
    <3> QED
      BY <3>2
  <2>3. ASSUME NEW q \in DOMAIN leaves, q[1] = p[1]
        PROVE  <<p[1]>> \in Above(q)
    <3>1. q \in Paths /\ q \in Seq(Words) /\ Len(q) > 1
      <4>1. q \in Paths /\ Len(q) > 1
        BY <1>1, ConfigurationAssumption DEF ConfigurationAssumption
      <4> QED
        BY <4>1, SettingFacts
    <3> QED
      BY <2>3, <3>1, FirstKey
  <2> QED
    BY <1>1, <1>2, <2>1, <2>2, <2>3, SettingFacts DEF Sections
<1> HIDE DEF tree
<1>6. IsTree(tree)
  <2>1. DOMAIN tree \subseteq Paths \cup Inner
    BY <1>1, <1>2, <1>3
  <2>2. \A p \in DOMAIN tree : tree[p] = Section <=> p \in Inner
    BY <1>1, <1>2, <1>3, SettingFacts
  <2> QED
    BY <1>2, <1>4, <2>1, <2>2 DEF IsTree
<1>7. \A p \in Paths : /\ p \in DOMAIN tree <=> p \in DOMAIN leaves
                       /\ p \in DOMAIN leaves => tree[p] = leaves[p]
  BY <1>1, <1>2, <1>3, SettingFacts
<1> QED
  BY <1>5, <1>6, <1>7 DEF tree, Mentions

(* A dictionary with all settings in it is the one made of their values. *)
LEMMA WholeTree ==
    ASSUME NEW tree, IsTree(tree), Paths \subseteq DOMAIN tree
    PROVE  tree = TreeOf([p \in Paths |-> tree[p]])
<1> DEFINE leaves == [p \in Paths |-> tree[p]]
<1>1. Inner \subseteq DOMAIN tree
  BY DEF IsTree, Inner
<1>2. DOMAIN tree = Paths \cup Inner
  BY <1>1 DEF IsTree
<1>3. TreeOf(leaves) = [p \in Paths \cup Inner |-> IF p \in Paths THEN leaves[p] ELSE Section]
  BY DEF TreeOf, Inner
<1>4. \A p \in Paths \cup Inner : tree[p] = IF p \in Paths THEN leaves[p] ELSE Section
  BY <1>2 DEF IsTree
<1>5. tree = [p \in Paths \cup Inner |-> tree[p]]
  BY <1>2 DEF IsTree
<1> QED
  BY <1>3, <1>4, <1>5

(* A merge has what is in either, and of the second what is in both. *)
LEMMA MergeFacts ==
    ASSUME NEW base, NEW incoming, IsTree(base), IsTree(incoming)
    PROVE  /\ IsTree(DeepMerge(base, incoming))
           /\ DOMAIN DeepMerge(base, incoming) = DOMAIN base \cup DOMAIN incoming
           /\ \A p \in DOMAIN base \cup DOMAIN incoming :
                DeepMerge(base, incoming)[p] = IF p \in DOMAIN incoming THEN incoming[p] ELSE base[p]
<1> DEFINE both == DOMAIN base \cup DOMAIN incoming
           merged == DeepMerge(base, incoming)
<1>1. \A q \in DOMAIN base : \A a \in Above(q) \cap DOMAIN incoming : incoming[a] = Section
  BY SettingFacts DEF IsTree
<1>2. merged = [p \in both |-> IF p \in DOMAIN incoming THEN incoming[p] ELSE base[p]]
  BY <1>1 DEF DeepMerge
<1>3. \A p \in both : merged[p] = IF p \in DOMAIN incoming THEN incoming[p] ELSE base[p]
  BY <1>2
<1>4. DOMAIN merged = both /\ merged = [p \in DOMAIN merged |-> merged[p]]
  BY <1>2
<1>5. \A p \in both : Above(p) \subseteq both /\ (merged[p] = Section <=> p \in Inner)
  BY <1>3 DEF IsTree
<1> HIDE DEF merged
<1>6. IsTree(merged)
  BY <1>4, <1>5 DEF IsTree
<1> QED
  BY <1>3, <1>4, <1>6 DEF merged

(* dict.update, of the sections. *)
LEMMA UpdateFacts ==
    ASSUME NEW base, NEW incoming, IsTree(base), IsTree(incoming)
    PROVE  /\ IsTree(Update(base, incoming))
           /\ \A p \in Paths :
                /\ Mentions(Update(base, incoming), p)
                     <=> Mentions(incoming, p) \/ (Mentions(base, p) /\ ~Mentions(incoming, <<p[1]>>))
                /\ Mentions(Update(base, incoming), p) =>
                     Update(base, incoming)[p] = IF p \in DOMAIN incoming THEN incoming[p] ELSE base[p]
<1> DEFINE updated == Update(base, incoming)
           rest == {q \in DOMAIN base : <<q[1]>> \notin DOMAIN incoming}
<1>1. /\ DOMAIN updated = DOMAIN incoming \cup rest
      /\ updated = [p \in DOMAIN updated |-> updated[p]]
      /\ \A p \in DOMAIN updated : updated[p] = IF p \in DOMAIN incoming THEN incoming[p] ELSE base[p]
  BY DEF Update, Mentions
<1>2. ASSUME NEW p \in rest
      PROVE  Above(p) \subseteq rest
  <2>1. p \in DOMAIN base /\ Above(p) \subseteq DOMAIN base /\ p \in Seq(Words)
    BY SettingFacts DEF IsTree
  <2>2. \A a \in Above(p) : a[1] = p[1]
    BY <2>1, AboveFacts
  <2> QED
    BY <2>1, <2>2
<1>3. ASSUME NEW p \in DOMAIN updated
      PROVE  /\ p \in Paths \cup Inner /\ Above(p) \subseteq DOMAIN updated
             /\ updated[p] = Section <=> p \in Inner
  BY <1>1, <1>2 DEF IsTree
<1> HIDE DEF updated
<1>4. IsTree(updated)
  BY <1>1, <1>3 DEF IsTree
<1> QED
  BY <1>1, <1>4 DEF updated, Mentions

-----------------------------------------------------------------------------
(* What lifting the old root makes of a file: the two dictionaries of it,  *)
(* that of the top updating that of the root.                              *)
Top  == TreeOf(source.top)
Root == TreeOf(source.root)

LEMMA LiftedRoot ==
    ASSUME SomeOf({source.top, source.root})
    PROVE  LiftRoot(Loaded) = Update(Root, Top)
<1> DEFINE Under(p) == LegacyRoot \o p
           nodes == Paths \cup Inner
           leaves == Over(source.top, UnderLegacyRoot(source.root))
           rootPaths == {Under(p) : p \in DOMAIN source.root}
<1>1. /\ DOMAIN source.top \subseteq Paths /\ DOMAIN source.root \subseteq Paths
      /\ IsTree(Top) /\ IsTree(Root)
  BY SomeIsTree DEF SomeOf, Top, Root
<1>2. ASSUME NEW p \in nodes
      PROVE  /\ Tail(Under(p)) = p /\ Under(p) \notin nodes /\ Under(p) # LegacyRoot
             /\ p # LegacyRoot /\ LegacyRoot \notin Above(p) /\ LegacyRoot \in Above(Under(p))
             /\ Above(Under(p)) = {LegacyRoot} \cup {Under(a) : a \in Above(p)}
  <2>1. p \in Seq(Words) /\ p # << >> /\ p[1] # "memory_store" /\ Above(p) \subseteq Inner
    BY SettingFacts
  <2>2. /\ Tail(Under(p)) = p /\ Under(p)[1] = "memory_store"
        /\ Len(Under(p)) = Len(p) + 1
        /\ Above(Under(p)) = {LegacyRoot} \cup {Under(a) : a \in Above(p)}
    BY <2>1, ShiftFacts
  <2>3. LegacyRoot[1] = "memory_store" /\ Len(LegacyRoot) = 1
    BY OneKey DEF LegacyRoot, Words
  <2>4. \A q \in nodes : q[1] # "memory_store"
    BY SettingFacts
  <2>5. Len(Under(p)) # 1
    <3>1. Len(p) \in Nat /\ Len(p) # 0
      BY <2>1, EmptySeq
    <3> QED
      BY <2>2, <3>1
  <2> HIDE DEF Under
  <2>6. Under(p) \notin nodes
    BY <2>2, <2>4
  <2>7. Under(p) # LegacyRoot
    BY <2>3, <2>5
  <2>8. LegacyRoot \notin nodes
    BY <2>3, <2>4
  <2> QED
    BY <2>1, <2>2, <2>6, <2>7, <2>8
<1>3. \A p, q \in nodes : Under(p) = Under(q) => p = q
  BY <1>2
<1> HIDE DEF Under
<1>4. DOMAIN UnderLegacyRoot(source.root) = rootPaths
  BY DEF UnderLegacyRoot, Under
<1>5. \A p \in DOMAIN source.root : UnderLegacyRoot(source.root)[Under(p)] = source.root[p]
  <2> SUFFICES ASSUME NEW p \in DOMAIN source.root
               PROVE  UnderLegacyRoot(source.root)[Under(p)] = source.root[p]
    OBVIOUS
  <2>1. UnderLegacyRoot(source.root)[Under(p)] = source.root[Tail(Under(p))]
    BY DEF UnderLegacyRoot, Under
  <2> QED
    BY <1>1, <1>2, <2>1
<1>6. /\ DOMAIN leaves = DOMAIN source.top \cup rootPaths
      /\ \A p \in DOMAIN source.top : leaves[p] = source.top[p]
      /\ \A p \in DOMAIN source.root : leaves[Under(p)] = source.root[p]
  <2>1. \A p \in DOMAIN source.top : p \notin rootPaths
    BY <1>1, <1>2
  <2> QED
    BY <1>4, <1>5, <2>1 DEF Over
<1> HIDE DEF leaves
<1>7. /\ DOMAIN Loaded = DOMAIN leaves \cup UNION {Above(q) : q \in DOMAIN leaves}
      /\ Loaded = [p \in DOMAIN Loaded |-> IF p \in DOMAIN leaves THEN leaves[p] ELSE Section]
  BY DEF Loaded, TreeOf, leaves
<1>8. /\ DOMAIN Top = DOMAIN source.top \cup UNION {Above(q) : q \in DOMAIN source.top}
      /\ \A p \in DOMAIN Top : Top[p] = IF p \in DOMAIN source.top THEN source.top[p] ELSE Section
      /\ DOMAIN Root = DOMAIN source.root \cup UNION {Above(q) : q \in DOMAIN source.root}
      /\ \A p \in DOMAIN Root : Root[p] = IF p \in DOMAIN source.root THEN source.root[p] ELSE Section
  BY DEF Top, Root, TreeOf
<1>9. \A p \in nodes : Above(p) \subseteq nodes
  BY SettingFacts
<1>10. ASSUME NEW p \in nodes
       PROVE  /\ p \in DOMAIN leaves <=> p \in DOMAIN source.top
              /\ Under(p) \in DOMAIN leaves <=> p \in DOMAIN source.root
  BY <1>1, <1>2, <1>3, <1>6
<1>11. ASSUME NEW p \in nodes, NEW q \in DOMAIN leaves
       PROVE  /\ p \in Above(q) => q \in DOMAIN source.top
              /\ Under(p) \in Above(q) => \E r \in DOMAIN source.root : p \in Above(r)
  BY <1>1, <1>2, <1>3, <1>6, <1>9
<1>12. ASSUME NEW p \in nodes
       PROVE  /\ p \in DOMAIN Loaded <=> p \in DOMAIN Top
              /\ Under(p) \in DOMAIN Loaded <=> p \in DOMAIN Root
  <2>1. p \in DOMAIN Loaded <=> p \in DOMAIN Top
    BY <1>6, <1>7, <1>8, <1>10, <1>11
  <2>2. ASSUME Under(p) \in DOMAIN Loaded
        PROVE  p \in DOMAIN Root
    BY <1>7, <1>8, <1>10, <1>11, <2>2
  <2>3. ASSUME p \in DOMAIN Root
        PROVE  Under(p) \in DOMAIN Loaded
    <3>1. CASE p \in DOMAIN source.root
      BY <1>7, <1>10, <3>1
    <3>2. CASE p \notin DOMAIN source.root
      <4>1. PICK r \in DOMAIN source.root : p \in Above(r)
        BY <1>8, <2>3, <3>2
      <4>2. Under(r) \in DOMAIN leaves /\ Under(p) \in Above(Under(r))
        BY <1>1, <1>2, <1>10, <4>1
      <4> QED
        BY <1>7, <4>2
    <3> QED
      BY <3>1, <3>2
  <2> QED
    BY <2>1, <2>2, <2>3
<1>13. ASSUME NEW p \in nodes
       PROVE  /\ p \in DOMAIN Top => Loaded[p] = Top[p]
              /\ p \in DOMAIN Root => Loaded[Under(p)] = Root[p]
  BY <1>6, <1>7, <1>8, <1>10, <1>12
<1>14. DOMAIN Loaded \subseteq nodes \cup {LegacyRoot} \cup {Under(p) : p \in nodes}
  BY <1>1, <1>2, <1>6, <1>7, <1>9
<1>15. /\ LegacyRoot \in DOMAIN Loaded <=> DOMAIN source.root # {}
       /\ LegacyRoot \in DOMAIN Loaded => Loaded[LegacyRoot] = Section
  <2>1. LegacyRoot \notin DOMAIN leaves
    BY <1>1, <1>2, <1>6
  <2>2. ASSUME NEW r \in DOMAIN source.root
        PROVE  LegacyRoot \in Above(Under(r)) /\ Under(r) \in DOMAIN leaves
    BY <1>1, <1>2, <1>10
  <2>3. ASSUME NEW q \in DOMAIN leaves, LegacyRoot \in Above(q)
        PROVE  DOMAIN source.root # {}
    BY <1>1, <1>2, <1>6, <2>3
  <2> QED
    BY <1>7, <2>1, <2>2, <2>3
<1>16. Without(Loaded, {LegacyRoot}) = Top
  <2>1. \A p \in DOMAIN Loaded : ~Within(LegacyRoot, p) <=> p \in nodes
    BY <1>2, <1>14 DEF Within
  <2>2. {p \in DOMAIN Loaded : \A path \in {LegacyRoot} : ~Within(path, p)} = DOMAIN Top
    BY <1>1, <1>12, <2>1 DEF IsTree
  <2>3. Without(Loaded, {LegacyRoot}) = [p \in DOMAIN Top |-> Loaded[p]]
    BY <2>2 DEF Without
  <2> QED
    BY <1>1, <1>13, <2>3 DEF IsTree
<1>17. UnderRoot(Loaded) = Root
  <2>1. Above(LegacyRoot) = {}
    BY OneKey DEF LegacyRoot, Words, Above
  <2>2. \A p \in DOMAIN Loaded : LegacyRoot \in Above(p) <=> \E r \in nodes : p = Under(r)
    BY <1>2, <1>14, <2>1
  <2> DEFINE below == {r \in DOMAIN Loaded : LegacyRoot \in Above(r)}
  <2>3. ASSUME NEW q \in below
        PROVE  Tail(q) \in DOMAIN Root
    <3>1. PICK r \in nodes : q = Under(r)
      BY <2>2
    <3> QED
      BY <1>2, <1>12, <3>1
  <2>4. \A p \in DOMAIN Root : Under(p) \in below /\ Tail(Under(p)) = p
    BY <1>1, <1>2, <1>12 DEF IsTree
  <2>5. {Tail(q) : q \in below} = DOMAIN Root
    BY <2>3, <2>4
  <2>6. UnderRoot(Loaded) = [p \in DOMAIN Root |-> Loaded[Under(p)]]
    BY <2>5 DEF UnderRoot, Under
  <2>7. \A p \in DOMAIN Root : Loaded[Under(p)] = Root[p]
    BY <1>1, <1>13 DEF IsTree
  <2> QED
    BY <1>1, <2>6, <2>7 DEF IsTree
<1>18. CASE DOMAIN source.root # {}
  <2>1. HasRoot(Loaded)
    BY <1>15, <1>18 DEF HasRoot, GetNested
  <2> QED
    BY <1>16, <1>17, <2>1 DEF LiftRoot
<1>19. CASE DOMAIN source.root = {}
  <2>1. ~HasRoot(Loaded)
    BY <1>15, <1>19 DEF HasRoot, GetNested, None, Section
  <2>2. DOMAIN Root = {}
    BY <1>8, <1>19
  <2>3. Update(Root, Top) = [p \in DOMAIN Top |-> Top[p]]
    BY <2>2 DEF Update
  <2>4. Update(Root, Top) = Top
    BY <1>1, <2>3 DEF IsTree
  <2> QED
    BY <1>16, <2>1, <2>4 DEF LiftRoot
<1> QED
  BY <1>18, <1>19

-----------------------------------------------------------------------------
(* The rewriting and the removal, on a file without an old root. *)
LEMMA CleanFacts ==
    ASSUME NEW lifted, IsTree(lifted)
    PROVE  LET clean == Without(RewritePaths(lifted), SecretPaths)
           IN  /\ IsTree(clean)
               /\ \A p \in Paths : Mentions(clean, p) <=> Mentions(lifted, p) /\ p \notin SecretPaths
               /\ \A p \in DOMAIN clean :
                    clean[p] = IF p \in PathSettings THEN Rewritten(lifted[p]) ELSE lifted[p]
<1> DEFINE clean == Without(RewritePaths(lifted), SecretPaths)
<1>1. PathSettings \subseteq Paths /\ SecretPaths \subseteq Paths /\ Section \notin DOMAIN Renamed
      /\ \A v \in DOMAIN Renamed : Renamed[v] # Section
  BY ConfigurationAssumption DEF ConfigurationAssumption
<1>2. \A p \in DOMAIN lifted :
        (\A q \in SecretPaths : ~Within(q, p)) <=> p \notin SecretPaths
  BY <1>1, SettingFacts DEF IsTree, Within
<1>3. /\ DOMAIN clean = DOMAIN lifted \ SecretPaths
      /\ clean = [p \in DOMAIN clean |-> clean[p]]
      /\ \A p \in DOMAIN clean :
           clean[p] = IF p \in PathSettings THEN Rewritten(lifted[p]) ELSE lifted[p]
  BY <1>2 DEF Without, RewritePaths
<1>4. \A p \in DOMAIN clean : Above(p) \subseteq DOMAIN clean
  BY <1>1, <1>3, SettingFacts DEF IsTree
<1>5. \A p \in DOMAIN clean : clean[p] = Section <=> p \in Inner
  BY <1>1, <1>3, SettingFacts DEF IsTree, Rewritten
<1> HIDE DEF clean
<1>6. IsTree(clean)
  BY <1>3, <1>4, <1>5 DEF IsTree
<1> QED
  BY <1>1, <1>3, <1>6 DEF clean, Mentions

LEMMA NoRoot ==
    ASSUME NEW tree, IsTree(tree)
    PROVE  ~HasRoot(tree) /\ LiftRoot(tree) = tree
<1>1. LegacyRoot[1] = "memory_store"
  BY OneKey DEF LegacyRoot, Words
<1>2. LegacyRoot \notin Paths \cup Inner
  BY <1>1, SettingFacts
<1>3. \A p \in DOMAIN tree : ~Within(LegacyRoot, p)
  BY <1>2, SettingFacts DEF IsTree, Within
<1>4. Without(tree, {LegacyRoot}) = [p \in DOMAIN tree |-> tree[p]]
  BY <1>3 DEF Without
<1>5. ~HasRoot(tree)
  BY <1>2 DEF IsTree, HasRoot, GetNested, None, Section
<1> QED
  BY <1>4, <1>5 DEF IsTree, LiftRoot

(* A file in which nothing is left to migrate. *)
LEMMA MigratedAgain ==
    ASSUME NEW tree, IsTree(tree),
           \A p \in SecretPaths : p \notin DOMAIN tree,
           \A p \in PathSettings : p \in DOMAIN tree => tree[p] \notin DOMAIN Renamed
    PROVE  MigrateYaml(tree) = tree /\ YamlActions(tree) = {}
<1>1. ~HasRoot(tree) /\ LiftRoot(tree) = tree
  BY NoRoot
<1>2. RewritePaths(tree) = [p \in DOMAIN tree |-> tree[p]]
  BY DEF RewritePaths, Rewritten
<1>3. RewritePaths(tree) = tree
  BY <1>2 DEF IsTree
<1>4. \A p \in DOMAIN tree : \A q \in SecretPaths : ~Within(q, p)
  <2>1. SecretPaths \subseteq Paths
    BY ConfigurationAssumption DEF ConfigurationAssumption
  <2>2. DOMAIN tree \subseteq Paths \cup Inner
    BY DEF IsTree
  <2>3. \A p \in Paths \cup Inner : \A q \in Paths : Within(q, p) => p = q
    BY SettingFacts
  <2> QED
    BY <2>1, <2>2, <2>3
<1>5. Without(tree, SecretPaths) = [p \in DOMAIN tree |-> tree[p]]
  BY <1>4 DEF Without
<1>6. MigrateYaml(tree) = tree
  BY <1>1, <1>3, <1>5 DEF MigrateYaml, IsTree
<1>7. None \notin DOMAIN Renamed
  BY ConfigurationAssumption DEF ConfigurationAssumption
<1>8. YamlActions(tree) = {}
  BY <1>1, <1>7 DEF YamlActions, GetNested
<1> QED
  BY <1>6, <1>8

-----------------------------------------------------------------------------
(* Env files: lines by their number, each name once. *)
IsLine(l) ==
    /\ l = [prefix |-> l.prefix, path |-> l.path, value |-> l.value]
    /\ l.prefix \in NamePrefixes /\ l.path \in Paths /\ l.value # Section

IsEnvFile(lines) ==
    /\ lines = [j \in DOMAIN lines |-> lines[j]]
    /\ DOMAIN lines \subseteq Int
    /\ \A j \in DOMAIN lines : IsLine(lines[j])
    /\ \A j, k \in DOMAIN lines : Name(lines[j]) = Name(lines[k]) => j = k

LEMMA LineFacts ==
    ASSUME NEW l, IsLine(l)
    PROVE  /\ IsLine(Target(l)) /\ IsLine(MigrateLine(l))
           /\ Target(l).prefix = IF l.prefix = "MEMORY_STORE_" THEN "BYTEBOX_" ELSE l.prefix
           /\ Target(l).path = l.path
           /\ Target(l).prefix \in {"BYTEBOX_", ""}
           /\ MigrateLine(l).prefix = Target(l).prefix
           /\ MigrateLine(l).path = l.path
           /\ MigrateLine(l).value = IF IsPath(l) THEN Rewritten(l.value) ELSE l.value
<1> DEFINE prefix == IF l.prefix = "MEMORY_STORE_" THEN "BYTEBOX_" ELSE l.prefix
           value  == IF IsPath(l) THEN Rewritten(l.value) ELSE l.value
<1>1. prefix \in {"BYTEBOX_", ""} /\ prefix \in NamePrefixes
  BY DEF IsLine, NamePrefixes
<1>2. value # Section
  BY ConfigurationAssumption DEF ConfigurationAssumption, Rewritten, IsLine
<1>3. Target(l) = [prefix |-> prefix, path |-> l.path, value |-> l.value]
  BY DEF IsLine, Target
<1>4. MigrateLine(l) = [prefix |-> prefix, path |-> l.path, value |-> value]
  BY <1>3 DEF MigrateLine
<1> HIDE DEF prefix, value
<1>5. /\ Target(l).prefix = prefix /\ Target(l).path = l.path /\ Target(l).value = l.value
      /\ MigrateLine(l).prefix = prefix /\ MigrateLine(l).path = l.path
      /\ MigrateLine(l).value = value
  BY <1>3, <1>4
<1>6. IsLine(Target(l)) /\ IsLine(MigrateLine(l))
  BY <1>1, <1>2, <1>3, <1>4, <1>5 DEF IsLine
<1>7. Target(l).prefix = IF l.prefix = "MEMORY_STORE_" THEN "BYTEBOX_" ELSE l.prefix
  BY <1>5, Zenon DEF prefix
<1>8. MigrateLine(l).value = IF IsPath(l) THEN Rewritten(l.value) ELSE l.value
  BY <1>5, Zenon DEF value
<1>9. MigrateLine(l).prefix = Target(l).prefix /\ Target(l).prefix \in {"BYTEBOX_", ""}
  BY <1>1, <1>5, Zenon
<1> QED
  BY <1>5, <1>6, <1>7, <1>8, <1>9, Zenon

(* A migrated env file has each target once, no secret and no old name or  *)
(* path, so that to migrate it again changes and reports nothing.          *)
LEMMA MigratedEnv ==
    ASSUME NEW lines, IsEnvFile(lines)
    PROVE  /\ IsEnvFile(MigrateEnv(lines))
           /\ DOMAIN MigrateEnv(lines) = LeftLines(lines)
           /\ \A j \in LeftLines(lines) : MigrateEnv(lines)[j] = MigrateLine(lines[j])
           /\ MigrateEnv(MigrateEnv(lines)) = MigrateEnv(lines)
           /\ EnvActions(MigrateEnv(lines)) = {}
<1> DEFINE left == LeftLines(lines)
           m == MigrateEnv(lines)
<1>1. left \subseteq DOMAIN lines /\ left \subseteq Int
  BY DEF LeftLines, IsEnvFile
<1>2. DOMAIN m = left /\ m = [j \in left |-> m[j]] /\ \A j \in left : m[j] = MigrateLine(lines[j])
  BY DEF MigrateEnv
<1>3. ASSUME NEW j \in left
      PROVE  /\ IsLine(m[j]) /\ ~IsSecret(m[j])
             /\ m[j].prefix = Target(lines[j]).prefix /\ m[j].prefix # "MEMORY_STORE_"
             /\ m[j].path = lines[j].path
             /\ Name(m[j]) = Name(Target(lines[j]))
             /\ Target(m[j]).prefix = m[j].prefix /\ Target(m[j]).path = m[j].path
             /\ IsPath(m[j]) => m[j].value \notin DOMAIN Renamed
  <2>1. IsLine(lines[j]) /\ ~IsSecret(lines[j])
    BY <1>1 DEF IsEnvFile, LeftLines
  <2>2. /\ IsLine(m[j]) /\ m[j].prefix = Target(lines[j]).prefix /\ m[j].path = lines[j].path
        /\ Target(lines[j]).path = lines[j].path
        /\ m[j].prefix \in {"BYTEBOX_", ""}
        /\ m[j].value = IF IsPath(lines[j]) THEN Rewritten(lines[j].value) ELSE lines[j].value
    <3>1. m[j] = MigrateLine(lines[j])
      BY <1>2
    <3> QED
      BY <2>1, <3>1, LineFacts, Zenon
  <2>3. Target(m[j]).prefix = m[j].prefix /\ Target(m[j]).path = m[j].path
    BY <2>2, LineFacts
  <2>4. ~IsSecret(m[j])
    BY <2>1, <2>2, <2>3 DEF IsSecret, IsOurs
  <2>5. IsPath(m[j]) => m[j].value \notin DOMAIN Renamed
    <3>1. IsPath(m[j]) <=> IsPath(lines[j])
      BY <2>2, <2>3 DEF IsPath, IsOurs
    <3> QED
      BY <2>2, <3>1, ConfigurationAssumption DEF ConfigurationAssumption, Rewritten
  <2> QED
    BY <2>2, <2>3, <2>4, <2>5 DEF Name
<1>4. ASSUME NEW j \in left, NEW k \in left, Name(m[j]) = Name(m[k])
      PROVE  j = k
  <2>1. j <= k /\ k <= j
    BY <1>1, <1>3, <1>4 DEF LeftLines
  <2> QED
    BY <1>1, <2>1
<1> HIDE DEF m, left
<1>5. IsEnvFile(m)
  BY <1>1, <1>2, <1>3, <1>4 DEF IsEnvFile
<1>6. LeftLines(m) = left
  <2>1. \A j \in left : Name(Target(m[j])) = Name(m[j])
    BY <1>3 DEF Name
  <2>2. \A j, k \in left : Name(Target(m[k])) = Name(Target(m[j])) => k <= j
    BY <1>1, <1>4, <2>1
  <2> QED
    BY <1>2, <1>3, <2>2 DEF LeftLines
<1>7. ASSUME NEW j \in left
      PROVE  MigrateLine(m[j]) = m[j]
  <2>1. IsLine(m[j]) /\ IsLine(MigrateLine(m[j]))
    BY <1>3, LineFacts
  <2>2. /\ MigrateLine(m[j]).prefix = m[j].prefix /\ MigrateLine(m[j]).path = m[j].path
        /\ MigrateLine(m[j]).value = m[j].value
    BY <1>3, LineFacts DEF Rewritten
  <2> QED
    BY <2>1, <2>2 DEF IsLine
<1>8. MigrateEnv(m) = m
  <2>1. MigrateEnv(m) = [j \in left |-> m[j]]
    BY <1>6, <1>7 DEF MigrateEnv
  <2> QED
    BY <1>2, <2>1
<1>9. EnvActions(m) = {}
  BY <1>2, <1>3 DEF EnvActions
<1> QED
  BY <1>2, <1>5, <1>8, <1>9 DEF m, left

-----------------------------------------------------------------------------
(* What the initial states say of the legacy file. *)
Sourced ==
    /\ source.format \in {"yaml", "env"}
    /\ SomeOf({source.top, source.root})
    /\ IsEnvFile(source.lines) /\ DOMAIN source.lines = 1 .. Len(source.lines)
    /\ source.format = "yaml" => source.lines = << >>
    /\ source.format = "env" => source.top = << >> /\ source.root = << >>

(* What is meant to be kept of a YAML file is what is in the migrated one. *)
LEMMA YamlKept ==
    ASSUME Sourced, source.format = "yaml"
    PROVE  /\ IsTree(LiftRoot(Loaded)) /\ IsTree(MigrateYaml(Loaded))
           /\ \A p \in Paths :
                /\ InFile(p) = IF Mentions(LiftRoot(Loaded), p) THEN {LiftRoot(Loaded)[p]} ELSE {}
                /\ Kept(p) = IF Mentions(MigrateYaml(Loaded), p) THEN {MigrateYaml(Loaded)[p]} ELSE {}
<1> DEFINE lifted == LiftRoot(Loaded)
           tree   == MigrateYaml(Loaded)
<1>1. SomeOf({source.top, source.root}) /\ SomeOf({source.top}) /\ SomeOf({source.root})
  BY DEF Sourced, SomeOf
<1>2. lifted = Update(Root, Top)
  BY <1>1, LiftedRoot
<1>3. IsTree(Top) /\ IsTree(Root)
  BY <1>1, SomeIsTree DEF Top, Root
<1>4. IsTree(lifted)
  BY <1>2, <1>3, UpdateFacts
<1>5. tree = Without(RewritePaths(lifted), SecretPaths)
  BY DEF MigrateYaml
<1>6. /\ IsTree(tree)
      /\ \A p \in Paths : Mentions(tree, p) <=> Mentions(lifted, p) /\ p \notin SecretPaths
      /\ \A p \in DOMAIN tree : tree[p] = IF p \in PathSettings THEN Rewritten(lifted[p]) ELSE lifted[p]
  BY <1>4, <1>5, CleanFacts
<1>7. ASSUME NEW p \in Paths
      PROVE  /\ p \in DOMAIN source.top => p \in DOMAIN lifted /\ lifted[p] = source.top[p]
             /\ p \notin DOMAIN source.top /\ p \in DOMAIN source.root /\ p[1] \notin Sections(source.top)
                  => p \in DOMAIN lifted /\ lifted[p] = source.root[p]
             /\ p \in DOMAIN lifted =>
                  \/ p \in DOMAIN source.top
                  \/ p \in DOMAIN source.root /\ p[1] \notin Sections(source.top)
  <2>1. /\ p \in DOMAIN Top <=> p \in DOMAIN source.top
        /\ p \in DOMAIN source.top => Top[p] = source.top[p]
        /\ p \in DOMAIN Root <=> p \in DOMAIN source.root
        /\ p \in DOMAIN source.root => Root[p] = source.root[p]
        /\ <<p[1]>> \in DOMAIN Top <=> p[1] \in Sections(source.top)
    BY <1>1, SomeIsTree DEF Top, Root, Mentions
  <2>2. /\ p \in DOMAIN lifted <=> p \in DOMAIN Top \/ (p \in DOMAIN Root /\ <<p[1]>> \notin DOMAIN Top)
        /\ p \in DOMAIN lifted => lifted[p] = IF p \in DOMAIN Top THEN Top[p] ELSE Root[p]
    BY <1>2, <1>3, UpdateFacts DEF Mentions
  <2> HIDE DEF lifted
  <2> QED
    BY <2>1, <2>2
<1> HIDE DEF lifted, tree
<1>8. ASSUME NEW p \in Paths
      PROVE  InFile(p) = IF p \in DOMAIN lifted THEN {lifted[p]} ELSE {}
  <2> DEFINE lines == {j \in 1 .. Len(source.lines) :
                         source.lines[j].path = p /\ IsOurs(source.lines[j])}
  <2>1. lines = {}
    <3>1. Len(<< >>) = 0
      BY EmptySeq
    <3>2. source.lines = << >>
      BY Zenon DEF Sourced
    <3>3. Len(source.lines) = 0
      BY <3>1, <3>2, Zenon
    <3>4. 1 .. Len(source.lines) = {}
      BY <3>3
    <3> QED
      BY <3>4
  <2>2. p \in DOMAIN source.top => p[1] \in Sections(source.top)
    BY DEF Sections
  <2>3. CASE p \in DOMAIN source.top
    BY <1>7, <2>1, <2>2, <2>3 DEF InFile
  <2>4. CASE p \notin DOMAIN source.top /\ p \in DOMAIN source.root /\ p[1] \notin Sections(source.top)
    BY <1>7, <2>1, <2>4 DEF InFile
  <2>5. CASE /\ p \notin DOMAIN source.top
             /\ ~(p \in DOMAIN source.root /\ p[1] \notin Sections(source.top))
    BY <1>7, <2>1, <2>5 DEF InFile
  <2> QED
    BY <2>3, <2>4, <2>5
<1>9. ASSUME NEW p \in Paths
      PROVE  Kept(p) = IF p \in DOMAIN tree THEN {tree[p]} ELSE {}
  BY <1>6, <1>8 DEF Kept, Mentions
<1> QED
  BY <1>4, <1>6, <1>8, <1>9 DEF lifted, tree, Mentions

(* Of the lines of a setting, of which there are at most two, one is last. *)
LEMMA LastLine ==
    ASSUME NEW lines, IsEnvFile(lines), NEW p \in Paths,
           NEW i \in DOMAIN lines, lines[i].path = p, IsOurs(lines[i])
    PROVE  \E j \in DOMAIN lines :
             /\ lines[j].path = p /\ IsOurs(lines[j])
             /\ \A k \in DOMAIN lines : lines[k].path = p /\ IsOurs(lines[k]) => k <= j
<1> DEFINE Of(k) == k \in DOMAIN lines /\ lines[k].path = p /\ IsOurs(lines[k])
<1>1. ASSUME NEW j, NEW k, Of(j), Of(k), lines[j].prefix = lines[k].prefix
      PROVE  j = k
  BY <1>1 DEF IsEnvFile, Name
<1>2. ASSUME NEW j, Of(j)
      PROVE  lines[j].prefix \in {"MEMORY_STORE_", "BYTEBOX_"} /\ j \in Int
  <2>1. IsLine(lines[j]) /\ j \in Int
    BY <1>2 DEF IsEnvFile
  <2>2. Target(lines[j]).prefix = IF lines[j].prefix = "MEMORY_STORE_" THEN "BYTEBOX_"
                                  ELSE lines[j].prefix
    BY <2>1, LineFacts, Zenon
  <2> QED
    BY <1>2, <2>1, <2>2 DEF IsOurs
<1>3. CASE \A k : Of(k) => k <= i
  BY <1>3
<1>4. CASE \E k : Of(k) /\ ~(k <= i)
  <2>1. PICK k : Of(k) /\ ~(k <= i)
    BY <1>4
  <2>2. Of(i) /\ i \in Int /\ k \in Int /\ i <= k /\ k <= k /\ i # k
    <3>1. Of(i)
      OBVIOUS
    <3> HIDE DEF Of
    <3>2. i \in Int /\ k \in Int
      BY <1>2, <2>1, <3>1
    <3>3. ~(k <= i)
      BY <2>1, Zenon
    <3>4. i <= k /\ k <= k /\ i # k
      BY <3>2, <3>3
    <3> QED
      BY <3>1, <3>2, <3>4, Zenon
  <2>3. lines[i].prefix # lines[k].prefix
    <3> HIDE DEF Of
    <3> QED
      BY <1>1, <2>1, <2>2
  <2>4. ASSUME NEW l, Of(l)
        PROVE  l = i \/ l = k
    <3> HIDE DEF Of
    <3>1. lines[l].prefix = lines[i].prefix \/ lines[l].prefix = lines[k].prefix
      BY <1>2, <2>1, <2>2, <2>3, <2>4
    <3> QED
      BY <1>1, <2>1, <2>2, <2>4, <3>1
  <2>5. \A l : Of(l) => l <= k
    <3> HIDE DEF Of
    <3> QED
      BY <2>2, <2>4
  <2> QED
    BY <2>1, <2>5
<1> QED
  BY <1>3, <1>4

(* What is meant to be kept of an env file is what the migrated one exports. *)
LEMMA EnvKept ==
    ASSUME Sourced, source.format = "env"
    PROVE  LET exported == Exported(MigrateEnv(source.lines))
           IN  /\ SomeOf({exported})
               /\ \A p \in Paths : Kept(p) = IF p \in DOMAIN exported THEN {exported[p]} ELSE {}
               /\ \A p \in SecretPaths : InFile(p) # {} =>
                    \E j \in DOMAIN source.lines : IsSecret(source.lines[j]) /\ source.lines[j].path = p
<1> DEFINE lines == source.lines
           m == MigrateEnv(lines)
           left == LeftLines(lines)
           ours == {j \in DOMAIN m : m[j].prefix = "BYTEBOX_"}
           exported == Exported(m)
           Of(p) == {j \in DOMAIN lines : lines[j].path = p /\ IsOurs(lines[j])}
<1>1. IsEnvFile(lines)
  BY DEF Sourced
<1>2. IsEnvFile(m) /\ DOMAIN m = left /\ \A j \in left : m[j] = MigrateLine(lines[j])
  BY <1>1, MigratedEnv
<1>3. /\ DOMAIN exported = {m[j].path : j \in ours}
      /\ \A p \in DOMAIN exported : exported[p] = m[CHOOSE j \in ours : m[j].path = p].value
  BY DEF Exported
<1> HIDE DEF m, exported
<1>4. ASSUME NEW j \in ours, NEW k \in ours, m[j].path = m[k].path
      PROVE  j = k
  BY <1>2, <1>4 DEF IsEnvFile, Name
<1>5. ASSUME NEW j \in ours
      PROVE  m[j].path \in DOMAIN exported /\ exported[m[j].path] = m[j].value
  <2>1. (CHOOSE k \in ours : m[k].path = m[j].path) = j
    BY <1>4
  <2> QED
    BY <1>3, <2>1
<1>6. ASSUME NEW j \in DOMAIN lines
      PROVE  /\ IsLine(lines[j])
             /\ Target(lines[j]).path = lines[j].path
             /\ Target(lines[j]).prefix = "BYTEBOX_" <=> IsOurs(lines[j])
             /\ j \in left => /\ m[j].prefix = Target(lines[j]).prefix /\ m[j].path = lines[j].path
                              /\ m[j].value = IF IsPath(lines[j]) THEN Rewritten(lines[j].value)
                                              ELSE lines[j].value
  <2>1. IsLine(lines[j])
    BY <1>1 DEF IsEnvFile
  <2>2. /\ Target(lines[j]).prefix = IF lines[j].prefix = "MEMORY_STORE_" THEN "BYTEBOX_"
                                     ELSE lines[j].prefix
        /\ Target(lines[j]).path = lines[j].path
    BY <2>1, LineFacts, Zenon
  <2>3. Target(lines[j]).prefix = "BYTEBOX_" <=> IsOurs(lines[j])
    BY DEF IsOurs
  <2>4. ASSUME j \in left
        PROVE  /\ m[j].prefix = Target(lines[j]).prefix /\ m[j].path = lines[j].path
               /\ m[j].value = IF IsPath(lines[j]) THEN Rewritten(lines[j].value) ELSE lines[j].value
    <3>1. m[j] = MigrateLine(lines[j])
      BY <1>2, <2>4
    <3> QED
      BY <2>1, <3>1, LineFacts, Zenon
  <2> QED
    BY <2>1, <2>2, <2>3, <2>4
<1>7. left \subseteq DOMAIN lines
  BY DEF LeftLines
<1>8. SomeOf({exported})
  <2>1. ASSUME NEW p \in DOMAIN exported
        PROVE  p \in Paths /\ exported[p] # Section
    <3>1. PICK j \in ours : p = m[j].path
      BY <1>3
    <3>2. IsLine(m[j])
      BY <1>2 DEF IsEnvFile
    <3> QED
      BY <1>5, <3>1, <3>2 DEF IsLine
  <2> QED
    BY <2>1 DEF SomeOf
<1>9. ASSUME NEW p \in Paths
      PROVE  InFile(p) = IF Of(p) = {} THEN {}
                         ELSE {lines[CHOOSE j \in Of(p) : \A k \in Of(p) : k <= j].value}
  <2>1. DOMAIN source.top = {} /\ DOMAIN source.root = {}
    <3>1. source.top = << >> /\ source.root = << >>
      BY Zenon DEF Sourced
    <3>2. DOMAIN << >> = {}
      OBVIOUS
    <3> QED
      BY <3>1, <3>2, Zenon
  <2>2. Of(p) = {j \in 1 .. Len(source.lines) :
                   source.lines[j].path = p /\ IsOurs(source.lines[j])}
    BY DEF Sourced
  <2> HIDE DEF Of
  <2> QED
    BY <2>1, <2>2 DEF InFile
<1>10. ASSUME NEW p \in Paths, Of(p) = {}
       PROVE  InFile(p) = {} /\ p \notin DOMAIN exported
  <2>1. \A j \in ours : m[j].path # p
    BY <1>2, <1>6, <1>7, <1>10
  <2>2. InFile(p) = {}
    <3> HIDE DEF Of
    <3> QED
      BY <1>9, <1>10
  <2> QED
    BY <1>3, <2>1, <2>2
<1>11. ASSUME NEW p \in Paths, Of(p) # {}
       PROVE  \E j \in Of(p) : InFile(p) = {lines[j].value} /\ \A k \in Of(p) : k <= j
  <2>1. PICK j \in Of(p) : \A k \in Of(p) : k <= j
    BY <1>1, <1>11, LastLine
  <2>2. \A k \in Of(p) : k \in Int
    BY <1>1 DEF IsEnvFile
  <2> HIDE DEF Of
  <2>3. ASSUME NEW l \in Of(p), \A k \in Of(p) : k <= l
        PROVE  l = j
    <3>1. l <= j /\ j <= l /\ l \in Int /\ j \in Int
      BY <2>1, <2>2, <2>3
    <3> QED
      BY <3>1
  <2>4. (CHOOSE l \in Of(p) : \A k \in Of(p) : k <= l) = j
    BY <2>1, <2>3
  <2> QED
    BY <1>9, <1>11, <2>1, <2>4
<1>12. ASSUME NEW p \in Paths
       PROVE  Kept(p) = IF p \in DOMAIN exported THEN {exported[p]} ELSE {}
  <2>1. CASE Of(p) = {}
    BY <1>10, <2>1 DEF Kept
  <2>2. CASE Of(p) # {}
    <3>1. PICK j \in Of(p) : InFile(p) = {lines[j].value} /\ \A k \in Of(p) : k <= j
      BY <1>11, <2>2
    <3>2. /\ j \in DOMAIN lines /\ lines[j].path = p /\ Target(lines[j]).prefix = "BYTEBOX_"
          /\ Target(lines[j]).path = p
      BY <1>6, <3>1
    <3>3. CASE p \in SecretPaths
      <4>1. ASSUME NEW k \in ours
            PROVE  m[k].path # p
        <5>1. /\ k \in left /\ k \in DOMAIN lines /\ ~IsSecret(lines[k])
              /\ Target(lines[k]).prefix = "BYTEBOX_" /\ m[k].path = lines[k].path
          BY <1>2, <1>6, <1>7 DEF LeftLines
        <5> QED
          BY <3>3, <5>1 DEF IsSecret, IsOurs
      <4>2. p \notin DOMAIN exported
        BY <1>3, <4>1
      <4> QED
        BY <3>3, <4>2 DEF Kept
    <3>4. CASE p \notin SecretPaths
      <4>1. ASSUME NEW k \in DOMAIN lines, Name(Target(lines[k])) = Name(Target(lines[j]))
            PROVE  k <= j
        BY <1>6, <3>1, <3>2, <4>1 DEF Name
      <4>2. j \in left
        BY <3>2, <3>4, <4>1 DEF LeftLines, IsSecret, IsOurs
      <4>3. /\ j \in ours /\ m[j].path = p
            /\ m[j].value = IF p \in PathSettings THEN Rewritten(lines[j].value) ELSE lines[j].value
        BY <1>2, <1>6, <3>2, <4>2 DEF IsPath, IsOurs
      <4>4. p \in DOMAIN exported /\ exported[p] = m[j].value
        BY <1>5, <4>3
      <4> QED
        BY <3>1, <3>4, <4>3, <4>4 DEF Kept
    <3> QED
      BY <3>3, <3>4
  <2> QED
    BY <2>1, <2>2
<1>13. ASSUME NEW p \in SecretPaths, InFile(p) # {}
       PROVE  \E j \in DOMAIN lines : IsSecret(lines[j]) /\ lines[j].path = p
  <2>1. p \in Paths
    BY ConfigurationAssumption DEF ConfigurationAssumption
  <2>2. PICK j : j \in Of(p)
    BY <1>10, <1>13, <2>1
  <2> QED
    BY <1>6, <2>2 DEF IsSecret, IsOurs
<1> QED
  BY <1>8, <1>12, <1>13 DEF m, exported

-----------------------------------------------------------------------------
(* What LoadSettings makes of the sources given to it. *)
FromEnvironment == ReadEnvironment(Over(Exported(preview.lines), given.environment))
FromCaller == TreeOf(given.overrides)

LoadedSettings ==
    ApplyEnvironmentDefaults(Merged(preview.tree, FromEnvironment, FromCaller),
                             {preview.tree, FromEnvironment, FromCaller})

LEMMA SettingsExpected ==
    ASSUME given.environment \in Environments, given.overrides \in Overrides,
           IsTree(preview.tree), SomeOf({Exported(preview.lines)}),
           \A p \in Paths :
             Kept(p) = IF p \in DOMAIN Exported(preview.lines) THEN {Exported(preview.lines)[p]}
                       ELSE IF Mentions(preview.tree, p) THEN {preview.tree[p]} ELSE {}
    PROVE  LoadedSettings = TreeOf([p \in Paths |-> Expected(p)])
<1> DEFINE exported == Exported(preview.lines)
           env == FromEnvironment
           passed == FromCaller
           base == TreeOf(Defaults)
           merged == Merged(preview.tree, env, passed)
           unasked == {p \in DebugPaths : \A tree \in {preview.tree, env, passed} : ~Mentions(tree, p)}
<1>1. SomeOf({Defaults}) /\ SomeOf({given.environment}) /\ SomeOf({given.overrides})
      /\ DebugPaths \subseteq Paths /\ Key \in Paths
  BY ConfigurationAssumption DEF ConfigurationAssumption, SomeOf, Key
<1>2. SomeOf({Over(exported, given.environment)})
  BY <1>1 DEF SomeOf, Over
<1>3. IsTree(base) /\ IsTree(env) /\ IsTree(passed)
  BY <1>1, <1>2, SomeIsTree DEF FromEnvironment, FromCaller, ReadEnvironment
<1>4. ASSUME NEW p \in Paths
      PROVE  /\ p \in DOMAIN base /\ base[p] = Defaults[p]
             /\ p \in DOMAIN env <=> p \in DOMAIN exported \/ p \in DOMAIN given.environment
             /\ p \in DOMAIN env =>
                  env[p] = IF p \in DOMAIN given.environment THEN given.environment[p] ELSE exported[p]
             /\ p \in DOMAIN passed <=> p \in DOMAIN given.overrides
             /\ p \in DOMAIN passed => passed[p] = given.overrides[p]
  <2>1. p \in DOMAIN Defaults
    BY DEF Paths
  <2>2. p \in DOMAIN base /\ base[p] = Defaults[p]
    BY <1>1, <2>1, SomeIsTree DEF Mentions
  <2>3. /\ p \in DOMAIN env <=> p \in DOMAIN Over(exported, given.environment)
        /\ p \in DOMAIN env => env[p] = Over(exported, given.environment)[p]
    BY <1>2, SomeIsTree DEF FromEnvironment, ReadEnvironment, Mentions
  <2>4. /\ p \in DOMAIN passed <=> p \in DOMAIN given.overrides
        /\ p \in DOMAIN passed => passed[p] = given.overrides[p]
    BY <1>1, SomeIsTree DEF FromCaller, Mentions
  <2>5. /\ DOMAIN Over(exported, given.environment) = DOMAIN exported \cup DOMAIN given.environment
        /\ p \in DOMAIN exported \cup DOMAIN given.environment =>
             Over(exported, given.environment)[p]
               = IF p \in DOMAIN given.environment THEN given.environment[p] ELSE exported[p]
    BY DEF Over
  <2> HIDE DEF base, env, passed, exported
  <2> QED
    BY <2>2, <2>3, <2>4, <2>5
<1> HIDE DEF base, env, passed, exported
<1>5. /\ IsTree(merged)
      /\ DOMAIN merged = DOMAIN base \cup DOMAIN preview.tree \cup DOMAIN env \cup DOMAIN passed
      /\ \A p \in DOMAIN merged :
           merged[p] = IF p \in DOMAIN passed THEN passed[p]
                       ELSE IF p \in DOMAIN env THEN env[p]
                       ELSE IF p \in DOMAIN preview.tree THEN preview.tree[p] ELSE base[p]
  <2> DEFINE one == DeepMerge(base, preview.tree)
             two == DeepMerge(one, env)
  <2>1. /\ IsTree(one) /\ DOMAIN one = DOMAIN base \cup DOMAIN preview.tree
        /\ \A p \in DOMAIN one : one[p] = IF p \in DOMAIN preview.tree THEN preview.tree[p] ELSE base[p]
    <3>1. /\ IsTree(one) /\ DOMAIN one = DOMAIN base \cup DOMAIN preview.tree
          /\ \A p \in DOMAIN base \cup DOMAIN preview.tree :
               one[p] = IF p \in DOMAIN preview.tree THEN preview.tree[p] ELSE base[p]
      BY <1>3, MergeFacts, Zenon
    <3> HIDE DEF one
    <3> QED
      BY <3>1
  <2> HIDE DEF one
  <2>2. /\ IsTree(two) /\ DOMAIN two = DOMAIN one \cup DOMAIN env
        /\ \A p \in DOMAIN two : two[p] = IF p \in DOMAIN env THEN env[p] ELSE one[p]
    <3>1. /\ IsTree(two) /\ DOMAIN two = DOMAIN one \cup DOMAIN env
          /\ \A p \in DOMAIN one \cup DOMAIN env :
               two[p] = IF p \in DOMAIN env THEN env[p] ELSE one[p]
      BY <1>3, <2>1, MergeFacts, Zenon
    <3> HIDE DEF two
    <3> QED
      BY <3>1
  <2> HIDE DEF two
  <2>3. merged = DeepMerge(two, passed)
    BY DEF Merged, base, one, two
  <2>4. /\ IsTree(merged) /\ DOMAIN merged = DOMAIN two \cup DOMAIN passed
        /\ \A p \in DOMAIN merged : merged[p] = IF p \in DOMAIN passed THEN passed[p] ELSE two[p]
    <3>1. /\ IsTree(merged) /\ DOMAIN merged = DOMAIN two \cup DOMAIN passed
          /\ \A p \in DOMAIN two \cup DOMAIN passed :
               merged[p] = IF p \in DOMAIN passed THEN passed[p] ELSE two[p]
      <4> HIDE DEF merged
      <4> QED
        BY <1>3, <2>2, <2>3, MergeFacts, Zenon
    <3> HIDE DEF merged
    <3> QED
      BY <3>1
  <2> HIDE DEF merged
  <2> QED
    BY <2>1, <2>2, <2>4
<1>6. ASSUME NEW p \in Paths
      PROVE  /\ p \in DOMAIN merged /\ merged[p] = Meant(p)
             /\ (\A tree \in {preview.tree, env, passed} : ~Mentions(tree, p)) <=> Explicit(p) = {}
  <2>1. Kept(p) = IF p \in DOMAIN exported THEN {exported[p]}
                  ELSE IF p \in DOMAIN preview.tree THEN {preview.tree[p]} ELSE {}
    BY DEF exported, Mentions
  <2>2. p \in DOMAIN merged
    BY <1>4, <1>5
  <2> HIDE DEF merged
  <2>3. CASE p \in DOMAIN given.overrides
    <3>1. Explicit(p) = {given.overrides[p]}
      BY <2>3 DEF Explicit
    <3>2. Meant(p) = given.overrides[p]
      BY <3>1 DEF Meant
    <3> QED
      BY <1>4, <1>5, <2>2, <2>3, <3>1, <3>2 DEF Mentions
  <2>4. CASE p \notin DOMAIN given.overrides /\ p \in DOMAIN given.environment
    BY <1>4, <1>5, <2>2, <2>4 DEF Meant, Explicit, Mentions
  <2>5. CASE p \notin DOMAIN given.overrides /\ p \notin DOMAIN given.environment
    <3>1. Explicit(p) = Kept(p)
      BY <2>5 DEF Explicit
    <3> QED
      BY <1>4, <1>5, <2>1, <2>2, <2>5, <3>1 DEF Meant, Mentions
  <2> QED
    BY <2>3, <2>4, <2>5
<1> HIDE DEF merged
<1>7. /\ Paths \subseteq DOMAIN merged
      /\ GetNested(merged, Key) = Meant(Key)
  BY <1>1, <1>6 DEF GetNested
<1>8. IsTree(LoadedSettings) /\ Paths \subseteq DOMAIN LoadedSettings
      /\ \A p \in Paths : LoadedSettings[p] = Expected(p)
  <2>1. CASE Meant(Key) = "production"
    <3> DEFINE quiet == Over(merged, [p \in unasked |-> "False"])
    <3>1. LoadedSettings = quiet
      BY <1>7, <2>1 DEF LoadedSettings, ApplyEnvironmentDefaults, Key, env, passed, merged
    <3>2. unasked \subseteq Paths /\ Paths \subseteq DOMAIN merged
      BY <1>1, <1>7
    <3>3. /\ DOMAIN quiet = DOMAIN merged /\ quiet = [p \in DOMAIN quiet |-> quiet[p]]
          /\ \A p \in DOMAIN merged : quiet[p] = IF p \in unasked THEN "False" ELSE merged[p]
      <4> HIDE DEF unasked
      <4> QED
        BY <3>2 DEF Over
    <3>4. \A p \in Paths : p \in unasked <=> p \in DebugPaths /\ Explicit(p) = {}
      BY <1>6
    <3> HIDE DEF unasked, quiet
    <3>5. IsTree(quiet)
      <4>1. "False" # Section
        BY DEF Section
      <4>2. \A p \in DOMAIN merged : quiet[p] = Section <=> merged[p] = Section
        BY <1>5, <3>2, <3>3, <4>1, SettingFacts DEF IsTree
      <4> QED
        BY <1>5, <3>3, <4>2 DEF IsTree
    <3>6. \A p \in Paths : quiet[p] = Expected(p)
      BY <1>6, <2>1, <3>2, <3>3, <3>4 DEF Expected, InProduction, Key
    <3> QED
      BY <3>1, <3>2, <3>3, <3>5, <3>6
  <2>2. CASE Meant(Key) # "production"
    <3>1. LoadedSettings = merged
      BY <1>7, <2>2 DEF LoadedSettings, ApplyEnvironmentDefaults, Key, env, passed, merged
    <3>2. \A p \in Paths : Expected(p) = Meant(p)
      BY <2>2 DEF Expected, InProduction, Key
    <3> QED
      BY <1>5, <1>6, <1>7, <3>1, <3>2
  <2> QED
    BY <2>1, <2>2
<1>9. LoadedSettings = TreeOf([p \in Paths |-> LoadedSettings[p]])
  BY <1>8, WholeTree
<1>10. [p \in Paths |-> LoadedSettings[p]] = [p \in Paths |-> Expected(p)]
  BY <1>8
<1> QED
  BY <1>9, <1>10

-----------------------------------------------------------------------------
(* The inductive invariant: what is in each variable is what the steps so  *)
(* far have made of the source and of what was given.                      *)
ConfigInv ==
    /\ Sourced
    /\ phase \in {"legacy", "migrated", "loaded"}
    /\ phase = "legacy" => preview = [tree |-> << >>, lines |-> << >>]
    /\ phase # "legacy" =>
         IF source.format = "yaml"
         THEN /\ preview = [tree |-> MigrateYaml(Loaded), lines |-> << >>]
              /\ actions = YamlActions(Loaded)
         ELSE /\ preview = [tree |-> << >>, lines |-> MigrateEnv(source.lines)]
              /\ actions = EnvActions(source.lines)
    /\ phase = "loaded" =>
         /\ given.environment \in Environments /\ given.overrides \in Overrides
         /\ settings = LoadedSettings

LEMMA InitSourced == ConfigInit => Sourced
<1> SUFFICES ASSUME ConfigInit PROVE Sourced
  OBVIOUS
<1>1. SomeOf({<< >>}) /\ IsEnvFile(<< >>) /\ DOMAIN << >> = 1 .. Len(<< >>)
  <2>1. Len(<< >>) = 0 /\ DOMAIN << >> = {} /\ 1 .. 0 = {}
    BY EmptySeq
  <2>2. << >> = [j \in {} |-> << >>[j]]
    OBVIOUS
  <2> QED
    BY <2>1, <2>2 DEF SomeOf, IsEnvFile
<1>2. ASSUME NEW file \in YamlFiles,
             source = [format |-> "yaml", top |-> file[1], root |-> file[2], lines |-> << >>]
      PROVE  Sourced
  <2>1. SomeOf({file[1], file[2]})
    BY ConfigurationAssumption DEF ConfigurationAssumption
  <2> QED
    BY <1>1, <1>2, <2>1 DEF Sourced
<1>3. ASSUME NEW lines \in EnvFiles,
             source = [format |-> "env", top |-> << >>, root |-> << >>, lines |-> lines]
      PROVE  Sourced
  <2>1. /\ lines \in Seq(Lines)
        /\ \A j, k \in 1 .. Len(lines) : Name(lines[j]) = Name(lines[k]) => j = k
    BY ConfigurationAssumption DEF ConfigurationAssumption
  <2>2. /\ DOMAIN lines = 1 .. Len(lines) /\ Len(lines) \in Nat
        /\ lines = [j \in 1 .. Len(lines) |-> lines[j]]
        /\ \A j \in 1 .. Len(lines) : lines[j] \in Lines
    BY <2>1
  <2>3. \A l \in Lines : IsLine(l)
    BY DEF Lines, IsLine
  <2>4. IsEnvFile(lines)
    BY <2>1, <2>2, <2>3 DEF IsEnvFile
  <2>5. SomeOf({<< >>, << >>})
    BY <1>1
  <2> QED
    BY <1>3, <2>2, <2>4, <2>5 DEF Sourced
<1> QED
  BY <1>2, <1>3 DEF ConfigInit

LEMMA ConfigInvHolds == ConfigSpec => []ConfigInv
<1>1. ConfigInit => ConfigInv
  BY InitSourced DEF ConfigInit, ConfigInv
<1>2. ConfigInv /\ [ConfigNext]_configVars => ConfigInv'
  <2> SUFFICES ASSUME ConfigInv, [ConfigNext]_configVars
               PROVE  ConfigInv'
    OBVIOUS
  <2>1. ASSUME UNCHANGED source
        PROVE  Sourced' /\ Loaded' = Loaded
    BY <2>1 DEF ConfigInv, Sourced, Loaded
  <2>2. CASE MigrateLegacyConfig
    <3>1. /\ UNCHANGED source /\ phase = "legacy" /\ phase' = "migrated"
          /\ preview = [tree |-> << >>, lines |-> << >>]
      BY <2>2 DEF MigrateLegacyConfig, ConfigInv
    <3>2. CASE source.format = "yaml"
      <4>1. preview' = [tree |-> MigrateYaml(Loaded), lines |-> << >>] /\ actions' = YamlActions(Loaded)
        BY <2>2, <3>1, <3>2 DEF MigrateLegacyConfig
      <4> QED
        BY <2>1, <3>1, <3>2, <4>1 DEF ConfigInv
    <3>3. CASE source.format # "yaml"
      <4>1. /\ preview' = [tree |-> << >>, lines |-> MigrateEnv(source.lines)]
            /\ actions' = EnvActions(source.lines)
        BY <2>2, <3>1, <3>3 DEF MigrateLegacyConfig
      <4> QED
        BY <2>1, <3>1, <3>3, <4>1 DEF ConfigInv
    <3> QED
      BY <3>2, <3>3
  <2>3. CASE LoadSettings
    <3>1. PICK environment \in Environments, overrides \in Overrides :
            LET env    == ReadEnvironment(Over(Exported(preview.lines), environment))
                passed == TreeOf(overrides)
            IN  /\ given' = [environment |-> environment, overrides |-> overrides]
                /\ settings' = ApplyEnvironmentDefaults(Merged(preview.tree, env, passed),
                                                        {preview.tree, env, passed})
      BY <2>3 DEF LoadSettings
    <3>2. /\ phase = "migrated" /\ phase' = "loaded" /\ UNCHANGED <<source, preview, actions>>
      BY <2>3 DEF LoadSettings
    <3>3. given'.environment = environment /\ given'.overrides = overrides
      BY <3>1
    <3>4. settings' = LoadedSettings'
      BY <3>1, <3>2, <3>3 DEF LoadedSettings, FromEnvironment, FromCaller
    <3> QED
      BY <2>1, <3>2, <3>3, <3>4 DEF ConfigInv
  <2>4. CASE EndProcess
    <3>1. phase = "loaded" /\ phase' = "migrated" /\ UNCHANGED <<source, preview, actions>>
      BY <2>4 DEF EndProcess
    <3> QED
      BY <2>1, <3>1 DEF ConfigInv
  <2>5. CASE UNCHANGED configVars
    <3>1. UNCHANGED <<source, preview, actions, given, settings, phase>>
      BY <2>5 DEF configVars
    <3>2. LoadedSettings' = LoadedSettings
      BY <3>1 DEF LoadedSettings, FromEnvironment, FromCaller
    <3> QED
      BY <2>1, <3>1, <3>2 DEF ConfigInv
  <2> QED
    BY <2>2, <2>3, <2>4, <2>5 DEF ConfigNext
<1> QED
  BY <1>1, <1>2, PTL DEF ConfigSpec

(* What a migration has written is a dictionary of settings, or lines of   *)
(* them, and holds of the source what is meant to be kept.                 *)
LEMMA PreviewFacts ==
    ASSUME ConfigInv, phase # "legacy"
    PROVE  /\ IsTree(preview.tree) /\ SomeOf({Exported(preview.lines)})
           /\ \A p \in Paths :
                Kept(p) = IF p \in DOMAIN Exported(preview.lines) THEN {Exported(preview.lines)[p]}
                          ELSE IF Mentions(preview.tree, p) THEN {preview.tree[p]} ELSE {}
<1>1. Sourced
  BY DEF ConfigInv
<1>2. DOMAIN << >> = {} /\ Len(<< >>) = 0
  BY EmptySeq
<1>3. CASE source.format = "yaml"
  <2>1. preview.tree = MigrateYaml(Loaded) /\ preview.lines = << >>
    BY <1>3 DEF ConfigInv
  <2>2. DOMAIN Exported(preview.lines) = {}
    BY <1>2, <2>1 DEF Exported
  <2>3. SomeOf({Exported(preview.lines)})
    BY <2>2 DEF SomeOf
  <2> QED
    BY <1>1, <1>3, <2>1, <2>2, <2>3, YamlKept
<1>4. CASE source.format = "env"
  <2>1. preview.tree = << >> /\ preview.lines = MigrateEnv(source.lines)
    BY <1>4 DEF ConfigInv
  <2>2. DOMAIN preview.tree = {}
    BY <1>2, <2>1
  <2>3. IsTree(preview.tree)
    <3>1. preview.tree = [p \in {} |-> preview.tree[p]]
      BY <2>1
    <3> QED
      BY <2>2, <3>1 DEF IsTree
  <2> QED
    BY <1>1, <1>4, <2>1, <2>2, <2>3, EnvKept DEF Mentions
<1> QED
  BY <1>1, <1>3, <1>4 DEF Sourced

(* However the settings are nested and in whichever of the sources they    *)
(* are, load_settings returns for each the value of the last source that   *)
(* mentions it.                                                            *)
THEOREM LastSourceWins == ConfigSpec => []LaterSourcesWin
<1>1. ConfigInv => LaterSourcesWin
  <2> SUFFICES ASSUME ConfigInv, phase = "loaded"
               PROVE  settings = TreeOf([p \in Paths |-> Expected(p)])
    BY DEF LaterSourcesWin
  <2>1. /\ given.environment \in Environments /\ given.overrides \in Overrides
        /\ settings = LoadedSettings
    BY DEF ConfigInv
  <2> QED
    BY <2>1, PreviewFacts, SettingsExpected
<1> QED
  BY <1>1, ConfigInvHolds, PTL

(* A migrated file has nothing left to migrate, and what was taken out of  *)
(* it is reported.                                                         *)
THEOREM MigrationComplete == ConfigSpec => []NothingLeftToMigrate
<1>1. ConfigInv => NothingLeftToMigrate
  <2> SUFFICES ASSUME ConfigInv, phase # "legacy"
               PROVE  /\ MigrateYaml(preview.tree) = preview.tree /\ YamlActions(preview.tree) = {}
                      /\ MigrateEnv(preview.lines) = preview.lines /\ EnvActions(preview.lines) = {}
                      /\ \A p \in SecretPaths :
                           /\ ~Mentions(preview.tree, p)
                           /\ InFile(p) \ {None} # {} => Report("remove_secret", p) \in actions
    BY DEF NothingLeftToMigrate
  <2>1. Sourced /\ IsTree(preview.tree)
    BY PreviewFacts DEF ConfigInv
  <2>2. SecretPaths \subseteq Paths /\ PathSettings \subseteq Paths
    BY ConfigurationAssumption DEF ConfigurationAssumption
  <2>3. CASE source.format = "yaml"
    <3> DEFINE lifted == LiftRoot(Loaded)
    <3>1. /\ preview.tree = Without(RewritePaths(lifted), SecretPaths)
          /\ preview.lines = << >> /\ actions = YamlActions(Loaded)
      BY <2>3 DEF ConfigInv, MigrateYaml
    <3>2. /\ IsTree(lifted)
          /\ \A p \in Paths : InFile(p) = IF Mentions(lifted, p) THEN {lifted[p]} ELSE {}
      BY <2>1, <2>3, YamlKept
    <3>3. /\ \A p \in Paths : Mentions(preview.tree, p) <=> Mentions(lifted, p) /\ p \notin SecretPaths
          /\ \A p \in DOMAIN preview.tree :
               preview.tree[p] = IF p \in PathSettings THEN Rewritten(lifted[p]) ELSE lifted[p]
      BY <3>1, <3>2, CleanFacts
    <3>4. \A v : Rewritten(v) \notin DOMAIN Renamed
      BY ConfigurationAssumption DEF ConfigurationAssumption, Rewritten
    <3>5. MigrateYaml(preview.tree) = preview.tree /\ YamlActions(preview.tree) = {}
      <4>1. \A p \in SecretPaths : p \notin DOMAIN preview.tree
        BY <2>2, <3>3 DEF Mentions
      <4>2. \A p \in PathSettings : p \in DOMAIN preview.tree => preview.tree[p] \notin DOMAIN Renamed
        BY <3>3, <3>4
      <4> QED
        BY <2>1, <4>1, <4>2, MigratedAgain
    <3>6. MigrateEnv(preview.lines) = preview.lines /\ EnvActions(preview.lines) = {}
      <4>1. DOMAIN preview.lines = {}
        BY <3>1
      <4>2. preview.lines = [j \in {} |-> preview.lines[j]]
        BY <3>1
      <4> QED
        BY <4>1, <4>2 DEF MigrateEnv, LeftLines, EnvActions
    <3>7. ASSUME NEW p \in SecretPaths
          PROVE  /\ ~Mentions(preview.tree, p)
                 /\ InFile(p) \ {None} # {} => Report("remove_secret", p) \in actions
      <4>1. InFile(p) \ {None} # {} => GetNested(lifted, p) # None
        BY <2>2, <3>2 DEF GetNested, Mentions
      <4> QED
        BY <2>2, <3>1, <3>3, <4>1 DEF YamlActions
    <3> QED
      BY <3>5, <3>6, <3>7
  <2>4. CASE source.format = "env"
    <3>1. /\ preview.tree = << >> /\ preview.lines = MigrateEnv(source.lines)
          /\ actions = EnvActions(source.lines)
      BY <2>4 DEF ConfigInv
    <3>2. DOMAIN preview.tree = {}
      BY <3>1
    <3>3. MigrateYaml(preview.tree) = preview.tree /\ YamlActions(preview.tree) = {}
      BY <2>1, <3>2, MigratedAgain
    <3>4. MigrateEnv(preview.lines) = preview.lines /\ EnvActions(preview.lines) = {}
      BY <2>1, <3>1, MigratedEnv DEF Sourced
    <3>5. ASSUME NEW p \in SecretPaths, InFile(p) # {}
          PROVE  Report("remove_secret", p) \in actions
      <4>1. PICK j \in DOMAIN source.lines : IsSecret(source.lines[j]) /\ source.lines[j].path = p
        BY <2>1, <2>4, <3>5, EnvKept
      <4> QED
        BY <3>1, <4>1 DEF EnvActions
    <3> QED
      BY <3>2, <3>3, <3>4, <3>5 DEF Mentions
  <2> QED
    BY <2>1, <2>3, <2>4 DEF Sourced
<1> QED
  BY <1>1, ConfigInvHolds, PTL
=============================================================================
