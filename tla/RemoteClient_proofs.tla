------------------------ MODULE RemoteClient_proofs ------------------------
(***************************************************************************)
(* Proofs about the shared provider client, for any number of callers,     *)
(* permits and retries and any threshold.                                  *)
(***************************************************************************)
EXTENDS RemoteClient, FiniteSetTheorems, TLAPS

(* The typing of the variables; TypeOK adds the conservation of permits.   *)
Typed ==
    /\ breaker \in {"closed", "open", "elapsed"}
    /\ failures \in Nat
    /\ permits \in Int
    /\ closed \in BOOLEAN
    /\ pc \in [Callers -> Locations]
    /\ left \in [Callers -> 0..MaxRetries]

LEMMA TypedInit == Init => Typed
<1> SUFFICES ASSUME Init PROVE Typed
    OBVIOUS
<1>1. 0 \in 0..MaxRetries /\ MaxConcurrency \in Int
    BY RemoteClientAssumption
<1> QED
    BY <1>1 DEF Init, Typed, Locations

LEMMA TypedStep == Typed /\ [Next]_vars => Typed'
<1> SUFFICES ASSUME Typed, [Next]_vars PROVE Typed'
    OBVIOUS
<1> USE RemoteClientAssumption DEF Typed, Locations, Goto, RecordFailure
<1>1. ASSUME NEW c \in Callers, Request(c) PROVE Typed'
    BY <1>1 DEF Request, PassBreaker
<1>2. ASSUME NEW c \in Callers, Acquire(c) \/ AcquireTimesOut(c) PROVE Typed'
    BY <1>2 DEF Acquire, AcquireTimesOut
<1>3. ASSUME NEW c \in Callers, Success(c) PROVE Typed'
    BY <1>3 DEF Success, RecordSuccess
<1>4. ASSUME NEW c \in Callers, Retry(c) PROVE Typed'
    BY <1>4 DEF Retry
<1>5. ASSUME NEW c \in Callers, Fail(c) PROVE Typed'
    BY <1>5 DEF Fail
<1>6. ASSUME NEW c \in Callers, FailUnrecorded(c) \/ Resend(c) \/ Finish(c)
      PROVE  Typed'
    BY <1>6 DEF FailUnrecorded, Resend, Finish
<1>7. ASSUME ResetElapses \/ Close PROVE Typed'
    BY <1>7 DEF ResetElapses, Close
<1>8. CASE UNCHANGED vars
    BY <1>8 DEF vars
<1> QED
    BY <1>1, <1>2, <1>3, <1>4, <1>5, <1>6, <1>7, <1>8 DEF Next, Proceed

-----------------------------------------------------------------------------
(* Permits: the free ones and the callers that hold one add up.            *)
Conserved == /\ IsFiniteSet(Holding)
             /\ permits + Cardinality(Holding) = MaxConcurrency
             /\ permits >= 0

LEMMA ConservedInit == Init => Conserved
<1> SUFFICES ASSUME Init PROVE Conserved
    OBVIOUS
<1>1. Holding = {}
    BY DEF Init, Holding
<1> QED
    BY <1>1, FS_EmptySet, RemoteClientAssumption DEF Init, Conserved

LEMMA ConservedStep == Typed /\ Conserved /\ [Next]_vars => Conserved'
<1> SUFFICES ASSUME Typed, Conserved, [Next]_vars PROVE Conserved'
    OBVIOUS
<1>0. /\ IsFiniteSet(Holding)
      /\ Cardinality(Holding) \in Nat
      /\ permits + Cardinality(Holding) = MaxConcurrency
      /\ permits \in Int /\ permits >= 0
    BY FS_CardinalityType DEF Conserved, Typed
<1>1. ASSUME NEW c \in Callers, Acquire(c) PROVE Conserved'
    <2>1. Holding' = Holding \cup {c} /\ c \notin Holding
        BY <1>1 DEF Acquire, Typed, Goto, Holding
    <2>2. IsFiniteSet(Holding') /\ Cardinality(Holding') = Cardinality(Holding) + 1
        BY <1>0, <2>1, FS_AddElement
    <2>3. permits' = permits - 1 /\ permits > 0
        BY <1>1 DEF Acquire
    <2> QED
        BY <1>0, <2>2, <2>3 DEF Conserved
<1>2. ASSUME NEW c \in Callers, Finish(c) PROVE Conserved'
    <2>1. Holding' = Holding \ {c} /\ c \in Holding
        BY <1>2 DEF Finish, Typed, Goto, Holding
    <2>2. IsFiniteSet(Holding') /\ Cardinality(Holding') = Cardinality(Holding) - 1
        BY <1>0, <2>1, FS_RemoveElement
    <2>3. permits' = permits + 1
        BY <1>2 DEF Finish
    <2> QED
        BY <1>0, <2>2, <2>3 DEF Conserved
<1>3. ASSUME UNCHANGED <<permits, Holding>> PROVE Conserved'
    BY <1>3 DEF Conserved
<1>4. ASSUME NEW c \in Callers, Request(c) \/ AcquireTimesOut(c)
      PROVE  UNCHANGED <<permits, Holding>>
    BY <1>4 DEF Request, AcquireTimesOut, Typed, Goto, Holding
<1>5. ASSUME NEW c \in Callers,
             Success(c) \/ Retry(c) \/ Fail(c) \/ FailUnrecorded(c) \/ Resend(c)
      PROVE  UNCHANGED <<permits, Holding>>
    BY <1>5 DEF Success, Retry, Fail, FailUnrecorded, Resend, Typed, Goto, Holding
<1>6. ASSUME ResetElapses \/ Close \/ UNCHANGED vars
      PROVE  UNCHANGED <<permits, Holding>>
    BY <1>6 DEF ResetElapses, Close, vars, Holding
<1> QED
    BY <1>1, <1>2, <1>3, <1>4, <1>5, <1>6 DEF Next, Proceed

LEMMA TypedConserved == Typed /\ Conserved => TypeOK
<1> SUFFICES ASSUME Typed, Conserved PROVE TypeOK
    OBVIOUS
<1>1. Cardinality(Holding) \in Nat
    BY FS_CardinalityType DEF Conserved
<1> QED
    BY <1>1, RemoteClientAssumption DEF Typed, Conserved, TypeOK

(* The type invariant: permits are never lost, however a request ends.     *)
THEOREM TypeCorrect == Spec => []TypeOK
<1>1. Typed /\ Conserved /\ [Next]_vars => (Typed /\ Conserved)'
    BY TypedStep, ConservedStep
<1> QED
    BY <1>1, TypedInit, ConservedInit, TypedConserved, PTL DEF Spec

-----------------------------------------------------------------------------
LEMMA AgreesStep == Typed /\ BreakerAgrees /\ [Next]_vars => BreakerAgrees'
<1> SUFFICES ASSUME Typed, BreakerAgrees, [Next]_vars PROVE BreakerAgrees'
    OBVIOUS
<1> USE RemoteClientAssumption DEF Typed, BreakerAgrees
<1>1. ASSUME NEW c \in Callers, Request(c) PROVE BreakerAgrees'
    BY <1>1 DEF Request, PassBreaker
<1>2. ASSUME NEW c \in Callers, Success(c) PROVE BreakerAgrees'
    BY <1>2 DEF Success, RecordSuccess
<1>3. ASSUME NEW c \in Callers, Retry(c) \/ Fail(c) PROVE BreakerAgrees'
    BY <1>3 DEF Retry, Fail, RecordFailure
<1>4. ASSUME NEW c \in Callers,
             \/ Acquire(c) \/ AcquireTimesOut(c) \/ FailUnrecorded(c)
             \/ Resend(c) \/ Finish(c)
      PROVE  BreakerAgrees'
    BY <1>4 DEF Acquire, AcquireTimesOut, FailUnrecorded, Resend, Finish
<1>5. ASSUME ResetElapses \/ Close \/ UNCHANGED vars PROVE BreakerAgrees'
    BY <1>5 DEF ResetElapses, Close, vars
<1> QED
    BY <1>1, <1>2, <1>3, <1>4, <1>5 DEF Next, Proceed

(* The breaker is closed exactly while the failures are under the threshold. *)
THEOREM BreakerConsistent == Spec => []BreakerAgrees
<1>1. Init => BreakerAgrees
    BY RemoteClientAssumption DEF Init, BreakerAgrees
<1>2. Typed /\ BreakerAgrees /\ [Next]_vars => (Typed /\ BreakerAgrees)'
    BY TypedStep, AgreesStep
<1> QED
    BY <1>1, <1>2, TypedInit, PTL DEF Spec

-----------------------------------------------------------------------------
(* The attempts that requests past the breaker may still make: all of them *)
(* before the semaphore is acquired, left + 1 afterwards.                  *)
Attempts == Callers \X (0..MaxRetries)
Pending == {a \in Attempts :
              \/ pc[a[1]] = "waiting"
              \/ pc[a[1]] \in {"sending", "backoff"} /\ a[2] <= left[a[1]]}

(* Each failure past the threshold uses up a pending attempt.              *)
Budget == Threshold - 1 + Cardinality(Callers) * (MaxRetries + 1)
WithinBudget == failures + Cardinality(Pending) <= Budget

LEMMA AttemptsFinite ==
    /\ IsFiniteSet(Attempts)
    /\ Cardinality(Attempts) = Cardinality(Callers) * (MaxRetries + 1)
    /\ Cardinality(Callers) \in Nat
<1>1. IsFiniteSet(0..MaxRetries) /\ Cardinality(0..MaxRetries) = MaxRetries + 1
    BY FS_Interval, RemoteClientAssumption
<1> QED
    BY <1>1, FS_Product, FS_CardinalityType, RemoteClientAssumption DEF Attempts

LEMMA PendingFinite ==
    /\ IsFiniteSet(Pending)
    /\ Cardinality(Pending) \in Nat
    /\ Cardinality(Pending) <= Cardinality(Attempts)
<1>1. Pending \in SUBSET Attempts
    BY DEF Pending
<1> QED
    BY <1>1, AttemptsFinite, FS_Subset, FS_CardinalityType

(* Below the threshold the budget holds whatever is pending.               *)
LEMMA BelowThreshold ==
    ASSUME failures \in Nat, failures < Threshold
    PROVE  WithinBudget
<1>1. Cardinality(Callers) * (MaxRetries + 1) \in Nat
    BY AttemptsFinite, RemoteClientAssumption
<1>2. Cardinality(Pending) <= Cardinality(Callers) * (MaxRetries + 1)
    BY PendingFinite, AttemptsFinite
<1> QED
    BY <1>1, <1>2, PendingFinite, RemoteClientAssumption DEF WithinBudget, Budget

LEMMA BudgetStep ==
    Typed /\ BreakerAgrees /\ WithinBudget /\ [Next]_vars => WithinBudget'
<1> SUFFICES ASSUME Typed, BreakerAgrees, WithinBudget, [Next]_vars
             PROVE  WithinBudget'
    OBVIOUS
<1> USE RemoteClientAssumption
<1>b. Budget \in Int
    BY AttemptsFinite DEF Budget
<1>p. Cardinality(Pending)' \in Nat /\ IsFiniteSet(Pending)'
    <2>1. Pending' \in SUBSET Attempts
        BY DEF Pending, Attempts
    <2> QED
        BY <2>1, AttemptsFinite, FS_Subset, FS_CardinalityType
<1>t. Typed' /\ BreakerAgrees'
    BY TypedStep, AgreesStep
<1>low. ASSUME failures' < Threshold PROVE WithinBudget'
    <2>1. Pending' \in SUBSET Attempts
        BY DEF Pending, Attempts
    <2>2. Cardinality(Pending') <= Cardinality(Attempts)
        BY <2>1, AttemptsFinite, FS_Subset
    <2>3. Cardinality(Callers) * (MaxRetries + 1) \in Nat
        BY AttemptsFinite
    <2> QED
        BY <1>low, <1>t, <1>p, <2>2, <2>3, AttemptsFinite
        DEF Typed, WithinBudget, Budget
<1>less. ASSUME failures' = failures, Pending' \subseteq Pending
         PROVE  WithinBudget'
    <2>1. Cardinality(Pending') <= Cardinality(Pending)
        BY <1>less, PendingFinite, FS_Subset
    <2> QED
        BY <1>less, <1>b, <1>p, <2>1, PendingFinite DEF Typed, WithinBudget, Budget
<1>1. ASSUME NEW c \in Callers, Request(c) PROVE WithinBudget'
    BY <1>1, <1>low DEF Request, PassBreaker, BreakerAgrees
<1>2. ASSUME NEW c \in Callers, Success(c) PROVE WithinBudget'
    BY <1>2, <1>low DEF Success, RecordSuccess
<1>3. ASSUME NEW c \in Callers, Retry(c) \/ Fail(c) PROVE WithinBudget'
    <2> DEFINE used == <<c, left[c]>>
    <2>1. used \in Pending
        BY <1>3 DEF Retry, Fail, Pending, Attempts, Typed
    <2>2. Pending' \subseteq Pending \ {used}
        <3> SUFFICES ASSUME NEW a \in Pending' PROVE a \in Pending /\ a # used
            OBVIOUS
        <3>1. CASE Retry(c)
            BY <3>1 DEF Retry, Goto, Pending, Attempts, Typed, Locations
        <3>2. CASE Fail(c)
            BY <3>2 DEF Fail, Goto, Pending, Attempts, Typed, Locations
        <3> QED
            BY <1>3, <3>1, <3>2
    <2>3. /\ IsFiniteSet(Pending \ {used})
          /\ Cardinality(Pending \ {used}) = Cardinality(Pending) - 1
        BY <2>1, PendingFinite, FS_RemoveElement
    <2>4. Cardinality(Pending') <= Cardinality(Pending) - 1
        BY <2>2, <2>3, FS_Subset
    <2>5. failures' = failures + 1
        BY <1>3 DEF Retry, Fail, RecordFailure
    <2> QED
        BY <1>b, <1>p, <2>4, <2>5, PendingFinite DEF Typed, WithinBudget, Budget
<1>4. ASSUME NEW c \in Callers, Acquire(c) PROVE WithinBudget'
    <2>1. Pending' \subseteq Pending
        BY <1>4 DEF Acquire, Goto, Pending, Attempts, Typed, Locations
    <2> QED
        BY <1>4, <2>1, <1>less DEF Acquire
<1>5. ASSUME NEW c \in Callers,
             AcquireTimesOut(c) \/ FailUnrecorded(c) \/ Resend(c) \/ Finish(c)
      PROVE  WithinBudget'
    <2>1. Pending' \subseteq Pending
        BY <1>5 DEF AcquireTimesOut, FailUnrecorded, Resend, Finish, Goto,
                    Pending, Attempts, Typed, Locations
    <2> QED
        BY <1>5, <2>1, <1>less DEF AcquireTimesOut, FailUnrecorded, Resend, Finish
<1>6. ASSUME ResetElapses \/ Close \/ UNCHANGED vars PROVE WithinBudget'
    BY <1>6, <1>less DEF ResetElapses, Close, vars, Pending
<1> QED
    BY <1>1, <1>2, <1>3, <1>4, <1>5, <1>6 DEF Next, Proceed

(* An open breaker stops the load: the failure count cannot outgrow the    *)
(* attempts of the requests that had passed it.                            *)
THEOREM LoadStops == Spec => []FailuresBounded
<1>1. Init => Typed /\ BreakerAgrees /\ WithinBudget
    <2> SUFFICES ASSUME Init PROVE Typed /\ BreakerAgrees /\ WithinBudget
        OBVIOUS
    <2>1. failures \in Nat /\ failures < Threshold /\ BreakerAgrees
        BY RemoteClientAssumption DEF Init, BreakerAgrees
    <2> QED
        BY <2>1, TypedInit, BelowThreshold
<1>2. Typed /\ BreakerAgrees /\ WithinBudget /\ [Next]_vars
        => (Typed /\ BreakerAgrees /\ WithinBudget)'
    BY TypedStep, AgreesStep, BudgetStep
<1>3. Typed /\ WithinBudget => FailuresBounded
    BY PendingFinite, AttemptsFinite, RemoteClientAssumption
    DEF Typed, WithinBudget, Budget, FailuresBounded
<1> QED
    BY <1>1, <1>2, <1>3, PTL DEF Spec
=============================================================================
