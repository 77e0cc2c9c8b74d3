---------------------------- MODULE RemoteClient ----------------------------
(***************************************************************************)
(* SharedAsyncHttpClient.request_json and its CircuitBreaker               *)
(* (embeddings/remote_http.py): threads that embed or rerank through one   *)
(* remote provider share its semaphore and its breaker.  A request passes  *)
(* the breaker once, then waits for the semaphore, then makes up to        *)
(* max_retries + 1 attempts and tells the breaker the outcome of each.     *)
(***************************************************************************)
EXTENDS Integers, FiniteSets

CONSTANTS
    Callers,         \* threads that send requests
    MaxConcurrency,  \* max_concurrency
    MaxRetries,      \* max_retries
    Threshold        \* circuit_breaker_failures

ASSUME RemoteClientAssumption ==
    /\ IsFiniteSet(Callers)
    /\ MaxConcurrency \in Nat \ {0}
    /\ MaxRetries \in Nat
    /\ Threshold \in Nat \ {0}

VARIABLES
    breaker,   \* _opened_at: None, set less than the reset time ago, or longer
    failures,  \* _failure_count
    permits,   \* free permits of the semaphore
    closed,    \* the client was closed, _client is None
    pc,        \* what each thread is doing, see Locations
    left       \* the retries it has left

vars == <<breaker, failures, permits, closed, pc, left>>

Locations == {"idle", "waiting", "sending", "backoff", "finishing"}

Holding == {c \in Callers : pc[c] \in {"sending", "backoff", "finishing"}}

Init ==
    /\ breaker = "closed"
    /\ failures = 0
    /\ permits = MaxConcurrency
    /\ closed = FALSE
    /\ pc = [c \in Callers |-> "idle"]
    /\ left = [c \in Callers |-> 0]

Goto(c, loc) == pc' = [pc EXCEPT ![c] = loc]

(* mutant: an open breaker never resets *)
PassClosedOnly == breaker = "closed" /\ UNCHANGED <<breaker, failures>>

(* CircuitBreaker.before_request, when it does not raise. *)
PassBreaker ==
    \/ breaker = "closed" /\ UNCHANGED <<breaker, failures>>
    \/ breaker = "elapsed" /\ breaker' = "closed" /\ failures' = 0

(* mutant: the breaker opens one failure late *)
RecordFailureLate ==
    /\ failures' = failures + 1
    /\ breaker' = IF failures' > Threshold THEN "open" ELSE breaker

(* Every failure at or over the threshold sets _opened_at anew. *)
RecordFailure ==
    /\ failures' = failures + 1
    /\ breaker' = IF failures' >= Threshold THEN "open" ELSE breaker

RecordSuccess ==
    /\ failures' = 0
    /\ breaker' = "closed"

-----------------------------------------------------------------------------
Request(c) ==
    /\ pc[c] = "idle"
    /\ PassBreaker
    /\ Goto(c, "waiting")
    /\ UNCHANGED <<permits, closed, left>>

Acquire(c) ==
    /\ pc[c] = "waiting"
    /\ permits > 0
    /\ permits' = permits - 1
    /\ left' = [left EXCEPT ![c] = MaxRetries]
    /\ Goto(c, "sending")
    /\ UNCHANGED <<breaker, failures, closed>>

(* provider_concurrency_limited: the breaker is not told. *)
AcquireTimesOut(c) ==
    /\ pc[c] = "waiting"
    /\ permits = 0
    /\ Goto(c, "idle")
    /\ UNCHANGED <<breaker, failures, permits, closed, left>>

Success(c) ==
    /\ pc[c] = "sending" /\ ~closed
    /\ RecordSuccess
    /\ Goto(c, "finishing")
    /\ UNCHANGED <<permits, closed, left>>

(* mutant: retries are not counted down *)
RetryForever(c) ==
    /\ pc[c] = "sending"
    /\ RecordFailure
    /\ Goto(c, "backoff")
    /\ UNCHANGED <<permits, closed, left>>

(* A timeout, a transport error or a status worth retrying.  The breaker   *)
(* is told and not asked: the retry is sent even if it has just opened.    *)
Retry(c) ==
    /\ pc[c] = "sending" /\ left[c] > 0
    /\ RecordFailure
    /\ left' = [left EXCEPT ![c] = @ - 1]
    /\ Goto(c, "backoff")
    /\ UNCHANGED <<permits, closed>>

Resend(c) ==
    /\ pc[c] = "backoff"
    /\ Goto(c, "sending")
    /\ UNCHANGED <<breaker, failures, permits, closed, left>>

(* The last attempt failed, or failed in a way that is not retried. *)
Fail(c) ==
    /\ pc[c] = "sending"
    /\ RecordFailure
    /\ Goto(c, "finishing")
    /\ UNCHANGED <<permits, closed, left>>

(* Malformed JSON, or an error that is no ProviderError (the portal was    *)
(* stopped under the request), leaves without telling the breaker.         *)
FailUnrecorded(c) ==
    /\ pc[c] = "sending"
    /\ Goto(c, "finishing")
    /\ UNCHANGED <<breaker, failures, permits, closed, left>>

(* mutant: the permit is kept *)
FinishHolding(c) ==
    /\ pc[c] = "finishing"
    /\ Goto(c, "idle")
    /\ UNCHANGED <<breaker, failures, permits, closed, left>>

(* The finally clause. *)
Finish(c) ==
    /\ pc[c] = "finishing"
    /\ permits' = permits + 1
    /\ Goto(c, "idle")
    /\ UNCHANGED <<breaker, failures, closed, left>>

(* reset_after_seconds have passed since _opened_at. *)
ResetElapses ==
    /\ breaker = "open"
    /\ breaker' = "elapsed"
    /\ UNCHANGED <<failures, permits, closed, pc, left>>

Close ==
    /\ ~closed
    /\ closed' = TRUE
    /\ UNCHANGED <<breaker, failures, permits, pc, left>>

Proceed(c) ==
    \/ Acquire(c) \/ AcquireTimesOut(c)
    \/ Success(c) \/ Retry(c) \/ Fail(c) \/ FailUnrecorded(c)
    \/ Resend(c) \/ Finish(c)

Next ==
    \/ \E c \in Callers : Request(c) \/ Proceed(c)
    \/ ResetElapses
    \/ Close

(* Requests that have begun go on (every wait has a timeout), time passes, *)
(* and callers come again.                                                 *)
Fairness ==
    /\ \A c \in Callers : WF_vars(Request(c)) /\ WF_vars(Proceed(c))
    /\ WF_vars(ResetElapses)

Spec == Init /\ [][Next]_vars /\ Fairness

-----------------------------------------------------------------------------
(* The variables hold values of their types, and no path out of a request  *)
(* keeps or invents a permit.                                              *)
TypeOK ==
    /\ breaker \in {"closed", "open", "elapsed"}
    /\ failures \in Nat
    /\ permits \in 0..MaxConcurrency
    /\ permits + Cardinality(Holding) = MaxConcurrency
    /\ closed \in BOOLEAN
    /\ pc \in [Callers -> Locations]
    /\ left \in [Callers -> 0..MaxRetries]

(* The breaker is open, or waiting for its reset to be noticed, exactly    *)
(* when the failures since the last success or reset reach the threshold:  *)
(* neither a late success nor a late failure of a request that passed      *)
(* before it opened, nor two threads at once, separate the two fields.     *)
BreakerAgrees == breaker = "closed" <=> failures < Threshold

(* An open breaker stops the load: once it has opened, only the requests   *)
(* that had passed it can still fail, each at most MaxRetries + 1 times.   *)
FailuresBounded ==
    failures <= Threshold - 1 + Cardinality(Callers) * (MaxRetries + 1)

(* An outage does not outlive itself: however often late failures set      *)
(* _opened_at anew, an open breaker admits requests again.                 *)
Recovers == breaker = "open" ~> breaker = "closed"
=============================================================================
