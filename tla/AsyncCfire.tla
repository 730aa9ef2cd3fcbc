----------------------------- MODULE AsyncCfire -----------------------------
(***************************************************************************)
(* The request pipeline of AsyncCfire (cfire/client.py): cache lookup,     *)
(* rate limiter, semaphore, then attempts through the circuit breaker with *)
(* retries, then the cache write and the metrics.  It composes the         *)
(* CircuitBreaker module, whose caller is a task during one attempt.       *)
(*                                                                         *)
(* Each task makes one request, with complete() or with stream().  An      *)
(* action runs from one suspension point of a task to the next, with one   *)
(* exception: the code enters the breaker right after it gets its slot and *)
(* right after its backoff sleep, and the model lets other tasks run in    *)
(* between (place "attempt"), which only adds behaviours.                  *)
(*                                                                         *)
(* The limiter is a delay here (RateLimiter models it), and the cache is   *)
(* the set of keys that hold a response (MemoryLRU and TieredCache model   *)
(* it); entries may disappear at any moment, by expiry or by eviction.     *)
(***************************************************************************)
EXTENDS Naturals, FiniteSets

CONSTANTS
  Tasks,          \* the concurrent requests
  Streams,        \* those of them made with stream()
  Keys, KeyOf,    \* the cache key of each request
  Concurrency,    \* the initial value of the semaphore
  MaxRetries,     \* RetryPolicy.max_retries
  Threshold, Cooldown     \* of the circuit breaker

ASSUME TasksAssumption == IsFiniteSet(Tasks) /\ Streams \subseteq Tasks
ASSUME KeysAssumption == KeyOf \in [Tasks -> Keys]
ASSUME ConcurrencyAssumption == Concurrency \in Nat \ {0}
ASSUME RetriesAssumption == MaxRetries \in Nat
ASSUME BreakerAssumption == Threshold \in Nat \ {0} /\ Cooldown \in Nat

VARIABLES
  pc,             \* where the task of each request is
  attempt,        \* the attempt counter of _request_with_retry
  free,           \* the value of self.semaphore
  cached,         \* the keys that hold a response
  metrics,        \* the counters of Metrics
  calls,          \* history: how often each request reached the backend
  failure,        \* history: what the latest failed attempt raised
  streak,         \* history: attempts failed since the latest answer, up to Threshold
  quiet,          \* history: ticks since the latest of them, saturating
  state, failures, sinceFailure, inCall, outcome, sinceTrip   \* the breaker

breaker == <<state, failures, sinceFailure, inCall, outcome, sinceTrip>>
outage == <<streak, quiet>>
vars == <<pc, attempt, free, cached, metrics, calls, failure, outage, breaker>>

Breaker == INSTANCE CircuitBreaker WITH Callers <- Tasks

Completions == Tasks \ Streams

\* The places inside "async with self.semaphore".
InSemaphore == {"attempt", "calling", "backoff", "streaming"}

\* The counters of Metrics that a request moves.
Counters == {"requests", "cached", "errors", "retries"}

Ended == {"done", "hit", "failed", "cancelled"}

Init ==
  /\ pc = [t \in Tasks |-> "new"]
  /\ attempt = [t \in Tasks |-> 0]
  /\ free = Concurrency
  /\ cached = {}
  /\ metrics = [m \in Counters |-> 0]
  /\ calls = [t \in Tasks |-> 0]
  /\ failure = [t \in Tasks |-> "none"]
  /\ streak = 0 /\ quiet = Cooldown + 1
  /\ Breaker!Init

GoTo(t, place) == pc' = [pc EXCEPT ![t] = place]

(* Variants with a mistake somebody could make; each breaks a property below. *)

RecordForgettingRetries(counters) ==
  metrics' = [m \in Counters |-> IF m \in counters \ {"retries"} THEN metrics[m] + 1
                                 ELSE metrics[m]]

\* A retry goes to the backend without asking the breaker.
CallUnguarded(t) ==
  /\ pc[t] = "attempt"
  /\ inCall' = inCall \cup {t}
  /\ GoTo(t, "calling")
  /\ calls' = [calls EXCEPT ![t] = @ + 1]
  /\ UNCHANGED <<state, failures, sinceFailure, outcome, sinceTrip>>
  /\ UNCHANGED <<attempt, free, cached, metrics, failure, outage>>

ShouldRetryAnything(t, exc) == attempt[t] < MaxRetries

\* acquire() and release() by hand, without try ... finally.
HandleErrorKeepingSlot(t, exc) ==
  /\ failure' = [failure EXCEPT ![t] = exc]
  /\ LET retries == attempt[t] < MaxRetries /\ exc = "retryable"
     IN  /\ metrics' = [m \in Counters |->
              IF m = "errors" \/ (m = "retries" /\ retries) THEN metrics[m] + 1 ELSE metrics[m]]
         /\ GoTo(t, IF retries THEN "backoff" ELSE "failed")
  /\ UNCHANGED <<free, attempt, cached, calls>>

-----------------------------------------------------------------------------

\* record_response, record_error and record_retry.
Record(counters) ==
  metrics' = [m \in Counters |-> IF m \in counters THEN metrics[m] + 1 ELSE metrics[m]]

-----------------------------------------------------------------------------
(* Before the first attempt. *)

\* The cache answers: record_response, and nothing below the cache is touched.
Hit(t) ==
  /\ pc[t] = "new" /\ t \in Completions /\ KeyOf[t] \in cached
  /\ GoTo(t, "hit")
  /\ Record({"requests", "cached"})
  /\ UNCHANGED <<attempt, free, cached, calls, failure, outage, breaker>>

\* stream() never looks in the cache.
Miss(t) ==
  /\ pc[t] = "new" /\ (t \in Completions => KeyOf[t] \notin cached)
  /\ GoTo(t, "limiter")
  /\ UNCHANGED <<attempt, free, cached, metrics, calls, failure, outage, breaker>>

PassLimiter(t) ==
  /\ pc[t] = "limiter"
  /\ GoTo(t, "semaphore")
  /\ UNCHANGED <<attempt, free, cached, metrics, calls, failure, outage, breaker>>

\* A stream goes straight to the backend: no breaker, no retry.
EnterSemaphore(t) ==
  /\ pc[t] = "semaphore" /\ free > 0
  /\ free' = free - 1
  /\ GoTo(t, IF t \in Streams THEN "streaming" ELSE "attempt")
  /\ calls' = IF t \in Streams THEN [calls EXCEPT ![t] = @ + 1] ELSE calls
  /\ UNCHANGED <<attempt, cached, metrics, failure, outage, breaker>>

-----------------------------------------------------------------------------
(* The loop of _request_with_retry, inside the semaphore. *)

Call(t) ==
  /\ pc[t] = "attempt"
  /\ Breaker!Admit(t)
  /\ GoTo(t, "calling")
  /\ calls' = [calls EXCEPT ![t] = @ + 1]
  /\ UNCHANGED <<attempt, free, cached, metrics, failure, outage>>

\* should_retry: attempts are left and the exception is a RetryableError.
ShouldRetry(t, exc) == attempt[t] < MaxRetries /\ exc = "retryable"

\* The except clause: record_error, then either record_retry and the backoff
\* sleep, or raise, which leaves the semaphore.
HandleError(t, exc) ==
  /\ failure' = [failure EXCEPT ![t] = exc]
  /\ IF ShouldRetry(t, exc)
     THEN /\ Record({"errors", "retries"})
          /\ GoTo(t, "backoff")
          /\ UNCHANGED free
     ELSE /\ Record({"errors"})
          /\ GoTo(t, "failed")
          /\ free' = free + 1
  /\ UNCHANGED <<attempt, cached, calls>>

\* CircuitOpenError is a NonRetryableError.
Refused(t) ==
  /\ pc[t] = "attempt"
  /\ Breaker!Refuse(t)
  /\ HandleError(t, "circuit_open")
  /\ UNCHANGED outage

\* The backend raises, a RetryableError or anything else.
Raised(t) ==
  /\ pc[t] = "calling"
  /\ Breaker!Fail(t)
  /\ \E exc \in {"retryable", "fatal"} : HandleError(t, exc)
  /\ streak' = Breaker!UpTo(Threshold, streak) /\ quiet' = 0

\* The backend answers: the task leaves the semaphore and writes the cache.
Answered(t) ==
  /\ pc[t] = "calling"
  /\ Breaker!Succeed(t)
  /\ free' = free + 1
  /\ GoTo(t, "storing")
  /\ streak' = 0
  /\ UNCHANGED <<attempt, cached, metrics, calls, failure, quiet>>

\* The backoff sleep is over.
Retry(t) ==
  /\ pc[t] = "backoff"
  /\ attempt' = [attempt EXCEPT ![t] = @ + 1]
  /\ GoTo(t, "attempt")
  /\ UNCHANGED <<free, cached, metrics, calls, failure, outage, breaker>>

\* cache.put, then record_response.
Store(t) ==
  /\ pc[t] = "storing"
  /\ cached' = cached \cup {KeyOf[t]}
  /\ Record({"requests"})
  /\ GoTo(t, "done")
  /\ UNCHANGED <<attempt, free, calls, failure, outage, breaker>>

\* A stream is exhausted, or raises: no metrics, no cache, no breaker.
StreamEnds(t) ==
  /\ pc[t] = "streaming"
  /\ free' = free + 1
  /\ \E end \in {"done", "failed"} : GoTo(t, end)
  /\ UNCHANGED <<attempt, cached, metrics, calls, failure, outage, breaker>>

-----------------------------------------------------------------------------
(* The environment. *)

\* The task is cancelled, or its stream closed, at one of its awaits.
Cancel(t) ==
  /\ pc[t] \notin Ended \cup {"attempt"}
  /\ IF pc[t] = "calling" THEN Breaker!Cancel(t) ELSE UNCHANGED breaker
  /\ free' = IF pc[t] \in InSemaphore THEN free + 1 ELSE free
  /\ GoTo(t, "cancelled")
  /\ UNCHANGED <<attempt, cached, metrics, calls, failure, outage>>

Forget(k) ==
  /\ k \in cached
  /\ cached' = cached \ {k}
  /\ UNCHANGED <<pc, attempt, free, metrics, calls, failure, outage, breaker>>

Tick ==
  /\ Breaker!Tick
  /\ quiet' = Breaker!UpTo(Cooldown + 1, quiet)
  /\ UNCHANGED <<pc, attempt, free, cached, metrics, calls, failure, streak>>

\* What a task does of itself, once the backend has answered it.
Step(t) ==
  \/ Hit(t) \/ Miss(t) \/ PassLimiter(t) \/ EnterSemaphore(t)
  \/ Call(t) \/ Refused(t) \/ Raised(t) \/ Answered(t) \/ Retry(t)
  \/ Store(t) \/ StreamEnds(t)

Next ==
  \/ \E t \in Tasks : Step(t) \/ Cancel(t)
  \/ \E k \in Keys : Forget(k)
  \/ Tick

Spec == Init /\ [][Next]_vars

(***************************************************************************)
(* Fairness.  The event loop runs every task that can go on; the limiter   *)
(* lets every request through that fits it; the transport's timeouts end   *)
(* every backend call; the semaphore serves its waiters in turn.           *)
(***************************************************************************)
FairSpec == Spec /\ \A t \in Tasks : WF_vars(Step(t))

-----------------------------------------------------------------------------

TypeOK ==
  /\ pc \in [Tasks -> {"new", "limiter", "semaphore", "attempt", "calling",
                       "backoff", "storing", "streaming"} \cup Ended]
  /\ attempt \in [Tasks -> 0..MaxRetries]
  /\ free \in 0..Concurrency
  /\ cached \subseteq Keys
  /\ metrics \in [Counters -> Nat]
  /\ calls \in [Tasks -> Nat]
  /\ failure \in [Tasks -> {"none", "retryable", "fatal", "circuit_open"}]
  /\ streak \in 0..Threshold /\ quiet \in 0..(Cooldown + 1)
  /\ Breaker!TypeOK

\* How many of the given requests are at one of the given places.
Count(requests, places) == Cardinality({t \in requests : pc[t] \in places})

\* No path through the pipeline, an exception or a cancellation included,
\* leaks a slot of the semaphore or returns one twice; so at most Concurrency
\* requests are at the backend.
SlotsConserved == free + Count(Tasks, InSemaphore) = Concurrency

\* The counters of the dashboard balance: every failed attempt was either
\* retried or is a failed completion, and every response counted was sent.
MetricsBalance ==
  /\ metrics["errors"] = metrics["retries"] + Count(Completions, {"failed"})
  /\ metrics["requests"] = Count(Completions, {"done", "hit"})
  /\ metrics["cached"] = Count(Completions, {"hit"})

\* A request reaches the backend at most 1 + MaxRetries times, whatever it
\* meets on the way, and fails with a retryable error only when it has used
\* all of them.
BoundedAttempts ==
  \A t \in Completions :
    /\ calls[t] <= 1 + MaxRetries
    /\ pc[t] = "failed" /\ failure[t] = "retryable" => calls[t] = 1 + MaxRetries

\* The books of the pipeline: what the dashboard shows of a request is what the
\* request did, and what it did stays within its retry policy.
RequestsAccounted ==
  /\ TypeOK
  /\ MetricsBalance
  /\ BoundedAttempts

\* Only a failure that is worth it is retried: neither a fatal error nor a
\* refusal of the breaker is followed by another call for the same request.
RetriesOnlyRetryable ==
  [][\A t \in Tasks : calls[t] > 0 /\ calls'[t] # calls[t] => failure[t] = "retryable"]_vars

\* A backend that fails is left alone: once Threshold attempts have failed with
\* no answer between them, of whichever requests, none of the completions reaches
\* it within a cooldown of the latest failure.  That holds too for one that slept
\* in its backoff while others failed.  (A stream does not ask the breaker.)
FailingBackendIsLeftAlone ==
  [][\A t \in Completions :
       calls'[t] # calls[t] => streak < Threshold \/ quiet > Cooldown]_vars

\* Every request ends: no task waits for ever for a slot, an answer or a retry.
EveryRequestEnds == \A t \in Tasks : <>(pc[t] \in Ended)
=============================================================================
