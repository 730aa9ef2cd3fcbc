-------------------------- MODULE AsyncCfireProofs --------------------------
(***************************************************************************)
(* The safety of the request pipeline for every set of requests, number of *)
(* slots, retry limit and breaker.                                         *)
(*                                                                         *)
(* The counting invariants follow from one fact, CountMoves: when one task *)
(* moves, the number of tasks in a set of places changes by what the move  *)
(* says and nothing else.                                                  *)
(***************************************************************************)
EXTENDS AsyncCfire, FiniteSetTheorems, TLAPS

\* Only the tasks that await the backend are inside the breaker's call.
CallsMatch == inCall = {t \in Tasks : pc[t] = "calling"}

\* The attempts behind a completion, place by place.
AttemptsCounted ==
  \A t \in Completions :
    /\ pc[t] \in {"new", "limiter", "semaphore", "hit"} =>
         calls[t] = 0 /\ attempt[t] = 0 /\ failure[t] = "none"
    /\ pc[t] = "attempt" =>
         calls[t] = attempt[t] /\ (calls[t] > 0 => failure[t] = "retryable")
    /\ pc[t] \in {"calling", "backoff", "storing", "done"} => calls[t] = attempt[t] + 1
    /\ pc[t] = "backoff" => attempt[t] < MaxRetries /\ failure[t] = "retryable"
    /\ pc[t] # "streaming"
    /\ calls[t] <= 1 + MaxRetries
    /\ pc[t] = "failed" /\ failure[t] = "retryable" => calls[t] = 1 + MaxRetries

\* A stream is at a place of its own, and reaches the backend once.
StreamsApart ==
  \A t \in Streams :
    /\ pc[t] \in {"new", "limiter", "semaphore", "streaming", "done", "failed", "cancelled"}
    /\ pc[t] \in {"new", "limiter", "semaphore"} => calls[t] = 0

\* The types of what the pipeline adds to the breaker.
PipelineTypeOK ==
  /\ pc \in [Tasks -> {"new", "limiter", "semaphore", "attempt", "calling",
                       "backoff", "storing", "streaming"} \cup Ended]
  /\ attempt \in [Tasks -> 0..MaxRetries]
  /\ free \in Nat
  /\ cached \subseteq Keys
  /\ metrics \in [Counters -> Nat]
  /\ calls \in [Tasks -> Nat]
  /\ failure \in [Tasks -> {"none", "retryable", "fatal", "circuit_open"}]

IInv ==
  /\ PipelineTypeOK
  /\ CallsMatch
  /\ AttemptsCounted
  /\ StreamsApart
  /\ SlotsConserved
  /\ MetricsBalance

-----------------------------------------------------------------------------

\* Moving t to place p changes the number of requests at a set of places by
\* one for its arrival and one for its departure.
LEMMA CountMoves ==
  ASSUME NEW C, IsFiniteSet(C), NEW P, NEW t, NEW p, NEW f, NEW g,
         C \subseteq DOMAIN f, g = [f EXCEPT ![t] = p], t \in DOMAIN f,
         NEW S, S = {x \in C : f[x] \in P},
         NEW T, T = {x \in C : g[x] \in P}
  PROVE  /\ Cardinality(S) \in Nat
         /\ t \notin C \/ (p \in P <=> f[t] \in P) => Cardinality(T) = Cardinality(S)
         /\ t \in C /\ p \in P /\ f[t] \notin P => Cardinality(T) = Cardinality(S) + 1
         /\ t \in C /\ p \notin P /\ f[t] \in P => Cardinality(T) = Cardinality(S) - 1
<1>1. IsFiniteSet(S)
  BY FS_Subset
<1>2. Cardinality(S) \in Nat
  BY <1>1, FS_CardinalityType
<1>3. ASSUME t \notin C \/ (p \in P <=> f[t] \in P)
      PROVE  T = S
  BY <1>3
<1>4. ASSUME t \in C, p \in P, f[t] \notin P
      PROVE  T = S \cup {t} /\ t \notin S
  BY <1>4
<1>5. ASSUME t \in C, p \notin P, f[t] \in P
      PROVE  T = S \ {t} /\ t \in S
  BY <1>5
<1>6. ASSUME t \in C, p \in P, f[t] \notin P
      PROVE  Cardinality(T) = Cardinality(S) + 1
  BY <1>1, <1>4, <1>6, FS_AddElement
<1>7. ASSUME t \in C, p \notin P, f[t] \in P
      PROVE  Cardinality(T) = Cardinality(S) - 1
  BY <1>1, <1>5, <1>7, FS_RemoveElement
<1> QED
  BY <1>2, <1>3, <1>6, <1>7

\* CountMoves for the places of the pipeline.
LEMMA PlaceCounts ==
  ASSUME PipelineTypeOK, NEW t \in Tasks, NEW p, pc' = [pc EXCEPT ![t] = p],
         NEW C \in SUBSET Tasks, NEW P
  PROVE  /\ Count(C, P) \in Nat
         /\ t \notin C => Count(C, P)' = Count(C, P)
         /\ p \in P /\ pc[t] \in P => Count(C, P)' = Count(C, P)
         /\ p \notin P /\ pc[t] \notin P => Count(C, P)' = Count(C, P)
         /\ t \in C /\ p \in P /\ pc[t] \notin P => Count(C, P)' = Count(C, P) + 1
         /\ t \in C /\ p \notin P /\ pc[t] \in P => Count(C, P)' = Count(C, P) - 1
<1> DEFINE S == {x \in C : pc[x] \in P}
           T == {x \in C : pc'[x] \in P}
<1>1. IsFiniteSet(C)
  BY TasksAssumption, FS_Subset
<1>2. C \subseteq DOMAIN pc /\ t \in DOMAIN pc
  BY DEF PipelineTypeOK
<1>3. Count(C, P) = Cardinality(S) /\ Count(C, P)' = Cardinality(T)
  BY DEF Count
<1> HIDE DEF S, T
<1>4. S = {x \in C : pc[x] \in P} /\ T = {x \in C : pc'[x] \in P}
  BY DEF S, T
<1> QED
  BY <1>1, <1>2, <1>3, <1>4, CountMoves

\* The initial state satisfies the inductive invariant.
LEMMA InitIInv == Init => IInv
<1> SUFFICES ASSUME Init PROVE IInv
  OBVIOUS
<1> USE DEF Init
<1>1. PipelineTypeOK
  BY ConcurrencyAssumption, RetriesAssumption DEF PipelineTypeOK, Counters
<1>2. CallsMatch /\ AttemptsCounted /\ StreamsApart
  BY TasksAssumption, RetriesAssumption
     DEF CallsMatch, AttemptsCounted, StreamsApart, Completions, Breaker!Init
<1>3. ASSUME NEW C \in SUBSET Tasks, NEW P, "new" \notin P
      PROVE  Count(C, P) = 0
  <2>1. {x \in C : pc[x] \in P} = {}
    BY <1>3
  <2> QED
    BY <2>1, FS_EmptySet DEF Count
<1>4. SlotsConserved
  BY <1>3, ConcurrencyAssumption DEF SlotsConserved, InSemaphore
<1>5. MetricsBalance
  BY <1>3 DEF MetricsBalance, Completions, Counters
<1> QED
  BY <1>1, <1>2, <1>4, <1>5 DEF IInv

\* Every step preserves the types.
LEMMA TypePreserved == IInv /\ [Next]_vars => PipelineTypeOK'
<1> SUFFICES ASSUME IInv, [Next]_vars PROVE PipelineTypeOK'
  OBVIOUS
<1> USE TasksAssumption, RetriesAssumption DEF IInv, PipelineTypeOK, Ended, GoTo, Record, Counters
<1>1. ASSUME NEW t \in Tasks, Hit(t) PROVE PipelineTypeOK'
  <2>1. metrics' \in [Counters -> Nat]
    BY <1>1 DEF Hit
  <2> QED
    BY <1>1, <2>1 DEF Hit
<1>2. ASSUME NEW t \in Tasks, Miss(t) PROVE PipelineTypeOK'
  BY <1>2 DEF Miss
<1>3. ASSUME NEW t \in Tasks, PassLimiter(t) PROVE PipelineTypeOK'
  BY <1>3 DEF PassLimiter
<1>4. ASSUME NEW t \in Tasks, EnterSemaphore(t) PROVE PipelineTypeOK'
  BY <1>4 DEF EnterSemaphore
<1>5. ASSUME NEW t \in Tasks, Call(t) PROVE PipelineTypeOK'
  BY <1>5 DEF Call
<1>6. ASSUME NEW t \in Tasks, Refused(t) PROVE PipelineTypeOK'
  BY <1>6 DEF Refused, HandleError, ShouldRetry
<1>7. ASSUME NEW t \in Tasks, Raised(t) PROVE PipelineTypeOK'
  <2>1. PICK exc \in {"retryable", "fatal"} : HandleError(t, exc)
    BY <1>7 DEF Raised
  <2>2. CASE ShouldRetry(t, exc)
    <3>1. metrics' \in [Counters -> Nat]
      BY <2>1, <2>2 DEF HandleError
    <3> QED
      BY <2>1, <2>2, <3>1 DEF HandleError
  <2>3. CASE ~ShouldRetry(t, exc)
    BY <2>1, <2>3 DEF HandleError
  <2> QED
    BY <2>2, <2>3
<1>8. ASSUME NEW t \in Tasks, Answered(t) PROVE PipelineTypeOK'
  BY <1>8 DEF Answered
<1>9. ASSUME NEW t \in Tasks, Retry(t) PROVE PipelineTypeOK'
  BY <1>9 DEF Retry, AttemptsCounted, StreamsApart, Completions
<1>10. ASSUME NEW t \in Tasks, Store(t) PROVE PipelineTypeOK'
  <2>1. metrics' \in [Counters -> Nat]
    BY <1>10 DEF Store
  <2>2. cached' \subseteq Keys
    BY <1>10, KeysAssumption DEF Store
  <2> QED
    BY <1>10, <2>1, <2>2 DEF Store
<1>11. ASSUME NEW t \in Tasks, StreamEnds(t) PROVE PipelineTypeOK'
  BY <1>11 DEF StreamEnds
<1>12. ASSUME NEW t \in Tasks, Cancel(t) PROVE PipelineTypeOK'
  BY <1>12 DEF Cancel
<1>13. ASSUME NEW k \in Keys, Forget(k) PROVE PipelineTypeOK'
  BY <1>13 DEF Forget
<1>14. CASE Tick
  BY <1>14 DEF Tick
<1>15. CASE UNCHANGED vars
  BY <1>15 DEF vars
<1> QED
  BY <1>1, <1>2, <1>3, <1>4, <1>5, <1>6, <1>7, <1>8, <1>9, <1>10, <1>11, <1>12, <1>13, <1>14, <1>15 DEF Next, Step

\* Every step keeps the account of attempts, and the breaker's callers.
LEMMA AttemptsPreserved ==
  IInv /\ [Next]_vars => CallsMatch' /\ AttemptsCounted' /\ StreamsApart'
<1> DEFINE Goal == CallsMatch /\ AttemptsCounted /\ StreamsApart
<1> SUFFICES ASSUME IInv, [Next]_vars PROVE Goal'
  OBVIOUS
<1> USE TasksAssumption, RetriesAssumption
    DEF IInv, PipelineTypeOK, CallsMatch, AttemptsCounted, StreamsApart,
        Completions, Ended, GoTo
<1>1. ASSUME NEW t \in Tasks, Hit(t) PROVE Goal'
  BY <1>1 DEF Hit, breaker
<1>2. ASSUME NEW t \in Tasks, Miss(t) PROVE Goal'
  BY <1>2 DEF Miss, breaker
<1>3. ASSUME NEW t \in Tasks, PassLimiter(t) PROVE Goal'
  BY <1>3 DEF PassLimiter, breaker
<1>4. ASSUME NEW t \in Tasks, EnterSemaphore(t) PROVE Goal'
  BY <1>4 DEF EnterSemaphore, breaker
<1>5. ASSUME NEW t \in Tasks, Call(t) PROVE Goal'
  BY <1>5 DEF Call, Breaker!Admit
<1>6. ASSUME NEW t \in Tasks, Refused(t) PROVE Goal'
  BY <1>6 DEF Refused, HandleError, ShouldRetry, Breaker!Refuse
<1>7. ASSUME NEW t \in Tasks, Raised(t) PROVE Goal'
  BY <1>7 DEF Raised, HandleError, ShouldRetry, Breaker!Fail
<1>8. ASSUME NEW t \in Tasks, Answered(t) PROVE Goal'
  BY <1>8 DEF Answered, Breaker!Succeed
<1>9. ASSUME NEW t \in Tasks, Retry(t) PROVE Goal'
  BY <1>9 DEF Retry, breaker
<1>10. ASSUME NEW t \in Tasks, Store(t) PROVE Goal'
  BY <1>10 DEF Store, breaker
<1>11. ASSUME NEW t \in Tasks, StreamEnds(t) PROVE Goal'
  BY <1>11 DEF StreamEnds, breaker
<1>12. ASSUME NEW t \in Tasks, Cancel(t) PROVE Goal'
  BY <1>12 DEF Cancel, breaker, Breaker!Cancel
<1>13. ASSUME NEW k \in Keys, Forget(k) PROVE Goal'
  BY <1>13 DEF Forget, breaker
<1>14. CASE Tick
  BY <1>14 DEF Tick, Breaker!Tick
<1>15. CASE UNCHANGED vars
  BY <1>15 DEF vars, breaker
<1> QED
  BY <1>1, <1>2, <1>3, <1>4, <1>5, <1>6, <1>7, <1>8, <1>9, <1>10, <1>11, <1>12, <1>13, <1>14, <1>15 DEF Next, Step

\* What the move of t to place p adds to the count of C at the places P.
Change(t, p, C, P) ==
  IF t \notin C \/ (p \in P <=> pc[t] \in P) THEN 0 ELSE IF p \in P THEN 1 ELSE 0 - 1

\* The counts that the invariants are about, after a move: PlaceCounts for
\* the four of them.
LEMMA CountsAfterMove ==
  ASSUME IInv, NEW t \in Tasks, NEW p, GoTo(t, p)
  PROVE  /\ Count(Tasks, InSemaphore)' =
              Count(Tasks, InSemaphore) + Change(t, p, Tasks, InSemaphore)
         /\ Count(Completions, {"failed"})' =
              Count(Completions, {"failed"}) + Change(t, p, Completions, {"failed"})
         /\ Count(Completions, {"done", "hit"})' =
              Count(Completions, {"done", "hit"}) + Change(t, p, Completions, {"done", "hit"})
         /\ Count(Completions, {"hit"})' =
              Count(Completions, {"hit"}) + Change(t, p, Completions, {"hit"})
<1>1. PipelineTypeOK /\ pc' = [pc EXCEPT ![t] = p]
  BY DEF IInv, GoTo
<1>2. ASSUME NEW C \in SUBSET Tasks, NEW P
      PROVE  Count(C, P)' = Count(C, P) + Change(t, p, C, P)
  <2>1. /\ Count(C, P) \in Nat
        /\ t \notin C => Count(C, P)' = Count(C, P)
        /\ p \in P /\ pc[t] \in P => Count(C, P)' = Count(C, P)
        /\ p \notin P /\ pc[t] \notin P => Count(C, P)' = Count(C, P)
        /\ t \in C /\ p \in P /\ pc[t] \notin P => Count(C, P)' = Count(C, P) + 1
        /\ t \in C /\ p \notin P /\ pc[t] \in P => Count(C, P)' = Count(C, P) - 1
    BY <1>1, PlaceCounts, ZenonT(30)
  <2> QED
    BY <2>1 DEF Change
<1>3. Completions \in SUBSET Tasks /\ Tasks \in SUBSET Tasks
  BY DEF Completions
<1> QED
  BY <1>2, <1>3

\* The counts are naturals.
LEMMA CountsAreNaturals ==
  IInv => /\ Count(Tasks, InSemaphore) \in Nat
          /\ Count(Completions, {"failed"}) \in Nat
          /\ Count(Completions, {"done", "hit"}) \in Nat
          /\ Count(Completions, {"hit"}) \in Nat
<1>1. ASSUME NEW C \in SUBSET Tasks, NEW P PROVE Count(C, P) \in Nat
  <2>1. IsFiniteSet({x \in C : pc[x] \in P})
    BY TasksAssumption, FS_Subset
  <2> QED
    BY <2>1, FS_CardinalityType DEF Count
<1> QED
  BY <1>1 DEF Completions

\* Every step keeps the slots and the metrics balanced.
LEMMA CountsPreserved ==
  IInv /\ [Next]_vars => SlotsConserved' /\ MetricsBalance'
<1> DEFINE Goal == SlotsConserved /\ MetricsBalance
<1> SUFFICES ASSUME IInv, [Next]_vars PROVE Goal'
  OBVIOUS
<1>c. /\ Count(Tasks, InSemaphore) \in Nat
      /\ Count(Completions, {"failed"}) \in Nat
      /\ Count(Completions, {"done", "hit"}) \in Nat
      /\ Count(Completions, {"hit"}) \in Nat
  BY CountsAreNaturals
<1>t. /\ free \in Nat /\ Concurrency \in Nat
      /\ metrics \in [Counters -> Nat]
      /\ \A t \in Completions : t \in Tasks /\ t \notin Streams /\ pc[t] # "streaming"
      /\ \A t \in Streams : pc[t] \notin {"attempt", "calling", "backoff", "storing"}
  BY ConcurrencyAssumption
     DEF IInv, PipelineTypeOK, AttemptsCounted, StreamsApart, Completions
<1> USE <1>c, <1>t DEF IInv, SlotsConserved, MetricsBalance, InSemaphore, Record, Counters, Change
<1>1. ASSUME NEW t \in Tasks, Hit(t) PROVE Goal'
  BY <1>1, CountsAfterMove DEF Hit
<1>2. ASSUME NEW t \in Tasks, Miss(t) PROVE Goal'
  BY <1>2, CountsAfterMove DEF Miss
<1>3. ASSUME NEW t \in Tasks, PassLimiter(t) PROVE Goal'
  BY <1>3, CountsAfterMove DEF PassLimiter
<1>4. ASSUME NEW t \in Tasks, EnterSemaphore(t) PROVE Goal'
  <2>1. CASE t \in Streams
    BY <1>4, <2>1, CountsAfterMove DEF EnterSemaphore
  <2>2. CASE t \notin Streams
    BY <1>4, <2>2, CountsAfterMove DEF EnterSemaphore
  <2> QED
    BY <2>1, <2>2
<1>5. ASSUME NEW t \in Tasks, Call(t) PROVE Goal'
  BY <1>5, CountsAfterMove DEF Call
<1>6. ASSUME NEW t \in Tasks, Refused(t) PROVE Goal'
  <2>1. PICK exc : HandleError(t, exc)
    BY <1>6 DEF Refused
  <2>2. t \in Completions /\ pc[t] \in {"attempt", "calling"}
    BY <1>6, TasksAssumption DEF Refused, Completions
  <2>3. CASE ShouldRetry(t, exc)
    BY <2>1, <2>2, <2>3, CountsAfterMove DEF HandleError
  <2>4. CASE ~ShouldRetry(t, exc)
    BY <2>1, <2>2, <2>4, CountsAfterMove DEF HandleError
  <2> QED
    BY <2>3, <2>4
<1>7. ASSUME NEW t \in Tasks, Raised(t) PROVE Goal'
  <2>1. PICK exc : HandleError(t, exc)
    BY <1>7 DEF Raised
  <2>2. t \in Completions /\ pc[t] \in {"attempt", "calling"}
    BY <1>7, TasksAssumption DEF Raised, Completions
  <2>3. CASE ShouldRetry(t, exc)
    BY <2>1, <2>2, <2>3, CountsAfterMove DEF HandleError
  <2>4. CASE ~ShouldRetry(t, exc)
    BY <2>1, <2>2, <2>4, CountsAfterMove DEF HandleError
  <2> QED
    BY <2>3, <2>4
<1>8. ASSUME NEW t \in Tasks, Answered(t) PROVE Goal'
  BY <1>8, CountsAfterMove DEF Answered
<1>9. ASSUME NEW t \in Tasks, Retry(t) PROVE Goal'
  BY <1>9, CountsAfterMove DEF Retry
<1>10. ASSUME NEW t \in Tasks, Store(t) PROVE Goal'
  <2>1. t \in Completions /\ GoTo(t, "done")
    BY <1>10 DEF Store, Completions
  <2> QED
    BY <1>10, <2>1, CountsAfterMove DEF Store
<1>11. ASSUME NEW t \in Tasks, StreamEnds(t) PROVE Goal'
  <2>1. PICK end \in {"done", "failed"} : GoTo(t, end)
    BY <1>11 DEF StreamEnds
  <2>2. t \notin Completions
    BY <1>11 DEF StreamEnds
  <2> QED
    BY <1>11, <2>1, <2>2, CountsAfterMove DEF StreamEnds
<1>12. ASSUME NEW t \in Tasks, Cancel(t) PROVE Goal'
  BY <1>12, CountsAfterMove DEF Cancel, Ended
<1>13. ASSUME NEW k \in Keys, Forget(k) PROVE Goal'
  BY <1>13 DEF Forget, Count
<1>14. CASE Tick
  BY <1>14 DEF Tick, Count
<1>15. CASE UNCHANGED vars
  BY <1>15 DEF vars, Count
<1> QED
  BY <1>1, <1>2, <1>3, <1>4, <1>5, <1>6, <1>7, <1>8, <1>9, <1>10, <1>11, <1>12, <1>13, <1>14, <1>15 DEF Next, Step

\* The inductive invariant holds in every reachable state.
THEOREM Invariance == Spec => []IInv
<1>1. IInv /\ [Next]_vars => IInv'
  BY TypePreserved, AttemptsPreserved, CountsPreserved DEF IInv
<1> QED
  BY <1>1, InitIInv, PTL DEF Spec

\* The semaphore's slots are conserved on every path of the pipeline, the
\* counters balance, and no request exceeds its attempts.
THEOREM PipelineSafety == Spec => [](SlotsConserved /\ MetricsBalance /\ BoundedAttempts)
<1>1. IInv => SlotsConserved /\ MetricsBalance /\ BoundedAttempts
  BY DEF IInv, AttemptsCounted, BoundedAttempts
<1> QED
  BY <1>1, Invariance, PTL

\* No request goes back to the backend after a failure that is not retryable,
\* a refusal of the breaker included.
THEOREM OnlyRetryableRetried == Spec => RetriesOnlyRetryable
<1> DEFINE Fair == \A t \in Tasks : calls[t] > 0 /\ calls'[t] # calls[t] => failure[t] = "retryable"
<1>1. IInv /\ [Next]_vars => [Fair]_vars
  <2> SUFFICES ASSUME IInv, Next, NEW t \in Tasks, calls[t] > 0, calls'[t] # calls[t]
               PROVE  failure[t] = "retryable"
    BY DEF Fair
  <2>1. calls \in [Tasks -> Nat]
    BY DEF IInv, PipelineTypeOK
  <2>2. PICK u \in Tasks : EnterSemaphore(u) \/ Call(u)
    BY DEF Next, Step, Hit, Miss, PassLimiter, Refused, Raised, HandleError, Answered,
           Retry, Store, StreamEnds, Cancel, Forget, Tick
  <2>3. CASE EnterSemaphore(u)
    BY <2>1, <2>3 DEF EnterSemaphore, IInv, StreamsApart
  <2>4. CASE Call(u)
    <3>1. u = t /\ pc[t] = "attempt"
      BY <2>1, <2>4 DEF Call
    <3>2. t \in Completions
      BY <3>1 DEF IInv, StreamsApart, Completions
    <3> QED
      BY <3>1, <3>2 DEF IInv, AttemptsCounted
  <2> QED
    BY <2>2, <2>3, <2>4
<1> QED
  BY <1>1, Invariance, PTL DEF Spec, RetriesOnlyRetryable

\* The pipeline moves its breaker only by the steps of CircuitBreaker, so that what
\* is proved of that module can be used here.
LEMMA BreakerSteps == Spec => Breaker!Spec
<1>1. Init => Breaker!Init
  BY DEF Init
<1>2. [Next]_vars => [Breaker!Next]_(Breaker!vars)
  <2> SUFFICES ASSUME [Next]_vars PROVE [Breaker!Next]_(Breaker!vars)
    OBVIOUS
  <2>1. ASSUME NEW t \in Tasks, Call(t) \/ Refused(t) \/ Raised(t) \/ Answered(t)
        PROVE  Breaker!Next
    BY <2>1 DEF Call, Refused, Raised, Answered, Breaker!Next
  <2>2. ASSUME NEW t \in Tasks,
               \/ Hit(t) \/ Miss(t) \/ PassLimiter(t) \/ EnterSemaphore(t)
               \/ Retry(t) \/ Store(t) \/ StreamEnds(t)
        PROVE  UNCHANGED Breaker!vars
    BY <2>2 DEF Hit, Miss, PassLimiter, EnterSemaphore, Retry, Store, StreamEnds,
                breaker, Breaker!vars
  <2>3. ASSUME NEW t \in Tasks, Cancel(t)
        PROVE  [Breaker!Next]_(Breaker!vars)
    BY <2>3 DEF Cancel, breaker, Breaker!vars, Breaker!Next
  <2>4. ASSUME NEW k \in Keys, Forget(k)
        PROVE  UNCHANGED Breaker!vars
    BY <2>4 DEF Forget, breaker, Breaker!vars
  <2>5. CASE Tick
    BY <2>5 DEF Tick, Breaker!Next
  <2>6. CASE UNCHANGED vars
    BY <2>6 DEF vars, breaker, Breaker!vars
  <2> QED
    BY <2>1, <2>2, <2>3, <2>4, <2>5, <2>6 DEF Next, Step
<1> QED
  BY <1>1, <1>2, PTL DEF Spec, Breaker!Spec

-----------------------------------------------------------------------------
(* What is proved of CircuitBreaker, carried over to the breaker here. *)

Proved == INSTANCE CircuitBreakerProofs WITH Callers <- Tasks

\* The breaker of the pipeline has the types, and the safety, of the module.
THEOREM BreakerInPipeline == Spec => []Breaker!BreakerInvariant
<1>0. Threshold \in Nat \ {0} /\ Cooldown \in Nat
  BY BreakerAssumption
<1> USE DEF Breaker!Elapsed, Proved!Elapsed, Breaker!FailureCap, Proved!FailureCap
<1>1. Proved!Init <=> Breaker!Init
  BY DEF Proved!Init, Breaker!Init
<1>2. [Proved!Next]_(Proved!vars) <=> [Breaker!Next]_(Breaker!vars)
  BY DEF Proved!vars, Breaker!vars, Proved!Next, Breaker!Next,
         Proved!Admit, Breaker!Admit, Proved!Refuse, Breaker!Refuse,
         Proved!Fail, Breaker!Fail, Proved!Succeed, Breaker!Succeed,
         Proved!Cancel, Breaker!Cancel, Proved!Tick, Breaker!Tick,
         Proved!UpTo, Breaker!UpTo, Proved!CooledDown, Breaker!CooledDown
<1>3. Proved!BreakerInvariant <=> Breaker!BreakerInvariant
  BY DEF Proved!BreakerInvariant, Breaker!BreakerInvariant, Proved!TypeOK, Breaker!TypeOK,
         Proved!ClosedBelowThreshold, Breaker!ClosedBelowThreshold,
         Proved!OpenWhileCooling, Breaker!OpenWhileCooling,
         Proved!CooldownFromLatestFailure, Breaker!CooldownFromLatestFailure
<1>4. Proved!Spec => []Proved!BreakerInvariant
  BY <1>0, Proved!Invariance DEF Proved!ThresholdAssumption, Proved!CooldownAssumption
<1> QED
  BY <1>1, <1>2, <1>3, <1>4, BreakerSteps, PTL DEF Proved!Spec, Breaker!Spec

-----------------------------------------------------------------------------
(* What the breaker is for: a backend that fails is left alone. *)

\* The breaker has the count of the outage that the requests have seen.
OutageKnown ==
  /\ streak = IF failures < Threshold THEN failures ELSE Threshold
  /\ quiet = sinceFailure
  /\ streak = Threshold /\ quiet <= Cooldown => state = "open"

LEMMA OutageStaysKnown ==
  OutageKnown /\ Breaker!BreakerInvariant /\ [Next]_vars => OutageKnown'
<1> SUFFICES ASSUME OutageKnown, Breaker!BreakerInvariant, [Next]_vars PROVE OutageKnown'
  OBVIOUS
<1>1. /\ Threshold \in Nat \ {0} /\ Cooldown \in Nat
      /\ failures \in 0..(Threshold + 1) /\ sinceFailure \in 0..(Cooldown + 1)
  BY BreakerAssumption DEF Breaker!BreakerInvariant, Breaker!TypeOK, Breaker!FailureCap, Breaker!Elapsed
<1>2. CASE UNCHANGED <<outage, state, failures, sinceFailure>>
  BY <1>2 DEF OutageKnown, outage
<1>3. ASSUME NEW t \in Tasks, Call(t) PROVE OutageKnown'
  BY <1>1, <1>3 DEF Call, Breaker!Admit, Breaker!CooledDown, OutageKnown, outage
<1>4. ASSUME NEW t \in Tasks, Raised(t) PROVE OutageKnown'
  <2>1. /\ failures' = IF failures < Threshold + 1 THEN failures + 1 ELSE Threshold + 1
        /\ streak' = IF streak < Threshold THEN streak + 1 ELSE Threshold
        /\ quiet' = 0 /\ sinceFailure' = 0
        /\ state' = IF failures + 1 >= Threshold /\ state # "open" THEN "open" ELSE state
    BY <1>4 DEF Raised, Breaker!Fail, Breaker!UpTo, Breaker!FailureCap
  <2> QED
    BY <1>1, <2>1 DEF OutageKnown
<1>5. ASSUME NEW t \in Tasks, Answered(t) PROVE OutageKnown'
  BY <1>1, <1>5 DEF Answered, Breaker!Succeed, OutageKnown
<1>6. CASE Tick
  BY <1>1, <1>6 DEF Tick, Breaker!Tick, Breaker!UpTo, Breaker!Elapsed, OutageKnown
<1>7. ASSUME NEW t \in Tasks,
             \/ Hit(t) \/ Miss(t) \/ PassLimiter(t) \/ EnterSemaphore(t) \/ Refused(t)
             \/ Retry(t) \/ Store(t) \/ StreamEnds(t) \/ Cancel(t)
      PROVE  UNCHANGED <<outage, state, failures, sinceFailure>>
  BY <1>7 DEF Hit, Miss, PassLimiter, EnterSemaphore, Refused, Retry, Store, StreamEnds, Cancel,
              breaker, outage, Breaker!Refuse, Breaker!Cancel
<1>8. ASSUME NEW k \in Keys, Forget(k) PROVE UNCHANGED <<outage, state, failures, sinceFailure>>
  BY <1>8 DEF Forget, breaker
<1>9. CASE UNCHANGED vars
  BY <1>2, <1>9 DEF vars, breaker
<1> QED
  BY <1>2, <1>3, <1>4, <1>5, <1>6, <1>7, <1>8, <1>9 DEF Next, Step

LEMMA OutageIsKnown == Spec => []OutageKnown
<1>1. Init => OutageKnown
  BY BreakerAssumption DEF Init, Breaker!Init, Breaker!Elapsed, OutageKnown
<1> QED
  BY <1>1, OutageStaysKnown, BreakerInPipeline, PTL DEF Spec

\* For any requests and settings: Threshold failed attempts in a row, of whichever
\* requests, keep every completion away from the backend for a cooldown after the
\* latest of them, late failures of calls under way included.
THEOREM BackendIsLeftAlone == Spec => FailingBackendIsLeftAlone
<1> DEFINE LeftAlone ==
      \A t \in Completions : calls'[t] # calls[t] => streak < Threshold \/ quiet > Cooldown
<1>1. IInv /\ OutageKnown /\ Breaker!BreakerInvariant /\ [Next]_vars => [LeftAlone]_vars
  <2> SUFFICES ASSUME IInv, OutageKnown, Breaker!BreakerInvariant, Next,
                      NEW t \in Completions, calls'[t] # calls[t]
               PROVE  streak < Threshold \/ quiet > Cooldown
    BY DEF LeftAlone
  <2>1. calls \in [Tasks -> Nat] /\ t \in Tasks /\ t \notin Streams
    BY DEF IInv, PipelineTypeOK, Completions
  <2>2. PICK u \in Tasks : EnterSemaphore(u) \/ Call(u)
    BY DEF Next, Step, Hit, Miss, PassLimiter, Refused, Raised, HandleError, Answered,
           Retry, Store, StreamEnds, Cancel, Forget, Tick
  <2>3. ~ EnterSemaphore(u)
    BY <2>1 DEF EnterSemaphore
  <2>4. state = "open" => sinceFailure > Cooldown
    BY <2>2, <2>3 DEF Call, Breaker!Admit, Breaker!CooledDown
  <2>5. failures \in Nat /\ sinceFailure \in Nat /\ Threshold \in Nat /\ Cooldown \in Nat
    BY BreakerAssumption
       DEF Breaker!BreakerInvariant, Breaker!TypeOK, Breaker!FailureCap, Breaker!Elapsed
  <2> QED
    BY <2>4, <2>5 DEF OutageKnown
<1> QED
  BY <1>1, Invariance, OutageIsKnown, BreakerInPipeline, PTL DEF Spec, FailingBackendIsLeftAlone

-----------------------------------------------------------------------------

\* Type correctness of the whole pipeline, the bound on the free slots included.
THEOREM TypeCorrect == Spec => []TypeOK
<1>1. IInv /\ Breaker!BreakerInvariant /\ OutageKnown => TypeOK
  <2> SUFFICES ASSUME IInv, Breaker!BreakerInvariant, OutageKnown PROVE TypeOK
    OBVIOUS
  <2>1. free \in 0..Concurrency
    BY CountsAreNaturals, ConcurrencyAssumption DEF IInv, PipelineTypeOK, SlotsConserved
  <2>2. streak \in 0..Threshold /\ quiet \in 0..(Cooldown + 1)
    BY BreakerAssumption
       DEF OutageKnown, Breaker!BreakerInvariant, Breaker!TypeOK, Breaker!FailureCap, Breaker!Elapsed
  <2> QED
    BY <2>1, <2>2 DEF IInv, PipelineTypeOK, TypeOK, Breaker!BreakerInvariant
<1> QED
  BY <1>1, Invariance, BreakerInPipeline, OutageIsKnown, PTL

\* The state keeps its types, the counters balance, and no request exceeds its
\* attempts, whatever the other requests and the breaker do.
THEOREM RequestsAreAccounted == Spec => []RequestsAccounted
BY TypeCorrect, PipelineSafety, PTL DEF RequestsAccounted
=============================================================================
