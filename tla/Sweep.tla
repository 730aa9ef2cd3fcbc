-------------------------------- MODULE Sweep --------------------------------
(***************************************************************************)
(* The benchmark drivers.  RaceManager.run (web_demo.py) and the advanced  *)
(* driver (cerebras_race_advanced.py) measure one configuration after the  *)
(* other with one CerebrasRaceClient (cfire/_compat.py): they replace its  *)
(* semaphore and then call bulk_complete, AsyncCfire.bulk underneath.  The *)
(* optimizer (cerebras_race_optimizer.py) has its own client, and measures *)
(* all configurations at once, each under a semaphore of its own.  Then    *)
(* the best configuration is raced and the results are saved.              *)
(*                                                                         *)
(* A worker is one request of a batch.  It waits for the limiter and for   *)
(* the semaphore ("waiting"), calls the backend and ends.  Retries and the *)
(* limiter are those of AsyncCfire and RateLimiter: here a call just takes *)
(* its time and is answered or fails.                                      *)
(***************************************************************************)
EXTENDS Results, FiniteSets

CONSTANTS
  Concurrency,     \* the concurrency of each configuration, a sequence
  Requests,        \* requests of a batch
  Default,         \* concurrency the client is made with
  Rates,           \* what a batch can come out with: <<tok_per_sec, req_per_sec, avg_latency = 0>>
  MaxWaves         \* bound: batches of the time-bound race

ASSUME ConfigurationsAssumption == Concurrency \in Seq(Nat) /\ Default \in Nat
ASSUME BatchAssumption == Requests \in Nat
ASSUME RatesAssumption == Rates \subseteq Nat \X Nat \X BOOLEAN

VARIABLES
  driver,          \* "manager", "advanced" or "optimizer"
  metric,          \* what the best configuration is chosen by
  stage,           \* "preflight", "next", "batch", "closing", "over"
  at,              \* the configuration to measure; Race for the final race
  free,            \* free slots: of the client's semaphore, and of each scout's
  worker,          \* state of each worker of each batch
  results,         \* results of each batch, for bulk() by request
  queue,           \* the progress of the current batches in progress_queue, as a set
  summaries,       \* what is known of the configurations measured
  best, race,      \* the summaries of the best configuration and of the race
  waves,           \* batches of the race so far
  ending,          \* "none", "done", "error" or "stopped"
  seen, reservoir  \* Metrics._seen and _reservoir of the client

progress == <<stage, at, summaries, best, race, waves, ending>>
metrics == <<seen, reservoir>>
vars == <<driver, metric, progress, free, worker, results, queue, metrics>>

Race == Len(Concurrency) + 1
Batches == 1..Race
Indices == 1..Requests
Metrics == {"tok/s", "req/s", "balanced"}
None == [config |-> 0, ok |-> 0, tok |-> 0, req |-> 0, instant |-> TRUE]

Init ==
  /\ driver \in {"manager", "advanced", "optimizer"}
  /\ metric \in Metrics
  /\ stage = IF driver = "advanced" THEN "next" ELSE "preflight"
  /\ at = 1
  /\ free = [b \in 0..Race |-> IF b = 0 THEN Default ELSE 0]
  /\ worker = [b \in Batches |-> [i \in Indices |-> "none"]]
  /\ results = [b \in Batches |-> << >>]
  /\ queue = {}
  /\ summaries = << >> /\ best = None /\ race = None /\ waves = 0
  /\ ending = "none"
  /\ seen = 0 /\ reservoir = << >>

\* The batches gather() is waiting for: the scouts of the optimizer run together.
Running ==
  CASE stage # "batch" -> {}
    [] driver = "optimizer" /\ at = 1 -> 1..(Race - 1)
    [] OTHER -> {at}

\* The configuration a batch measures, its concurrency, and its semaphore.
ConfigOf(b) == IF b = Race THEN best.config ELSE b
Limit(b) == Concurrency[ConfigOf(b)]
Sem(b) == IF driver = "optimizer" THEN b ELSE 0

\* Of the drivers only the manager passes a queue; the others could.
Emit(b, i) == queue' = queue \cup {<<b, i>>}

SetWorker(b, i, s) == worker' = [worker EXCEPT ![b][i] = s]
Acquire(b) == free' = [free EXCEPT ![Sem(b)] = @ - 1]
Release(b) == free' = [free EXCEPT ![Sem(b)] = @ + 1]

-----------------------------------------------------------------------------
(* Variants with a mistake somebody could make; each breaks a property below. *)

\* client.concurrency is set, but it is not what complete() waits for.
ReconfigureNumberOnly(bs) == free

\* results.append(r), as the optimizer does.
RecordAsTheyCome(b, i, r) == [results EXCEPT ![b] = Append(@, r)]

\* Only the calls at the backend are cancelled.
CancelledOnlyCalling(s) == IF s = "calling" THEN "unwinding" ELSE s

\* The slot is given back on success only.
FreedAfterAnswer(b, i) == UNCHANGED free

-----------------------------------------------------------------------------
(* Batches. *)

\* client.concurrency = c; client.semaphore = asyncio.Semaphore(c), or the
\* semaphore run_config makes.
Reconfigure(bs) ==
  [s \in DOMAIN free |-> IF \E b \in bs : Sem(b) = s
                           THEN Limit(CHOOSE b \in bs : Sem(b) = s) ELSE free[s]]

\* record_response, for the client's metrics: the latency is the number of the answer.
Measure ==
  IF driver = "optimizer" THEN UNCHANGED metrics
  ELSE seen' = seen + 1 /\ reservoir' \in Observe(reservoir, seen', seen')

\* Preflight: the first request must succeed (the optimizer makes four).
Preflight ==
  /\ stage = "preflight"
  /\ \/ stage' = "next" /\ Measure /\ UNCHANGED ending
     \/ stage' = "closing" /\ ending' = "error" /\ UNCHANGED metrics
  /\ UNCHANGED <<driver, metric, at, summaries, best, race, waves, free, worker, results, queue>>

\* bulk_complete or run_config: gather() makes a task of each worker.
Begin ==
  LET bs == IF driver = "optimizer" /\ at = 1 THEN 1..(Race - 1) ELSE {at}
  IN  /\ stage = "next" /\ (at = Race => best # None)
      /\ stage' = "batch"
      \* The waves of the manager's race share the semaphore made before the first.
      /\ free' = IF waves > 0 THEN free ELSE Reconfigure(bs)
      /\ worker' = [b \in Batches |-> [i \in Indices |-> IF b \in bs THEN "waiting" ELSE "none"]]
      /\ results' = [b \in Batches |-> << >>]
      /\ queue' = {}
      /\ waves' = IF at = Race THEN waves + 1 ELSE waves
      /\ UNCHANGED <<driver, metric, at, summaries, best, race, ending, metrics>>

Call(b, i) ==
  /\ worker[b][i] = "waiting" /\ free[Sem(b)] > 0
  /\ Acquire(b)
  /\ SetWorker(b, i, "calling")
  /\ UNCHANGED <<driver, metric, progress, results, queue, metrics>>

\* Where the result of request i comes among those of the others.
Place(rs, i) ==
  CHOOSE p \in 1..(Len(rs) + 1) : \A k \in DOMAIN rs : rs[k].idx < i <=> k < p

\* bulk(): results[idx] = r, so that filtering out the missing ones keeps the
\* order of the requests; the optimizer appends.
Record(b, i, r) ==
  [results EXCEPT ![b] =
     IF driver = "optimizer" THEN Append(@, r)
     ELSE InsertAt(@, Place(@, i), r)]

\* The backend answers, before the client is closed under the call.
Answer(b, i) ==
  /\ worker[b][i] = "calling" /\ stage # "over"
  /\ Release(b)
  /\ SetWorker(b, i, "done")
  /\ results' = Record(b, i, [idx |-> i, ok |-> TRUE])
  /\ Emit(b, i)
  /\ Measure
  /\ UNCHANGED <<driver, metric, progress>>

Freed(b, i) == Release(b)

\* The call fails for good.  The optimizer's _send_one makes a result of it.
\* In bulk() it ends the worker, and the first worker to fail ends gather()
\* and the batch, while the others go on.
Fail(b, i) ==
  /\ worker[b][i] = "calling"
  /\ Freed(b, i)
  /\ IF driver = "optimizer"
       THEN /\ SetWorker(b, i, "done")
            /\ results' = Record(b, i, [idx |-> i, ok |-> FALSE])
            /\ Emit(b, i)
            /\ UNCHANGED progress
       ELSE /\ SetWorker(b, i, "failed")
            /\ IF b \in Running
                 THEN /\ stage' = "closing" /\ ending' = "error"
                      /\ UNCHANGED <<at, summaries, best, race, waves>>
                 ELSE UNCHANGED progress
            /\ UNCHANGED <<results, queue>>
  /\ UNCHANGED <<driver, metric, metrics>>

-----------------------------------------------------------------------------
(* From batch to batch. *)

Gathered == stage = "batch" /\ \A b \in Running, i \in Indices : worker[b][i] = "done"

\* _summary, summarize_results, _summarize: no success, no rate.
SummariesOf(b) ==
  LET ok == Cardinality({k \in DOMAIN results[b] : results[b][k].ok})
  IN  {[config |-> ConfigOf(b), ok |-> ok, tok |-> r[1], req |-> r[2], instant |-> r[3]] :
         r \in IF ok = 0 THEN {<<0, 0, TRUE>>} ELSE Rates}

\* A sweep point (for the optimizer, all of them) is summarised.
Point ==
  /\ Gathered /\ at # Race
  /\ \E new \in {f \in [Running -> UNION {SummariesOf(b) : b \in Running}] :
                   \A b \in Running : f[b] \in SummariesOf(b)} :
       summaries' = summaries \o [k \in 1..Cardinality(Running) |-> new[at + k - 1]]
  /\ at' = at + Cardinality(Running)
  /\ stage' = "next"
  /\ UNCHANGED <<driver, metric, best, race, waves, ending, free, worker, results, queue,
                 metrics>>

\* The best configuration is chosen; the optimizer raises if there is none.
Candidates == IF driver = "optimizer" THEN Valid(summaries) ELSE DOMAIN summaries

Choose ==
  /\ stage = "next" /\ at = Race /\ best = None
  /\ IF Candidates = {}
       THEN stage' = "closing" /\ ending' = "error" /\ UNCHANGED best
       ELSE best' = Best(summaries, Candidates, metric) /\ UNCHANGED <<stage, ending>>
  /\ UNCHANGED <<driver, metric, at, summaries, race, waves, free, worker, results, queue, metrics>>

\* The race ends: after one batch, or when its time is up.
Raced ==
  /\ Gathered /\ at = Race
  /\ \/ /\ driver = "manager" /\ waves < MaxWaves
        /\ stage' = "next" /\ UNCHANGED <<race, ending>>
     \/ /\ race' \in SummariesOf(at)
        /\ stage' = "closing" /\ ending' = "done"
  /\ UNCHANGED <<driver, metric, at, summaries, best, waves, free, worker, results, queue, metrics>>

\* Stop, or an interrupt: gather() passes the cancellation to all its workers,
\* and raises as soon as one of them has ended.
Cancelled(s) == CASE s = "waiting" -> "cancelled" [] s = "calling" -> "unwinding" [] OTHER -> s

CancelAll == worker' = [b \in Batches |-> [i \in Indices |-> Cancelled(worker[b][i])]]

Stop ==
  /\ stage \in {"preflight", "batch"}
  /\ stage' = "closing" /\ ending' = "stopped"
  /\ CancelAll
  /\ UNCHANGED <<driver, metric, at, summaries, best, race, waves, free, results, queue, metrics>>

\* A cancelled call gives its connection back and its slot.
Unwind(b, i) ==
  /\ worker[b][i] = "unwinding"
  /\ Release(b)
  /\ SetWorker(b, i, "cancelled")
  /\ UNCHANGED <<driver, metric, progress, results, queue, metrics>>

\* The client is closed.  Of the drivers that are programs, asyncio.run then
\* cancels the tasks that are left; the server of the manager keeps them.
Close ==
  /\ stage = "closing"
  /\ stage' = "over"
  /\ IF driver = "manager" THEN UNCHANGED worker ELSE CancelAll
  /\ UNCHANGED <<driver, metric, at, summaries, best, race, waves, ending, free, results, queue,
                 metrics>>

Worker(b, i) == Call(b, i) \/ Answer(b, i) \/ Fail(b, i) \/ Unwind(b, i)
Driver == Preflight \/ Begin \/ Point \/ Choose \/ Raced \/ Close

Next == Driver \/ Stop \/ \E b \in Batches, i \in Indices : Worker(b, i)

Spec == Init /\ [][Next]_vars

\* Fairness: the event loop runs what can go on; a call ends, by the timeout of
\* the transport if nothing else ends it.
FairSpec ==
  Spec /\ WF_vars(Driver) /\ \A b \in Batches, i \in Indices : WF_vars(Worker(b, i))

-----------------------------------------------------------------------------
(* Properties. *)

\* However the semaphore was replaced before, no batch has more calls at the
\* backend at a time than the configuration it measures says, also counting
\* calls that were cancelled and not given back yet.
WithinConcurrency ==
  \A b \in Batches :
    LET calls == {i \in Indices : worker[b][i] \in {"calling", "unwinding"}}
    IN  calls # {} => Cardinality(calls) <= Limit(b)

\* A batch that ends has one result for each request; bulk() has them in the
\* order of the requests whatever the order of the answers, and the progress
\* of every request went out before the point it belongs to.
BatchIsWhole ==
  Gathered =>
    \A b \in Running :
      /\ {results[b][k].idx : k \in DOMAIN results[b]} = Indices /\ Len(results[b]) = Requests
      /\ driver # "optimizer" => \A k \in Indices : results[b][k].idx = k
      /\ \A i \in Indices : <<b, i>> \in queue

\* Once a stop is delivered no request of the run reaches the backend any more,
\* though those at the backend still unwind.
StopsCalling ==
  [][ending = "stopped" => \A b \in Batches, i \in Indices :
        worker'[b][i] = "calling" => worker[b][i] = "calling"]_vars

\* The configuration that is raced is the winner of the report, and the one
\* that the benchmark memory shows first when it loads the saved file, ranked
\* by the same rate; unless nothing was measured, or its rate is not believed.
\* The memory's insights name it as the sustained leader, and their mean rate
\* is not above that of the leader.
BestIsTop ==
  ending = "done" =>
    LET records == LoadData(SaveFile(driver, metric, summaries, best, race))
        told == Insights(records)
    IN  /\ driver # "optimizer" => RaceReport(summaries, metric).winner = best.config
        /\ (driver # "manager" /\ metric # "balanced" /\ Score(best, metric) > 0 /\ IsRealistic(best))
             => Top(records, metric, "sweep")[1].config = best.config
        /\ (driver # "manager" /\ IsRealistic(race)) => told.top_sustained[1].config = best.config
        /\ told.mean > 0 => told.mean <= told.top_tok[1].tok

\* The reservoir holds as many latencies as it can, each observed and none
\* twice (Metrics._observe_latency).
ReservoirFills ==
  /\ Len(reservoir) = IF seen < ReservoirSize THEN seen ELSE ReservoirSize
  /\ ToSet(reservoir) \subseteq 1..seen /\ IsInjective(reservoir)

\* The reservoir is a sample of what was observed, and the percentiles of the
\* report lie in order between its extremes.
ReservoirIsSample ==
  /\ ReservoirFills
  /\ reservoir # << >> =>
       LET P(p) == Percentile(reservoir, p)
       IN  /\ P(0) = 100 * Min(ToSet(reservoir)) /\ P(100) = 100 * Max(ToSet(reservoir))
           /\ P(0) <= P(50) /\ P(50) <= P(99) /\ P(99) <= P(100)

\* Every run comes to its end, and so does every worker, also those a failed
\* batch left behind.
RunEnds ==
  <>(stage = "over" /\ \A b \in Batches, i \in Indices :
       worker[b][i] \in {"none", "done", "failed", "cancelled"})
=============================================================================
