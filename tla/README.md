# cfire in TLA+

A verification development for the repository: the `cfire` SDK (an asyncio
client for Cerebras Inference with a cache, a rate limiter, a circuit breaker
and retries), its fork `cfire-diffusion` (which adds a router over backends),
the benchmark drivers, and the FastAPI dashboard `web_demo.py` with the monitor
and the agents behind it. Paths are relative to `src/`.

## 1. The system

### Components

| Component | State | Operations | Correct when | Modules |
|---|---|---|---|---|
| `CircuitBreaker`, `cfire/reliability.py:40-107` | `state`, `failures`, `last_failure` | `call`: admission, answer, failure, cancellation | no call passes within a cooldown of a trip; it recovers | `CircuitBreaker`, `BreakerStates`, `CircuitBreakerProofs` |
| `RetryPolicy`, `reliability.py:121-154` | none | `should_retry`, `delay_for` | bounded attempts; only retryable failures | in `AsyncCfire` |
| `DualRateLimiter`, `reliability.py:159-231` | two logs, the condition's waiters | `acquire` | both budgets in every window; no lost wakeup | `RateLimiter`, `RequestPathProofs` |
| `AsyncCfire`, `cfire/client.py` | the semaphore, and the parts above | `complete`, `stream`, `bulk` | slots are conserved; a failing backend is left alone; every request ends; metrics balance | `AsyncCfire`, `AsyncCfireProofs`; `bulk` in `Sweep` |
| `Metrics`, `cfire/metrics.py` | counters, a latency reservoir | `record_*`, `percentile` | counters balance; the reservoir is a sample | counters in `AsyncCfire`, reservoir in `Results`, `SweepProofs` |
| `MemoryLRU`, `cfire/cache.py:53-106` | `_store`, `_expiry` | `get`, `put`, `aclose` | dictionaries in step; bounded; LRU; never stale | `MemoryLRU`, `MemoryLRUHistory`, `ForgetfulCache`, `RequestPathProofs` |
| `RedisCache`, `TieredCache`, `cache.py:111-213` | the tiers, the Redis server | `get` with read-repair, `put`, `aclose` | keys never crossed; staleness bounded | `TieredCache`, `RequestPathProofs` |
| `Transport` and backends | the HTTP client | `open`, `aclose`, requests | a request on a closed client ends in an error | `Transport`, in `SyncFacade` and `Router` |
| `parse_sse_stream`, `cfire/streaming.py` | a buffer | blocks, lines, end marker | what is read is what the text means | `SseStream`, `SyncFacadeProofs` |
| `Cfire`, `cfire/_sync.py` | a loop in a thread | `submit`, `complete`, `stream`, `close` | no caller blocks for ever; closed before the loop stops | `SyncFacade`, `SyncFacadeProofs` |
| `Router`, `cfire-diffusion/cfire/router.py` | the backends and their order | `open`, `complete`, `stream`, `aclose` | backends tried in turn, once each; latest error | `Router`, `RequestPathProofs` |
| Benchmark drivers: `cerebras_race_optimizer.py`, `cerebras_race_advanced.py`, `RaceManager.run`, over `cfire/_compat.py` | a semaphore that is swapped, workers, summaries | preflight, scouts, choice, race | the bound of each batch; whole batches; a stop stops | `Sweep`, `Results`, `SweepProofs` |
| `BenchmarkMemory`, `benchmark_memory.py` | records of saved files | load, `top`, `insights` | agrees with the drivers about the winner | `Results`, `SweepProofs` |
| `RaceManager`, `NewsManager`, SSE streams, `web_demo.py` | `task`, `status`, `results`, `queue`, a generator per page | `start`, `stop`, `run`, `event_stream` | runs settle; stops are honoured; streams end | `RunManager`, `WebDemoProofs` |
| `HeadroomMonitor`, `headroom.py` | a thread, an open file, a meter, queues | `start`, `stop`, `subscribe`, tail, broadcast | each line once; subscribers served while their streams stand | `Headroom`, `WebDemoProofs` |
| `NewsAgentTeam`, `news_agents.py` | scouts in parallel, then a commander | `search` | every scout reports first; best entries | `NewsTeam`, `AgentsProofs` |
| `VisionOpsAgent`, `vision_ops/agent.py` | a lazily opened client, a callback | `analyze`, `analyze_stream`, reply parsing | the own outcome last; callback put back; replies read | `VisionAgent`, `DiagnosisParser`, `AgentsProofs` |
| Streaming test, `web_demo.py:678-747` and `static/index.html:1604-1667` | an `EventSource`, two buttons | press, answer, events | the page shows the truth of the latest test | `SpeedTest`, `WebDemoProofs` |
| Models and configuration, media and smoke-test scripts, placeholders | | | | not modelled |

### How they interact

`AsyncCfire.complete` is one task per request on one event loop. It asks the
cache, waits in the limiter, takes a slot of the semaphore, and calls the
backend through the breaker inside a retry loop; it writes the cache and counts
the answer after giving the slot back. A `Router` may stand in place of the
backend. `Cfire` runs that loop in a thread for callers in other threads. The
drivers send batches through `CerebrasRaceClient`, which replaces the semaphore
between them. The managers of the dashboard own a client each, run it in a task
that HTTP handlers start and cancel, and put events into a queue from which the
generators of the SSE streams take. The Headroom monitor is a thread that fills
a bounded queue per page. Files the drivers save are read by `BenchmarkMemory`.

### What is hard

* Calls overlap. Answers to calls admitted before a trip arrive while the
  breaker is open or half-open, in any order.
* Cancellation is not an `Exception`: it passes by every `except Exception` and
  leaves only what `async with` and `finally` clean up.
* Callers sleep for computed times, and are woken by others in between.
* State is read, then awaited on, then used: a lookup at Redis during which the
  key is stored anew, a status tested after an event was sent, a client that is
  closed under a request.
* One of several fails: a worker of a batch, a backend, a feed, a scout.
* Files rotate, lines and blocks arrive in halves, answers end early.

`PROJECT.json` lists the hazards at their lines, with the properties that cover them.

## 2. Modules

| Module | Models | Built on |
|---|---|---|
| `BreakerStates` | abstract: the three states of the breaker's docstring and a "cooling" flag | |
| `CircuitBreaker` | `call()` as critical sections around an await | implements `BreakerStates` |
| `RateLimiter` | one pass of the loop of `acquire` per action; the wait set | |
| `AsyncCfire` | the pipeline of one request per task | `INSTANCE CircuitBreaker WITH Callers <- Tasks` |
| `ForgetfulCache` | abstract: a cache may miss, never lie | |
| `MemoryLRU`, `MemoryLRUHistory` | the store and its expiries; with what was stored and the order of use | implements `ForgetfulCache` |
| `TieredCache` | the two tiers with requests in flight | EXTENDS `MemoryLRU` |
| `Transport` | the HTTP client's life and the classes of errors | |
| `SseStream` | the parser over a response that comes in pieces, and what a text means | |
| `SyncFacade` | threads, jobs on the loop, warm-up, close and shutdown | EXTENDS `Transport`, `SseStream` |
| `Router` | one request over any deployment, between open and close | the errors of `Transport` |
| `Rankings` | pure: Python's sort, forwards and reversed, by where each place ends up | |
| `Results` | pure: reservoir, percentiles, scores, ranking, report, saved file, benchmark memory | EXTENDS `Rankings` |
| `Sweep` | the three drivers, their batches, workers and stops | EXTENDS `Results` |
| `RunManager` | both managers and the streams of their events | |
| `Headroom` | log, tail, monitor thread, meter, subscribers, pages | |
| `NewsTeam`, `VisionAgent`, `DiagnosisParser` | the agents, and the reading of a reply | `NewsTeam` EXTENDS `Rankings` |
| `SpeedTest` | endpoint, connection and page | |
| `Lemmas` | induction over numbers, and what a ranking is | EXTENDS `Rankings` |
| `CircuitBreakerProofs` | theorems on the breaker (section 4) | EXTENDS `CircuitBreaker` |
| `AsyncCfireProofs` | on the pipeline | EXTENDS `AsyncCfire`, INSTANCE `CircuitBreakerProofs` |
| `RequestPathProofs` | on the limiter, the memory cache, the two tiers and the router | EXTENDS `RateLimiter`, `TieredCache`, `Router`, `Lemmas` |
| `SyncFacadeProofs` | on the facade and the SSE parser | EXTENDS `SyncFacade`, `Lemmas` |
| `SweepProofs` | on the drivers, the reservoir and the best configuration | EXTENDS `Sweep`, `Lemmas` |
| `WebDemoProofs` | on the managers, the streaming test and the Headroom monitor | EXTENDS `RunManager`, `SpeedTest`, `Headroom` |
| `AgentsProofs` | on the news team, the vision agent and the reading of its replies | EXTENDS `NewsTeam`, `VisionAgent`, `DiagnosisParser`, `Lemmas` |

The `MC` modules give constants their values. Four of them put components that
share nothing beside each other, each explored while the others are at rest
(so the spaces add up and do not multiply): `MCSharedParts` the limiter and the
memory cache, `MCRequestPath` the cache's tiers, the router and the streaming
test, `MCDashboard` the managers and the Headroom monitor, `MCAgents` the
agents.

Actions carry the names of what they do: `Admit`, `Refuse`, `Fail`, `Succeed`
and `Cancel` are the ways through `CircuitBreaker.call`; `Reserve` and `Sleep`
the two ends of a pass of `acquire`; `Hit` ... `Store` the steps of `complete`;
`Begin` ... `Close` those of `RaceManager.run`; `Preflight`, `Point`, `Choose`,
`Raced` the stages of a driver, and `Acquire`, `Answer`, `Fail`, `Unwind` those
of one of its workers; `OpenLog`, `StatLog`, `ReadLogLine`, `CheckRotation` the
passes of `tail_log`. `map` in `PROJECT.json` gives the lines of each.
Definitions under the heading "Variants with a mistake somebody could make" are
not part of the models: each replaces a definition to show that a property notices.

`cfire-diffusion/cfire` repeats `reliability.py`, `cache.py`, `client.py`,
`metrics.py`, `exceptions.py`, `streaming.py` and `_sync.py` byte for byte, and
`transport.py` up to six lines without a part in the models. The models
describe both copies; some definitions are mapped to one copy and some to the
other.

### Abstractions

* **Atomicity.** asyncio switches tasks only at an await that suspends, so an
  action is the code between two suspensions. Where a model allows a switch
  that the code does not have (between taking a slot and entering the breaker),
  it only adds behaviours. Threads (`SyncFacade`, `Headroom`) step at each
  access to shared state.
* **Time.** Absolute times become differences: `sinceFailure` is
  `clock() - last_failure`, an entry of the limiter has an age, an expiry is a
  number of ticks left. Those that are only compared saturate just above what
  they are compared with, which loses nothing. Elsewhere a timeout is an event
  that may come at any moment.
* **Data.** Prompts, responses and exceptions are told apart by identity or by
  class, lines of a log or an answer by what the code asks of them, rates by
  small numbers. The three content rules of the router decide one bit.
* **Redis** is a map that may fail on any call, in which case `RedisCache.get`
  answers `None` and `put` does nothing, as its `except` clauses do.

## 3. What is checked

| Run | Instance | Shows |
|---|---|---|
| `breaker` | 3 callers, threshold 2, cooldown 2 | safety, refinement of `BreakerStates`, and that it closes for good once the backend answers |
| `shared` | limiter: requests of 1, 2, 3 and 4 tokens, 2 requests and 3 tokens per window of 3 ticks; cache: 3 keys, room for 2, times to live 0 and 2 | budgets, no missed wakeup, waiters get through; dictionaries in step, eviction in the order of use, refinement of `ForgetfulCache` |
| `client` | 2 completions of one prompt and a stream; 2 slots, 1 retry, threshold 2, cooldown 1 | slots, metrics, attempts, a failing backend left alone for a cooldown, every request ends |
| `path` | tiers: 2 requests, 2 keys, room for 1 in memory, 2 stores, times to live 2 in memory and 3 in Redis, round trips up to 1 tick; router: every sequence of up to 3 backends, both policies, both kinds of request, 1 retry, 2 chunks; 3 tests with 2 buttons, answers of up to 4 lines | keys never crossed, age of what is served below both times to live and two of the longest round trips, also around `aclose`; order of attempts and error reported; the page shows the latest test truthfully and its button stops |
| `dashboard` | 2 runs, 2 streams, progress while fewer than 2 events are queued, both managers; 4 lines in one write or two, 2 files, 1 page, queue of 1 | runs settle, stops are honoured, reports have results, runs and streams end; each line once and in order, snapshots tell of them, a page is current while its stream stands and a connection that is over loses its place, lines in reach are counted |
| `sync` | 2 threads, one of which owns the client; 1 retry; 4 texts cut and broken off anywhere | the client is closed before the loop stops, streams are faithful, callers return |
| `sweep` | 2 configurations of concurrency 2 and 1, 2 requests a batch, 5 rates, 2 waves, reservoir of 2, all three drivers | concurrency, whole batches, stops, one winner everywhere, the reservoir, every run and orphan ends |
| `agents` | 3 scouts with 0, 1 and 2 feeds of 4 contents; 2 streams and 1 plain call; replies of up to 5 lines, 6 characters and 5 with tags or fences | scouts settle first, best entries reported, own outcome last, callback put back, replies read, all end |
| `breaker_reopen` | as `breaker` | a disagreement with the documentation, as the next three; see below |
| `router_readme`, `router_retries` | the router of `path` | what happens without DiffusionGemma; how often a backend is called |
| `headroom_quiet` | as `dashboard` | a stream that has nothing to send is ended |

Why these bounds are enough. Threshold 2 with three callers has what the code
distinguishes: a failure below the threshold, the trip, and a call that was
admitted before the trip and ends after it, in any later state. Three keys in
room for two force evictions with a choice. The limiter's callers include a
pair that fits, pairs that do not, and one that never does. Two slots for three
requests make requests wait; one retry gives a first, a repeated and a last
attempt. Two stores and two requests let a lookup, a store and a write-back of
one key overlap. Three backends give a selected, a primary and another one, in
every order. Two runs let events and results of one meet the next. Batches of two with
room for one have a worker that waits while one calls, those with room for two a
worker that is left behind when the other raises; a third latency meets a full
reservoir of two; the five rates hold a zero, a tie of the balanced metric, one
not to be believed, and one that is only believed with a latency above zero. A queue of one is full after one snapshot; two files
make a rotation; four lines a change before, within and after it, and one more. Two streams
of an agent overlap, cross and nest. Replies of five lines hold a whole block
with something before or after it, six characters an object behind half of one.
Three tests let a button be overtaken and pressed again.

Bounds that cut behaviours: `MaxStores` and `Delay` (how long a
round trip to Redis may take, which the code does not limit) in `TieredCache`, `MaxChunks` in `Router`, `MaxRuns` and `MaxQueue` in
`RunManager`, where also `Stop` is not repeated before it was delivered,
`MaxWaves` in `Sweep`, `MaxFiles` in `Headroom`, `MaxCalls`, `MaxLines`, `MaxChars` and
`MaxMarked` in the agents' modules, `MaxTests` and `MaxLines` in `SpeedTest`.
The breaker, the limiter and the LRU have no such bound: their spaces are finite.
`CHECK_DEADLOCK FALSE` stands where the system may stop: when all the requests,
runs, tests or callers of an instance are over.
`MCDashboard` explores rotations and restarts of the monitor without a page
only: a page sees of them no more than when the meter changes, and the
application starts the monitor before the first connection and stops it behind
the last. The proof of `SubscribersServed` has no such restriction.

### Fairness

* `CircuitBreaker`: the clock advances; a call that is admitted ends (the
  transport has a timeout on every request); callers come back. Without callers
  nothing can probe, since the breaker has no timer of its own.
* `RateLimiter`: the clock advances, timeouts are delivered, a woken task gets
  the lock. `WaitersGetThrough` assumes that arrivals stop: `notify_all` wakes
  everybody and there is no queue, so under a steady load of small requests the
  code does not protect a large one.
* `AsyncCfire`: each task that can go on does. Weak fairness is enough for the
  semaphore because each request passes it once.
* `RunManager`: the event loop runs its tasks, the work of a run ends (it is
  bounded by its deadline and by the timeouts of the transport), the 30 second
  timeout of a stream fires. Nothing is assumed of pages.
* `SyncFacade`: threads and the loop are scheduled, requests end by their
  timeouts. Nobody has to call, close or interrupt.
* `Sweep`: the driver and each worker go on; requests end by their timeouts.
  Nobody has to stop a run.
* `Headroom`: the monitor's thread is scheduled. Nothing is assumed of the
  proxy, of rotations or of pages.
* `NewsTeam`, `VisionAgent`: feeds and model calls end by their timeouts (12
  and 15 seconds, and the transport's); the 0.2 second timeout fires; a reader
  that stays asks for more.
* `SpeedTest`: the request's timeout of 60 seconds ends an answer, and a
  browser handles the events it has. Nobody has to press a button.

### Where code and documentation disagree

Four runs end with a counterexample:

* `breaker_reopen`: the docstring draws "half-open -> open on next failure". A
  late success resets the counter while the breaker is open
  (`reliability.py:95`), after which a failing probe leaves it half-open.
* `router_readme`: the fork's README says that a request falls through to
  Cerebras when DiffusionGemma is unreachable. The fallbacks leave out the
  primary backend, which by default is Cerebras, so it is never tried.
* `router_retries`: the docstring of the router says that a backend is tried up
  to `max_retries_per_backend` times (`router.py:18`). `complete()` calls it
  once more than that (186), as the "attempt %d/%d" of its log counts.
* `headroom_quiet`: `/api/headroom/stream` answers a second without a snapshot
  with `except Empty: yield ... heartbeat` (`web_demo.py:638`), but nothing
  imports `Empty`. The handler raises `NameError`, which ends the stream of a
  page that stays. `EndQuiet` is that step. The page's `EventSource` connects
  again, and the queue of the connection that is over stays among the
  subscribers until it is full.

What else came up while reading, and has no run:

* `client.py:130` puts the retries below the breaker; in the code the breaker
  is inside the retry loop (172) and may refuse a request between two attempts.
  `Metrics.record_error`, "Record a failed request", counts failed attempts.
  `README.md:138` says the breaker opens at 6 failures, the default is 5.
* The router promises a stream's failover on connection errors (`router.py:212`),
  but `stream_chat` lets those through as exceptions of httpx, which it does
  not fail over on; and with a backend that raises a `RetryableError` after its
  first chunk it begins the answer again (228), against its docstring (214);
  no property claims anything of such a stream but its order. A backend that fails to open or
  close leaves the others open (124-130).
* An event stream that finds the status "done" drains the queue and ends
  (`web_demo.py:563`), though the final status event comes only after the
  client was closed (325). A task cancelled before its first step leaves the
  status at "stopping" until the next run.
* `submit()` after the loop has stopped, and so a second `close()` in a race
  with the first, waits for ever (`_sync.py:44`).
* A call of the tiered cache after `aclose()` connects anew, and nobody closes
  that connection.
* `bulk()` leaves workers running when one raises (`client.py:234`); the
  drivers on the command line cancel them as they exit, the server does not.
* The optimizer saves its winner as "best_config", which `BenchmarkMemory`
  does not look for; the report says a configuration "was the only config
  tested" when the runner-up's score is 0.
* Lines that are logged between the last `readline` and the `stat` of a
  rotation are lost, half a line read is not put together, a file truncated in
  place is not noticed, a file replaced between `open` and `stat` (`headroom.py:274-277`)
  keeps the thread on the old one, and `start()` while a stopped thread is
  still alive starts nothing.
* Duplicates of a link keep the first entry, also if a later one is more
  relevant (`news_agents.py:196`).
* Streams of one `VisionOpsAgent` that overlap crosswise leave the callback of
  one that has ended; its `_get_client` keeps a client whose `open` failed; a
  fence without JSON hides an object outside it.
* The button of a speed test that is overtaken by the other one spins until it
  is pressed again; an httpx timeout has an empty text, which the page takes
  for no error and shows as "undefined".
* `MemoryLRU` with `maxsize=0` raises `KeyError`; concurrent misses for one
  prompt all call the backend; retries are not charged to the limiter;
  `retry_after` has no cap and is slept with a slot held.

## 4. What is proved

Eight modules of proofs, checked by TLAPS. Each theorem holds for every value
of the constants that the assumptions allow; the runs show the same properties
on the instances of section 3.

| Proof module | For every | Properties of the runs that are theorems |
|---|---|---|
| `CircuitBreakerProofs` | set of callers, threshold above 0, cooldown | `BreakerInvariant`, `NoCallWhileCooling`, `ImplementsBreakerStates` |
| `AsyncCfireProofs` | finite set of requests, concurrency, retries, threshold, cooldown | `SlotsConserved`, `RequestsAccounted`, `RetriesOnlyRetryable`, `FailingBackendIsLeftAlone` |
| `RequestPathProofs` | callers, budgets and window; keys, responses, sizes, times to live and round trips; backends, both policies, retries | `BudgetsKept`, `SleepsOnlyWhileBlocked`; `StoreConsistent`, `EvictsLeastRecentlyUsed`, `ForgetsButNeverLies`; `TiersAgree`; `FailsOverInTurn` |
| `SyncFacadeProofs` | set of threads, retries, and response, cut anywhere | `ClosedBeforeStopped`, `StreamIsFaithful` |
| `SweepProofs` | configurations, batch size, rates, waves; size of the reservoir | `WithinConcurrency`, `BatchIsWhole`, `StopsCalling`, `BestIsTop`; `ReservoirIsSample` |
| `WebDemoProofs` | streams, runs, length of the queue; buttons, tests and answers; logs, pages, queues and files | `RunSettles`, `ResultsBehindReport`; `ShowsTheTruth`; `CountedOnce`, `SubscribersServed` |
| `AgentsProofs` | scouts, feeds, entries and scores; streams and calls of the agent; replies, of any length | `ScoutsSettleFirst`, `BestEntriesReported`; `CallbackRestored`, `OutcomeIsOwn`; `ReplyIsRead` |

The eighth module, `Lemmas`, is what several of them rest on. Every invariant and
every action property of a passing run is among these theorems.

Type correctness is part of every inductive invariant, and a theorem of its own
for the breaker and the pipeline.

### The arguments

* **Breaker.** `BreakerInvariant` is inductive as it stands because it links the
  clocks: the latest failure is not older than the latest trip, so an open
  breaker whose cooldown has elapsed since its latest failure has also cooled
  down since its trip, and admitting cannot break `OpenWhileCooling`. The
  refinement goes step by step: every step of a caller is one of `BreakerStates`
  or changes nothing there.
* **Pipeline.** The invariant ties a task's place to its counters (how often it
  reached the backend against its attempts and its last failure) and to the
  breaker's set of callers. Slots and metrics are counted with a lemma on how
  the move of one task changes the number of tasks at a set of places. The
  breaker's own theorems apply to it inside the pipeline (`BreakerSteps`,
  `BreakerInPipeline`). `FailingBackendIsLeftAlone` speaks of the backend alone:
  how many calls failed with no answer between them, and how long ago. What
  links this history to the breaker is `OutageKnown`: after that many failures
  in a row, and for a cooldown after the latest, the breaker is open: only an
  answer resets its counter or closes it, and an answer ends the row.
* **Limiter.** `acquire` tests the entries of its log, while `BudgetsKept` is
  about the grants. `GrantsLogged` links them: from any age on, the log holds
  exactly what was granted since. The sums over a log are running sums, with
  lemmas on appending, dropping old entries and aging. `DueInTime` says that a
  sleeper's timeout is not later than the entry whose expiry it waits for.
* **Router.** The number of calls each backend has had follows from the place in
  the loop: each one before it in the order has had all its attempts or an error
  that is not retried, those behind it none. The order itself has no backend
  twice, which needs what removing one from a sequence without repetition leaves.
* **Memory cache.** `StoredIsLatest` relates the store to its history: what is
  stored was stored last and with the time to live it has left, and the keys lie
  in the order of their latest use. Eviction in that order and the refinement of
  `ForgetfulCache` follow from it.
* **Two tiers.** A response is of one key wherever it is, and its age and the
  time it has left make up a bound that depends on the place: in Redis its time
  to live there and one round trip, on the way back two, in memory after a
  write-back also the time to live of that tier. The bound of `TiersAgree` is
  that of the last place. Each tier has a time to live of its own, and the round
  trips are the longest that have occurred, so nothing is assumed of either.
* **Facade.** The client's coroutine that closes has run before the loop is told
  to stop, in every order of the calls of the owner, the other threads and an
  interrupt. For streams, the parser first: after any number of pieces what it
  has put out, with the block it is in, is what the text means so far, by
  induction over the symbols of the text; then the queue holds what the parser
  has put out and the reader has not taken; so what the thread yields is a
  prefix, and in the end all of it, with an error last.
* **Drivers.** The free slots of a semaphore and the calls of the batch that uses
  it make up the concurrency of the configuration that is measured, whoever made
  the semaphore, and no two batches that have begun share one. A batch's results
  lie in the order of its requests and are those of the workers that are done.
* **Rankings.** `Ranking` gives the k-th place to whatever has k - 1 others before
  it. That there is one for each k, which the `CHOOSE` needs, and that the order is
  that of the keys, rests on one fact about a strict order on a finite set: of two
  elements the earlier has fewer before it (`RankOfEarlier`), so the numbers of
  predecessors are different, and as many as there are elements
  (`RankingProperties`). At the head is the first of the greatest (`FirstOfDescending`).
* **Best configuration.** What `max()` takes is the first of the greatest
  (`BestIsFirst`), and so the report's head. The optimizer takes it of those with a
  success, the benchmark memory of all: they agree because what had no success has
  no rates (`BestIsKept`) and cannot come first unless the best rate is zero. No
  mean is above the first of a ranking, by induction over the records.
* **Percentiles.** A percentile lies between two neighbours in the sorted sample
  (`Interpolation`) and so rises with its place, within one gap and over several
  (`ValueAtRises`).
* **Managers.** `PhaseKnown` says for each phase of the task where the counters,
  the results and the ending stand, `StopUnderWay` how far an accepted stop has
  come: it is delivered before the body of the task is left, so a run it meets
  there does not end as "done".
* **Streaming test.** One connection is open at most, that of the latest test.
  Every event on its way to the page is true of the lines the generator has
  read, and an answer that has finished is among them as long as the page
  listens: so what the page takes for a lost connection was one, or the answer
  did not finish.
* **News team.** The events tell, scout by scout, how far it has come, and the
  commander's place goes with them. What a scout has fetched are the entries its
  feeds can hold (`FeedsFlattened`), and what it reports the head of their ranking
  without repeated links: an entry left out is behind all that were taken.
* **Vision agent.** Until streams cross, the open ones form a stack of saved
  callbacks with the agent's own at the bottom, so ending them in reverse order
  restores it. A stream's last event is put by its own reader behind whatever
  came through the callback.
* **Replies.** What an object is, is defined for a text as a whole: braces in
  balance outside of strings, and strings by the escapes before a quote. The scan
  keeps a depth and two flags. They are compared character by character: the depth
  is the number of braces opened and not closed so far, the flags the parity of the
  quotes and of the escapes before the place (`ObjectScanned`). So wherever an
  object begins, the scan ends where it ends (`ObjectEnds`), whatever follows; the
  first valid candidate is one, and what is taken out of tags, fences or at last
  resort is part of the reply and tested. Of a block, the loop knows after k lines
  which of them its latest headers bring together (`LoopKnows`).
* **Headroom monitor.** Every piece of the open file behind the thread's position
  is of a line later than all that were counted or are held (`Passed`), in spite
  of halves, since behind a piece come later lines or the other half of its own;
  going to the end of a file passes all of it. The meter's sums lie between
  numbers of times the values of the lines counted, and so do the averages
  rounded down. For the pages, the latest snapshot is the last in every
  subscriber's queue or was shown. A connection that is over has had no more
  snapshots than its queue holds and those the gets left in the executor have
  taken out or still may: one that `wait_for` gave up on, and one that was
  under way when the page went away.

Induction over numbers is done by taking the least element of a set of numbers
(`LeastNatural` in `Lemmas`, from `WFMin` and `NatLessThanWellFounded` of
`WellFoundedInduction`) that are not in a given set (`InductionInSet`,
`InductionUpTo`); that the turns of a loop, each
taking a result to the next, make up a run is `RunExists`. Sums, the loop over a
block's lines and the scan rest on these.

### Assumptions

They are the `ASSUME`s of the modules, which TLC evaluates in the runs. Most are
types. Beyond that:

* `MaxSize > 0` in `MemoryLRU`: nobody passes 0, with which `put` raises.
* `TtlAssumption`, both times to live above 0 in `TieredCache`: that of memory is
  `CACHE_TTL_SEC`, that of Redis the 3600 seconds of its own default, which the
  client leaves as they are (`client.py:73`, `cache.py:118`).
  `ValuesAssumption` numbers the responses in the order of their storing. No
  theorem about the memory cache alone cites either.
* `NewsAssumption` in `NewsTeam`: links and scores are numbers, 0 for an entry
  without a link.
* `NamesAssumption` in `Router`: the two names the routing rules mention exist.
* `TextsAssumption` in `SyncFacade`: what a response is made of is told apart
  from the sentinel and the error marker, objects of their own in the code.
* `CallsAssumption` in `VisionAgent`: a stream is no plain call, and no stream's
  callback is the agent's own.
* `SavingsAssumption` in `Headroom`: the proxy, which is not part of this
  program, takes no more tokens out of a request than it has. Without it the
  share of tokens saved could exceed 100 percent; nothing else depends on it.

### Only model-checked

Liveness, and with it the fairness of section 3, which is out of the prover's
reach: `Recovers`, `WaitersGetThrough`, `EveryRequestEnds`, `ButtonComesBack`,
`EndIsReached`, `CallersReturn`, `RunEnds`, `LinesAreCounted` and
`AgentsEnd`. The four disagreements with the documentation are counterexamples
and nothing to prove.

## 5. Not modelled

* What a semaphore of asyncio does with a slot it has handed over to a waiter
  that is cancelled before it runs: the library's. `Sweep` cancels all workers
  of a stopped run in one step, as `gather` does.
* The time between the beginning and the end of httpx's own `aclose`: it marks
  its client as closed first, so a second `close()` returns at once
  (`transport.py:187`), and `ClosedBeforeStopped` counts such a client as closed
  although the first `close()` may still be at it.
* The limiter in `SyncFacade`: a request larger than its budget waits for ever,
  which `RateLimiter` says, and its caller with it.
* Line ends other than LF, and payloads other than objects, in `SseStream`;
  lists and bare numbers in the replies of `DiagnosisParser`.
* Models, configuration and constants: data without behaviour of their own.
* Payloads, headers, compression and the parsing of a response in the backends:
  conversions of data that no state depends on.
* The text of prompts, reports and feeds, the relevance score, the salvage of a
  diagnosis from free text: heuristics on words without a definition to be
  checked against.
* `search()` and `compare()` of `BenchmarkMemory`, `snapshot()`s that only
  read, CSV files, logs and printing.
* The rest of the page, media and smoke-test scripts, placeholders:
  presentation, assets, one call of an API.

## 6. Where this stands

All components with state of their own are modelled, each has an inductive
invariant, and all that the runs check but liveness is proved. What could be
added:

* `bulk()` by several callers at once: how many requests of all of them are out
  at a time, from the slots of `AsyncCfire` and the semaphores of the drivers.
* The salvage of a diagnosis from free text, once the code says what it promises.
