------------------------------- MODULE Router -------------------------------
(***************************************************************************)
(* The Router of the fork (cfire-diffusion/cfire/router.py): one request,  *)
(* made with complete() or with stream(), over the registered backends.    *)
(*                                                                         *)
(* The initial state picks a deployment (which backends are registered, in *)
(* which order, and which one the policy prefers) and a request.  What the *)
(* content of a request decides is one bit: local says that one of the     *)
(* three rules (tools, code keyword, pattern) sends it to diffusiongemma   *)
(* if that backend is registered.                                          *)
(*                                                                         *)
(* AsyncCfire opens the router before the request and closes it behind it. *)
(* What a backend may raise, and what of it is a RetryableError, is that   *)
(* of module Transport: the fork's copy classifies errors the same way.    *)
(***************************************************************************)
EXTENDS Naturals, Sequences, SequencesExt, FiniteSets

Errors == INSTANCE Transport WITH client <- "live"

CONSTANTS
  Names,        \* the names of backends, "cerebras" and "diffusiongemma" among them
  MaxRetries,   \* max_retries_per_backend
  MaxChunks     \* bound: chunks yielded over a request

ASSUME NamesAssumption == {"cerebras", "diffusiongemma"} \subseteq Names
ASSUME RetriesAssumption == MaxRetries \in Nat /\ MaxChunks \in Nat

VARIABLES
  registered,       \* the keys of self.backends, in their order
  cerebrasFirst,    \* policy.cerebras_first
  local, mode,      \* the request
  order,            \* the order computed for it
  turn, attempt,    \* the loop variables: position in order, retry count
  stage,            \* "opening", "routing", "trying", "returned" or "raised"
  lastError,        \* the class of last_error and its number, 0 for None
  opened,           \* the backends whose client is open, in registered's order
  tried,            \* history: how often each backend was called
  failed,           \* history: how many of these calls failed
  output            \* history: the backends of the chunks yielded so far

deployment == <<registered, cerebrasFirst, local, mode>>
routerVars == <<deployment, opened, order, turn, attempt, stage, lastError, tried, failed, output>>

Has(name) == name \in ToSet(registered)

\* _recompute_order.  No name comes twice: those are the keys of a dictionary.
Primary ==
  LET preferred == IF cerebrasFirst THEN "cerebras" ELSE "diffusiongemma"
  IN  IF Has(preferred) THEN preferred ELSE Head(registered)

Fallbacks == RemoveFirst(registered, Primary)

\* _select_backend: every rule for local requests names diffusiongemma.
Selected == IF local /\ Has("diffusiongemma") THEN "diffusiongemma" ELSE Primary

NoError == [class |-> "none", number |-> 0]

RouterInit ==
  /\ registered \in {s \in UNION {[1..n -> Names] : n \in 1..Cardinality(Names)} :
                     IsInjective(s)}
  /\ cerebrasFirst \in BOOLEAN
  /\ local \in BOOLEAN
  /\ mode \in {"complete", "stream"}
  /\ order = << >>
  /\ turn = 1 /\ attempt = 0
  /\ stage = "opening" /\ opened = << >>
  /\ lastError = NoError
  /\ tried = [n \in Names |-> 0]
  /\ failed = 0
  /\ output = << >>

\* open(): one backend after the other.  The first that cannot be opened, having
\* no API key, ends it; the ones before it stay open.
OpenNext ==
  /\ stage = "opening"
  /\ opened' = Append(opened, registered[Len(opened) + 1])
  /\ stage' = IF Len(opened) + 1 = Len(registered) THEN "routing" ELSE stage
  /\ UNCHANGED <<deployment, order, turn, attempt, lastError, tried, failed, output>>

OpenRaises ==
  /\ stage = "opening" /\ registered[Len(opened) + 1] # "diffusiongemma"
  /\ stage' = "unopened"
  /\ UNCHANGED <<deployment, opened, order, turn, attempt, lastError, tried, failed, output>>

\* aclose(): in the same order; the first exception ends it.
CloseNext ==
  /\ stage \in {"returned", "raised"} /\ opened # << >>
  /\ opened' = Tail(opened)
  /\ UNCHANGED <<deployment, order, turn, attempt, stage, lastError, tried, failed, output>>

CloseRaises ==
  /\ stage \in {"returned", "raised"} /\ opened # << >>
  /\ stage' = "unclosed"
  /\ UNCHANGED <<deployment, opened, order, turn, attempt, lastError, tried, failed, output>>

\* The fallbacks that were not selected first follow the selected backend.
Route ==
  /\ stage = "routing"
  /\ order' = <<Selected>> \o RemoveFirst(Fallbacks, Selected)
  /\ stage' = "trying"
  /\ UNCHANGED <<deployment, opened, turn, attempt, lastError, tried, failed, output>>

Current == order[turn]

Called == tried' = [tried EXCEPT ![Current] = @ + 1]

\* backend.complete returns.
Completes ==
  /\ stage = "trying" /\ mode = "complete"
  /\ Called
  /\ stage' = "returned"
  /\ UNCHANGED <<deployment, opened, order, turn, attempt, lastError, failed, output>>

(* A variant with a mistake somebody could make; it breaks a property below. *)

NextBackendKeepingAttempt ==
  IF turn < Len(order)
  THEN turn' = turn + 1 /\ UNCHANGED <<attempt, stage>>
  ELSE stage' = "raised" /\ UNCHANGED <<turn, attempt>>

-----------------------------------------------------------------------------

\* The next backend, or the end of the loop: raise last_error.
NextBackend ==
  IF turn < Len(order)
  THEN turn' = turn + 1 /\ attempt' = 0 /\ UNCHANGED stage
  ELSE stage' = "raised" /\ UNCHANGED <<turn, attempt>>

Error(class) ==
  /\ failed' = failed + 1
  /\ lastError' = [class |-> class, number |-> failed + 1]

\* backend.complete raises an exception that failover_on does not name.
CompleteRaises ==
  /\ stage = "trying" /\ mode = "complete"
  /\ Called
  /\ \E class \in Errors!CompleteErrors \ Errors!Retryable : Error(class)
  /\ stage' = "raised"
  /\ UNCHANGED <<deployment, opened, order, turn, attempt, output>>

\* backend.complete raises a failover exception: retry, or next backend.
CompleteFailsOver ==
  /\ stage = "trying" /\ mode = "complete"
  /\ Called
  /\ \E class \in Errors!CompleteErrors \cap Errors!Retryable : Error(class)
  /\ IF attempt < MaxRetries THEN attempt' = attempt + 1 /\ UNCHANGED <<turn, stage>>
                             ELSE NextBackend
  /\ UNCHANGED <<deployment, opened, order, output>>

\* The stream of the current backend yields a chunk, which goes to the caller.
\* attempt says here that the stream has been opened.
Yields ==
  /\ stage = "trying" /\ mode = "stream" /\ Len(output) < MaxChunks
  /\ IF attempt = 0 THEN Called ELSE UNCHANGED tried
  /\ attempt' = 1
  /\ output' = Append(output, Current)
  /\ UNCHANGED <<deployment, opened, order, turn, stage, lastError, failed>>

StreamEnds ==
  /\ stage = "trying" /\ mode = "stream"
  /\ IF attempt = 0 THEN Called ELSE UNCHANGED tried
  /\ stage' = "returned"
  /\ UNCHANGED <<deployment, opened, order, turn, attempt, lastError, failed, output>>

\* The stream raises, before its first chunk or after it: no retry, but the
\* next backend if the exception is one to fail over on.  (The backends of the
\* fork raise those before the first chunk only; the router takes any backend.)
StreamRaises ==
  /\ stage = "trying" /\ mode = "stream"
  /\ IF attempt = 0 THEN Called ELSE UNCHANGED tried
  /\ \E class \in Errors!StreamErrors :
       /\ Error(class)
       /\ IF class \in Errors!Retryable THEN NextBackend
          ELSE stage' = "raised" /\ UNCHANGED <<turn, attempt>>
  /\ UNCHANGED <<deployment, opened, order, output>>

RouterNext ==
  \/ OpenNext \/ OpenRaises \/ CloseNext \/ CloseRaises
  \/ Route
  \/ Completes \/ CompleteRaises \/ CompleteFailsOver
  \/ Yields \/ StreamEnds \/ StreamRaises

RouterSpec == RouterInit /\ [][RouterNext]_routerVars

-----------------------------------------------------------------------------

\* The calls a backend gets before it is given up.  For complete() that is the
\* number of the code: range(max_retries_per_backend + 1), the "attempt %d/%d"
\* of its log.  The docstring of the module has another, TriesAtMostMaxRetries.
CallsEach == IF mode = "complete" THEN MaxRetries + 1 ELSE 1

\* A backend is given up only after all its attempts, and the next one is not
\* touched before; no backend comes up a second time.
InTurn ==
  /\ IsInjective(order)
  /\ \A i \in DOMAIN order :
       /\ i < turn => tried[order[i]] = CallsEach
       /\ i = turn => tried[order[i]] <= CallsEach
       /\ i > turn => tried[order[i]] = 0

\* The router gave up with an error to fail over on, before the caller had
\* anything.  (After a chunk the docstring of stream() promises no failover and
\* the code does one, StreamRaises: nothing is claimed of what follows it.)
FailedForGood ==
  stage = "raised" /\ lastError.class \in Errors!Retryable /\ output = << >>

\* What reaches the caller when the router gives up is the error of the last
\* call, and one to fail over on only when the whole order is exhausted.
RaisesLatestError ==
  /\ stage = "raised" => lastError.number = failed /\ failed > 0
  /\ FailedForGood => \A i \in DOMAIN order : tried[order[i]] = CallsEach

\* A request for the primary backend falls back to every other one that is
\* registered before the caller sees a failure.
PrimaryFallsBack ==
  FailedForGood /\ order[1] = Primary => \A n \in ToSet(registered) : tried[n] = CallsEach

\* A request goes through its backends in turn, and what the caller is told in
\* the end is the whole truth: all there are were tried, and the latest of their
\* errors is the one that is raised.
FailsOverInTurn == InTurn /\ RaisesLatestError /\ PrimaryFallsBack

\* The docstring of the module (line 18): "Try selected backend up to
\* max_retries_per_backend times."  complete() tries it once more.
TriesAtMostMaxRetries ==
  mode = "complete" /\ order # << >> => tried[order[1]] <= MaxRetries

\* cfire-diffusion/README.md: "If DiffusionGemma is unreachable, the router
\* falls through to Cerebras transparently."  The primary backend is never
\* among the fallbacks, so a local request never reaches Cerebras.
FallsThroughToCerebras ==
  stage = "raised" /\ lastError.class \in Errors!Retryable /\ Has("cerebras") => tried["cerebras"] > 0
=============================================================================
