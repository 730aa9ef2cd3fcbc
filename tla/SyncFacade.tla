----------------------------- MODULE SyncFacade -----------------------------
(***************************************************************************)
(* Cfire of cfire/_sync.py: a facade whose methods run coroutines of an    *)
(* AsyncCfire on the event loop of a background thread and block on their  *)
(* results.  It composes the Transport, whose client the coroutines open,  *)
(* use and close, and the SSE parser, which feeds a stream.                *)
(*                                                                         *)
(* Each calling thread has one coroutine at a time.  What AsyncCfire does  *)
(* before and after a request at the backend (AsyncCfire models it) is     *)
(* left out; its retries stay, because every attempt meets the client in   *)
(* the state it is in by then.                                             *)
(***************************************************************************)
EXTENDS Transport, SseStream

CONSTANTS
  Threads,      \* the threads that use the facade
  Owner,        \* the one that constructs it, and that Ctrl-C interrupts
  Streamer,     \* the one that calls stream()
  MaxRetries    \* RetryPolicy.max_retries

ASSUME ThreadsAssumption == {Owner, Streamer} \subseteq Threads /\ MaxRetries \in Nat

VARIABLES
  loop,       \* the background loop: "running", "stopping" or "stopped"
  built,      \* whether __init__ has returned
  place,      \* where each thread is
  call,       \* the call that each thread is in, or was in last
  job,        \* how far the coroutine of that call is
  error,      \* "raised" if it did, "none" if not
  attempt,    \* of its retry loop
  queue,      \* the queue of stream(): what the thread has not taken yet
  got,        \* history: the chunks that the stream has yielded to its caller
  interrupted \* history: a Ctrl-C has come

facade == <<loop, built, place, call, job, error, attempt, queue, got, interrupted>>
vars == <<client, sse, facade>>

Sentinel == "sentinel"
Raise == "raise"

\* Both are objects of their own, no chunks.
ASSUME TextsAssumption == Texts \subseteq Seq(STRING \ {Sentinel, Raise})

Init ==
  /\ client = "none"
  /\ text = << >> /\ arrived = 0 /\ buffer = << >> /\ chunks = << >> /\ over = TRUE
  /\ loop = "running" /\ built = FALSE /\ interrupted = FALSE
  /\ place = [t \in Threads |-> IF t = Owner THEN "blocked" ELSE "idle"]
  /\ call = [t \in Threads |-> IF t = Owner THEN "open" ELSE "none"]
  /\ job = [t \in Threads |-> IF t = Owner THEN "scheduled" ELSE "none"]
  /\ error = [t \in Threads |-> "none"]
  /\ attempt = [t \in Threads |-> 0]
  /\ queue = << >> /\ got = << >>

\* The coroutine of t goes on to a state; e says whether it has raised.
Proceed(t, state, e) ==
  /\ job' = [job EXCEPT ![t] = state]
  /\ error' = [error EXCEPT ![t] = e]

Runs(t, state) == loop # "stopped" /\ job[t] = state

thread == <<loop, built, place, call, queue, got, interrupted>>

\* What an attempt comes to; closing the client breaks its connections.
Outcomes == IF client = "live" THEN {"none"} \cup CompleteErrors ELSE {"HTTPError"}

(* Variants with a mistake somebody could make; each breaks a property below. *)

\* close() does not wait for the coroutine that closes the client.
ReturnFromCloseAtOnce(t) ==
  /\ place[t] = "blocked" /\ (job[t] = "done" \/ call[t] = "close")
  /\ place' = [place EXCEPT ![t] =
       IF call[t] = "close" \/ (call[t] = "open" /\ error[t] # "none") THEN "stopping"
       ELSE IF call[t] = "stream" THEN "yielding" ELSE "idle"]
  /\ built' = (built \/ (call[t] = "open" /\ error[t] = "none"))
  /\ UNCHANGED <<client, sse, loop, call, job, error, attempt, queue, got, interrupted>>

\* A request that is in flight when the client is closed is forgotten.
AnsweredWhileOpen(t) ==
  /\ Runs(t, "posting") /\ client = "live"
  /\ Proceed(t, "done", "none")
  /\ UNCHANGED <<client, thread, sse, attempt>>

-----------------------------------------------------------------------------
(* The calling threads. *)

\* submit() schedules a coroutine, also on a loop that runs no more.
Submit(t, what) ==
  /\ built /\ place[t] = "idle"
  /\ place' = [place EXCEPT ![t] = "blocked"]
  /\ call' = [call EXCEPT ![t] = what]
  /\ Proceed(t, "scheduled", "none")
  /\ attempt' = [attempt EXCEPT ![t] = 0]
  /\ IF what = "stream" THEN queue' = << >> /\ got' = << >> ELSE UNCHANGED <<queue, got>>
  /\ UNCHANGED <<client, sse, loop, built, interrupted>>

Complete(t) == Submit(t, "complete")
Stream(t) == t = Streamer /\ Submit(t, "stream")
CloseFacade(t) == Submit(t, "close")

\* future.result() returns or raises.  __init__ shuts the loop down when it
\* could not open; close() does in any case.
Return(t) ==
  /\ place[t] = "blocked" /\ job[t] = "done"
  /\ place' = [place EXCEPT ![t] =
       IF call[t] = "close" \/ (call[t] = "open" /\ error[t] # "none") THEN "stopping"
       ELSE IF call[t] = "stream" THEN "yielding" ELSE "idle"]
  /\ built' = (built \/ (call[t] = "open" /\ error[t] = "none"))
  /\ UNCHANGED <<client, sse, loop, call, job, error, attempt, queue, got, interrupted>>

\* The body of the generator after submit(): one item of the queue.
Yield(t) ==
  /\ place[t] = "yielding" /\ queue # << >>
  /\ IF Head(queue) \in {Sentinel, Raise}
     THEN /\ place' = [place EXCEPT ![t] = "idle"]
          /\ error' = [error EXCEPT ![t] = IF Head(queue) = Raise THEN "raised" ELSE @]
          /\ queue' = << >>
          /\ UNCHANGED got
     ELSE /\ got' = Append(got, Head(queue))
          /\ queue' = Tail(queue)
          /\ UNCHANGED <<place, error>>
  /\ UNCHANGED <<client, sse, loop, built, call, job, attempt, interrupted>>

\* shutdown(): loop.stop is scheduled if the loop is running.
Shutdown(t) ==
  /\ place[t] = "stopping"
  /\ loop' = IF loop = "running" THEN "stopping" ELSE loop
  /\ place' = [place EXCEPT ![t] = "joining"]
  /\ UNCHANGED <<client, sse, built, call, job, error, attempt, queue, got, interrupted>>

\* thread.join() returns when the thread is over or after two seconds.
Join(t) ==
  /\ place[t] = "joining"
  /\ place' = [place EXCEPT ![t] = IF call[t] = "open" THEN "failed" ELSE "idle"]
  /\ UNCHANGED <<client, sse, loop, built, call, job, error, attempt, queue, got, interrupted>>

\* Ctrl-C in the main thread: __init__ shuts down on any BaseException, the
\* other methods, close() too, just pass KeyboardInterrupt on.  The coroutine
\* goes on.  Bound: once, and the thread calls nothing afterwards.
Interrupt ==
  /\ place[Owner] = "blocked" /\ ~interrupted
  /\ interrupted' = TRUE
  /\ place' = [place EXCEPT ![Owner] = IF call[Owner] = "open" THEN "stopping" ELSE "failed"]
  /\ UNCHANGED <<client, sse, loop, built, call, job, error, attempt, queue, got>>

-----------------------------------------------------------------------------
(* The coroutines, on the background loop. *)

\* __aenter__: CerebrasBackend.open may find no API key, and then opens nothing.
\* Otherwise the client is there, and a request warms it up.
OpenBegins(t) ==
  /\ Runs(t, "scheduled") /\ call[t] = "open"
  /\ \/ Proceed(t, "done", "raised") /\ UNCHANGED client
     \/ Proceed(t, "preflight", "none") /\ OpenClient
  /\ UNCHANGED <<thread, sse, attempt>>

\* Whatever the warm-up request comes to is swallowed.
OpenEnds(t) ==
  /\ Runs(t, "preflight")
  /\ Proceed(t, "done", "none")
  /\ UNCHANGED <<client, thread, sse, attempt>>

\* A first attempt, or one more after the backoff sleep.
Post(t) ==
  /\ call[t] = "complete" /\ (Runs(t, "scheduled") \/ Runs(t, "sleeping"))
  /\ IF client = "live" THEN Proceed(t, "posting", "none")
                        ELSE Proceed(t, "done", "raised")
  /\ UNCHANGED <<client, thread, sse, attempt>>

Answered(t) ==
  /\ Runs(t, "posting")
  /\ \E e \in Outcomes :
       IF e \in Retryable /\ attempt[t] < MaxRetries
       THEN Proceed(t, "sleeping", "none") /\ attempt' = [attempt EXCEPT ![t] = @ + 1]
       ELSE Proceed(t, "done", IF e = "none" THEN e ELSE "raised") /\ UNCHANGED attempt
  /\ UNCHANGED <<client, thread, sse>>

\* _produce: what the stream raises goes to the queue, behind its chunks, and
\* the coroutine itself returns.
StreamFails(t) ==
  /\ Proceed(t, "done", "none")
  /\ queue' = queue \o <<Raise, Sentinel>>
  /\ SseEnd
  /\ UNCHANGED <<client, loop, built, place, call, attempt, got, interrupted>>

StreamBegins(t) ==
  /\ Runs(t, "scheduled") /\ call[t] = "stream"
  /\ \/ /\ client = "live"
        /\ Proceed(t, "streaming", "none")
        /\ \E r \in Texts : SseBegin(r)
        /\ UNCHANGED <<client, thread, attempt>>
     \/ StreamFails(t)

\* The next step of the parser; what it yields goes to the queue.
StreamGoesOn(t) ==
  /\ Runs(t, "streaming")
  /\ SseStep
  /\ queue' = queue \o SubSeq(chunks', Len(chunks) + 1, Len(chunks'))
  /\ UNCHANGED <<client, loop, built, place, call, job, error, attempt, got, interrupted>>

StreamBreaks(t) == Runs(t, "streaming") /\ ~over /\ StreamFails(t)

StreamEnds(t) ==
  /\ Runs(t, "streaming") /\ over
  /\ Proceed(t, "done", "none")
  /\ queue' = Append(queue, Sentinel)
  /\ SseEnd
  /\ UNCHANGED <<client, loop, built, place, call, attempt, got, interrupted>>

\* __aexit__, to the await of the client's aclose(), and past it.
CloseJobBegins(t) ==
  /\ Runs(t, "scheduled") /\ call[t] = "close"
  /\ IF client = "none" THEN Proceed(t, "done", "none") /\ UNCHANGED client
                        ELSE Proceed(t, "closing", "none") /\ CloseBegins
  /\ UNCHANGED <<thread, sse, attempt>>

CloseJobEnds(t) ==
  /\ Runs(t, "closing")
  /\ \/ Proceed(t, "done", "none") /\ CloseEnds
     \/ Proceed(t, "done", "raised") /\ UNCHANGED client
  /\ UNCHANGED <<thread, sse, attempt>>

\* The scheduled stop: the coroutines that wait for something stay as they are.
LoopStops ==
  /\ loop = "stopping" /\ loop' = "stopped"
  /\ UNCHANGED <<client, sse, built, place, call, job, error, attempt, queue, got, interrupted>>

-----------------------------------------------------------------------------

ThreadStep(t) == Return(t) \/ Yield(t) \/ Shutdown(t) \/ Join(t)

JobStep(t) ==
  \/ OpenBegins(t) \/ OpenEnds(t)
  \/ Post(t) \/ Answered(t)
  \/ StreamBegins(t) \/ StreamGoesOn(t) \/ StreamBreaks(t) \/ StreamEnds(t)
  \/ CloseJobBegins(t) \/ CloseJobEnds(t)

Next ==
  \/ \E t \in Threads :
       Complete(t) \/ Stream(t) \/ CloseFacade(t) \/ ThreadStep(t) \/ JobStep(t)
  \/ Interrupt
  \/ LoopStops

Spec == Init /\ [][Next]_vars

(***************************************************************************)
(* Fairness.  Threads are scheduled; the loop runs every coroutine that    *)
(* can go on, and stops when told; the timeouts of the transport end every *)
(* request.                                                                *)
(***************************************************************************)
FairSpec ==
  /\ Spec
  /\ WF_vars(LoopStops)
  /\ \A t \in Threads : WF_vars(ThreadStep(t)) /\ WF_vars(JobStep(t))

-----------------------------------------------------------------------------

\* The loop is never stopped over an open client, whose connections nothing
\* could close any more; only Ctrl-C during the warm-up in __init__ leaves one.
ClosedBeforeStopped == loop # "running" => client # "live" \/ (interrupted /\ ~built)

\* A stream yields what the response says, in its order, wherever the response
\* was cut; and when it ends without raising, all of it.
StreamIsFaithful ==
  call[Streamer] = "stream" =>
    /\ IsPrefix(got, Meaning(text))
    /\ place[Streamer] = "idle" /\ error[Streamer] = "none" => got = Meaning(text)

\* A caller gets an answer or an exception in the end, unless the loop stops:
\* then those that wait, or call later, a second close() too, wait for ever.
CallersReturn ==
  \A t \in Threads : place[t] = "blocked" ~> (place[t] # "blocked" \/ loop = "stopped")
=============================================================================
