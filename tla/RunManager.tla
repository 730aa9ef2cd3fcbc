----------------------------- MODULE RunManager -----------------------------
(***************************************************************************)
(* The managers of web_demo.py: RaceManager and NewsManager start a        *)
(* background task, can stop it, and report on it through a status, the    *)
(* results, and one queue of events that every SSE stream takes from.      *)
(* They share their life cycle; NewsManager.stop announces itself as well. *)
(*                                                                         *)
(* An action runs from one suspension of a task to the next.  The task     *)
(* suspends in its work (requests to the backend) and in the exit of       *)
(* "async with", which closes the client.  queue is unbounded, so emitting *)
(* never suspends.  stop_event is set together with cancel(), which the    *)
(* task meets at its next suspension, so testing it never decides anything *)
(* and it is left out.                                                     *)
(***************************************************************************)
EXTENDS Naturals, Sequences

CONSTANTS
  Streams,      \* the SSE connections a page may open
  MaxRuns,      \* bound: how often a run is started
  MaxQueue      \* bound: no progress is reported beyond this many queued events

ASSUME BoundsAssumption == MaxRuns \in Nat /\ MaxQueue \in Nat

VARIABLES
  manager,      \* "race" or "news"
  task,         \* self.task: "none", "created", "working", "closing" or "over"
  ending,       \* how the body of "async with" was left
  cancelled,    \* cancel() was called and has not been delivered yet
  pending,      \* whether an announcement of NewsManager.stop is still to be put
  status,       \* self.status["state"]
  results,      \* the run that self.results is of, 0 for None
  queue,        \* self.queue
  place,        \* where the generator of each stream is
  runs,         \* runs started so far
  begun,        \* history: the latest run whose body began, 0 for none
  stopped,      \* history: stop() has accepted to stop the latest run
  lastState     \* history: the state of the latest status event emitted

server == <<task, ending, cancelled, pending, status, results, runs, begun, stopped, lastState>>
vars == <<manager, server, queue, place>>

Terminal == {"done", "error", "stopped"}

Progress == [type |-> "progress"]
Report == [type |-> "report", run |-> begun]
Status(s) == [type |-> "status", state |-> s]

Init ==
  /\ manager \in {"race", "news"}
  /\ task = "none" /\ ending = "none" /\ cancelled = FALSE /\ pending = FALSE
  /\ status = "idle" /\ results = 0
  /\ queue = << >>
  /\ place = [s \in Streams |-> "off"]
  /\ runs = 0 /\ begun = 0 /\ stopped = FALSE /\ lastState = "none"

Busy == task \in {"created", "working", "closing"}

\* A status event, if there is one, comes last.
Emit(events) ==
  /\ queue' = queue \o events
  /\ lastState' = LET e == events[Len(events)]
                  IN  IF e.type = "status" THEN e.state ELSE lastState

GoTo(s, p) == place' = [place EXCEPT ![s] = p]

(* Variants with a mistake somebody could make; each breaks a property below. *)

\* The results are set after "async with".
FinishWithoutResults ==
  /\ task = "working" /\ ~cancelled
  /\ Emit(<<Report>>)
  /\ status' = "done"
  /\ task' = "closing" /\ ending' = "done"
  /\ UNCHANGED <<manager, cancelled, pending, results, runs, begun, stopped, place>>

\* The client is closed under asyncio.shield.
EndingsShielded == {"error", ending}

HeartbeatWithoutTest(s) ==
  /\ place[s] = "reading" /\ queue = << >>
  /\ UNCHANGED vars

-----------------------------------------------------------------------------
(* The task and the requests that control it. *)

\* start(): a run in progress makes it raise, and changes nothing.
Start ==
  /\ ~Busy /\ runs < MaxRuns
  /\ task' = "created"
  /\ cancelled' = FALSE
  /\ runs' = runs + 1
  /\ stopped' = FALSE
  /\ UNCHANGED <<manager, ending, pending, status, results, queue, begun, lastState, place>>

\* run() up to its first suspension, in the preflight request.
Begin ==
  /\ task = "created" /\ ~cancelled
  /\ task' = "working"
  /\ status' = "running"
  /\ results' = 0
  /\ Emit(<<Status("running")>>)
  /\ begun' = runs
  /\ UNCHANGED <<manager, ending, cancelled, pending, runs, stopped, place>>

\* A task cancelled before its first step never enters run().
NeverBegin ==
  /\ task = "created" /\ cancelled
  /\ task' = "over"
  /\ cancelled' = FALSE
  /\ UNCHANGED <<manager, ending, pending, status, results, queue, runs, begun, stopped,
                 lastState, place>>

Work ==
  /\ task = "working" /\ ~cancelled /\ Len(queue) < MaxQueue
  /\ queue' = Append(queue, Progress)
  /\ UNCHANGED <<manager, server, place>>

\* The body ends: the report goes out, the results and the status are set.
Finish ==
  /\ task = "working" /\ ~cancelled
  /\ Emit(<<Report>>)
  /\ results' = begun
  /\ status' = "done"
  /\ task' = "closing" /\ ending' = "done"
  /\ UNCHANGED <<manager, cancelled, pending, runs, begun, stopped, place>>

\* The body raises, of itself or because the cancellation is delivered.
Leave ==
  /\ task = "working"
  /\ task' = "closing"
  /\ ending' = IF cancelled THEN "stopped" ELSE "error"
  /\ cancelled' = FALSE
  /\ UNCHANGED <<manager, pending, status, results, queue, runs, begun, stopped, lastState, place>>

\* How the run ends: closing the client may raise, or be cancelled in its turn.
Endings == {"error", IF cancelled THEN "stopped" ELSE ending}

\* What the except clauses emit, and then the finally clause.
FinalEvents(end) ==
  CASE end = "done" -> <<Status(end)>>
    [] end = "error" -> <<Progress, Status(end)>>
    [] end = "stopped" -> <<Status(end), Status(end)>>

Close ==
  /\ task = "closing"
  /\ \E end \in Endings : status' = end /\ Emit(FinalEvents(end))
  /\ task' = "over"
  /\ cancelled' = FALSE
  /\ UNCHANGED <<manager, ending, pending, results, runs, begun, stopped, place>>

\* stop(): without a run in progress it returns False and changes nothing.  Bound:
\* it is not called again before the cancellation is delivered and announced,
\* which would only repeat the announcement.
Stop ==
  /\ Busy /\ ~cancelled /\ ~pending
  /\ cancelled' = TRUE
  /\ status' = "stopping"
  /\ stopped' = TRUE
  /\ pending' = (manager = "news")
  /\ UNCHANGED <<manager, task, ending, results, queue, runs, begun, lastState, place>>

\* The task that NewsManager.stop creates to announce itself.
Announce ==
  /\ pending
  /\ pending' = FALSE
  /\ Emit(<<Status("stopping")>>)
  /\ UNCHANGED <<manager, task, ending, cancelled, status, results, runs, begun, stopped, place>>

-----------------------------------------------------------------------------
(* The generator of event_stream.  Every yield suspends it, so the status it *)
(* tests after a yield is the one of that later moment.                      *)

\* A page connects: the stream begins with the status as it is.
Open(s) ==
  /\ place[s] \in {"off", "ended"}
  /\ GoTo(s, "reading")
  /\ UNCHANGED <<manager, server, queue>>

\* queue.get() answers, or after 30 seconds a heartbeat goes out instead.
Read(s) ==
  /\ place[s] = "reading" /\ queue # << >>
  /\ queue' = Tail(queue)
  /\ GoTo(s, "testing")
  /\ UNCHANGED <<manager, server>>

Heartbeat(s) ==
  /\ place[s] = "reading" /\ queue = << >>
  /\ GoTo(s, "testing")
  /\ UNCHANGED <<manager, server, queue>>

Test(s) ==
  /\ place[s] = "testing"
  /\ GoTo(s, IF status \in Terminal THEN "draining" ELSE "reading")
  /\ UNCHANGED <<manager, server, queue>>

Drain(s) ==
  /\ place[s] = "draining" /\ queue # << >>
  /\ queue' = Tail(queue)
  /\ UNCHANGED <<manager, server, place>>

\* The queue is empty: one last second, then the stream ends.
Linger(s) ==
  /\ place[s] = "draining" /\ queue = << >>
  /\ GoTo(s, "lingering")
  /\ UNCHANGED <<manager, server, queue>>

End(s) ==
  /\ place[s] = "lingering"
  /\ GoTo(s, "ended")
  /\ UNCHANGED <<manager, server, queue>>

\* The page goes away, at any suspension of the generator.
Disconnect(s) ==
  /\ place[s] \notin {"off", "ended"}
  /\ GoTo(s, "off")
  /\ UNCHANGED <<manager, server, queue>>

Step(s) == Read(s) \/ Heartbeat(s) \/ Test(s) \/ Drain(s) \/ Linger(s) \/ End(s)

RunStep == Begin \/ NeverBegin \/ Finish \/ Leave \/ Close

Next ==
  \/ Start \/ RunStep \/ Work \/ Stop \/ Announce
  \/ \E s \in Streams : Open(s) \/ Step(s) \/ Disconnect(s)

Spec == Init /\ [][Next]_vars

(***************************************************************************)
(* Fairness.  The event loop runs every task that can go on; the work of a *)
(* run ends (it is bounded by its deadline and by the timeouts of the      *)
(* transport); and the 30 second timeout of a stream fires.                *)
(***************************************************************************)
RunFairness == WF_vars(RunStep) /\ WF_vars(Announce) /\ \A s \in Streams : WF_vars(Step(s))

-----------------------------------------------------------------------------

Events == {Progress} \cup [type : {"report"}, run : 1..MaxRuns]
          \cup [type : {"status"}, state : {"running", "stopping"} \cup Terminal]

TypeOK ==
  /\ manager \in {"race", "news"}
  /\ task \in {"none", "created", "working", "closing", "over"}
  /\ ending \in {"none"} \cup Terminal
  /\ {cancelled, pending, stopped} \subseteq BOOLEAN
  /\ status \in {"idle", "running", "stopping"} \cup Terminal
  /\ results \in 0..MaxRuns /\ runs \in 0..MaxRuns /\ begun \in 0..runs
  /\ queue \in Seq(Events)
  /\ place \in [Streams -> {"off", "reading", "testing", "draining", "lingering", "ended"}]
  /\ lastState \in {"none", "running", "stopping"} \cup Terminal

\* A run that began and is over has settled: whichever of its many endings it
\* took (also a stop, or an error, while the client was being closed), /api/status shows
\* how it ended, and the race manager's last event said the same.
Settled ==
  task = "over" /\ begun = runs =>
    /\ status \in Terminal
    /\ manager = "race" => lastState = status

\* A stop that was accepted is honoured, even if it comes when all the work is
\* done and only the client is left to close: the run does not end as "done".
StopIsHonoured == stopped /\ ~Busy => status # "done"

\* The two together: whatever order the body's end, the closing of the client,
\* an error and a stop come in, what the page is told of the end is the truth.
RunSettles ==
  /\ TypeOK
  /\ Settled
  /\ StopIsHonoured

\* Whoever learns from a report event, or from the status, that a run is done
\* finds its results in /api/status; they are never those of an earlier run.
ResultsBehindReport ==
  /\ \A i \in DOMAIN queue : queue[i].type = "report" /\ queue[i].run = begun => results = begun
  /\ status = "done" => results = begun
  /\ results \in {0, begun}

\* A task that is started comes to its end, stopped or not.
RunEnds == Busy ~> ~Busy

\* Unless the page starts another run, a stream notices that the run is over,
\* also if the events that said so went to another stream.
StreamsEnd ==
  \A s \in Streams :
    (place[s] = "reading" /\ status \in Terminal)
      ~> (place[s] \in {"off", "ended"} \/ status \notin Terminal)

\* Neither the manager nor a page waits for ever for the end of a run.
EndIsReached == RunEnds /\ StreamsEnd
=============================================================================
