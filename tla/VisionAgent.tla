----------------------------- MODULE VisionAgent -----------------------------
(***************************************************************************)
(* VisionOpsAgent (vision_ops/agent.py): analyses of screenshots, awaited  *)
(* ("plain") or read as a stream of events.  A stream replaces the agent's *)
(* event_callback by one that fills its own queue, runs analyze() in a     *)
(* task, and puts the callback back when it ends.  The agent makes its     *)
(* client on first use, and never closes it.                               *)
(*                                                                         *)
(* An action runs from one suspension to the next; a generator is also     *)
(* suspended in each yield, until its reader wants more or closes it.      *)
(***************************************************************************)
EXTENDS Naturals, Sequences, FiniteSets, SequencesExt

CONSTANTS
  Streams, Plains,   \* the calls of the two kinds that can be made, once each
  MaxCalls           \* bound: the calls that are made

VARIABLES
  client,        \* self.client: "none", "open" or "unopened" when open() raised
  callback,      \* self.event_callback: the stream it belongs to, or Original
  analysis,      \* where analyze() is, for each call
  stream,        \* where the generator of each stream is
  saved,         \* its original_callback
  inbox,         \* its queue
  got,           \* history: the events it has yielded, until it ends
  overlapped,    \* history: a call began while another one was still going on
  crossed        \* history: a stream ended that was not the latest open one

visionVars == <<client, callback, analysis, stream, saved, inbox, got, overlapped, crossed>>

Calls == Streams \cup Plains
Original == "original"

\* The calls and the callback that the agent was made with are distinct.
ASSUME CallsAssumption == Streams \cap Plains = {} /\ Original \notin Streams

Ended == {"ok", "failed"}

VisionInit ==
  /\ client = "none" /\ callback = Original
  /\ analysis = [c \in Calls |-> "idle"]
  /\ stream = [s \in Streams |-> "off"]
  /\ saved = [s \in Streams |-> Original]
  /\ inbox = [s \in Streams |-> << >>]
  /\ got = [s \in Streams |-> << >>]
  /\ overlapped = FALSE /\ crossed = FALSE

\* self.event_callback, as it is when the event is emitted.  Nobody reads the
\* queue of a stream that has ended.
Emit(kinds, c) ==
  inbox' = IF callback = Original \/ stream[callback] = "ended" THEN inbox
           ELSE [inbox EXCEPT ![callback] = @ \o [k \in DOMAIN kinds |-> <<kinds[k], c>>]]

AnalysisGoes(c, place) == analysis' = [analysis EXCEPT ![c] = place]
StreamGoes(s, place) == stream' = [stream EXCEPT ![s] = place]

Yield(s, event, place) ==
  got' = [got EXCEPT ![s] = Append(@, event)] /\ StreamGoes(s, place)

OpenStreams == {s \in Streams : stream[s] \notin {"off", "ended"}}
MayCall == Cardinality({c \in Calls : analysis[c] # "idle"}) < MaxCalls
Overlap == OpenStreams # {} \/ \E c \in Calls : analysis[c] \notin {"idle"} \cup Ended

-----------------------------------------------------------------------------
(* Variants with a mistake somebody could make; each breaks a property below. *)

\* The callback is put back after the loop, with no finally.
AbandonNotRestoring(s) ==
  /\ stream[s] \in {"waiting", "timed_out", "yielded", "last"}
  /\ StreamGoes(s, "ended")
  /\ UNCHANGED <<client, callback, analysis, saved, inbox, got, overlapped, crossed>>

\* The outcome is taken from the events instead of from the task.
OutcomeFromEvents(s) ==
  IF \E k \in DOMAIN got[s] : got[s][k][1] = "diagnosis" THEN "diagnosis" ELSE "failure"

\* A time without events means that the model is still at work.
CheckNever(s) ==
  /\ stream[s] = "timed_out"
  /\ StreamGoes(s, "waiting")
  /\ UNCHANGED <<client, callback, analysis, saved, inbox, got, overlapped, crossed>>

-----------------------------------------------------------------------------
(* analyze() *)

\* await agent.analyze(...), as /api/vision/analyze does with an agent of its own.
StartPlain(c) ==
  /\ analysis[c] = "idle" /\ MayCall
  /\ AnalysisGoes(c, "created")
  /\ overlapped' = (overlapped \/ Overlap)
  /\ UNCHANGED <<client, callback, stream, saved, inbox, got, crossed>>

\* Up to the first await.  _get_client sets self.client before it opens it: if
\* that raises (no API key) the client stays, and nobody opens it any more.
Encode(c) ==
  /\ analysis[c] = "created"
  /\ Emit(<<"encoding", "sending">>, c)
  /\ \/ client = "none" /\ client' = "open" /\ AnalysisGoes(c, "opening")
     \/ client = "none" /\ client' = "unopened" /\ AnalysisGoes(c, "failed")
     \/ client # "none" /\ UNCHANGED client /\ AnalysisGoes(c, "asking")
  /\ UNCHANGED <<callback, stream, saved, got, overlapped, crossed>>

Opened(c) ==
  /\ analysis[c] = "opening"
  /\ AnalysisGoes(c, "asking")
  /\ UNCHANGED <<client, callback, stream, saved, inbox, got, overlapped, crossed>>

\* The model answers.  A Diagnosis can be made of what is parsed, or not.
Diagnose(c) ==
  /\ analysis[c] = "asking" /\ client = "open"
  /\ \/ Emit(<<"received", "diagnosis">>, c) /\ AnalysisGoes(c, "ok")
     \/ Emit(<<"received">>, c) /\ AnalysisGoes(c, "failed")
  /\ UNCHANGED <<client, callback, stream, saved, got, overlapped, crossed>>

\* complete() raises; with a client that was never opened it always does.
RequestFails(c) ==
  /\ analysis[c] = "asking"
  /\ AnalysisGoes(c, "failed")
  /\ UNCHANGED <<client, callback, stream, saved, inbox, got, overlapped, crossed>>

-----------------------------------------------------------------------------
(* analyze_stream() *)

\* The reader asks for the first event.
StartStream(s) ==
  /\ stream[s] = "off" /\ MayCall
  /\ StreamGoes(s, "waiting")
  /\ saved' = [saved EXCEPT ![s] = callback]
  /\ callback' = s
  /\ AnalysisGoes(s, "created")
  /\ overlapped' = (overlapped \/ Overlap)
  /\ UNCHANGED <<client, inbox, got, crossed>>

\* queue.get() answers within 0.2 seconds.
Receive(s) ==
  /\ stream[s] = "waiting" /\ inbox[s] # << >>
  /\ Yield(s, Head(inbox[s]), "yielded")
  /\ inbox' = [inbox EXCEPT ![s] = Tail(@)]
  /\ UNCHANGED <<client, callback, analysis, saved, overlapped, crossed>>

\* The reader asks for more.
GoOn(s) ==
  /\ stream[s] = "yielded"
  /\ StreamGoes(s, "waiting")
  /\ UNCHANGED <<client, callback, analysis, saved, inbox, got, overlapped, crossed>>

\* The timer fires; the generator learns of it one turn of the event loop later.
TimeOut(s) ==
  /\ stream[s] = "waiting" /\ inbox[s] = << >>
  /\ StreamGoes(s, "timed_out")
  /\ UNCHANGED <<client, callback, analysis, saved, inbox, got, overlapped, crossed>>

Outcome(s) == IF analysis[s] = "ok" THEN "diagnosis" ELSE "failure"

\* except TimeoutError: when the task is done, its outcome is the last event.
Check(s) ==
  /\ stream[s] = "timed_out"
  /\ IF analysis[s] \in Ended
       THEN Yield(s, <<Outcome(s), s>>, "last")
       ELSE StreamGoes(s, "waiting") /\ UNCHANGED got
  /\ UNCHANGED <<client, callback, analysis, saved, inbox, overlapped, crossed>>

\* finally: self.event_callback = original_callback
Restore(s) ==
  /\ StreamGoes(s, "ended")
  /\ callback' = saved[s]
  /\ crossed' = (crossed \/ callback # s)
  /\ inbox' = [inbox EXCEPT ![s] = << >>]
  /\ got' = [got EXCEPT ![s] = << >>]
  /\ UNCHANGED <<client, analysis, saved, overlapped>>

\* The reader asks for more, and there is none.
EndStream(s) == stream[s] = "last" /\ Restore(s)

\* The reader closes the generator, or is cancelled; the task of the analysis goes on.
Abandon(s) == stream[s] \in {"waiting", "timed_out", "yielded", "last"} /\ Restore(s)

Analyze(c) == Encode(c) \/ Opened(c) \/ Diagnose(c) \/ RequestFails(c)
StreamStep(s) == Receive(s) \/ GoOn(s) \/ TimeOut(s) \/ Check(s) \/ EndStream(s)

VisionNext ==
  \/ \E c \in Plains : StartPlain(c)
  \/ \E c \in Calls : Analyze(c)
  \/ \E s \in Streams : StartStream(s) \/ StreamStep(s) \/ Abandon(s)

VisionSpec == VisionInit /\ [][VisionNext]_visionVars

\* A reader that stays asks for more, and the timeouts of the transport end a request.
VisionFairness ==
  /\ \A c \in Calls : WF_visionVars(Analyze(c))
  /\ \A s \in Streams : WF_visionVars(StreamStep(s))

-----------------------------------------------------------------------------

Kinds == <<"encoding", "sending", "received", "diagnosis">>

\* The last event of a stream is the outcome of its own analysis, also when the
\* streams of an agent got mixed up or the event of that outcome was lost.  Of
\* calls that do not overlap, a stream yields its own events and no others, in
\* order and none left out in between.
OutcomeIsOwn ==
  \A s \in Streams :
    LET body == IF stream[s] = "last" THEN Front(got[s]) ELSE got[s]
    IN  /\ stream[s] = "last" => got[s][Len(got[s])] = <<IF analysis[s] = "ok" THEN "diagnosis"
                                                      ELSE "failure", s>>
        /\ ~overlapped =>
             body = [k \in 1..Len(body) |-> <<Kinds[k], s>>]

\* The agent's own callback is back when no stream is open, however the streams
\* ended, as long as the latest one to begin was always the first to end.
CallbackRestored == OpenStreams = {} /\ ~crossed => callback = Original

\* A stream comes to its end, or its reader leaves it.
StreamsAnswer == \A s \in Streams : stream[s] = "waiting" ~> stream[s] = "ended"
=============================================================================
