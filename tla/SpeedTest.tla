------------------------------ MODULE SpeedTest ------------------------------
(***************************************************************************)
(* The streaming test of the dashboard: the endpoint                       *)
(* /api/diffusiongemma/stream_test of web_demo.py asks a model server and  *)
(* relays its answer, and runDiffusionTest of static/index.html shows it.  *)
(* Two buttons of the page start the test, and share the variable that     *)
(* holds its EventSource.                                                  *)
(*                                                                         *)
(* The answer comes in lines, of the kinds that the endpoint tells apart:  *)
(*   "piece", "last", "finish", "empty"   data with a text, with a text    *)
(*              and a finish_reason, with the latter only, with neither;   *)
(*   "noise"    no data line, or no JSON;  "odd"  JSON, but no object;     *)
(*   "[DONE]"   the end marker.                                            *)
(* A text is the sequence of the numbers of the lines it was made of.      *)
(***************************************************************************)
EXTENDS Naturals, Sequences, SequencesExt

CONSTANTS
  Buttons,     \* the buttons that start a test
  MaxTests,    \* bound: how often one is pressed
  MaxLines     \* bound: the lines of an answer

VARIABLES
  serving,       \* the generator of each test: "off", "asking", "reading" or "over"
  said,        \* history: the lines of the answer that it has read
  text,        \* its text
  sent,        \* the events on their way to the page
  open,        \* the tests whose EventSource is open
  source,      \* the test that diffusionEventSource belongs to, 0 for null
  spinning,    \* the buttons that show a spinner
  owner,       \* the buttons that started the tests so far
  shown,       \* what the page shows: of which test, how far it is, and its text
  broken       \* history: the connection of the latest test to the page broke

relay == <<serving, said, text>>
testVars == <<relay, sent, open, source, spinning, owner, shown, broken>>

Tests == 1..MaxTests
Latest == Len(owner)

Kinds == {"piece", "last", "finish", "empty", "noise", "odd", "[DONE]"}
WithText == {"piece", "last"}
Finishing == {"last", "finish"}

TestInit ==
  /\ serving = [t \in Tests |-> "off"]
  /\ said = [t \in Tests |-> << >>] /\ text = [t \in Tests |-> << >>]
  /\ sent = [t \in Tests |-> << >>]
  /\ open = {} /\ source = 0 /\ spinning = {} /\ broken = FALSE
  /\ owner = << >>
  /\ shown = [test |-> 0, how |-> "nothing", text |-> << >>]

Goes(t, p) == serving' = [serving EXCEPT ![t] = p]
Say(t, how) == sent' = [sent EXCEPT ![t] = Append(@, [how |-> how, text |-> text'[t]])]

-----------------------------------------------------------------------------
(* Variants with a mistake somebody could make; each breaks a property below. *)

\* Chunks without a text are skipped before their finish_reason is looked at.
PayloadWithText == {"piece", "last"}

\* A test that counts as done needs no further care.
FailedUnlessDone(t) ==
  /\ IF shown.how = "garbled" THEN UNCHANGED <<source, open, spinning, shown>>
     ELSE /\ source' = 0 /\ open' = open \ {source}
          /\ spinning' = spinning \ {owner[t]}
          /\ shown' = [shown EXCEPT !.how = "lost"]
  /\ UNCHANGED <<relay, sent, owner>>

-----------------------------------------------------------------------------
(* generator() of stream_test_diffusiongemma. *)

\* The model server answers with a status below 400.
Answered(t) ==
  /\ serving[t] = "asking"
  /\ Goes(t, "reading")
  /\ UNCHANGED <<said, text, sent, open, source, spinning, owner, shown, broken>>

\* The except clause.  The text of a timeout of httpx is empty: "mute".
Fails(t) ==
  /\ serving[t] \in {"asking", "reading"}
  /\ UNCHANGED text
  /\ \E how \in {"error", "mute"} : Say(t, how)
  /\ Goes(t, "over")
  /\ UNCHANGED <<said, open, source, spinning, owner, shown, broken>>

\* What an event is made of.
Payload == {"piece", "last", "finish", "empty"}

\* One turn of the loop over resp.aiter_lines().
ReadLine(t) ==
  /\ serving[t] = "reading" /\ Len(said[t]) < MaxLines
  /\ \E line \in Kinds :
       /\ said' = [said EXCEPT ![t] = Append(@, line)]
       /\ text' = IF line \in WithText
                    THEN [text EXCEPT ![t] = Append(@, Len(said'[t]))] ELSE text
       /\ CASE line \in Payload /\ line \in Finishing -> Say(t, "done") /\ Goes(t, "over")
            [] line \in Payload \ Finishing -> Say(t, "running") /\ UNCHANGED serving
            [] line = "odd" -> Say(t, "error") /\ Goes(t, "over")
            [] line = "[DONE]" -> Goes(t, "over") /\ UNCHANGED sent
            [] OTHER -> UNCHANGED <<serving, sent>>
  /\ UNCHANGED <<open, source, spinning, owner, shown, broken>>

\* The answer ends, and with it the stream of events, whether it was done or not.
AnswerEnds(t) ==
  /\ serving[t] = "reading"
  /\ Goes(t, "over")
  /\ UNCHANGED <<said, text, sent, open, source, spinning, owner, shown, broken>>

-----------------------------------------------------------------------------
(* runDiffusionTest *)

\* The page closes its EventSource, and starlette cancels the generator then.
Press(b) ==
  LET t == Latest + 1
      Kept(f, new) == [u \in Tests |-> IF u \in open' \ {t} THEN f[u] ELSE new]
  IN  /\ t \in Tests
      /\ owner' = Append(owner, b)
      /\ open' = (open \ {source}) \cup {t}
      /\ source' = t /\ broken' = FALSE
      /\ serving' = [Kept(serving, "off") EXCEPT ![t] = "asking"]
      /\ said' = Kept(said, << >>) /\ text' = Kept(text, << >>) /\ sent' = Kept(sent, << >>)
      /\ spinning' = spinning \cup {b}
      /\ shown' = [test |-> t, how |-> "nothing", text |-> << >>]

\* What a handler does at the end, with the variable, not with its own source.
CloseSource == source' = 0 /\ open' = open \ {source}
Release(t) == spinning' = spinning \ {owner[t]}

\* onmessage.  An event with an empty error counts as one that is done; showing
\* its text then raises, and the handler does not get to close anything.
Message(t) ==
  /\ t \in open /\ sent[t] # << >>
  /\ LET e == Head(sent[t])
     IN  /\ sent' = [sent EXCEPT ![t] = Tail(@)]
         /\ shown' = [test |-> t, how |-> IF e.how = "mute" THEN "garbled" ELSE e.how,
                      text |-> IF e.how \in {"error", "mute"} THEN << >> ELSE e.text]
         /\ IF e.how \in {"error", "done"}
              THEN CloseSource /\ Release(t) ELSE UNCHANGED <<source, open, spinning>>
  /\ UNCHANGED <<relay, owner, broken>>

\* onerror, which stays silent about a test that counts as done.
Failed(t) ==
  /\ CloseSource /\ Release(t)
  /\ shown' = IF shown.how = "garbled" THEN shown ELSE [shown EXCEPT !.how = "lost"]
  /\ UNCHANGED <<relay, sent, owner>>

\* The stream is at its end, which an EventSource takes for an error.
Lost(t) ==
  /\ t \in open /\ sent[t] = << >> /\ serving[t] = "over"
  /\ Failed(t)
  /\ UNCHANGED broken

\* The connection breaks, or the server of the page goes away.
Break(t) == t \in open /\ broken' = TRUE /\ Failed(t)

-----------------------------------------------------------------------------

Serve(t) == Answered(t) \/ Fails(t) \/ ReadLine(t) \/ AnswerEnds(t)
Handle(t) == Message(t) \/ Lost(t)

TestNext ==
  \/ \E b \in Buttons : Press(b)
  \/ \E t \in Tests : (t \in open /\ Serve(t)) \/ Handle(t) \/ Break(t)

TestSpec == TestInit /\ [][TestNext]_testVars

\* Fairness: the request has a timeout of 60 seconds, and a browser handles its events.
TestFairness == \A t \in Tests : WF_testVars(t \in open /\ Serve(t)) /\ WF_testVars(Handle(t))

-----------------------------------------------------------------------------

\* The page shows the latest test and no other, and tells the truth of it: an
\* answer that is done is whole, an error was one, and what it takes for a lost
\* connection was one, or an answer that ended with no finish_reason.
ShowsTheTruth ==
  LET t == shown.test
      lines == said[t]
      finished == \E k \in DOMAIN lines : lines[k] \in Finishing
  IN  shown.how # "nothing" =>
        /\ t = Latest
        /\ shown.how = "done" =>
             /\ finished
             /\ ToSet(shown.text) = {k \in DOMAIN lines : lines[k] \in WithText}
        /\ shown.how \in {"error", "garbled"} => serving[t] = "over" /\ ~finished
        /\ shown.how = "lost" => broken \/ ~finished

\* However an answer ends or fails, also with an error that has no text, the
\* button of the test stops spinning, unless the test is started anew first.
\* (Started anew with the other button, the first one spins on.)
ButtonComesBack ==
  \A t \in Tests :
    source = t ~> (source # t /\ (Latest # t \/ owner[t] \notin spinning))
=============================================================================
