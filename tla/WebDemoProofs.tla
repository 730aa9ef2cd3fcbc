--------------------------- MODULE WebDemoProofs ----------------------------
(***************************************************************************)
(* Proofs about web_demo.py: the life cycle of its managers, the streaming *)
(* test, and the Headroom monitor it serves.                               *)
(*                                                                         *)
(* The managers, for every set of streams, every number of runs and every  *)
(* length of the queue.  What the two invariants of RunManager say of the  *)
(* end of a run needs what holds on the way to it: where each phase of the *)
(* task stands with the counters, the ending and the results, and how far  *)
(* a stop that was accepted has come.                                      *)
(*                                                                         *)
(* The test, for every number of buttons and tests and every answer: what  *)
(* the page shows is true because every event on its way to it is, and an  *)
(* answer that has finished is among them as long as the page listens.     *)
(*                                                                         *)
(* The monitor, for every log, number of pages and length of their queues: *)
(* every line is counted once, and the pages are served.                   *)
(***************************************************************************)
EXTENDS RunManager, SpeedTest, Headroom, FiniteSetTheorems, SequenceTheorems, TLAPS

-----------------------------------------------------------------------------
(* The managers. *)

\* What each phase of the task has behind it.
PhaseKnown ==
  /\ task = "created" => begun < runs
  /\ task \in {"working", "closing"} => begun = runs /\ begun > 0
  /\ task = "closing" => ending \in Terminal
  /\ task = "closing" /\ ending = "done" => results = begun

\* How far a stop has come: it waits to be delivered until the body is left,
\* and a run it met there does not end as "done".
StopUnderWay ==
  /\ task = "none" => ~stopped
  /\ stopped /\ task \in {"created", "working"} => cancelled
  /\ stopped /\ task = "created" => status = "stopping"
  /\ stopped /\ task = "closing" => cancelled \/ ending = "stopped"
  /\ pending => manager = "news"

\* No report is ahead of its run.
ReportsOfBegun ==
  \A i \in DOMAIN queue : queue[i].type = "report" => queue[i].run <= begun

RunInvariant ==
  /\ RunSettles
  /\ ResultsBehindReport
  /\ PhaseKnown
  /\ StopUnderWay
  /\ ReportsOfBegun

-----------------------------------------------------------------------------
(* The queue of events. *)

\* A step brings no report into the queue.
NoNewReport ==
  \A i \in DOMAIN queue' :
    queue'[i].type = "report" => \E j \in DOMAIN queue : queue[j] = queue'[i]

States == {"running", "stopping"} \cup Terminal

\* The events that the manager emits are events.
LEMMA EventTypes ==
  /\ Progress \in Events /\ Progress.type = "progress"
  /\ \A s \in States : Status(s) \in Events /\ Status(s).type = "status" /\ Status(s).state = s
  /\ begun \in 1..MaxRuns => Report \in Events
  /\ Report.type = "report" /\ Report.run = begun
BY DEF Events, Progress, Status, Report, States

\* Emitting something that ends with a status brings no report, and leaves that
\* status as the last one announced.
LEMMA StatusEmitted ==
  ASSUME queue \in Seq(Events), NEW s \in States,
         NEW events \in {<<Status(s)>>, <<Progress, Status(s)>>, <<Status(s), Status(s)>>},
         Emit(events)
  PROVE  queue' \in Seq(Events) /\ lastState' = s /\ NoNewReport
<1>1. /\ events \in Seq(Events) /\ Len(events) \in 1..2 /\ events[Len(events)] = Status(s)
      /\ \A i \in 1..Len(events) : events[i].type # "report"
  <2> DEFINE announced == Status(s)
  <2>1. announced \in Events /\ announced.type = "status" /\ Progress \in Events /\ Progress.type = "progress"
    BY EventTypes
  <2> HIDE DEF announced
  <2>2. CASE events = <<announced>>
    BY <2>1, <2>2
  <2>3. CASE events = <<Progress, announced>>
    BY <2>1, <2>3
  <2>4. CASE events = <<announced, announced>>
    BY <2>1, <2>4
  <2> QED
    BY <2>2, <2>3, <2>4 DEF announced
<1>2. queue' = queue \o events
  BY DEF Emit
<1>3. /\ queue' \in Seq(Events) /\ Len(queue') = Len(queue) + Len(events)
      /\ \A i \in 1..Len(queue') :
           queue'[i] = IF i <= Len(queue) THEN queue[i] ELSE events[i - Len(queue)]
  BY <1>1, <1>2
<1>4. lastState' = s
  BY <1>1, EventTypes DEF Emit
<1>5. NoNewReport
  <2> SUFFICES ASSUME NEW i \in 1..Len(queue'), queue'[i].type = "report"
               PROVE  \E j \in 1..Len(queue) : queue[j] = queue'[i]
    BY <1>3 DEF NoNewReport
  <2>1. i <= Len(queue)
    BY <1>1, <1>3
  <2> QED
    BY <1>3, <2>1
<1> QED
  BY <1>3, <1>4, <1>5

\* Emitting the report brings the report of the run that began last, and
\* leaves the last status as it was.
LEMMA ReportEmitted ==
  ASSUME queue \in Seq(Events), begun \in 1..MaxRuns, Emit(<<Report>>)
  PROVE  /\ queue' \in Seq(Events) /\ lastState' = lastState
         /\ \A i \in DOMAIN queue' :
              queue'[i] = Report \/ \E j \in DOMAIN queue : queue[j] = queue'[i]
<1>1. queue' = Append(queue, Report)
  BY EventTypes DEF Emit
<1>2. lastState' = lastState
  BY EventTypes DEF Emit
<1> QED
  BY <1>1, <1>2, EventTypes

\* The manager's steps aside, the queue loses its oldest event, or keeps all.
LEMMA StreamStep ==
  ASSUME TypeOK, NEW s \in Streams, Open(s) \/ Step(s) \/ Disconnect(s)
  PROVE  TypeOK' /\ UNCHANGED <<manager, server>> /\ NoNewReport
<1>1. UNCHANGED <<manager, server>>
  BY DEF Open, Step, Disconnect, Read, Heartbeat, Test, Drain, Linger, End
<1>2. place' = place \/ \E p \in {"off", "reading", "testing", "draining", "lingering", "ended"} :
        GoTo(s, p)
  BY DEF Open, Step, Disconnect, Read, Heartbeat, Test, Drain, Linger, End
<1>3. queue' = queue \/ (queue # << >> /\ queue' = Tail(queue))
  BY DEF Open, Step, Disconnect, Read, Heartbeat, Test, Drain, Linger, End
<1>4. queue' \in Seq(Events) /\ NoNewReport
  <2>1. CASE queue' = queue
    BY <2>1 DEF NoNewReport, TypeOK
  <2>2. CASE queue # << >> /\ queue' = Tail(queue)
    BY <2>2 DEF NoNewReport, TypeOK
  <2> QED
    BY <1>3, <2>1, <2>2
<1> QED
  BY <1>1, <1>2, <1>4 DEF TypeOK, GoTo, server

-----------------------------------------------------------------------------
(* The inductive invariant. *)

\* What the events of the queue and the results say of each other.
QueueKnown ==
  \A i \in DOMAIN queue : queue[i].type = "report" =>
    queue[i].run <= begun /\ (queue[i].run = begun => results = begun)

\* Without a new report, what is known of the queue stays known as long as a
\* run that begins is a later one, and results are not given up.
LEMMA QueueStaysKnown ==
  ASSUME TypeOK, QueueKnown, queue' \in Seq(Events), NoNewReport,
         \/ begun' = begun /\ (results' = results \/ results' = begun)
         \/ begun' \in Nat /\ begun' > begun
  PROVE  QueueKnown'
<1>1. \A i \in DOMAIN queue : queue[i].type = "report" => queue[i].run \in Nat
  BY DEF TypeOK, Events, Progress
<1> QED
  BY <1>1 DEF QueueKnown, NoNewReport, TypeOK

\* The parts that say how the run stands, without the queue.
RunKnown ==
  /\ Settled /\ StopIsHonoured /\ PhaseKnown /\ StopUnderWay
  /\ status = "done" => results = begun
  /\ results \in {0, begun}

\* Before the first run nothing is known to be wrong.
LEMMA InitInvariant == Init => RunInvariant
<1> SUFFICES ASSUME Init PROVE RunInvariant
  OBVIOUS
<1> USE BoundsAssumption DEF Init
<1>1. TypeOK
  <2>1. queue \in Seq(Events)
    OBVIOUS
  <2>2. results \in 0..MaxRuns /\ runs \in 0..MaxRuns /\ begun \in 0..runs
    OBVIOUS
  <2> QED
    BY <2>1, <2>2 DEF TypeOK
<1>2. Settled /\ StopIsHonoured /\ PhaseKnown /\ StopUnderWay /\ QueueKnown
  BY DEF Settled, StopIsHonoured, PhaseKnown, StopUnderWay, QueueKnown
<1> QED
  BY <1>1, <1>2 DEF RunInvariant, RunSettles, ResultsBehindReport, ReportsOfBegun, RunKnown, QueueKnown

\* Every step preserves the inductive invariant.
LEMMA InvariantPreserved == RunInvariant /\ [Next]_vars => RunInvariant'
<1> SUFFICES ASSUME RunInvariant, [Next]_vars PROVE TypeOK' /\ RunKnown' /\ QueueKnown'
  BY DEF RunInvariant, RunSettles, ResultsBehindReport, ReportsOfBegun, RunKnown, QueueKnown
<1>0. TypeOK /\ RunKnown /\ QueueKnown
  BY DEF RunInvariant, RunSettles, ResultsBehindReport, ReportsOfBegun, RunKnown, QueueKnown
<1> USE <1>0, BoundsAssumption
<1> USE DEF Settled, StopIsHonoured, PhaseKnown, StopUnderWay, Terminal
<1>1. CASE Start
  <2> USE <1>1 DEF Start, Busy
  <2>1. TypeOK'
    <3>1. runs' \in 0..MaxRuns /\ begun' \in 0..runs'
      BY DEF TypeOK
    <3> QED
      BY <3>1 DEF TypeOK
  <2>2. QueueKnown'
    BY DEF QueueKnown
  <2> QED
    BY <2>1, <2>2 DEF RunKnown, TypeOK
<1>2. CASE Begin
  <2> USE <1>2 DEF Begin
  <2>1. queue' \in Seq(Events) /\ lastState' = "running" /\ NoNewReport
    BY StatusEmitted DEF TypeOK, States
  <2>2. TypeOK'
    BY <2>1 DEF TypeOK
  <2>3. QueueKnown'
    BY <2>1, QueueStaysKnown DEF TypeOK, RunKnown
  <2> QED
    BY <2>1, <2>2, <2>3 DEF RunKnown, TypeOK
<1>3. CASE NeverBegin
  <2> USE <1>3 DEF NeverBegin, Busy
  <2>1. TypeOK'
    BY DEF TypeOK
  <2>2. QueueKnown'
    BY DEF QueueKnown
  <2> QED
    BY <2>1, <2>2 DEF RunKnown, TypeOK
<1>4. CASE Work
  <2> USE <1>4 DEF Work, server
  <2>1. queue' \in Seq(Events) /\ NoNewReport
    BY EventTypes DEF TypeOK, NoNewReport
  <2>2. TypeOK'
    BY <2>1 DEF TypeOK
  <2>3. QueueKnown'
    BY <2>1, QueueStaysKnown
  <2> QED
    BY <2>2, <2>3 DEF RunKnown, Busy
<1>5. CASE Finish
  <2> USE <1>5 DEF Finish
  <2>1. begun \in 1..MaxRuns /\ begun = runs
    BY DEF TypeOK, RunKnown
  <2>2. /\ queue' \in Seq(Events) /\ lastState' = lastState
        /\ \A i \in DOMAIN queue' :
             queue'[i] = Report \/ \E j \in DOMAIN queue : queue[j] = queue'[i]
    BY <2>1, ReportEmitted DEF TypeOK
  <2>3. TypeOK'
    BY <2>2 DEF TypeOK
  <2>4. QueueKnown'
    BY <2>1, <2>2, EventTypes DEF QueueKnown, TypeOK
  <2> QED
    BY <2>1, <2>3, <2>4 DEF RunKnown, Busy
<1>6. CASE Leave
  <2> USE <1>6 DEF Leave
  <2>1. TypeOK'
    BY DEF TypeOK
  <2>2. QueueKnown'
    BY DEF QueueKnown
  <2> QED
    BY <2>1, <2>2 DEF RunKnown, Busy
<1>7. CASE Close
  <2> USE <1>7 DEF Close
  <2>1. PICK end \in Endings : status' = end /\ Emit(FinalEvents(end))
    OBVIOUS
  <2>2. end \in Terminal /\ (end = "done" => ending = "done" /\ ~cancelled)
    BY DEF Endings, RunKnown
  <2>3. FinalEvents(end) \in {<<Status(end)>>, <<Progress, Status(end)>>, <<Status(end), Status(end)>>}
    BY <2>2 DEF FinalEvents
  <2>4. queue' \in Seq(Events) /\ lastState' = end /\ NoNewReport
    BY <2>1, <2>2, <2>3, StatusEmitted DEF TypeOK, States
  <2>5. TypeOK'
    BY <2>1, <2>2, <2>4 DEF TypeOK
  <2>6. QueueKnown'
    BY <2>4, QueueStaysKnown
  <2> QED
    BY <2>1, <2>2, <2>4, <2>5, <2>6 DEF RunKnown, Busy
<1>8. CASE Stop
  <2> USE <1>8 DEF Stop, Busy
  <2>1. TypeOK'
    BY DEF TypeOK
  <2>2. QueueKnown'
    BY DEF QueueKnown
  <2> QED
    BY <2>1, <2>2 DEF RunKnown, TypeOK
<1>9. CASE Announce
  <2> USE <1>9 DEF Announce, Busy
  <2>1. queue' \in Seq(Events) /\ lastState' = "stopping" /\ NoNewReport
    BY StatusEmitted DEF TypeOK, States
  <2>2. TypeOK'
    BY <2>1 DEF TypeOK
  <2>3. QueueKnown'
    BY <2>1, QueueStaysKnown
  <2> QED
    BY <2>1, <2>2, <2>3 DEF RunKnown
<1>10. ASSUME NEW s \in Streams, Open(s) \/ Step(s) \/ Disconnect(s)
       PROVE  TypeOK' /\ RunKnown' /\ QueueKnown'
  <2>1. TypeOK' /\ UNCHANGED <<manager, server>> /\ NoNewReport
    BY <1>10, StreamStep
  <2>2. QueueKnown'
    BY <2>1, QueueStaysKnown DEF TypeOK, server
  <2> QED
    BY <2>1, <2>2 DEF RunKnown, server, Busy
<1>11. CASE UNCHANGED vars
  BY <1>11 DEF vars, server, TypeOK, RunKnown, QueueKnown, Busy
<1> QED
  BY <1>1, <1>2, <1>3, <1>4, <1>5, <1>6, <1>7, <1>8, <1>9, <1>10, <1>11 DEF Next, RunStep

-----------------------------------------------------------------------------

\* Every phase of the life cycle is known by what it has behind it.
THEOREM Invariance == Spec => []RunInvariant
BY InitInvariant, InvariantPreserved, PTL DEF Spec

\* For every number of runs and of streams: whatever order the body's end, the
\* closing of the client, an error and a stop come in, a run that is over has
\* the status it ended with, and one that was stopped is never "done".
THEOREM RunsSettle == Spec => []RunSettles
BY Invariance, PTL DEF RunInvariant

\* The results are there before any event or status says that the run is done,
\* and are never those of an earlier run.
THEOREM ResultsComeFirst == Spec => []ResultsBehindReport
BY Invariance, PTL DEF RunInvariant

-----------------------------------------------------------------------------
(* The streaming test. *)

OnTheWay(t) == ToSet(sent[t])
Finished(t) == \E k \in DOMAIN said[t] : said[t][k] \in Finishing
TextLines(t) == {k \in DOMAIN said[t] : said[t][k] \in WithText}
Event == [how : {"running", "done", "error", "mute"}, text : Seq(Nat)]

TestTypeOK ==
  /\ serving \in [Tests -> {"off", "asking", "reading", "over"}]
  /\ said \in [Tests -> Seq(Kinds)] /\ text \in [Tests -> Seq(Nat)]
  /\ sent \in [Tests -> Seq(Event)]
  /\ source \in Nat /\ owner \in Seq(Buttons) /\ (Latest > 0 => Latest \in Tests)
  /\ shown \in [test : Nat, how : {"nothing", "running", "done", "error", "garbled", "lost"}, text : Seq(Nat)]
  /\ broken \in BOOLEAN

\* The one connection that is open is that of the latest test.
OneSource ==
  /\ source \in {0, Latest}
  /\ open = {source} \ {0}
  /\ shown.test = Latest

\* The generator's text is that of the lines it has read, and it reads on until
\* one finishes.
TextOfLines(t) ==
  /\ ToSet(text[t]) = TextLines(t)
  /\ serving[t] # "over" => ~Finished(t)

\* What is on its way to the page is true; an answer that has finished is on its
\* way as long as the connection is open.
EventsTrue(t) ==
  /\ \A e \in OnTheWay(t) :
       /\ e.how = "done" => serving[t] = "over" /\ Finished(t) /\ ToSet(e.text) = TextLines(t)
       /\ e.how \in {"error", "mute"} => serving[t] = "over" /\ ~Finished(t)
  /\ Finished(t) /\ t \in open => \E e \in OnTheWay(t) : e.how = "done"

\* So is what the page shows.
PageTrue(t) ==
  /\ shown.how = "done" => serving[t] = "over" /\ Finished(t) /\ ToSet(shown.text) = TextLines(t)
  /\ shown.how \in {"error", "garbled"} => serving[t] = "over" /\ ~Finished(t)
  /\ shown.how = "lost" => t \notin open /\ (broken \/ ~Finished(t))

TestInvariant ==
  /\ TestTypeOK /\ OneSource
  /\ \A t \in Tests : t = Latest => TextOfLines(t) /\ EventsTrue(t) /\ PageTrue(t)
  /\ Latest = 0 => shown.how = "nothing"

\* The elements of a sequence that grows, and of one that is taken from.
LEMMA AppendedSet ==
  ASSUME NEW S, NEW s \in Seq(S), NEW x \in S
  PROVE  ToSet(Append(s, x)) = ToSet(s) \cup {x}
<1>1. /\ Append(s, x) \in Seq(S) /\ Len(Append(s, x)) = Len(s) + 1 /\ Len(s) \in Nat
      /\ \A i \in 1..Len(s) : Append(s, x)[i] = s[i]
      /\ Append(s, x)[Len(s) + 1] = x
  BY AppendProperties
<1>2. DOMAIN s = 1..Len(s) /\ DOMAIN Append(s, x) = 1..(Len(s) + 1)
  BY <1>1
<1>3. /\ \A i \in 1..(Len(s) + 1) : i \in 1..Len(s) \/ i = Len(s) + 1
      /\ \A i \in 1..Len(s) : i \in 1..(Len(s) + 1)
      /\ Len(s) + 1 \in 1..(Len(s) + 1)
  BY <1>1
<1>4. \A y : y \in ToSet(Append(s, x)) <=> y \in ToSet(s) \/ y = x
  BY <1>1, <1>2, <1>3 DEF ToSet
<1> QED
  BY <1>4

LEMMA TakenSet ==
  ASSUME NEW S, NEW s \in Seq(S), s # << >>
  PROVE  /\ Head(s) \in ToSet(s) /\ Head(s) \in S /\ Tail(s) \in Seq(S)
         /\ \A y : y \in ToSet(s) <=> y \in ToSet(Tail(s)) \/ y = Head(s)
<1>1. /\ Head(s) = s[1] /\ Head(s) \in S /\ Tail(s) \in Seq(S) /\ Len(Tail(s)) = Len(s) - 1
      /\ \A i \in 1..Len(Tail(s)) : Tail(s)[i] = s[i + 1]
      /\ Len(s) \in Nat /\ Len(s) > 0
  BY HeadTailProperties, EmptySeq
<1>2. DOMAIN s = 1..Len(s) /\ DOMAIN Tail(s) = 1..(Len(s) - 1)
  BY <1>1
<1>3. /\ \A i \in 1..Len(s) : i = 1 \/ (i - 1 \in 1..(Len(s) - 1) /\ (i - 1) + 1 = i)
      /\ \A i \in 1..(Len(s) - 1) : i + 1 \in 1..Len(s)
      /\ 1 \in 1..Len(s)
  BY <1>1
<1>4. ASSUME NEW y \in ToSet(s), y # Head(s) PROVE y \in ToSet(Tail(s))
  <2>1. PICK i \in 1..Len(s) : s[i] = y
    BY <1>2 DEF ToSet
  <2>2. i - 1 \in 1..(Len(s) - 1) /\ (i - 1) + 1 = i
    BY <1>1, <1>3, <1>4, <2>1
  <2>3. Tail(s)[i - 1] = y
    BY <1>1, <2>1, <2>2
  <2> QED
    BY <1>2, <2>2, <2>3 DEF ToSet
<1>5. ASSUME NEW y \in ToSet(Tail(s)) PROVE y \in ToSet(s)
  <2>1. PICK i \in 1..(Len(s) - 1) : Tail(s)[i] = y
    BY <1>2 DEF ToSet
  <2> QED
    BY <1>1, <1>2, <1>3, <2>1 DEF ToSet
<1>6. Head(s) \in ToSet(s)
  BY <1>1, <1>2, <1>3 DEF ToSet
<1> QED
  BY <1>1, <1>4, <1>5, <1>6

LEMMA TestStarts == TestInit => TestInvariant
<1> SUFFICES ASSUME TestInit PROVE TestInvariant
  OBVIOUS
<1>1. /\ << >> \in Seq(Kinds) /\ << >> \in Seq(Nat) /\ << >> \in Seq(Event) /\ << >> \in Seq(Buttons)
      /\ Len(<< >>) = 0 /\ Latest = 0
  BY DEF TestInit, Latest
<1>2. shown \in [test : Nat, how : {"nothing", "running", "done", "error", "garbled", "lost"}, text : Seq(Nat)]
  BY <1>1 DEF TestInit
<1>3. TestTypeOK
  <2>1. /\ said \in [Tests -> Seq(Kinds)] /\ text \in [Tests -> Seq(Nat)] /\ sent \in [Tests -> Seq(Event)]
        /\ serving \in [Tests -> {"off", "asking", "reading", "over"}]
    BY <1>1 DEF TestInit
  <2>2. source \in Nat /\ owner \in Seq(Buttons) /\ broken \in BOOLEAN
    BY <1>1 DEF TestInit
  <2> QED
    BY <1>1, <1>2, <2>1, <2>2 DEF TestTypeOK
<1>4. OneSource
  BY <1>1 DEF TestInit, OneSource
<1>5. \A t \in Tests : t # Latest
  BY <1>1 DEF Tests
<1> QED
  BY <1>1, <1>3, <1>4, <1>5 DEF TestInit, TestInvariant

LEMMA PressKeeps ==
  ASSUME TestInvariant, NEW b \in Buttons, Press(b)
  PROVE  TestInvariant'
<1> DEFINE t == Latest + 1
           Kept(f, new) == [u \in Tests |-> IF u \in open' \ {t} THEN f[u] ELSE new]
<1>1. /\ t \in Tests /\ owner' = Append(owner, b) /\ open' = (open \ {source}) \cup {t}
      /\ source' = t /\ broken' = FALSE
      /\ serving' = [Kept(serving, "off") EXCEPT ![t] = "asking"]
      /\ said' = Kept(said, << >>) /\ text' = Kept(text, << >>) /\ sent' = Kept(sent, << >>)
      /\ shown' = [test |-> t, how |-> "nothing", text |-> << >>]
  BY DEF Press
<1>2. owner \in Seq(Buttons) /\ Latest \in Nat /\ open \subseteq {source}
  BY DEF TestInvariant, TestTypeOK, OneSource, Latest
<1>3. open' = {t}
  BY <1>1, <1>2
<1>4. \A u \in Tests : u \notin open' \ {t}
  BY <1>3
<1>5. /\ serving' = [u \in Tests |-> IF u = t THEN "asking" ELSE "off"]
      /\ said' = [u \in Tests |-> << >>] /\ text' = [u \in Tests |-> << >>]
      /\ sent' = [u \in Tests |-> << >>]
  BY <1>1, <1>4
<1>6. Latest' = t /\ owner' \in Seq(Buttons) /\ t \in Nat /\ t > 0
  BY <1>1, <1>2, AppendProperties DEF Latest
<1>7. /\ << >> \in Seq(Kinds) /\ << >> \in Seq(Nat) /\ << >> \in Seq(Event)
      /\ DOMAIN << >> = {} /\ ToSet(<< >>) = {}
  BY DEF ToSet
<1>8. TestTypeOK'
  <2>1. shown' \in [test : Nat, how : {"nothing", "running", "done", "error", "garbled", "lost"}, text : Seq(Nat)]
    BY <1>1, <1>6, <1>7
  <2>2. /\ said' \in [Tests -> Seq(Kinds)] /\ text' \in [Tests -> Seq(Nat)] /\ sent' \in [Tests -> Seq(Event)]
        /\ serving' \in [Tests -> {"off", "asking", "reading", "over"}]
    BY <1>5, <1>7
  <2> QED
    BY <1>1, <1>6, <2>1, <2>2 DEF TestTypeOK
<1>9. OneSource'
  BY <1>1, <1>3, <1>6 DEF OneSource
<1>10. ASSUME NEW u \in Tests, u = t
       PROVE  TextOfLines(u)' /\ EventsTrue(u)' /\ PageTrue(u)'
  <2>1. /\ said'[u] = << >> /\ text'[u] = << >> /\ sent'[u] = << >> /\ serving'[u] = "asking"
        /\ shown'.how = "nothing"
    BY <1>1, <1>5, <1>10
  <2>2. OnTheWay(u)' = {} /\ TextLines(u)' = {} /\ ~Finished(u)'
    BY <1>7, <2>1 DEF OnTheWay, TextLines, Finished
  <2> QED
    BY <1>7, <2>1, <2>2 DEF TextOfLines, EventsTrue, PageTrue
<1> QED
  BY <1>6, <1>8, <1>9, <1>10 DEF TestInvariant

\* The generator of the latest test goes on.
LEMMA ServeKeeps ==
  ASSUME TestInvariant, NEW t \in Tests, t \in open, Serve(t)
  PROVE  TestInvariant'
<1>1. /\ TestTypeOK /\ OneSource /\ t = Latest /\ Latest > 0
      /\ TextOfLines(t) /\ EventsTrue(t) /\ PageTrue(t)
  BY DEF TestInvariant, OneSource, Tests
<1>2. UNCHANGED <<open, source, owner, shown, broken>> /\ Latest' = Latest /\ serving[t] \in {"asking", "reading"}
  BY DEF Serve, Answered, Fails, ReadLine, AnswerEnds, Latest
<1>3. ~Finished(t) /\ ToSet(text[t]) = TextLines(t) /\ shown.how \notin {"done", "error", "garbled", "lost"}
      /\ \A e \in OnTheWay(t) : e.how \notin {"done", "error", "mute"}
  BY <1>1, <1>2 DEF TextOfLines, EventsTrue, PageTrue
<1>4. OneSource' /\ PageTrue(t)'
  BY <1>1, <1>2, <1>3 DEF OneSource, PageTrue
<1>5. /\ serving \in [Tests -> {"off", "asking", "reading", "over"}]
      /\ said \in [Tests -> Seq(Kinds)] /\ text \in [Tests -> Seq(Nat)] /\ sent \in [Tests -> Seq(Event)]
      /\ said[t] \in Seq(Kinds) /\ text[t] \in Seq(Nat) /\ sent[t] \in Seq(Event)
  BY <1>1 DEF TestTypeOK
\* What the cases below have to show.
<1>6. ASSUME serving' \in [Tests -> {"off", "asking", "reading", "over"}], said' \in [Tests -> Seq(Kinds)],
             text' \in [Tests -> Seq(Nat)], sent' \in [Tests -> Seq(Event)],
             TextOfLines(t)', EventsTrue(t)'
      PROVE  TestInvariant'
  <2>1. TestTypeOK'
    BY <1>1, <1>2, <1>6 DEF TestTypeOK
  <2> QED
    BY <1>1, <1>2, <1>4, <1>6, <2>1 DEF TestInvariant
<1>7. CASE Answered(t) \/ AnswerEnds(t)
  <2>1. UNCHANGED <<said, text, sent>> /\ serving' \in [Tests -> {"off", "asking", "reading", "over"}]
    BY <1>5, <1>7 DEF Answered, AnswerEnds, Goes
  <2>2. TextLines(t)' = TextLines(t) /\ ~Finished(t)' /\ OnTheWay(t)' = OnTheWay(t)
    BY <1>3, <2>1 DEF TextLines, Finished, OnTheWay
  <2> QED
    BY <1>3, <1>5, <1>6, <2>1, <2>2 DEF TextOfLines, EventsTrue
<1>8. CASE Fails(t)
  <2>1. PICK how \in {"error", "mute"} : sent' = [sent EXCEPT ![t] = Append(@, [how |-> how, text |-> text'[t]])]
    BY <1>8 DEF Fails, Say
  <2>2. UNCHANGED <<said, text>> /\ serving' = [serving EXCEPT ![t] = "over"]
    BY <1>8 DEF Fails, Goes
  <2> DEFINE e == [how |-> how, text |-> text[t]]
  <2>3. e \in Event /\ e.how \in {"error", "mute"}
    BY <1>5 DEF Event
  <2>4. sent' = [sent EXCEPT ![t] = Append(@, e)]
    BY <2>1, <2>2
  <2> HIDE DEF e
  <2>5. Append(sent[t], e) \in Seq(Event) /\ ToSet(Append(sent[t], e)) = ToSet(sent[t]) \cup {e}
    BY <1>5, <2>3, AppendProperties, AppendedSet
  <2>6. sent' \in [Tests -> Seq(Event)] /\ OnTheWay(t)' = OnTheWay(t) \cup {e}
    BY <1>5, <2>4, <2>5 DEF OnTheWay
  <2>7. TextLines(t)' = TextLines(t) /\ ~Finished(t)' /\ serving'[t] = "over"
    BY <1>3, <1>5, <2>2 DEF TextLines, Finished
  <2>8. TextOfLines(t)'
    BY <1>3, <2>2, <2>7 DEF TextOfLines
  <2>9. EventsTrue(t)'
    BY <1>3, <2>3, <2>6, <2>7 DEF EventsTrue
  <2>10. serving' \in [Tests -> {"off", "asking", "reading", "over"}]
    BY <1>5, <2>2
  <2> QED
    BY <1>5, <1>6, <2>2, <2>6, <2>8, <2>9, <2>10
<1>9. CASE ReadLine(t)
  <2>1. PICK line \in Kinds :
          /\ said' = [said EXCEPT ![t] = Append(@, line)]
          /\ text' = IF line \in WithText
                       THEN [text EXCEPT ![t] = Append(@, Len(said'[t]))] ELSE text
          /\ CASE line \in Payload /\ line \in Finishing -> Say(t, "done") /\ Goes(t, "over")
               [] line \in Payload \ Finishing -> Say(t, "running") /\ UNCHANGED serving
               [] line = "odd" -> Say(t, "error") /\ Goes(t, "over")
               [] line = "[DONE]" -> Goes(t, "over") /\ UNCHANGED sent
               [] OTHER -> UNCHANGED <<serving, sent>>
    BY <1>9 DEF ReadLine
  <2> DEFINE n == Len(said[t]) + 1
  <2>2. /\ said'[t] = Append(said[t], line) /\ Append(said[t], line) \in Seq(Kinds)
        /\ Len(said'[t]) = n /\ n \in Nat /\ DOMAIN said'[t] = 1..n
        /\ DOMAIN said[t] = 1..(n - 1) /\ \A k \in 1..(n - 1) : said'[t][k] = said[t][k]
        /\ said'[t][n] = line
    <3>1. said'[t] = Append(said[t], line)
      BY <1>5, <2>1
    <3>2. /\ Append(said[t], line) \in Seq(Kinds) /\ Len(Append(said[t], line)) = n
          /\ \A k \in 1..Len(said[t]) : Append(said[t], line)[k] = said[t][k]
          /\ Append(said[t], line)[n] = line /\ Len(said[t]) \in Nat
      BY <1>5, AppendProperties
    <3> QED
      BY <1>5, <3>1, <3>2
  <2> HIDE DEF n
  <2>3. /\ \A k \in 1..n : k \in 1..(n - 1) \/ k = n
        /\ \A k \in 1..(n - 1) : k \in 1..n
        /\ n \in 1..n
    <3>1. n \in Nat /\ n > 0
      BY <1>5 DEF n
    <3> QED
      BY <3>1
  <2>4. Finished(t)' <=> line \in Finishing
    BY <1>3, <2>2, <2>3 DEF Finished
  <2>5. TextLines(t)' = IF line \in WithText THEN TextLines(t) \cup {n} ELSE TextLines(t)
    <3>1. \A k : k \in TextLines(t)' <=> k \in TextLines(t) \/ (k = n /\ line \in WithText)
      BY <2>2, <2>3 DEF TextLines
    <3> QED
      BY <3>1
  <2>6. text' \in [Tests -> Seq(Nat)] /\ ToSet(text'[t]) = TextLines(t)'
    <3>1. CASE line \in WithText
      <4>1. text' = [text EXCEPT ![t] = Append(@, n)]
        BY <2>1, <2>2, <3>1
      <4>2. Append(text[t], n) \in Seq(Nat) /\ ToSet(Append(text[t], n)) = ToSet(text[t]) \cup {n}
        <5>1. text[t] \in Seq(Nat) /\ n \in Nat
          BY <1>5, <2>2
        <5>2. Append(text[t], n) \in Seq(Nat)
          BY <5>1, AppendProperties
        <5> QED
          BY <5>1, <5>2, AppendedSet
      <4> QED
        BY <1>3, <1>5, <2>5, <3>1, <4>1, <4>2
    <3>2. CASE line \notin WithText
      BY <1>3, <1>5, <2>1, <2>5, <3>2
    <3> QED
      BY <3>1, <3>2
  <2>7. said' \in [Tests -> Seq(Kinds)]
    BY <1>5, <2>1, <2>2
  <2>8. /\ line \in Finishing => Say(t, "done") /\ Goes(t, "over")
        /\ line \in {"piece", "empty"} => Say(t, "running") /\ UNCHANGED serving
        /\ line = "odd" => Say(t, "error") /\ Goes(t, "over")
        /\ line = "[DONE]" => Goes(t, "over") /\ UNCHANGED sent
        /\ line = "noise" => UNCHANGED <<serving, sent>>
    BY <2>1 DEF Payload, Finishing, Kinds
  <2>9. line \in Finishing \cup {"piece", "empty", "odd", "[DONE]", "noise"}
    BY DEF Kinds, Finishing
  \* An event more or none, and where the generator is then.
  <2>10. ASSUME NEW how \in {"running", "done", "error"}, Say(t, how)
         PROVE  /\ sent' \in [Tests -> Seq(Event)]
                /\ OnTheWay(t)' = OnTheWay(t) \cup {[how |-> how, text |-> text'[t]]}
    <3> DEFINE e == [how |-> how, text |-> text'[t]]
    <3>1. e \in Event
      BY <2>6 DEF Event
    <3>2. sent' = [sent EXCEPT ![t] = Append(@, e)]
      BY <2>10 DEF Say
    <3> HIDE DEF e
    <3>3. Append(sent[t], e) \in Seq(Event) /\ ToSet(Append(sent[t], e)) = ToSet(sent[t]) \cup {e}
      BY <1>5, <3>1, AppendProperties, AppendedSet
    <3> QED
      BY <1>5, <3>2, <3>3 DEF OnTheWay, e
  <2>11. UNCHANGED sent => sent' \in [Tests -> Seq(Event)] /\ OnTheWay(t)' = OnTheWay(t)
    BY <1>5 DEF OnTheWay
  <2>12. Goes(t, "over") => serving' \in [Tests -> {"off", "asking", "reading", "over"}] /\ serving'[t] = "over"
    BY <1>5 DEF Goes
  <2>13. /\ sent' \in [Tests -> Seq(Event)] /\ serving' \in [Tests -> {"off", "asking", "reading", "over"}]
         /\ line \in Finishing => serving'[t] = "over"
    <3>1. Say(t, "done") \/ Say(t, "running") \/ Say(t, "error") \/ UNCHANGED sent
      BY <2>8, <2>9
    <3>2. Goes(t, "over") \/ UNCHANGED serving
      BY <2>8, <2>9
    <3> QED
      BY <1>5, <2>8, <2>10, <2>11, <2>12, <3>1, <3>2
  <2>14. TextOfLines(t)'
    BY <2>4, <2>6, <2>13 DEF TextOfLines
  <2>15. EventsTrue(t)'
    <3>1. CASE line \in Finishing
      <4>1. OnTheWay(t)' = OnTheWay(t) \cup {[how |-> "done", text |-> text'[t]]}
        BY <2>8, <2>10, <3>1
      <4>2. PICK e : e = [how |-> "done", text |-> text'[t]]
        OBVIOUS
      <4>3. e.how = "done" /\ ToSet(e.text) = TextLines(t)'
        BY <2>6, <4>2
      <4>4. \A x \in OnTheWay(t)' : x = e \/ x.how \notin {"done", "error", "mute"}
        BY <1>3, <4>1, <4>2
      <4>5. e \in OnTheWay(t)'
        BY <4>1, <4>2
      <4> QED
        BY <2>4, <2>13, <3>1, <4>3, <4>4, <4>5 DEF EventsTrue
    <3>2. CASE line \in {"piece", "empty"}
      <4>1. OnTheWay(t)' = OnTheWay(t) \cup {[how |-> "running", text |-> text'[t]]}
        BY <2>8, <2>10, <3>2
      <4> QED
        BY <1>3, <2>4, <3>2, <4>1 DEF EventsTrue, Finishing
    <3>3. CASE line = "odd"
      <4>1. OnTheWay(t)' = OnTheWay(t) \cup {[how |-> "error", text |-> text'[t]]} /\ serving'[t] = "over"
        BY <2>8, <2>10, <2>12, <3>3
      <4> QED
        BY <1>3, <2>4, <3>3, <4>1 DEF EventsTrue, Finishing
    <3>4. CASE line \in {"[DONE]", "noise"}
      <4>1. OnTheWay(t)' = OnTheWay(t)
        BY <2>8, <2>11, <3>4
      <4> QED
        BY <1>3, <2>4, <3>4, <4>1 DEF EventsTrue, Finishing
    <3> QED
      BY <2>9, <3>1, <3>2, <3>3, <3>4
  <2> QED
    BY <1>6, <2>6, <2>7, <2>13, <2>14, <2>15
<1> QED
  BY <1>7, <1>8, <1>9 DEF Serve

\* An event reaches the page.
LEMMA MessageKeeps ==
  ASSUME TestInvariant, NEW t \in Tests, Message(t)
  PROVE  TestInvariant'
<1> DEFINE e == Head(sent[t])
<1>1. /\ t \in open /\ sent[t] # << >>
      /\ sent' = [sent EXCEPT ![t] = Tail(@)]
      /\ shown' = [test |-> t, how |-> IF e.how = "mute" THEN "garbled" ELSE e.how,
                   text |-> IF e.how \in {"error", "mute"} THEN << >> ELSE e.text]
      /\ IF e.how \in {"error", "done"} THEN CloseSource /\ Release(t) ELSE UNCHANGED <<source, open, spinning>>
      /\ UNCHANGED <<serving, said, text, owner, broken>>
  BY DEF Message, relay
<1>2. /\ TestTypeOK /\ OneSource /\ t = Latest /\ Latest > 0 /\ Latest' = Latest /\ t \in Nat
      /\ TextOfLines(t) /\ EventsTrue(t)
  BY <1>1 DEF TestInvariant, OneSource, Tests, Latest
<1>3. sent \in [Tests -> Seq(Event)] /\ sent[t] \in Seq(Event)
  BY <1>2 DEF TestTypeOK
<1>4. /\ e \in OnTheWay(t) /\ e \in Event /\ Tail(sent[t]) \in Seq(Event)
      /\ \A x : x \in ToSet(sent[t]) <=> x \in ToSet(Tail(sent[t])) \/ x = e
  BY <1>1, <1>3, TakenSet DEF OnTheWay
<1>5. e.how \in {"running", "done", "error", "mute"} /\ e.text \in Seq(Nat) /\ << >> \in Seq(Nat)
  BY <1>4 DEF Event
<1>6. sent' \in [Tests -> Seq(Event)] /\ (\A x : x \in OnTheWay(t) <=> x \in OnTheWay(t)' \/ x = e)
  BY <1>1, <1>3, <1>4 DEF OnTheWay
<1> HIDE DEF e
<1>7. /\ e.how \in {"error", "done"} => source' = 0 /\ open' = {}
      /\ e.how \in {"running", "mute"} => source' = source /\ open' = open
  BY <1>1, <1>2 DEF CloseSource, OneSource
<1>8. source' \in Nat /\ OneSource'
  BY <1>1, <1>2, <1>5, <1>7 DEF OneSource, TestTypeOK
<1>9. TestTypeOK'
  <2>1. shown' \in [test : Nat, how : {"nothing", "running", "done", "error", "garbled", "lost"}, text : Seq(Nat)]
    <3>1. (IF e.how = "mute" THEN "garbled" ELSE e.how) \in {"nothing", "running", "done", "error", "garbled", "lost"}
      BY <1>5
    <3>2. (IF e.how \in {"error", "mute"} THEN << >> ELSE e.text) \in Seq(Nat)
      BY <1>5
    <3> QED
      BY <1>1, <1>2, <3>1, <3>2
  <2> QED
    BY <1>1, <1>2, <1>6, <1>8, <2>1 DEF TestTypeOK
<1>10. (TextLines(t)' = TextLines(t)) /\ (Finished(t)' <=> Finished(t)) /\ serving'[t] = serving[t]
  BY <1>1 DEF TextLines, Finished
<1>11. TextOfLines(t)'
  BY <1>1, <1>2, <1>10 DEF TextOfLines
<1>12. EventsTrue(t)'
  <2>1. \A x \in OnTheWay(t)' :
          /\ x.how = "done" => serving[t] = "over" /\ Finished(t) /\ ToSet(x.text) = TextLines(t)
          /\ x.how \in {"error", "mute"} => serving[t] = "over" /\ ~Finished(t)
    BY <1>2, <1>6 DEF EventsTrue
  <2>2. ASSUME Finished(t), t \in open' PROVE \E x \in OnTheWay(t)' : x.how = "done"
    <3>1. e.how # "done"
      BY <1>7, <2>2
    <3>2. PICK x \in OnTheWay(t) : x.how = "done"
      BY <1>1, <1>2, <2>2 DEF EventsTrue
    <3> QED
      BY <1>6, <3>1, <3>2
  <2> QED
    BY <1>10, <2>1, <2>2 DEF EventsTrue
<1>13. PageTrue(t)'
  <2>1. /\ e.how = "done" => serving[t] = "over" /\ Finished(t) /\ ToSet(e.text) = TextLines(t)
        /\ e.how \in {"error", "mute"} => serving[t] = "over" /\ ~Finished(t)
    BY <1>2, <1>4 DEF EventsTrue
  <2>2. /\ shown'.how = "done" => e.how = "done" /\ shown'.text = e.text
        /\ shown'.how \in {"error", "garbled"} => e.how \in {"error", "mute"}
        /\ shown'.how # "lost"
    BY <1>1, <1>5
  <2> QED
    BY <1>10, <2>1, <2>2 DEF PageTrue
<1> QED
  BY <1>2, <1>8, <1>9, <1>11, <1>12, <1>13 DEF TestInvariant

\* The connection is lost, at the end of the stream or before.
LEMMA LostKeeps ==
  ASSUME TestInvariant, NEW t \in Tests, Lost(t) \/ Break(t)
  PROVE  TestInvariant'
<1>1. /\ t \in open /\ source' = 0 /\ open' = open \ {source}
      /\ shown' = IF shown.how = "garbled" THEN shown ELSE [shown EXCEPT !.how = "lost"]
      /\ UNCHANGED <<serving, said, text, sent, owner>>
      /\ broken' \in BOOLEAN /\ (broken => broken')
      /\ broken' \/ sent[t] = << >>
  BY DEF Lost, Break, Failed, CloseSource, relay, TestInvariant, TestTypeOK
<1>2. /\ TestTypeOK /\ OneSource /\ t = Latest /\ Latest > 0 /\ Latest' = Latest
      /\ TextOfLines(t) /\ EventsTrue(t) /\ PageTrue(t)
  BY <1>1 DEF TestInvariant, OneSource, Tests, Latest
<1>3. open' = {}
  BY <1>1, <1>2 DEF OneSource
<1>4. /\ (TextLines(t)' = TextLines(t)) /\ (Finished(t)' <=> Finished(t))
      /\ OnTheWay(t)' = OnTheWay(t) /\ serving'[t] = serving[t]
  BY <1>1 DEF TextLines, Finished, OnTheWay
<1>5. shown \in [test : Nat, how : {"nothing", "running", "done", "error", "garbled", "lost"}, text : Seq(Nat)]
  BY <1>2 DEF TestTypeOK
<1>6. /\ shown' \in [test : Nat, how : {"nothing", "running", "done", "error", "garbled", "lost"}, text : Seq(Nat)]
      /\ shown'.test = shown.test /\ shown'.how \in {"garbled", "lost"}
      /\ shown'.how = "garbled" => shown.how = "garbled"
  BY <1>1, <1>5
<1>7. TestTypeOK'
  BY <1>1, <1>2, <1>6 DEF TestTypeOK
<1>8. OneSource'
  BY <1>1, <1>2, <1>3, <1>6 DEF OneSource
<1>9. TextOfLines(t)' /\ EventsTrue(t)'
  BY <1>1, <1>2, <1>3, <1>4 DEF TextOfLines, EventsTrue
<1>10. broken' \/ ~Finished(t)
  <2>1. sent[t] = << >> => OnTheWay(t) = {}
    BY DEF OnTheWay, ToSet
  <2> QED
    BY <1>1, <1>2, <2>1 DEF EventsTrue
<1>11. PageTrue(t)'
  BY <1>2, <1>3, <1>4, <1>6, <1>10 DEF PageTrue
<1> QED
  BY <1>2, <1>7, <1>8, <1>9, <1>11 DEF TestInvariant

LEMMA TestSteps == TestInvariant /\ [TestNext]_testVars => TestInvariant'
<1> SUFFICES ASSUME TestInvariant, [TestNext]_testVars PROVE TestInvariant'
  OBVIOUS
<1>1. CASE \E b \in Buttons : Press(b)
  BY <1>1, PressKeeps
<1>2. ASSUME NEW t \in Tests, (t \in open /\ Serve(t)) \/ Handle(t) \/ Break(t)
      PROVE  TestInvariant'
  BY <1>2, ServeKeeps, MessageKeeps, LostKeeps DEF Handle
<1>3. CASE UNCHANGED testVars
  BY <1>3 DEF testVars, relay, TestInvariant, TestTypeOK, OneSource, TextOfLines, EventsTrue, PageTrue,
              OnTheWay, Finished, TextLines, Latest
<1> QED
  BY <1>1, <1>2, <1>3 DEF TestNext

\* The inductive invariant of the streaming test.
THEOREM TestInvariance == TestSpec => []TestInvariant
BY TestStarts, TestSteps, PTL DEF TestSpec

\* stream_test and runDiffusionTest: for any number of buttons and tests, and every
\* answer, the page shows the latest test, a finished answer whole, and takes an
\* answer for failed or lost only if it was.
THEOREM PageShowsTheTruth == TestSpec => []ShowsTheTruth
<1>1. TestInvariant => ShowsTheTruth
  <2> SUFFICES ASSUME TestInvariant, shown.how # "nothing" PROVE ShowsTheTruth
    BY DEF ShowsTheTruth
  <2>1. Latest \in Nat /\ Latest > 0 /\ Latest \in Tests /\ shown.test = Latest
    BY DEF TestInvariant, TestTypeOK, OneSource, Latest
  <2>2. PageTrue(Latest)
    BY <2>1 DEF TestInvariant
  <2> QED
    BY <2>1, <2>2 DEF ShowsTheTruth, PageTrue, Finished, TextLines
<1> QED
  BY <1>1, TestInvariance, PTL

-----------------------------------------------------------------------------
(* The Headroom monitor: its pages. *)

ThreadPlaces == {"off", "looking", "opened", "reading", "holding", "changed"}

WebTypeOK ==
  /\ at \in ThreadPlaces /\ meter.changes \in Nat
  /\ subscribers \subseteq Pages
  /\ queues \in [Pages -> Seq(Nat)]
  /\ page \in [Pages -> {"off", "subscribed", "open", "gone", "ended"}]
  /\ pageShows \in [Pages -> Int] /\ lost \in [Pages -> BOOLEAN]
  /\ late \in [Pages -> Nat] /\ since \in [Pages -> Nat]

\* The latest snapshot on its way to a subscriber, or there, is that of the meter.
LatestUnderWay(p) ==
  /\ queues[p] # << >> => queues[p][Len(queues[p])] = meter.changes
  /\ queues[p] = << >> /\ page[p] = "open" /\ ~lost[p] => pageShows[p] = meter.changes

\* A place that nobody reads is held as long as its queue fills up: what was put
\* there since is in the queue, or was taken by one of the gets left over.
PlaceKept(p) ==
  /\ page[p] = "off" => queues[p] = << >> /\ p \notin subscribers
  /\ page[p] \in {"off", "subscribed"} => late[p] = 0
  /\ Len(queues[p]) <= QueueSize
  /\ IF Over(p) THEN since[p] + late[p] <= Len(queues[p]) + 2
                ELSE since[p] = 0 /\ late[p] <= 1

PagesInvariant ==
  /\ WebTypeOK
  /\ at # "changed" => \A p \in subscribers : LatestUnderWay(p)
  /\ \A p \in Pages : PlaceKept(p)

LEMMA PagesInit == MonitorInit => PagesInvariant
<1> SUFFICES ASSUME MonitorInit PROVE PagesInvariant
  OBVIOUS
<1>1. QueueSize \in Nat \ {0}
  BY SizesAssumption
<1>2. << >> \in Seq(Nat) /\ Len(<< >>) = 0 /\ -1 \in Int
  OBVIOUS
<1>3. WebTypeOK
  BY <1>2 DEF MonitorInit, WebTypeOK, ThreadPlaces
<1> QED
  BY <1>1, <1>2, <1>3 DEF MonitorInit, PagesInvariant, PlaceKept, Over

\* What is at the end of a queue, and what is left when its first one goes.
LEMMA QueueEnds ==
  ASSUME NEW q \in Seq(Nat)
  PROVE  /\ Len(q) \in Nat /\ (q = << >> <=> Len(q) = 0)
         /\ \A n \in Nat : /\ Append(q, n) \in Seq(Nat) /\ Append(q, n) # << >>
                           /\ Len(Append(q, n)) = Len(q) + 1 /\ Append(q, n)[Len(Append(q, n))] = n
         /\ q # << >> =>
              /\ Tail(q) \in Seq(Nat) /\ Len(Tail(q)) = Len(q) - 1 /\ Head(q) \in Nat
              /\ Tail(q) # << >> => Tail(q)[Len(Tail(q))] = q[Len(q)]
              /\ Tail(q) = << >> => Head(q) = q[Len(q)]
<1>1. Len(q) \in Nat /\ (q = << >> <=> Len(q) = 0)
  BY EmptySeq
<1>2. ASSUME NEW n \in Nat
      PROVE  /\ Append(q, n) \in Seq(Nat) /\ Append(q, n) # << >>
             /\ Len(Append(q, n)) = Len(q) + 1 /\ Append(q, n)[Len(Append(q, n))] = n
  BY <1>1, AppendProperties
<1>3. ASSUME q # << >>
      PROVE  /\ Tail(q) \in Seq(Nat) /\ Len(Tail(q)) = Len(q) - 1 /\ Head(q) \in Nat
             /\ Tail(q) # << >> => Tail(q)[Len(Tail(q))] = q[Len(q)]
             /\ Tail(q) = << >> => Head(q) = q[Len(q)]
  <2>1. /\ Tail(q) \in Seq(Nat) /\ Len(Tail(q)) = Len(q) - 1 /\ Head(q) \in Nat /\ Head(q) = q[1]
        /\ \A k \in 1..Len(Tail(q)) : Tail(q)[k] = q[k + 1]
    BY <1>3, HeadTailProperties
  <2>2. Tail(q) = << >> <=> Len(Tail(q)) = 0
    BY <2>1, EmptySeq
  <2>3. Tail(q) # << >> => Len(Tail(q)) \in 1..Len(Tail(q)) /\ Len(Tail(q)) + 1 = Len(q)
    BY <1>1, <2>1, <2>2
  <2>4. Tail(q) = << >> => Len(q) = 1
    BY <1>1, <2>1, <2>2
  <2> QED
    BY <2>1, <2>3, <2>4
<1> QED
  BY <1>1, <1>2, <1>3

\* The steps that are not about pages.
LEMMA PagesRest ==
  ASSUME PagesInvariant, UNCHANGED web, at' \in ThreadPlaces, meter'.changes \in Nat,
         at' # "changed" => at # "changed" /\ meter'.changes = meter.changes
  PROVE  PagesInvariant'
<1>1. UNCHANGED <<subscribers, queues, page, pageShows, late, lost, since>>
  BY DEF web
<1>2. WebTypeOK'
  BY <1>1 DEF PagesInvariant, WebTypeOK
<1> QED
  BY <1>1, <1>2 DEF PagesInvariant, LatestUnderWay, PlaceKept, Over

LEMMA BroadcastKeeps ==
  ASSUME PagesInvariant, Broadcast
  PROVE  PagesInvariant'
<1> DEFINE room == {p \in subscribers : Len(queues[p]) < QueueSize}
<1>1. /\ at' = "reading" /\ subscribers' = room /\ meter' = meter
      /\ queues' = [p \in Pages |-> IF p \in room THEN Append(queues[p], meter.changes) ELSE queues[p]]
      /\ since' = [p \in Pages |-> IF Over(p) /\ p \in room THEN since[p] + 1 ELSE since[p]]
      /\ UNCHANGED <<page, pageShows, late, lost>>
  BY DEF Broadcast
<1>2. /\ room \subseteq subscribers /\ room \subseteq Pages /\ meter.changes \in Nat
      /\ \A p \in room : Len(queues[p]) < QueueSize
      /\ \A p \in Pages : queues[p] \in Seq(Nat) /\ since[p] \in Nat /\ late[p] \in Nat
  BY DEF PagesInvariant, WebTypeOK
<1> HIDE DEF room
<1>3. QueueSize \in Nat
  BY SizesAssumption
<1>4. ASSUME NEW p \in room
      PROVE  /\ queues'[p] \in Seq(Nat) /\ queues'[p] # << >> /\ Len(queues'[p]) = Len(queues[p]) + 1
             /\ queues'[p][Len(queues'[p])] = meter.changes
  <2>1. p \in Pages /\ queues'[p] = Append(queues[p], meter.changes) /\ queues[p] \in Seq(Nat)
    BY <1>1, <1>2
  <2>2. meter.changes \in Nat
    BY <1>2
  <2>3. LET q == Append(queues[p], meter.changes)
        IN  q \in Seq(Nat) /\ q # << >> /\ Len(q) = Len(queues[p]) + 1 /\ q[Len(q)] = meter.changes
    BY <2>1, <2>2, QueueEnds
  <2> QED
    BY <2>1, <2>3
<1>5. ASSUME NEW p \in Pages, p \notin room PROVE queues'[p] = queues[p] /\ since'[p] = since[p]
  BY <1>1, <1>5
<1>6. WebTypeOK'
  <2>1. \A p \in Pages : queues'[p] \in Seq(Nat)
    BY <1>2, <1>4, <1>5
  <2>2. queues' \in [Pages -> Seq(Nat)]
    BY <1>1, <2>1
  <2>3. since' \in [Pages -> Nat]
    BY <1>1, <1>2
  <2> QED
    BY <1>1, <1>2, <2>2, <2>3 DEF PagesInvariant, WebTypeOK, ThreadPlaces
<1>7. \A p \in subscribers' : LatestUnderWay(p)'
  BY <1>1, <1>4 DEF LatestUnderWay
<1>8. ASSUME NEW p \in Pages PROVE PlaceKept(p)'
  <2>1. PlaceKept(p)
    BY DEF PagesInvariant
  <2>2. CASE p \in room
    <3>1. page[p] # "off"
      BY <1>2, <2>1, <2>2 DEF PlaceKept
    <3>2. Len(queues[p]) \in Nat /\ Len(queues'[p]) = Len(queues[p]) + 1 /\ Len(queues[p]) < QueueSize
      BY <1>2, <1>4, <2>2, QueueEnds
    <3>3. since'[p] = IF Over(p) THEN since[p] + 1 ELSE since[p]
      BY <1>1, <2>2
    <3> QED
      BY <1>1, <1>2, <1>3, <2>1, <3>1, <3>2, <3>3 DEF PlaceKept, Over
  <2>3. CASE p \notin room
    BY <1>1, <1>2, <1>5, <2>1, <2>3 DEF PlaceKept, Over
  <2> QED
    BY <2>2, <2>3
<1> QED
  BY <1>6, <1>7, <1>8 DEF PagesInvariant

PageStep(p) ==
  Subscribe(p) \/ SendFirst(p) \/ Send(p) \/ GiveUp(p) \/ LateGet(p) \/ EndQuiet(p) \/ LeavePage(p)

LEMMA PageSteps ==
  ASSUME PagesInvariant, NEW p \in Pages, PageStep(p)
  PROVE  PagesInvariant'
<1>1. /\ UNCHANGED <<at, meter>> /\ at \in ThreadPlaces /\ meter.changes \in Nat
  BY DEF PageStep, Subscribe, SendFirst, Send, GiveUp, LateGet, EndQuiet, LeavePage, EndPage,
         tail, PagesInvariant, WebTypeOK
<1>2. /\ subscribers \subseteq Pages /\ queues \in [Pages -> Seq(Nat)] /\ since \in [Pages -> Nat]
      /\ page \in [Pages -> {"off", "subscribed", "open", "gone", "ended"}]
      /\ pageShows \in [Pages -> Int] /\ lost \in [Pages -> BOOLEAN] /\ late \in [Pages -> Nat]
      /\ PlaceKept(p) /\ QueueSize \in Nat \ {0}
  BY SizesAssumption DEF PagesInvariant, WebTypeOK
<1>3. queues[p] \in Seq(Nat) /\ Len(queues[p]) \in Nat /\ since[p] \in Nat /\ late[p] \in Nat
  BY <1>2, QueueEnds
<1>4. CASE Subscribe(p)
  <2>1. /\ page[p] = "off" /\ page' = [page EXCEPT ![p] = "subscribed"]
        /\ subscribers' = subscribers \cup {p} /\ UNCHANGED <<queues, pageShows, late, lost, since>>
    BY <1>4 DEF Subscribe, SetPage
  <2>2. queues[p] = << >>
    BY <1>2, <2>1 DEF PlaceKept
  <2> QED
    BY <1>1, <1>2, <2>1, <2>2 DEF PagesInvariant, WebTypeOK, LatestUnderWay, PlaceKept, Over
<1>5. CASE SendFirst(p)
  <2>1. /\ page[p] = "subscribed" /\ page' = [page EXCEPT ![p] = "open"]
        /\ pageShows' = [pageShows EXCEPT ![p] = meter.changes]
        /\ UNCHANGED <<subscribers, queues, late, lost, since>>
    BY <1>5 DEF SendFirst, SetPage
  <2> QED
    BY <1>1, <1>2, <2>1 DEF PagesInvariant, WebTypeOK, LatestUnderWay, PlaceKept, Over
<1>6. ASSUME queues[p] # << >>, queues' = [queues EXCEPT ![p] = Tail(@)], page[p] # "off",
             UNCHANGED <<subscribers, page, since>>,
             \/ /\ page[p] = "open" /\ pageShows' = [pageShows EXCEPT ![p] = Head(queues[p])]
                /\ lost' = [lost EXCEPT ![p] = FALSE] /\ UNCHANGED late
             \/ /\ late[p] > 0 /\ late' = [late EXCEPT ![p] = @ - 1]
                /\ lost' = [lost EXCEPT ![p] = page[p] = "open"] /\ UNCHANGED pageShows
      PROVE  PagesInvariant'
  <2>2. /\ Tail(queues[p]) \in Seq(Nat) /\ Len(Tail(queues[p])) = Len(queues[p]) - 1 /\ Head(queues[p]) \in Nat
        /\ Tail(queues[p]) # << >> => Tail(queues[p])[Len(Tail(queues[p]))] = queues[p][Len(queues[p])]
        /\ Tail(queues[p]) = << >> => Head(queues[p]) = queues[p][Len(queues[p])]
    BY <1>3, <1>6, QueueEnds
  <2>3. /\ queues'[p] = Tail(queues[p]) /\ \A c \in Pages : c # p => queues'[c] = queues[c]
        /\ page[p] = "open" => lost'[p] \/ pageShows'[p] = Head(queues[p])
        /\ late'[p] = late[p] \/ (late[p] > 0 /\ late'[p] = late[p] - 1)
        /\ page[p] # "open" => late[p] > 0 /\ late'[p] = late[p] - 1
        /\ \A c \in Pages : c # p => lost'[c] = lost[c] /\ pageShows'[c] = pageShows[c] /\ late'[c] = late[c]
    <3>1. queues'[p] = Tail(queues[p]) /\ \A c \in Pages : c # p => queues'[c] = queues[c]
      BY <1>2, <1>6
    <3>2. CASE /\ page[p] = "open" /\ pageShows' = [pageShows EXCEPT ![p] = Head(queues[p])]
               /\ lost' = [lost EXCEPT ![p] = FALSE] /\ UNCHANGED late
      <4>1. pageShows'[p] = Head(queues[p]) /\ \A c \in Pages : c # p => pageShows'[c] = pageShows[c]
        BY <1>2, <3>2
      <4>2. \A c \in Pages : c # p => lost'[c] = lost[c]
        BY <1>2, <3>2, ZenonT(30)
      <4>3. page[p] = "open" /\ \A c \in Pages : late'[c] = late[c]
        BY <3>2
      <4> QED
        BY <3>1, <4>1, <4>2, <4>3
    <3>3. CASE /\ late[p] > 0 /\ late' = [late EXCEPT ![p] = @ - 1]
               /\ lost' = [lost EXCEPT ![p] = page[p] = "open"] /\ UNCHANGED pageShows
      <4>1. page[p] = "open" => lost'[p]
        BY <1>2, <3>3, ZenonT(30)
      <4>2. \A c \in Pages : c # p => lost'[c] = lost[c]
        BY <1>2, <3>3, ZenonT(30)
      <4>3. late'[p] = late[p] - 1 /\ \A c \in Pages : c # p => late'[c] = late[c]
        BY <1>2, <3>3
      <4> QED
        BY <3>1, <3>3, <4>1, <4>2, <4>3
    <3> QED
      BY <1>6, <3>2, <3>3
  <2>4. WebTypeOK'
    <3>1. queues' \in [Pages -> Seq(Nat)]
      BY <1>2, <1>6, <2>2
    <3>2. pageShows' \in [Pages -> Int]
      <4>1. Head(queues[p]) \in Int
        BY <2>2
      <4>2. pageShows' = pageShows \/ pageShows' = [pageShows EXCEPT ![p] = Head(queues[p])]
        BY <1>6
      <4> QED
        BY <1>2, <4>1, <4>2
    <3>3. lost' \in [Pages -> BOOLEAN]
      BY <1>2, <1>6
    <3>4. late' \in [Pages -> Nat]
      BY <1>2, <1>3, <1>6
    <3> QED
      BY <1>1, <1>2, <1>6, <3>1, <3>2, <3>3, <3>4 DEF WebTypeOK
  <2>5. ASSUME at # "changed", NEW c \in subscribers PROVE LatestUnderWay(c)'
    <3>1. LatestUnderWay(c) /\ c \in Pages
      BY <1>2, <2>5 DEF PagesInvariant
    <3>2. CASE c = p
      BY <1>1, <1>6, <2>2, <2>3, <3>1, <3>2 DEF LatestUnderWay
    <3>3. CASE c # p
      BY <1>1, <1>6, <2>3, <3>1, <3>3 DEF LatestUnderWay
    <3> QED
      BY <3>2, <3>3
  <2>6. ASSUME NEW c \in Pages PROVE PlaceKept(c)'
    <3>1. PlaceKept(c)
      BY DEF PagesInvariant
    <3>2. CASE c = p
      <4>1. page[p] # "subscribed"
        BY <1>2, <1>6 DEF PlaceKept
      <4>2. Over(p)' <=> Over(p)
        BY <1>6 DEF Over
      <4>3. Over(p) => page[p] # "open"
        BY DEF Over
      <4> QED
        BY <1>2, <1>3, <1>6, <2>2, <2>3, <3>2, <4>1, <4>2, <4>3 DEF PlaceKept
    <3>3. CASE c # p
      BY <1>6, <2>3, <3>1, <3>3 DEF PlaceKept, Over
    <3> QED
      BY <3>2, <3>3
  <2> QED
    BY <1>1, <1>6, <2>4, <2>5, <2>6 DEF PagesInvariant
<1>7. CASE Send(p)
  BY <1>6, <1>7 DEF Send
<1>8. CASE GiveUp(p)
  <2>1. /\ page[p] = "open" /\ late[p] = 0 /\ late' = [late EXCEPT ![p] = 1]
        /\ UNCHANGED <<subscribers, queues, page, pageShows, lost, since>>
    BY <1>8 DEF GiveUp
  <2> QED
    BY <1>1, <1>2, <1>3, <2>1 DEF PagesInvariant, WebTypeOK, LatestUnderWay, PlaceKept, Over
<1>9. CASE LateGet(p)
  <2>1. /\ late[p] > 0 /\ late' = [late EXCEPT ![p] = @ - 1]
        /\ UNCHANGED <<subscribers, page, pageShows, since>>
    BY <1>9 DEF LateGet
  <2>2. page[p] # "off"
    BY <1>2, <2>1 DEF PlaceKept
  <2>3. CASE queues[p] = << >>
    <3>1. UNCHANGED <<queues, lost>>
      BY <1>9, <2>3 DEF LateGet
    <3> QED
      BY <1>1, <1>2, <1>3, <2>1, <3>1, SMTT(30) DEF PagesInvariant, WebTypeOK, LatestUnderWay, PlaceKept, Over
  <2>4. CASE queues[p] # << >>
    <3>1. queues' = [queues EXCEPT ![p] = Tail(@)] /\ lost' = [lost EXCEPT ![p] = page[p] = "open"]
      BY <1>9, <2>4 DEF LateGet
    <3> QED
      BY <1>6, <2>1, <2>2, <2>4, <3>1
  <2> QED
    BY <2>3, <2>4
<1>10. CASE EndQuiet(p) \/ LeavePage(p)
  <2>1. /\ page[p] \in {"subscribed", "open"} /\ page'[p] \in {"gone", "ended"}
        /\ page' = [page EXCEPT ![p] = page'[p]]
        /\ pageShows' = [pageShows EXCEPT ![p] = -1] /\ lost' = [lost EXCEPT ![p] = FALSE]
        /\ UNCHANGED <<subscribers, queues, since>>
    BY <1>2, <1>10 DEF EndQuiet, LeavePage, EndPage, SetPage
  <2>2. late' = late \/ late' = [late EXCEPT ![p] = IF page[p] = "open" THEN @ + 1 ELSE @]
    BY <1>10 DEF EndQuiet, LeavePage
  <2>3. since[p] = 0 /\ late[p] <= 1
    BY <1>2, <2>1 DEF PlaceKept, Over
  <2>4. late' \in [Pages -> Nat] /\ late'[p] <= 2 /\ \A c \in Pages : c # p => late'[c] = late[c]
    BY <1>2, <1>3, <2>2, <2>3
  <2>5. WebTypeOK'
    <3>1. page' \in [Pages -> {"off", "subscribed", "open", "gone", "ended"}]
      BY <1>2, <2>1
    <3>2. lost' \in [Pages -> BOOLEAN]
      BY <1>2, <2>1
    <3>3. pageShows' \in [Pages -> Int]
      BY <1>2, <2>1
    <3> QED
      BY <1>1, <1>2, <2>1, <2>4, <3>1, <3>2, <3>3 DEF WebTypeOK
  <2>6. \A c \in Pages : c # p => page'[c] = page[c] /\ lost'[c] = lost[c] /\ pageShows'[c] = pageShows[c]
    BY <1>2, <2>1
  <2>7. ASSUME at # "changed", NEW c \in subscribers PROVE LatestUnderWay(c)'
    <3>1. LatestUnderWay(c) /\ c \in Pages
      BY <1>2, <2>7 DEF PagesInvariant
    <3> QED
      BY <1>1, <1>2, <2>1, <2>6, <3>1 DEF LatestUnderWay
  <2>8. ASSUME NEW c \in Pages PROVE PlaceKept(c)'
    <3>1. PlaceKept(c)
      BY DEF PagesInvariant
    <3>2. CASE c = p
      <4>1. queues'[p] = queues[p] /\ since'[p] = 0 /\ late'[p] \in Nat /\ late'[p] <= 2
        BY <2>1, <2>3, <2>4
      <4>2. Over(p)' /\ page'[p] \notin {"off", "subscribed"} /\ Len(queues[p]) <= QueueSize
        BY <1>2, <2>1 DEF PlaceKept, Over
      <4> QED
        BY <1>3, <3>2, <4>1, <4>2 DEF PlaceKept
    <3>3. CASE c # p
      BY <2>1, <2>4, <2>6, <3>1, <3>3 DEF PlaceKept, Over
    <3> QED
      BY <3>2, <3>3
  <2> QED
    BY <1>1, <2>1, <2>5, <2>7, <2>8 DEF PagesInvariant
<1> QED
  BY <1>4, <1>5, <1>7, <1>8, <1>9, <1>10 DEF PageStep

-----------------------------------------------------------------------------
(* The Headroom monitor: its log. *)

Piece == [line : Nat, part : {"whole", "first", "rest"}]

TailTypeOK ==
  /\ files \in Seq(Seq(Piece)) /\ current \in {0, Len(files)}
  /\ written \in 0..Len(Lines) /\ half \in BOOLEAN
  /\ at \in ThreadPlaces
  /\ handle \in 0..Len(files) /\ pos \in Nat
  /\ at \in {"opened", "reading", "holding", "changed"} => handle # 0
  /\ held \in 0..Len(Lines) /\ (held # 0 => at = "holding")
  /\ counted \in Seq(1..Len(Lines))

\* Behind a piece come later lines, or the other half of its own.
Follow(x, y, next) ==
  x.line < y.line \/ (next /\ x.part = "first" /\ y.part = "rest" /\ x.line = y.line)

LogInOrder ==
  /\ \A f \in 1..Len(files) : \A i, j \in 1..Len(files[f]) :
       i < j => Follow(files[f][i], files[f][j], j = i + 1)
  /\ \A f \in 1..Len(files) : \A i \in 1..Len(files[f]) : files[f][i].line \in 1..written
  /\ half =>
       /\ current # 0 /\ Len(files[current]) > 0
       /\ files[current][Len(files[current])] = [line |-> written, part |-> "first"]
       /\ \A f \in 1..Len(files) : \A i \in 1..Len(files[f]) : f # current => files[f][i].line < written

\* The thread is past line n: it will not read it again.
Passed(n) ==
  /\ n <= written /\ (half => n < written)
  /\ handle # 0 => \A k \in 1..Len(files[handle]) : k > pos => n < files[handle][k].line

CountedInOrder ==
  /\ \A i, j \in 1..Len(counted) : i < j => counted[i] < counted[j]
  /\ \A i \in 1..Len(counted) : Passed(counted[i]) /\ (held # 0 => counted[i] < held)
  /\ Passed(held)

TailInvariant == TailTypeOK /\ LogInOrder /\ CountedInOrder

LEMMA TailInit == MonitorInit => TailInvariant
<1> SUFFICES ASSUME MonitorInit PROVE TailInvariant
  OBVIOUS
<1>1. Len(Lines) \in Nat
  BY LinesAssumption
<1>2. << >> \in Seq(Seq(Piece)) /\ << >> \in Seq(1..Len(Lines)) /\ Len(<< >>) = 0
  OBVIOUS
<1>3. files \in Seq(Seq(Piece)) /\ counted \in Seq(1..Len(Lines)) /\ half \in BOOLEAN
  BY <1>2 DEF MonitorInit
<1>4. TailTypeOK
  BY <1>1, <1>2, <1>3 DEF MonitorInit, TailTypeOK, ThreadPlaces
<1> QED
  BY <1>1, <1>2, <1>4 DEF MonitorInit, TailInvariant, LogInOrder, CountedInOrder, Passed

\* Nothing is read yet: that is a place before every line.
LEMMA NothingPassed ==
  ASSUME TailInvariant
  PROVE  Passed(0)
<1>1. TailTypeOK /\ LogInOrder /\ written \in Nat
  BY DEF TailInvariant, TailTypeOK
<1>2. \A n \in 1..written : 0 < n
  BY <1>1
<1>3. half => 0 < written
  <2>1. half => Len(files[current]) \in 1..Len(files[current]) /\ current \in 1..Len(files)
    BY <1>1 DEF LogInOrder, TailTypeOK
  <2>2. half => files[current][Len(files[current])].line \in 1..written
    BY <1>1, <2>1 DEF LogInOrder
  <2> QED
    BY <1>1, <2>2
<1>4. ASSUME handle # 0, NEW k \in 1..Len(files[handle]) PROVE 0 < files[handle][k].line
  <2>1. handle \in 1..Len(files)
    BY <1>1, <1>4 DEF TailTypeOK
  <2>2. files[handle][k].line \in 1..written
    BY <1>1, <2>1 DEF LogInOrder
  <2> QED
    BY <1>2, <2>2
<1> QED
  BY <1>1, <1>3, <1>4 DEF Passed

\* The current file gets a piece more.
LEMMA FileGrows ==
  ASSUME TailTypeOK, current # 0, NEW piece \in Piece,
         files' = [files EXCEPT ![current] = Append(@, piece)]
  PROVE  /\ files' \in Seq(Seq(Piece)) /\ Len(files') = Len(files) /\ current \in 1..Len(files)
         /\ \A f \in 1..Len(files) : f # current => files'[f] = files[f]
         /\ Len(files[current]) \in Nat /\ Len(files'[current]) = Len(files[current]) + 1
         /\ \A i \in 1..Len(files[current]) : files'[current][i] = files[current][i]
         /\ files'[current][Len(files[current]) + 1] = piece
<1>1. files \in Seq(Seq(Piece)) /\ current \in 1..Len(files) /\ Len(files) \in Nat
  BY DEF TailTypeOK
<1>2. files[current] \in Seq(Piece)
  BY <1>1
<1>3. /\ Append(files[current], piece) \in Seq(Piece)
      /\ Len(Append(files[current], piece)) = Len(files[current]) + 1 /\ Len(files[current]) \in Nat
      /\ \A i \in 1..Len(files[current]) : Append(files[current], piece)[i] = files[current][i]
      /\ Append(files[current], piece)[Len(files[current]) + 1] = piece
  BY <1>2, AppendProperties
<1>4. DOMAIN files = 1..Len(files) /\ \A f \in 1..Len(files) : files[f] \in Seq(Piece)
  BY <1>1
<1>5. /\ files'[current] = Append(files[current], piece)
      /\ \A f \in 1..Len(files) : f # current => files'[f] = files[f]
      /\ DOMAIN files' = 1..Len(files)
  BY <1>1, <1>4
<1>6. files' \in [1..Len(files) -> Seq(Piece)]
  BY <1>3, <1>4, <1>5
<1>7. files' \in Seq(Seq(Piece)) /\ Len(files') = Len(files)
  BY <1>1, <1>6
<1> QED
  BY <1>1, <1>3, <1>5, <1>7

\* The proxy writes a line, or half of it, or the other half: what is new in the
\* file is behind all that was passed.
LEMMA LogGrows ==
  ASSUME TailInvariant, current # 0, NEW piece \in Piece,
         files' = [files EXCEPT ![current] = Append(@, piece)],
         UNCHANGED <<current, tail, counted>>, written' \in 0..Len(Lines), half' \in BOOLEAN,
         piece.line = written',
         \/ ~half /\ written' = written + 1 /\ (half' => piece.part = "first")
         \/ half /\ written' = written /\ ~half' /\ piece.part = "rest"
  PROVE  TailInvariant'
<1>1. /\ files' \in Seq(Seq(Piece)) /\ Len(files') = Len(files) /\ current \in 1..Len(files)
      /\ \A f \in 1..Len(files) : f # current => files'[f] = files[f]
      /\ Len(files[current]) \in Nat /\ Len(files'[current]) = Len(files[current]) + 1
      /\ \A i \in 1..Len(files[current]) : files'[current][i] = files[current][i]
      /\ files'[current][Len(files[current]) + 1] = piece
  BY FileGrows DEF TailInvariant
<1>2. UNCHANGED <<at, handle, pos, inode, held>> /\ written \in Nat /\ written' \in Nat
  BY DEF tail, TailInvariant, TailTypeOK
<1>3. TailTypeOK'
  BY <1>1, <1>2 DEF TailInvariant, TailTypeOK
<1> DEFINE n == Len(files[current])
<1>4. /\ \A i \in 1..n : files[current][i].line \in 1..written
      /\ \A f \in 1..Len(files) : \A i \in 1..Len(files[f]) : files[f][i].line \in 1..written
      /\ \A f \in 1..Len(files) : \A i, j \in 1..Len(files[f]) :
           i < j => Follow(files[f][i], files[f][j], j = i + 1)
      /\ half => /\ n > 0 /\ files[current][n] = [line |-> written, part |-> "first"]
                 /\ \A f \in 1..Len(files) : \A i \in 1..Len(files[f]) : f # current => files[f][i].line < written
  BY <1>1 DEF TailInvariant, LogInOrder
<1> HIDE DEF n
<1>5. \A i \in 1..n : Follow(files[current][i], piece, n + 1 = i + 1)
  <2> TAKE i \in 1..n
  <2>1. CASE ~half
    BY <1>2, <1>4, <2>1 DEF Follow
  <2>2. CASE half /\ i = n
    BY <1>1, <1>4, <2>2 DEF Follow, n
  <2>3. CASE half /\ i # n
    <3>1. n \in 1..n /\ i < n /\ n \in Nat
      BY <1>1, <2>3 DEF n
    <3>2. Follow(files[current][i], files[current][n], n = i + 1)
      BY <1>1, <1>4, <3>1 DEF n
    <3>3. files[current][n].part = "first" /\ files[current][n].line = written
      BY <1>4, <2>3
    <3> QED
      BY <2>3, <3>2, <3>3 DEF Follow
  <2> QED
    BY <2>1, <2>2, <2>3
<1>6. \A i \in 1..(n + 1) : i \in 1..n \/ i = n + 1
  BY <1>1 DEF n
<1>7. LogInOrder'
  <2>1. ASSUME NEW f \in 1..Len(files), NEW i \in 1..Len(files'[f]), NEW j \in 1..Len(files'[f]), i < j
        PROVE  Follow(files'[f][i], files'[f][j], j = i + 1)
    <3>1. CASE f # current
      BY <1>1, <1>4, <2>1, <3>1
    <3>2. CASE f = current /\ j \in 1..n
      <4>1. i \in 1..n
        BY <1>1, <2>1, <3>2 DEF n
      <4> QED
        BY <1>1, <1>4, <2>1, <3>2, <4>1 DEF n
    <3>3. CASE f = current /\ j = n + 1
      <4>1. i \in 1..n
        BY <1>1, <2>1, <3>3 DEF n
      <4> QED
        BY <1>1, <1>5, <3>3, <4>1 DEF n
    <3> QED
      BY <1>1, <1>6, <3>1, <3>2, <3>3 DEF n
  <2>2. ASSUME NEW f \in 1..Len(files), NEW i \in 1..Len(files'[f])
        PROVE  files'[f][i].line \in 1..written'
    <3>1. written <= written' /\ written' \in 1..written'
      <4>1. half => written \in 1..written
        <5>1. half => n \in 1..n
          BY <1>1, <1>4 DEF n
        <5> QED
          BY <1>4, <5>1
      <4> QED
        BY <1>2, <4>1
    <3>2. CASE f # current
      <4>1. files'[f][i].line \in 1..written
        BY <1>1, <1>4, <3>2
      <4> QED
        BY <1>2, <3>1, <4>1
    <3>3. CASE f = current /\ i \in 1..n
      <4>1. files'[f][i].line \in 1..written
        BY <1>1, <1>4, <3>3 DEF n
      <4> QED
        BY <1>2, <3>1, <4>1
    <3>4. CASE f = current /\ i = n + 1
      BY <1>1, <3>1, <3>4 DEF n
    <3> QED
      BY <1>1, <1>6, <3>2, <3>3, <3>4 DEF n
  <2>3. ASSUME half'
        PROVE  /\ current' # 0 /\ Len(files'[current']) > 0
               /\ files'[current'][Len(files'[current'])] = [line |-> written', part |-> "first"]
               /\ \A f \in 1..Len(files') : \A i \in 1..Len(files'[f]) : f # current' => files'[f][i].line < written'
    <3>1. ~half /\ written' = written + 1 /\ piece.part = "first" /\ current' = current
      BY <2>3
    <3>2. piece = [line |-> written', part |-> "first"]
      BY <3>1 DEF Piece
    <3>3. \A f \in 1..Len(files) : \A i \in 1..Len(files'[f]) : f # current => files'[f][i].line \in 1..written
      BY <1>1, <1>4
    <3> QED
      BY <1>1, <1>2, <3>1, <3>2, <3>3
  <2> QED
    BY <1>1, <2>1, <2>2, <2>3 DEF LogInOrder
<1>8. ASSUME NEW m \in Nat, Passed(m) PROVE Passed(m)'
  <2>1. m < written'
    BY <1>2, <1>8 DEF Passed
  <2>2. ASSUME handle # 0, NEW k \in 1..Len(files'[handle]), k > pos PROVE m < files'[handle][k].line
    <3>1. handle \in 1..Len(files)
      BY <2>2 DEF TailInvariant, TailTypeOK
    <3>2. CASE handle # current
      BY <1>1, <1>8, <2>2, <3>1, <3>2 DEF Passed
    <3>3. CASE handle = current /\ k \in 1..n
      BY <1>1, <1>8, <2>2, <3>3 DEF Passed, n
    <3>4. CASE handle = current /\ k = n + 1
      BY <1>1, <2>1, <3>4 DEF n
    <3> QED
      BY <1>1, <1>6, <2>2, <3>2, <3>3, <3>4 DEF n
  <2> QED
    BY <1>2, <2>1, <2>2 DEF Passed
<1>9. CountedInOrder'
  <2>1. CountedInOrder /\ held \in Nat /\ counted \in Seq(1..Len(Lines)) /\ UNCHANGED <<counted, held>>
    BY <1>2 DEF TailInvariant, TailTypeOK
  <2>2. \A i \in 1..Len(counted) : counted[i] \in Nat
    BY <2>1
  <2> QED
    BY <1>8, <2>1, <2>2 DEF CountedInOrder
<1> QED
  BY <1>3, <1>7, <1>9 DEF TailInvariant

\* A step of the thread leaves the log alone, and what was passed stays passed as
\* long as the thread does not go back in its file.
LEMMA ThreadGoesOn ==
  ASSUME TailInvariant, UNCHANGED <<log, counted>>, at' \in ThreadPlaces,
         handle' \in 0..Len(files), pos' \in Nat,
         at' \in {"opened", "reading", "holding", "changed"} => handle' # 0,
         held' \in 0..Len(Lines), held' # 0 => at' = "holding",
         handle' # 0 => (handle' = handle /\ pos' >= pos) \/ pos' >= Len(files[handle']),
         held' # 0 => /\ \A i \in 1..Len(counted) : counted[i] < held'
                      /\ held' <= written /\ (half => held' < written)
                      /\ handle' # 0 => \A k \in 1..Len(files[handle']) : k > pos' => held' < files[handle'][k].line
  PROVE  TailInvariant'
<1>1. UNCHANGED <<files, current, written, half, counted>>
  BY DEF log
<1>2. TailTypeOK /\ LogInOrder /\ CountedInOrder
  BY DEF TailInvariant
<1>3. TailTypeOK' /\ LogInOrder'
  <2>1. TailTypeOK'
    BY <1>1, <1>2 DEF TailTypeOK
  <2>2. LogInOrder'
    <3>1. files' = files /\ current' = current /\ written' = written /\ half' = half
      BY <1>1
    <3>2. \A f \in 1..Len(files) :
            /\ \A i, j \in 1..Len(files[f]) : i < j => Follow(files[f][i], files[f][j], j = i + 1)
            /\ \A i \in 1..Len(files[f]) : files[f][i].line \in 1..written
      BY <1>2 DEF LogInOrder
    <3>3. half =>
            /\ current # 0 /\ Len(files[current]) > 0
            /\ files[current][Len(files[current])] = [line |-> written, part |-> "first"]
            /\ \A f \in 1..Len(files) : \A i \in 1..Len(files[f]) : f # current => files[f][i].line < written
      BY <1>2 DEF LogInOrder
    <3> QED
      BY <3>1, <3>2, <3>3 DEF LogInOrder
  <2> QED
    BY <2>1, <2>2
<1>4. pos \in Nat /\ pos' \in Nat /\ written \in Nat /\ files \in Seq(Seq(Piece))
  BY <1>2 DEF TailTypeOK
<1>5. ASSUME NEW n \in Nat, Passed(n) PROVE Passed(n)'
  <2>1. ASSUME handle' # 0, NEW k \in 1..Len(files[handle']), k > pos'
        PROVE  n < files[handle'][k].line
    <3>1. Len(files[handle']) \in Nat
      BY <1>4, <2>1
    <3>2. handle' = handle /\ k > pos
      BY <1>4, <2>1, <3>1
    <3> QED
      BY <1>5, <2>1, <3>2 DEF Passed
  <2> QED
    BY <1>1, <1>5, <2>1 DEF Passed
<1>6. Passed(0)
  BY NothingPassed
<1>7. Passed(held)'
  <2>1. CASE held' = 0
    BY <1>5, <1>6, <2>1 DEF Passed
  <2>2. CASE held' # 0
    BY <1>1, <2>2 DEF Passed
  <2> QED
    BY <2>1, <2>2
<1>8. \A i \in 1..Len(counted) : Passed(counted[i])' /\ counted[i] \in Nat
  <2> TAKE i \in 1..Len(counted)
  <2>1. counted[i] \in Nat /\ counted' = counted
    <3>1. counted \in Seq(1..Len(Lines))
      BY <1>2 DEF TailTypeOK
    <3>2. counted[i] \in 1..Len(Lines)
      BY <3>1
    <3> QED
      BY <1>1, <3>2
  <2>2. Passed(counted[i])
    BY <1>2 DEF CountedInOrder
  <2> QED
    BY <1>5, <2>1, <2>2
<1>9. CountedInOrder'
  BY <1>1, <1>2, <1>7, <1>8 DEF CountedInOrder
<1> QED
  BY <1>3, <1>9 DEF TailInvariant

LEMMA ThreadTails ==
  ASSUME TailInvariant, OpenLog \/ StatLog \/ CheckRotation \/ Stopped \/ Broadcast
  PROVE  TailInvariant'
<1>1. /\ TailTypeOK /\ files \in Seq(Seq(Piece)) /\ Len(files) \in Nat /\ current \in 0..Len(files)
      /\ Len(Lines) \in Nat /\ pos \in Nat
  BY LinesAssumption DEF TailInvariant, TailTypeOK
<1>2. UNCHANGED <<log, counted>> /\ held' \in {0, held}
  BY DEF OpenLog, StatLog, CheckRotation, Stopped, Broadcast
<1>3. held' # 0 => held' = held /\ at = "holding" /\ held' \in 1..Len(Lines)
  BY <1>1, <1>2 DEF TailTypeOK
<1>4. held' = 0
  BY <1>3 DEF OpenLog, StatLog, CheckRotation, Stopped, Broadcast
<1>5. CASE OpenLog
  <2>1. handle' = current /\ current \in 1..Len(files) /\ pos' = Len(files[current]) /\ at' = "opened"
    BY <1>1, <1>5 DEF OpenLog
  <2>2. Len(files[current]) \in Nat
    BY <1>1, <2>1
  <2> QED
    BY <1>1, <1>2, <1>4, <2>1, <2>2, ThreadGoesOn DEF ThreadPlaces
<1>6. CASE StatLog
  <2>1. \/ at' = "looking" /\ handle' = 0 /\ pos' = 0
        \/ at' = "reading" /\ handle' = handle /\ pos' = pos /\ handle # 0
    BY <1>1, <1>6 DEF StatLog, CloseLog, TailTypeOK
  <2> QED
    BY <1>1, <1>2, <1>4, <2>1, ThreadGoesOn DEF ThreadPlaces, TailTypeOK
<1>7. CASE CheckRotation \/ Stopped
  <2>1. at' \in {"looking", "off"} /\ handle' = 0 /\ pos' = 0
    BY <1>7 DEF CheckRotation, Stopped, CloseLog
  <2> QED
    BY <1>1, <1>2, <1>4, <2>1, ThreadGoesOn DEF ThreadPlaces, TailTypeOK
<1>8. CASE Broadcast
  <2>1. at' = "reading" /\ handle' = handle /\ pos' = pos /\ handle # 0
    BY <1>1, <1>8 DEF Broadcast, TailTypeOK
  <2> QED
    BY <1>1, <1>2, <1>4, <2>1, ThreadGoesOn DEF ThreadPlaces, TailTypeOK
<1> QED
  BY <1>5, <1>6, <1>7, <1>8

\* What readline() returns lies behind all that was counted, and before all that
\* is not read yet.
LEMMA ReadTails ==
  ASSUME TailInvariant, ReadLogLine
  PROVE  TailInvariant'
<1> DEFINE next == files[handle][pos + 1]
           more == next.part = "first" /\ pos + 1 < Len(files[handle])
<1>1. /\ at = "reading" /\ at' = "holding" /\ pos < Len(files[handle])
      /\ pos' = (IF more THEN pos + 2 ELSE pos + 1)
      /\ held' = (IF next.part = "whole" \/ more THEN next.line ELSE 0)
      /\ UNCHANGED <<log, counted>> /\ handle' = handle
  BY DEF ReadLogLine
<1>2. TailTypeOK /\ LogInOrder /\ CountedInOrder
  BY DEF TailInvariant
<1>3. handle \in 1..Len(files) /\ pos \in Nat /\ files \in Seq(Seq(Piece)) /\ written \in 0..Len(Lines) /\ Len(Lines) \in Nat
  BY <1>1, <1>2, LinesAssumption DEF TailTypeOK
<1>4. files[handle] \in Seq(Piece)
  BY <1>3
<1>5. Len(files[handle]) \in Nat /\ pos + 1 \in 1..Len(files[handle]) /\ pos + 1 > pos
  BY <1>1, <1>3, <1>4
<1>6. next \in Piece
  BY <1>4, <1>5
<1>7. next.line \in 1..written /\ next.line \in Nat
  BY <1>2, <1>3, <1>5 DEF LogInOrder
<1>8. \A k \in 1..Len(files[handle]) : k > pos + 1 => Follow(next, files[handle][k], k = pos + 2)
  <2> TAKE k \in 1..Len(files[handle])
  <2> HAVE k > pos + 1
  <2>1. Follow(next, files[handle][k], k = (pos + 1) + 1)
    BY <1>2, <1>3, <1>5 DEF LogInOrder
  <2> QED
    BY <1>3, <2>1
<1>9. \A i \in 1..Len(counted) : counted[i] < next.line
  <2> TAKE i \in 1..Len(counted)
  <2>1. Passed(counted[i])
    BY <1>2 DEF CountedInOrder
  <2> QED
    BY <1>3, <1>5, <2>1 DEF Passed
<1>10. half => /\ files[current][Len(files[current])] = [line |-> written, part |-> "first"]
               /\ \A f \in 1..Len(files) : \A i \in 1..Len(files[f]) : f # current => files[f][i].line < written
  BY <1>2 DEF LogInOrder
<1> HIDE DEF next
<1>11. ASSUME held' # 0
       PROVE  /\ held' = next.line
              /\ \A k \in 1..Len(files[handle]) : k > pos' => held' < files[handle][k].line
              /\ half => held' < written
  <2>1. held' = next.line /\ (next.part = "whole" \/ more)
    BY <1>1, <1>11
  <2>2. \A k \in 1..Len(files[handle]) : k > pos' => held' < files[handle][k].line
    <3> TAKE k \in 1..Len(files[handle])
    <3> HAVE k > pos'
    <3>1. k > pos + 1 /\ (more => k # pos + 2)
      BY <1>1, <1>3, <1>5
    <3>2. Follow(next, files[handle][k], k = pos + 2)
      BY <1>8, <3>1
    <3> QED
      BY <2>1, <3>1, <3>2 DEF Follow
  <2>3. ASSUME half PROVE held' < written
    <3>1. CASE handle # current
      BY <1>3, <1>5, <1>10, <2>1, <2>3, <3>1 DEF next
    <3>2. CASE handle = current
      <4> DEFINE last == Len(files[handle])
      <4>1. files[handle][last].part = "first" /\ files[handle][last].line = written /\ last \in 1..last
        BY <1>5, <1>10, <2>3, <3>2
      <4>2. last > pos + 1
        <5>1. CASE last = pos + 1
          BY <1>3, <1>5, <2>1, <4>1, <5>1 DEF next
        <5> QED
          BY <1>3, <1>5, <5>1
      <4>3. Follow(next, files[handle][last], last = pos + 2)
        BY <1>8, <4>1, <4>2
      <4> QED
        BY <2>1, <4>1, <4>3 DEF Follow
    <3> QED
      BY <3>1, <3>2
  <2> QED
    BY <2>1, <2>2, <2>3
<1>12. pos' \in Nat /\ pos' >= pos
  BY <1>1, <1>3
<1>13. held' \in 0..Len(Lines) /\ held' <= written
  BY <1>1, <1>3, <1>7
<1> HIDE DEF more
<1>14. \A i \in 1..Len(counted) : held' # 0 => counted[i] < held'
  BY <1>9, <1>11
<1>15. at' \in ThreadPlaces /\ handle' # 0 /\ handle' \in 0..Len(files)
  BY <1>1, <1>3 DEF ThreadPlaces
<1>16. handle' # 0 => (handle' = handle /\ pos' >= pos) \/ pos' >= Len(files[handle'])
  BY <1>1, <1>12
<1>17. held' # 0 => /\ \A i \in 1..Len(counted) : counted[i] < held'
                    /\ held' <= written /\ (half => held' < written)
                    /\ handle' # 0 => \A k \in 1..Len(files[handle']) : k > pos' => held' < files[handle'][k].line
  BY <1>1, <1>11, <1>13, <1>14
<1>18. UNCHANGED <<log, counted>> /\ at' = "holding" /\ pos' \in Nat /\ held' \in 0..Len(Lines)
  BY <1>1, <1>12, <1>13
<1> QED
  BY <1>15, <1>16, <1>17, <1>18, ThreadGoesOn

\* A line that was read is counted, once.
LEMMA CountTails ==
  ASSUME TailInvariant, Count
  PROVE  TailInvariant'
<1>1. /\ at = "holding" /\ at' \in {"reading", "changed"} /\ held' = 0
      /\ UNCHANGED <<files, current, written, half, handle, pos>>
      /\ counted' = IF held = 0 THEN counted ELSE Append(counted, held)
  BY DEF Count, log
<1>2. TailTypeOK /\ LogInOrder /\ CountedInOrder
  BY DEF TailInvariant
<1>3. counted \in Seq(1..Len(Lines)) /\ held \in 0..Len(Lines) /\ Len(counted) \in Nat
  BY <1>2 DEF TailTypeOK
<1>4. CASE held = 0
  BY <1>1, <1>2, <1>4 DEF TailInvariant, TailTypeOK, LogInOrder, CountedInOrder, Passed, ThreadPlaces
<1>5. CASE held # 0
  <2>1. held \in 1..Len(Lines) /\ counted' = Append(counted, held)
    BY <1>1, <1>3, <1>5, LinesAssumption
  <2>2. /\ counted' \in Seq(1..Len(Lines)) /\ Len(counted') = Len(counted) + 1
        /\ \A i \in 1..Len(counted) : counted'[i] = counted[i]
        /\ counted'[Len(counted) + 1] = held
    BY <1>3, <2>1, AppendProperties
  <2>3. TailTypeOK' /\ LogInOrder'
    <3>1. LogInOrder'
      BY <1>1, <1>2 DEF LogInOrder
    <3>2. /\ files \in Seq(Seq(Piece)) /\ current \in {0, Len(files)} /\ written \in 0..Len(Lines)
          /\ half \in BOOLEAN /\ handle \in 0..Len(files) /\ pos \in Nat /\ handle # 0
      BY <1>1, <1>2 DEF TailTypeOK
    <3>3. at' \in ThreadPlaces /\ 0 \in 0..Len(Lines)
      BY <1>1, LinesAssumption DEF ThreadPlaces
    <3> QED
      BY <1>1, <2>2, <3>1, <3>2, <3>3 DEF TailTypeOK
  <2>4. \A n : Passed(n)' <=> Passed(n)
    BY <1>1 DEF Passed
  <2>5. Passed(held) /\ \A i \in 1..Len(counted) : Passed(counted[i]) /\ counted[i] < held
    BY <1>2, <1>5 DEF CountedInOrder
  <2>6. Passed(0)
    BY NothingPassed
  <2>7. \A i \in 1..Len(counted') : i \in 1..Len(counted) \/ i = Len(counted) + 1
    BY <1>3, <2>2
  <2>8. \A i, j \in 1..Len(counted') : i < j => counted'[i] < counted'[j]
    <3> SUFFICES ASSUME NEW i \in 1..Len(counted'), NEW j \in 1..Len(counted'), i < j
                 PROVE  counted'[i] < counted'[j]
      OBVIOUS
    <3>1. i \in 1..Len(counted)
      BY <1>3, <2>2
    <3>2. CASE j \in 1..Len(counted)
      BY <1>2, <2>2, <3>1, <3>2 DEF CountedInOrder
    <3>3. CASE j = Len(counted) + 1
      BY <2>2, <2>5, <3>1, <3>3
    <3> QED
      BY <2>7, <3>2, <3>3
  <2>9. \A i \in 1..Len(counted') : Passed(counted'[i])
    BY <2>2, <2>5, <2>7
  <2>10. CountedInOrder'
    BY <1>1, <2>4, <2>6, <2>8, <2>9 DEF CountedInOrder
  <2> QED
    BY <2>3, <2>10 DEF TailInvariant
<1> QED
  BY <1>4, <1>5

LEMMA CreateTails ==
  ASSUME TailInvariant, Create
  PROVE  TailInvariant'
<1>1. /\ current = 0 /\ files' = Append(files, << >>) /\ current' = Len(files')
      /\ UNCHANGED <<written, half, at, handle, pos, held, counted>>
  BY DEF Create, tail
<1>2. TailTypeOK /\ LogInOrder /\ CountedInOrder /\ ~half
  BY <1>1 DEF TailInvariant, LogInOrder
<1>3. files \in Seq(Seq(Piece)) /\ << >> \in Seq(Piece) /\ Len(files) \in Nat /\ Len(<< >>) = 0
  BY <1>2 DEF TailTypeOK
<1>4. /\ files' \in Seq(Seq(Piece)) /\ Len(files') = Len(files) + 1
      /\ \A f \in 1..Len(files) : files'[f] = files[f]
      /\ files'[Len(files) + 1] = << >>
  BY <1>1, <1>3, AppendProperties
<1>5. \A f \in 1..Len(files') : f \in 1..Len(files) \/ (f = Len(files) + 1 /\ Len(files'[f]) = 0)
  BY <1>3, <1>4
<1>6. TailTypeOK'
  BY <1>1, <1>2, <1>3, <1>4 DEF TailTypeOK
<1>7. LogInOrder'
  <2>1. ~half' /\ written' = written
    BY <1>1, <1>2
  <2>2. ASSUME NEW f \in 1..Len(files')
        PROVE  /\ \A i, j \in 1..Len(files'[f]) : i < j => Follow(files'[f][i], files'[f][j], j = i + 1)
               /\ \A i \in 1..Len(files'[f]) : files'[f][i].line \in 1..written
    <3>1. CASE f \in 1..Len(files)
      BY <1>2, <1>4, <3>1 DEF LogInOrder
    <3>2. CASE Len(files'[f]) = 0
      <4>1. 1..Len(files'[f]) = {}
        BY <3>2
      <4> QED
        BY <4>1
    <3> QED
      BY <1>5, <3>1, <3>2
  <2> QED
    BY <2>1, <2>2 DEF LogInOrder
<1>8. handle # 0 => files'[handle] = files[handle]
  <2>1. handle # 0 => handle \in 1..Len(files)
    BY <1>2, <1>3 DEF TailTypeOK
  <2> QED
    BY <1>4, <2>1
<1>9. \A n : Passed(n) => Passed(n)'
  BY <1>1, <1>8 DEF Passed
<1>10. CountedInOrder'
  BY <1>1, <1>2, <1>9 DEF CountedInOrder
<1> QED
  BY <1>6, <1>7, <1>10 DEF TailInvariant

\* The steps of the proxy, of the lifespan and of the pages.
LEMMA TailOthers ==
  ASSUME TailInvariant, NEW p,
         \/ Write \/ WriteRest \/ Rotate \/ Create \/ StartMonitor \/ StopMonitor
         \/ PageStep(p)
  PROVE  TailInvariant'
<1>1. /\ written \in 0..Len(Lines) /\ Len(Lines) \in Nat /\ half \in BOOLEAN
      /\ TailTypeOK /\ LogInOrder /\ CountedInOrder
  BY LinesAssumption DEF TailInvariant, TailTypeOK
<1>2. CASE Write
  <2>1. PICK part \in {"whole", "first"} :
          /\ files' = [files EXCEPT ![current] = Append(@, [line |-> written', part |-> part])]
          /\ half' = (part = "first")
    BY <1>2 DEF Write, Append1
  <2>2. /\ current # 0 /\ ~half /\ written' = written + 1 /\ written' \in 0..Len(Lines)
        /\ UNCHANGED <<current, tail, counted>>
    BY <1>1, <1>2 DEF Write
  <2>3. [line |-> written', part |-> part] \in Piece /\ half' \in BOOLEAN
    BY <1>1, <2>1, <2>2 DEF Piece
  <2> QED
    BY <2>1, <2>2, <2>3, LogGrows
<1>3. CASE WriteRest
  <2>1. /\ files' = [files EXCEPT ![current] = Append(@, [line |-> written', part |-> "rest"])]
        /\ half /\ ~half' /\ half' \in BOOLEAN /\ written' = written /\ UNCHANGED <<current, tail, counted>>
    BY <1>3 DEF WriteRest, Append1
  <2>2. [line |-> written', part |-> "rest"] \in Piece /\ current # 0
    BY <1>1, <2>1 DEF Piece, LogInOrder
  <2> QED
    BY <1>1, <2>1, <2>2, LogGrows
<1>4. CASE Rotate
  BY <1>1, <1>4 DEF Rotate, tail, TailInvariant, TailTypeOK, LogInOrder, CountedInOrder, Passed
<1>5. CASE Create
  BY <1>5, CreateTails
<1>6. CASE StartMonitor
  BY <1>1, <1>6 DEF StartMonitor, log, TailInvariant, TailTypeOK, LogInOrder, CountedInOrder, Passed, ThreadPlaces
<1>7. CASE StopMonitor \/ PageStep(p)
  <2>1. UNCHANGED <<log, tail, counted>>
    BY <1>7 DEF StopMonitor, PageStep, Subscribe, SendFirst, Send, GiveUp, LateGet, EndQuiet, LeavePage, EndPage
  <2> QED
    BY <1>1, <2>1 DEF log, tail, TailInvariant, TailTypeOK, LogInOrder, CountedInOrder, Passed
<1> QED
  BY <1>2, <1>3, <1>4, <1>5, <1>6, <1>7

-----------------------------------------------------------------------------
(* The Headroom monitor: its meter. *)

Perf == {n \in ToSet(counted) : Lines[n].perf}

\* A sum over a number of values lies between that many times some of them.
LiesBetween(values, sum, number) ==
  values # {} => (\E x \in values : x * number <= sum) /\ (\E x \in values : sum <= x * number)

MeterTypeOK ==
  /\ meter \in [requests : Nat, frames : Nat, before : Nat, saved : Nat, weighted : Nat,
                weight : Nat, recent : Seq(Nat), toin : 0..Len(Lines), changes : Nat]
  /\ Perf \subseteq 1..Len(Lines)

MeterOfCounted ==
  /\ meter.requests = Cardinality(Perf)
  /\ Len(meter.recent) = Min2(Recent, Cardinality(Perf))
  /\ meter.saved <= meter.before
  /\ LiesBetween({Lines[n].saved : n \in Perf}, meter.saved, meter.requests)
  /\ LiesBetween({Lines[n].hit : n \in Perf}, meter.weighted, meter.weight)
  /\ IF Perf = {} THEN meter.saved = 0 /\ meter.weighted = 0 /\ meter.weight = 0
                  ELSE meter.weight > 0

MeterInvariant == MeterTypeOK /\ MeterOfCounted

LEMMA Division ==
  ASSUME NEW a \in Nat, NEW b \in Nat, b > 0
  PROVE  a \div b \in Nat /\ (a \div b) * b <= a /\ a < ((a \div b) + 1) * b
OBVIOUS

\* One value more, with a weight, keeps the sum between the values.
LEMMA BetweenGrows ==
  ASSUME NEW values \in SUBSET Nat, NEW sum \in Nat, NEW number \in Nat, NEW v \in Nat, NEW w \in Nat,
         LiesBetween(values, sum, number), values = {} => sum = 0 /\ number = 0
  PROVE  LiesBetween(values \cup {v}, sum + v * w, number + w)
<1>1. v * w \in Nat /\ v * (number + w) = v * number + v * w
  OBVIOUS
<1>2. CASE values = {}
  <2>1. sum + v * w = v * (number + w)
    BY <1>1, <1>2
  <2> QED
    BY <1>1, <2>1 DEF LiesBetween
<1>3. CASE values # {}
  <2>1. \E x \in values \cup {v} : x * (number + w) <= sum + v * w
    <3>1. PICK lo \in values : lo * number <= sum
      BY <1>3 DEF LiesBetween
    <3>2. lo \in Nat /\ lo * number \in Nat /\ lo * w \in Nat
          /\ lo * (number + w) = lo * number + lo * w
      OBVIOUS
    <3>3. CASE lo <= v
      <4>1. lo * w <= v * w
        BY <3>2, <3>3
      <4> QED
        BY <1>1, <3>1, <3>2, <4>1
    <3>4. CASE v < lo
      <4>1. v * number <= lo * number /\ v * number \in Nat
        BY <3>2, <3>4
      <4> QED
        BY <1>1, <3>1, <3>2, <4>1
    <3> QED
      BY <3>2, <3>3, <3>4
  <2>2. \E x \in values \cup {v} : sum + v * w <= x * (number + w)
    <3>1. PICK hi \in values : sum <= hi * number
      BY <1>3 DEF LiesBetween
    <3>2. hi \in Nat /\ hi * number \in Nat /\ hi * w \in Nat
          /\ hi * (number + w) = hi * number + hi * w
      OBVIOUS
    <3>3. CASE v <= hi
      <4>1. v * w <= hi * w
        BY <3>2, <3>3
      <4> QED
        BY <1>1, <3>1, <3>2, <4>1
    <3>4. CASE hi < v
      <4>1. hi * number <= v * number /\ v * number \in Nat
        BY <3>2, <3>4
      <4> QED
        BY <1>1, <3>1, <3>2, <4>1
    <3> QED
      BY <3>2, <3>3, <3>4
  <2> QED
    BY <2>1, <2>2 DEF LiesBetween
<1> QED
  BY <1>2, <1>3

\* An average rounded down is no further out than the values.
LEMMA RatioBetween ==
  ASSUME NEW values \in SUBSET Nat, NEW sum \in Nat, NEW number \in Nat, number > 0,
         LiesBetween(values, sum, number), values # {}
  PROVE  (\E x \in values : x <= Ratio(sum, number)) /\ (\E x \in values : Ratio(sum, number) <= x)
<1> DEFINE q == sum \div number
<1>1. q \in Nat /\ q * number <= sum /\ sum < (q + 1) * number /\ Ratio(sum, number) = q
  BY Division DEF Ratio
<1> HIDE DEF q
<1>2. PICK lo \in values : lo * number <= sum
  BY DEF LiesBetween
<1>3. PICK hi \in values : sum <= hi * number
  BY DEF LiesBetween
<1>4. lo <= q
  <2>1. CASE lo >= q + 1
    <3>1. (q + 1) * number <= lo * number
      BY <1>1, <2>1
    <3>2. (q + 1) * number \in Nat /\ lo * number \in Nat
      BY <1>1
    <3> QED
      BY <1>1, <1>2, <3>1, <3>2
  <2> QED
    BY <1>1, <2>1
<1>5. q <= hi
  <2>1. CASE q >= hi + 1
    <3>1. (hi + 1) * number <= q * number /\ (hi + 1) * number = hi * number + number
      BY <1>1, <2>1
    <3>2. q * number \in Nat /\ hi * number \in Nat
      BY <1>1
    <3> QED
      BY <1>1, <1>3, <3>1, <3>2
  <2> QED
    BY <1>1, <2>1
<1> QED
  BY <1>1, <1>4, <1>5

LEMMA MeterInit == MonitorInit => MeterInvariant
<1> SUFFICES ASSUME MonitorInit PROVE MeterInvariant
  OBVIOUS
<1>1. counted = << >> /\ ToSet(counted) = {} /\ Len(<< >>) = 0 /\ << >> \in Seq(Nat)
  BY DEF MonitorInit, ToSet
<1>2. Perf = {} /\ Cardinality({}) = 0
  BY <1>1, FS_EmptySet DEF Perf
<1>3. Len(Lines) \in Nat /\ Recent \in Nat
  BY LinesAssumption, SizesAssumption
<1> QED
  BY <1>1, <1>2, <1>3 DEF MonitorInit, MeterInvariant, MeterTypeOK, MeterOfCounted, LiesBetween, Min2

\* What a line adds to the meter.
LEMMA MeterCounts ==
  ASSUME MeterInvariant, TailInvariant, Count
  PROVE  MeterInvariant' /\ at' \in {"reading", "changed"} /\ meter'.changes \in Nat
         /\ (at' # "changed" => meter'.changes = meter.changes)
<1>1. /\ held \in 0..Len(Lines) /\ counted \in Seq(1..Len(Lines)) /\ Len(counted) \in Nat
      /\ Len(Lines) \in Nat /\ Recent \in Nat \ {0}
      /\ at' = IF meter' = meter THEN "reading" ELSE "changed"
  BY LinesAssumption, SizesAssumption DEF TailInvariant, TailTypeOK, Count
<1>2. MeterTypeOK /\ MeterOfCounted
  BY DEF MeterInvariant
<1>3. CASE held = 0
  <2>1. meter' = meter /\ counted' = counted
    BY <1>3 DEF Count
  <2> QED
    BY <1>1, <1>2, <2>1 DEF MeterInvariant, MeterTypeOK, MeterOfCounted, Perf
<1>4. CASE held # 0
  <2> DEFINE l == Lines[held]
             t == Append(meter.recent, l.saved)
             P == Perf
  <2>1. /\ meter' = AddLine(meter, held) /\ counted' = Append(counted, held) /\ held \in 1..Len(Lines)
    BY <1>1, <1>4 DEF Count
  <2>2. l \in Kind /\ (l.perf => l.saved <= l.before)
    BY <2>1, LinesAssumption, SavingsAssumption
  <2>3. l.before \in Nat /\ l.saved \in Nat /\ l.hit \in Nat /\ l.perf \in BOOLEAN
    BY <2>2 DEF Kind
  <2>4. Max2(l.before, 1) \in Nat /\ Max2(l.before, 1) > 0
    BY <2>3 DEF Max2
  <2>5. ToSet(counted') = ToSet(counted) \cup {held} /\ held \notin ToSet(counted)
    <3>1. /\ Len(counted') = Len(counted) + 1 /\ counted'[Len(counted) + 1] = held
          /\ \A i \in 1..Len(counted) : counted'[i] = counted[i]
          /\ counted' \in Seq(1..Len(Lines))
      BY <1>1, <2>1, AppendProperties
    <3>2. DOMAIN counted = 1..Len(counted) /\ DOMAIN counted' = 1..(Len(counted) + 1)
      BY <1>1, <3>1
    <3>3. \A i \in 1..Len(counted) : counted[i] < held /\ counted[i] \in Nat
      BY <1>1, <1>4 DEF TailInvariant, CountedInOrder
    <3>4. \A x : x \in ToSet(counted') <=> x \in ToSet(counted) \/ x = held
      <4>1. \A i \in 1..(Len(counted) + 1) : i \in 1..Len(counted) \/ i = Len(counted) + 1
        BY <1>1
      <4>2. /\ \A i \in 1..Len(counted) : i \in 1..(Len(counted) + 1)
            /\ Len(counted) + 1 \in 1..(Len(counted) + 1)
        BY <1>1
      <4> QED
        BY <3>1, <3>2, <4>1, <4>2 DEF ToSet
    <3>5. held \notin ToSet(counted)
      BY <2>1, <3>2, <3>3 DEF ToSet
    <3> QED
      BY <3>4, <3>5
  <2>6. P' = (IF l.perf THEN P \cup {held} ELSE P) /\ held \notin P
    BY <2>5 DEF Perf
  <2>7. P \subseteq 1..Len(Lines) /\ IsFiniteSet(P)
    <3>1. IsFiniteSet(1..Len(Lines))
      BY <1>1, FS_Interval
    <3> QED
      BY <1>2, <3>1, FS_Subset DEF MeterTypeOK
  <2>8. /\ meter.requests \in Nat /\ meter.frames \in Nat /\ meter.before \in Nat /\ meter.saved \in Nat
        /\ meter.weighted \in Nat /\ meter.weight \in Nat /\ meter.recent \in Seq(Nat)
        /\ meter.toin \in 0..Len(Lines) /\ meter.changes \in Nat
    BY <1>2 DEF MeterTypeOK
  <2> DEFINE w == Max2(l.before, 1)
  <2>9. meter' = [requests |-> meter.requests + (IF l.perf THEN 1 ELSE 0),
                  frames   |-> meter.frames + (IF l.frame THEN 1 ELSE 0),
                  before   |-> meter.before + (IF l.perf THEN l.before ELSE 0),
                  saved    |-> meter.saved + (IF l.perf THEN l.saved ELSE 0),
                  weighted |-> meter.weighted + (IF l.perf THEN l.hit * w ELSE 0),
                  weight   |-> meter.weight + (IF l.perf THEN w ELSE 0),
                  recent   |-> IF l.perf THEN (IF Len(t) > Recent THEN Tail(t) ELSE t) ELSE meter.recent,
                  toin     |-> IF l.toin THEN held ELSE meter.toin,
                  changes  |-> meter.changes + (IF l.perf \/ l.frame \/ l.toin THEN 1 ELSE 0)]
    BY <2>1 DEF AddLine
  <2>10. t \in Seq(Nat) /\ Len(t) = Len(meter.recent) + 1 /\ Len(meter.recent) \in Nat
         /\ Tail(t) \in Seq(Nat) /\ Len(Tail(t)) = Len(t) - 1
    <3>1. t \in Seq(Nat) /\ Len(t) = Len(meter.recent) + 1 /\ t # << >>
      BY <2>3, <2>8, QueueEnds
    <3> QED
      BY <2>8, <3>1, QueueEnds
  <2>11. l.hit * w \in Nat /\ w \in Nat /\ w > 0
    BY <2>3, <2>4
  <2> HIDE DEF l, t, w, P
  <2> DEFINE recent == IF Len(t) > Recent THEN Tail(t) ELSE t
  <2>12. recent \in Seq(Nat) /\ (Len(meter.recent) = Min2(Recent, Cardinality(P))
                                  => Len(recent) = Min2(Recent, Cardinality(P) + 1))
    <3>1. Cardinality(P) \in Nat
      BY <2>7, FS_CardinalityType
    <3>2. recent \in Seq(Nat) /\ Len(recent) = IF Len(meter.recent) + 1 > Recent THEN Len(meter.recent)
                                                                             ELSE Len(meter.recent) + 1
      BY <2>10
    <3> HIDE DEF recent
    <3> QED
      BY <1>1, <2>10, <3>1, <3>2 DEF Min2
  <2> HIDE DEF recent
  <2>13. MeterTypeOK'
    <3>1. P' \subseteq 1..Len(Lines)
      BY <2>1, <2>6, <2>7
    <3>2. meter' \in [requests : Nat, frames : Nat, before : Nat, saved : Nat, weighted : Nat,
                      weight : Nat, recent : Seq(Nat), toin : 0..Len(Lines), changes : Nat]
      <4>1. \A m, n \in Nat : m + n \in Nat
        OBVIOUS
      <4>2. /\ (IF l.perf THEN 1 ELSE 0) \in Nat /\ (IF l.frame THEN 1 ELSE 0) \in Nat
            /\ (IF l.perf THEN l.before ELSE 0) \in Nat /\ (IF l.perf THEN l.saved ELSE 0) \in Nat
            /\ (IF l.perf THEN l.hit * w ELSE 0) \in Nat /\ (IF l.perf THEN w ELSE 0) \in Nat
            /\ (IF l.perf \/ l.frame \/ l.toin THEN 1 ELSE 0) \in Nat
        BY <2>3, <2>11
      <4>3. /\ (IF l.perf THEN (IF Len(t) > Recent THEN Tail(t) ELSE t) ELSE meter.recent) \in Seq(Nat)
            /\ (IF l.toin THEN held ELSE meter.toin) \in 0..Len(Lines)
        BY <2>8, <2>10, <1>1
      <4> DEFINE perf == IF l.perf THEN 1 ELSE 0
                 frame == IF l.frame THEN 1 ELSE 0
                 before == IF l.perf THEN l.before ELSE 0
                 spared == IF l.perf THEN l.saved ELSE 0
                 weighted == IF l.perf THEN l.hit * w ELSE 0
                 weight == IF l.perf THEN w ELSE 0
                 change == IF l.perf \/ l.frame \/ l.toin THEN 1 ELSE 0
      <4>4. /\ perf \in Nat /\ frame \in Nat /\ before \in Nat /\ spared \in Nat
            /\ weighted \in Nat /\ weight \in Nat /\ change \in Nat
        BY <4>2
      <4> HIDE DEF perf, frame, before, spared, weighted, weight, change
      <4>5. /\ meter.requests + perf \in Nat /\ meter.frames + frame \in Nat
            /\ meter.before + before \in Nat /\ meter.saved + spared \in Nat
            /\ meter.weighted + weighted \in Nat /\ meter.weight + weight \in Nat
            /\ meter.changes + change \in Nat
        BY <2>8, <4>1, <4>4
      <4> QED
        BY <2>9, <4>3, <4>5 DEF perf, frame, before, spared, weighted, weight, change
    <3> QED
      BY <3>1, <3>2 DEF MeterTypeOK, P
  <2>14. ASSUME ~l.perf PROVE MeterInvariant'
    <3>1. P' = P /\ meter'.requests = meter.requests /\ meter'.before = meter.before
          /\ meter'.saved = meter.saved /\ meter'.weighted = meter.weighted
          /\ meter'.weight = meter.weight /\ meter'.recent = meter.recent
      BY <2>6, <2>8, <2>9, <2>14
    <3> QED
      BY <1>2, <2>13, <3>1 DEF MeterInvariant, MeterOfCounted, P
  <2>15. ASSUME l.perf PROVE MeterInvariant'
    <3> DEFINE Saved == {Lines[n].saved : n \in P}
               Hits == {Lines[n].hit : n \in P}
    <3>1. P' = P \cup {held} /\ Cardinality(P') = Cardinality(P) + 1 /\ P' # {}
      BY <2>6, <2>7, <2>15, FS_AddElement
    <3>2. /\ meter'.requests = meter.requests + 1 /\ meter'.before = meter.before + l.before
          /\ meter'.saved = meter.saved + l.saved /\ meter'.weighted = meter.weighted + l.hit * w
          /\ meter'.weight = meter.weight + w /\ meter'.recent = recent
      BY <2>9, <2>15 DEF recent
    <3>3. /\ {Lines[n].saved : n \in P'} = Saved \cup {l.saved}
          /\ {Lines[n].hit : n \in P'} = Hits \cup {l.hit}
      BY <3>1 DEF l
    <3>4. Saved \in SUBSET Nat /\ Hits \in SUBSET Nat /\ (Saved = {} <=> P = {}) /\ (Hits = {} <=> P = {})
      <4>1. \A n \in P : Lines[n] \in Kind
        BY <2>7, LinesAssumption
      <4>2. \A n \in P : Lines[n].saved \in Nat /\ Lines[n].hit \in Nat
        BY <4>1 DEF Kind
      <4> QED
        BY <4>2
    <3>5. /\ LiesBetween(Saved, meter.saved, meter.requests) /\ LiesBetween(Hits, meter.weighted, meter.weight)
          /\ meter.requests = Cardinality(P) /\ meter.saved <= meter.before
          /\ P = {} => meter.saved = 0 /\ meter.weighted = 0 /\ meter.weight = 0
      BY <1>2 DEF MeterOfCounted, P
    <3>6. P = {} => meter.requests = 0
      BY <3>5, FS_EmptySet
    <3> HIDE DEF Saved, Hits
    <3>7. LiesBetween(Saved \cup {l.saved}, meter.saved + l.saved, meter.requests + 1)
      <4>1. LiesBetween(Saved \cup {l.saved}, meter.saved + l.saved * 1, meter.requests + 1)
        BY <2>3, <2>8, <3>4, <3>5, <3>6, BetweenGrows
      <4> QED
        BY <2>3, <4>1
    <3>8. LiesBetween(Hits \cup {l.hit}, meter.weighted + l.hit * w, meter.weight + w)
      BY <2>3, <2>8, <2>11, <3>4, <3>5, BetweenGrows
    <3>9. MeterOfCounted'
      <4>1. /\ meter'.requests = Cardinality(P') /\ meter'.saved <= meter'.before /\ meter'.weight > 0
        <5>1. meter'.requests = Cardinality(P')
          BY <3>1, <3>2, <3>5
        <5>2. meter'.saved <= meter'.before
          <6>1. \A a, b, c, d \in Nat : a <= b /\ c <= d => a + c <= b + d
            OBVIOUS
          <6>2. meter.saved + l.saved <= meter.before + l.before
            BY <2>2, <2>3, <2>8, <2>15, <3>5, <6>1
          <6> QED
            BY <3>2, <6>2
        <5>3. meter'.weight > 0
          BY <2>8, <2>11, <3>2
        <5> QED
          BY <5>1, <5>2, <5>3
      <4>2. Len(meter'.recent) = Min2(Recent, Cardinality(P'))
        BY <1>2, <2>12, <3>1, <3>2 DEF MeterOfCounted, P
      <4>3. /\ LiesBetween({Lines[n].saved : n \in P'}, meter'.saved, meter'.requests)
            /\ LiesBetween({Lines[n].hit : n \in P'}, meter'.weighted, meter'.weight)
        BY <3>2, <3>3, <3>7, <3>8
      <4> QED
        BY <3>1, <4>1, <4>2, <4>3 DEF MeterOfCounted, P
    <3> QED
      BY <2>13, <3>9 DEF MeterInvariant
  <2>16. meter'.changes \in Nat
    BY <2>13 DEF MeterTypeOK
  <2>17. at' # "changed" => meter'.changes = meter.changes
    BY <1>1
  <2> QED
    BY <1>1, <2>3, <2>14, <2>15, <2>16, <2>17
<1> QED
  BY <1>3, <1>4

HeadroomInvariant == PagesInvariant /\ TailInvariant /\ MeterInvariant

\* What an invariant of its own part needs of a step that is about another one.
LEMMA MeterRest ==
  ASSUME MeterInvariant, UNCHANGED <<meter, counted>>
  PROVE  MeterInvariant'
BY DEF MeterInvariant, MeterTypeOK, MeterOfCounted, Perf

LEMMA HeadroomSteps == HeadroomInvariant /\ [MonitorNext]_monitorVars => HeadroomInvariant'
<1> SUFFICES ASSUME HeadroomInvariant, [MonitorNext]_monitorVars PROVE HeadroomInvariant'
  OBVIOUS
<1>1. /\ PagesInvariant /\ TailInvariant /\ MeterInvariant
      /\ at \in ThreadPlaces /\ meter.changes \in Nat
  BY DEF HeadroomInvariant, PagesInvariant, WebTypeOK
<1>2. CASE Write \/ WriteRest \/ Rotate \/ Create
  <2>1. UNCHANGED <<web, meter, counted>> /\ at' = at
    BY <1>2 DEF Write, WriteRest, Rotate, Create, tail
  <2>2. PagesInvariant'
    BY <1>1, <2>1, PagesRest
  <2>3. TailInvariant'
    BY <1>1, <1>2, TailOthers
  <2> QED
    BY <1>1, <2>1, <2>2, <2>3, MeterRest DEF HeadroomInvariant
<1>3. CASE OpenLog \/ StatLog \/ CheckRotation \/ Stopped \/ ReadLogLine
  <2>1. UNCHANGED <<web, meter, counted>> /\ at' \in ThreadPlaces /\ at # "changed"
    BY <1>3 DEF OpenLog, StatLog, CheckRotation, Stopped, ReadLogLine, ThreadPlaces
  <2>2. PagesInvariant'
    BY <1>1, <2>1, PagesRest
  <2>3. TailInvariant'
    BY <1>1, <1>3, ThreadTails, ReadTails
  <2> QED
    BY <1>1, <2>1, <2>2, <2>3, MeterRest DEF HeadroomInvariant
<1>4. CASE Count
  <2>1. MeterInvariant' /\ at' \in ThreadPlaces /\ meter'.changes \in Nat
        /\ (at' # "changed" => meter'.changes = meter.changes)
    BY <1>1, <1>4, MeterCounts DEF ThreadPlaces
  <2>2. UNCHANGED web /\ at # "changed"
    BY <1>4 DEF Count
  <2>3. PagesInvariant'
    BY <1>1, <2>1, <2>2, PagesRest
  <2>4. TailInvariant'
    BY <1>1, <1>4, CountTails
  <2> QED
    BY <2>1, <2>3, <2>4 DEF HeadroomInvariant
<1>5. CASE Broadcast
  <2>1. UNCHANGED <<meter, counted>>
    BY <1>5 DEF Broadcast
  <2> QED
    BY <1>1, <1>5, <2>1, BroadcastKeeps, ThreadTails, MeterRest DEF HeadroomInvariant
<1>6. CASE StartMonitor \/ StopMonitor
  <2>1. UNCHANGED <<web, meter, counted>> /\ at' \in ThreadPlaces
        /\ (at # "changed" \/ at' = at)
    <3>1. CASE StartMonitor
      BY <3>1 DEF StartMonitor, ThreadPlaces
    <3>2. CASE StopMonitor
      BY <1>1, <3>2 DEF StopMonitor, tail
    <3> QED
      BY <1>6, <3>1, <3>2
  <2>2. PagesInvariant'
    BY <1>1, <2>1, PagesRest
  <2>3. TailInvariant'
    BY <1>1, <1>6, TailOthers
  <2> QED
    BY <1>1, <2>1, <2>2, <2>3, MeterRest DEF HeadroomInvariant
<1>7. ASSUME NEW p \in Pages, PageStep(p)
      PROVE  HeadroomInvariant'
  <2>1. UNCHANGED <<meter, counted>>
    BY <1>7 DEF PageStep, Subscribe, SendFirst, Send, GiveUp, LateGet, EndQuiet, LeavePage, EndPage
  <2>2. PagesInvariant'
    BY <1>1, <1>7, PageSteps
  <2>3. TailInvariant'
    BY <1>1, <1>7, TailOthers
  <2> QED
    BY <1>1, <2>1, <2>2, <2>3, MeterRest DEF HeadroomInvariant
<1>8. CASE UNCHANGED monitorVars
  <2>1. UNCHANGED <<log, tail, stopping, meter, counted, web, at>>
    BY <1>8 DEF monitorVars, tail
  <2>2. PagesInvariant'
    BY <1>1, <2>1, PagesRest
  <2>3. TailInvariant'
    BY <1>1, <2>1 DEF log, tail, TailInvariant, TailTypeOK, LogInOrder, CountedInOrder, Passed
  <2> QED
    BY <1>1, <2>1, <2>2, <2>3, MeterRest DEF HeadroomInvariant
<1> QED
  BY <1>2, <1>3, <1>4, <1>5, <1>6, <1>7, <1>8 DEF MonitorNext, ThreadStep, PageStep

\* headroom.py's monitor keeps its log, its meter and its pages in agreement.
THEOREM HeadroomInvariance == MonitorSpec => []HeadroomInvariant
<1>1. MonitorInit => HeadroomInvariant
  BY PagesInit, TailInit, MeterInit DEF HeadroomInvariant
<1> QED
  BY <1>1, HeadroomSteps, PTL DEF MonitorSpec

\* tail_log and Meter: every line is counted at most once and in its order, across
\* rotations and halves of lines, and the snapshot tells of those and no others.
THEOREM LinesCountOnce == MonitorSpec => []CountedOnce
<1>1. HeadroomInvariant => CountedOnce
  <2> SUFFICES ASSUME HeadroomInvariant PROVE CountedOnce
    OBVIOUS
  <2>1. MeterTypeOK /\ MeterOfCounted /\ TailTypeOK /\ CountedInOrder
    BY DEF HeadroomInvariant, TailInvariant, MeterInvariant
  <2>2. /\ meter.requests \in Nat /\ meter.before \in Nat /\ meter.saved \in Nat
        /\ meter.weighted \in Nat /\ meter.weight \in Nat
        /\ meter.saved <= meter.before /\ meter.requests = Cardinality(Perf)
    BY <2>1 DEF MeterTypeOK, MeterOfCounted
  <2> DEFINE shot == Snapshot(meter)
  <2>3. /\ shot.completed = meter.requests /\ shot.pulses = meter.recent /\ shot.total = meter.saved
        /\ shot.cache = Ratio(meter.weighted, meter.weight)
        /\ shot.avg_saved = Ratio(meter.saved, meter.requests)
        /\ shot.regen = Ratio(100 * meter.saved, meter.before)
    BY DEF Snapshot
  <2> DEFINE Saved == {Lines[n].saved : n \in Perf}
             Hits == {Lines[n].hit : n \in Perf}
             within(avg, all) == Perf # {} => (\E x \in all : x <= avg) /\ (\E x \in all : avg <= x)
  <2>4. /\ Saved \in SUBSET Nat /\ Hits \in SUBSET Nat /\ (Perf # {} => Saved # {} /\ Hits # {})
    <3>1. \A n \in Perf : Lines[n] \in Kind
      BY <2>1, LinesAssumption DEF MeterTypeOK
    <3>2. \A n \in Perf : Lines[n].saved \in Nat /\ Lines[n].hit \in Nat
      BY <3>1 DEF Kind
    <3> QED
      BY <3>2
  <2>5. Perf # {} => meter.requests > 0 /\ meter.weight > 0
    <3>1. IsFiniteSet(Perf)
      <4>1. Len(Lines) \in Int /\ Perf \subseteq 1..Len(Lines)
        BY <2>1, LinesAssumption DEF MeterTypeOK
      <4>2. IsFiniteSet(1..Len(Lines))
        BY <4>1, FS_Interval
      <4> QED
        BY <4>1, <4>2, FS_Subset
    <3>2. Perf # {} => Cardinality(Perf) # 0
      BY <3>1, FS_EmptySet
    <3> QED
      BY <2>1, <2>2, <3>2 DEF MeterOfCounted
  <2>6. LiesBetween(Saved, meter.saved, meter.requests) /\ LiesBetween(Hits, meter.weighted, meter.weight)
    BY <2>1 DEF MeterOfCounted
  <2> HIDE DEF Saved, Hits, shot
  <2>7. within(shot.cache, Hits) /\ within(shot.avg_saved, Saved)
    <3>1. ASSUME Perf # {}
          PROVE  (\E x \in Hits : x <= shot.cache) /\ (\E x \in Hits : shot.cache <= x)
      <4>1. Hits \in SUBSET Nat /\ Hits # {} /\ meter.weight > 0 /\ LiesBetween(Hits, meter.weighted, meter.weight)
        BY <2>4, <2>5, <2>6, <3>1
      <4>2. meter.weighted \in Nat /\ meter.weight \in Nat
        BY <2>2
      <4> QED
        BY <2>3, <4>1, <4>2, RatioBetween
    <3>2. ASSUME Perf # {}
          PROVE  (\E x \in Saved : x <= shot.avg_saved) /\ (\E x \in Saved : shot.avg_saved <= x)
      <4>1. Saved \in SUBSET Nat /\ Saved # {} /\ meter.requests > 0 /\ LiesBetween(Saved, meter.saved, meter.requests)
        BY <2>4, <2>5, <2>6, <3>2
      <4>2. meter.saved \in Nat /\ meter.requests \in Nat
        BY <2>2
      <4> QED
        BY <2>3, <4>1, <4>2, RatioBetween
    <3> QED
      BY <3>1, <3>2
  <2>8. shot.regen \in 0..100
    <3>1. CASE meter.before <= 0
      BY <2>3, <3>1 DEF Ratio
    <3>2. CASE meter.before > 0
      <4> DEFINE q == (100 * meter.saved) \div meter.before
      <4>1. /\ q \in Nat /\ q * meter.before <= 100 * meter.saved /\ 100 * meter.saved \in Nat
            /\ shot.regen = q
        BY <2>2, <2>3, <3>2, Division DEF Ratio
      <4> HIDE DEF q
      <4>2. CASE q >= 101
        <5>1. 101 * meter.before <= q * meter.before /\ q * meter.before \in Nat
          BY <2>2, <4>1, <4>2
        <5> QED
          BY <2>2, <3>2, <4>1, <5>1
      <4> QED
        BY <4>1, <4>2
    <3> QED
      BY <2>2, <3>1, <3>2
  <2>9. shot.avg_saved <= shot.total
    <3>1. CASE meter.requests <= 0
      BY <2>2, <2>3, <3>1 DEF Ratio
    <3>2. CASE meter.requests > 0
      <4> DEFINE q == meter.saved \div meter.requests
      <4>1. q \in Nat /\ q * meter.requests <= meter.saved /\ shot.avg_saved = q
        BY <2>2, <2>3, <3>2, Division DEF Ratio
      <4> HIDE DEF q
      <4>2. q * 1 <= q * meter.requests /\ q * meter.requests \in Nat
        BY <2>2, <3>2, <4>1
      <4> QED
        BY <2>2, <2>3, <4>1, <4>2
    <3> QED
      BY <2>2, <3>1, <3>2
  <2>10. \A i, j \in DOMAIN counted : i < j => counted[i] < counted[j]
    <3>1. DOMAIN counted = 1..Len(counted)
      BY <2>1 DEF TailTypeOK
    <3> QED
      BY <2>1, <3>1 DEF CountedInOrder
  <2>11. shot.completed = Cardinality(Perf) /\ Len(shot.pulses) = Min2(Recent, Cardinality(Perf))
    BY <2>1, <2>2, <2>3 DEF MeterOfCounted
  <2> QED
    BY <2>7, <2>8, <2>9, <2>10, <2>11 DEF CountedOnce, Perf, Saved, Hits, shot
<1> QED
  BY <1>1, HeadroomInvariance, PTL

\* _broadcast, subscribe and the stream: while its connection stands, a page that
\* has kept up shows the meter as it is; a connection that is over, be it that the
\* page left or that the server ended the stream, loses its place when its queue
\* is full.
THEOREM PagesAreServed == MonitorSpec => []SubscribersServed
<1>1. HeadroomInvariant => SubscribersServed
  <2> SUFFICES ASSUME HeadroomInvariant PROVE SubscribersServed
    OBVIOUS
  <2>1. PageCatchesUp
    BY DEF HeadroomInvariant, PagesInvariant, PageCatchesUp, LatestUnderWay
  <2>2. ASSUME NEW p \in Pages PROVE since[p] <= QueueSize + 2
    <3>1. PlaceKept(p) /\ since[p] \in Nat /\ late[p] \in Nat /\ queues[p] \in Seq(Nat) /\ QueueSize \in Nat
      BY SizesAssumption DEF HeadroomInvariant, PagesInvariant, WebTypeOK
    <3>2. Len(queues[p]) \in Nat
      BY <3>1
    <3> QED
      BY <3>1, <3>2 DEF PlaceKept
  <2> QED
    BY <2>1, <2>2 DEF SubscribersServed, LeakIsBounded
<1> QED
  BY <1>1, HeadroomInvariance, PTL
=============================================================================
