------------------------------ MODULE Headroom ------------------------------
(***************************************************************************)
(* headroom.py: a thread tails the log of the Headroom proxy across        *)
(* rotations, adds its lines to a Meter and broadcasts snapshots to the    *)
(* queues of the pages that read /api/headroom/stream (web_demo.py).       *)
(*                                                                         *)
(* The proxy appends lines, in one write or in two, and may replace the    *)
(* file.  A file is a sequence of pieces; readline() returns the next      *)
(* line, or half of one when the rest is not written yet.  A snapshot is   *)
(* known by the number of changes of the meter it shows.                   *)
(***************************************************************************)
EXTENDS Integers, Sequences, FiniteSets, SequencesExt

CONSTANTS
  Lines,          \* what the proxy will log, in order; see Kind
  Pages,          \* the connections to the stream that will be made
  QueueSize,      \* maxsize of a subscriber's queue
  Recent,         \* maxlen of the recent_* deques
  MaxFiles        \* bound: how often the log file is created

\* A line is of class PERF, frame and TOIN or not; PERF lines carry the tokens
\* before compression, those saved, and the cache hit rate in percent.
Kind == [perf : BOOLEAN, frame : BOOLEAN, toin : BOOLEAN,
         before : Nat, saved : Nat, hit : 0..100]

ASSUME LinesAssumption == Lines \in Seq(Kind)
\* The proxy takes no more tokens out of a request than it has.
ASSUME SavingsAssumption ==
  \A n \in DOMAIN Lines : Lines[n].perf => Lines[n].saved <= Lines[n].before
ASSUME SizesAssumption == {QueueSize, Recent, MaxFiles} \subseteq Nat \ {0}

VARIABLES
  files,        \* the log files so far, each a sequence of pieces
  current,      \* the one at the path, 0 when there is none
  written,      \* lines begun by the proxy
  half,         \* whether the latest of them is only half written
  at,           \* where the monitor's thread is, "off" when there is none
  handle, pos, inode,   \* of tail_log: the open file, its position, the inode
  held,         \* the line that tail_log has yielded, 0 for half a line
  stopping,     \* the stop event
  meter,        \* the Meter
  subscribers,  \* self._subscribers
  queues,       \* the queue of each page
  page,         \* where each page is
  pageShows,    \* the latest snapshot each page was sent
  late,         \* calls of queue.get that run on although nobody awaits them
  lost,         \* history: a snapshot for this page was taken for nobody
  counted,      \* history: the lines given to the meter
  since         \* history: broadcasts since the connection was over

log == <<files, current, written, half>>
tail == <<at, handle, pos, inode, held>>
web == <<subscribers, queues, page, pageShows, late, lost, since>>
monitorVars == <<log, tail, stopping, meter, counted, web>>

MonitorInit ==
  /\ files = << >> /\ current = 0 /\ written = 0 /\ half = FALSE
  /\ at = "off" /\ handle = 0 /\ pos = 0 /\ inode = 0 /\ held = 0
  /\ stopping = FALSE
  /\ meter = [requests |-> 0, frames |-> 0, before |-> 0, saved |-> 0,
              weighted |-> 0, weight |-> 0, recent |-> << >>, toin |-> 0, changes |-> 0]
  /\ subscribers = {} /\ counted = << >>
  /\ queues = [p \in Pages |-> << >>] /\ page = [p \in Pages |-> "off"]
  /\ pageShows = [p \in Pages |-> -1] /\ lost = [p \in Pages |-> FALSE]
  /\ late = [p \in Pages |-> 0] /\ since = [p \in Pages |-> 0]

-----------------------------------------------------------------------------
(* The proxy, outside this program. *)

Append1(part) ==
  files' = [files EXCEPT ![current] = Append(@, [line |-> written', part |-> part])]

Write ==
  /\ current # 0 /\ ~half /\ written < Len(Lines)
  /\ written' = written + 1
  /\ \/ Append1("whole") /\ half' = FALSE
     \/ Append1("first") /\ half' = TRUE
  /\ UNCHANGED <<current, tail, stopping, meter, counted, web>>

WriteRest ==
  /\ half /\ half' = FALSE
  /\ UNCHANGED written /\ Append1("rest")
  /\ UNCHANGED <<current, tail, stopping, meter, counted, web>>

\* The log is renamed or removed, and created anew at once or later.
Rotate ==
  /\ current # 0 /\ ~half
  /\ current' = 0
  /\ UNCHANGED <<files, written, half, tail, stopping, meter, counted, web>>

Create ==
  /\ current = 0 /\ Len(files) < MaxFiles
  /\ files' = Append(files, << >>)
  /\ current' = Len(files')
  /\ UNCHANGED <<written, half, tail, stopping, meter, counted, web>>

-----------------------------------------------------------------------------

\* The connection is over: the page went away, or the server ended the stream.
Over(p) == page[p] \in {"gone", "ended"}

Min2(a, b) == IF a < b THEN a ELSE b
Max2(a, b) == IF a > b THEN a ELSE b

CloseLog == handle' = 0 /\ pos' = 0 /\ inode' = 0

(* Variants with a mistake somebody could make; each breaks a property below. *)

\* A log that is opened is read from its start.
OpenAtStart ==
  /\ at = "looking" /\ ~stopping /\ current # 0
  /\ handle' = current /\ pos' = 0
  /\ at' = "opened"
  /\ UNCHANGED <<log, inode, held, stopping, meter, counted, web>>

\* A full queue loses the snapshot; its subscriber stays.
BroadcastSkippingFull ==
  /\ at = "changed" /\ at' = "reading"
  /\ queues' = [p \in Pages |-> IF p \in subscribers /\ Len(queues[p]) < QueueSize
                               THEN Append(queues[p], meter.changes) ELSE queues[p]]
  /\ since' = [p \in Pages |-> IF Over(p) /\ p \in subscribers
                               THEN since[p] + 1 ELSE since[p]]
  /\ UNCHANGED <<log, handle, pos, inode, held, stopping, meter, counted,
                 subscribers, page, pageShows, late, lost>>

\* A new file is only noticed when the old one was seen to be missing before.
CheckRotationOfMissing ==
  /\ at = "reading" /\ ~stopping /\ pos >= Len(files[handle]) /\ current = 0
  /\ at' = "looking" /\ CloseLog
  /\ UNCHANGED <<log, held, stopping, meter, counted, web>>

-----------------------------------------------------------------------------
(* The thread of the monitor: tail_log and _run. *)

\* The path exists: open it and go to its end.
OpenLog ==
  /\ at = "looking" /\ ~stopping /\ current # 0
  /\ handle' = current /\ pos' = Len(files[current])
  /\ at' = "opened"
  /\ UNCHANGED <<log, inode, held, stopping, meter, counted, web>>

\* stat() of the path, which may not be that of the open file any more; without
\* a file it raises, and the loop begins again.
StatLog ==
  /\ at = "opened"
  /\ IF current = 0
     THEN at' = "looking" /\ CloseLog
     ELSE at' = "reading" /\ inode' = current /\ UNCHANGED <<handle, pos>>
  /\ UNCHANGED <<log, held, stopping, meter, counted, web>>

\* readline() has something: a line, or as much of it as is written.
ReadLogLine ==
  /\ at = "reading" /\ ~stopping /\ pos < Len(files[handle])
  /\ LET next == files[handle][pos + 1]
         more == next.part = "first" /\ pos + 1 < Len(files[handle])
     IN  /\ pos' = IF more THEN pos + 2 ELSE pos + 1
         /\ held' = IF next.part = "whole" \/ more THEN next.line ELSE 0
  /\ at' = "holding"
  /\ UNCHANGED <<log, handle, inode, stopping, meter, counted, web>>

\* readline() is at the end, and the path names another file, or none: reopen.
\* Otherwise the thread sleeps and asks again.
CheckRotation ==
  /\ at = "reading" /\ ~stopping /\ pos >= Len(files[handle]) /\ current # inode
  /\ at' = "looking" /\ CloseLog
  /\ UNCHANGED <<log, held, stopping, meter, counted, web>>

\* The stop event is seen: at the head of a loop, or before the line held is
\* counted, which is then lost.
Stopped ==
  /\ stopping /\ at \in {"looking", "reading", "holding"}
  /\ at' = "off" /\ CloseLog /\ held' = 0
  /\ UNCHANGED <<log, stopping, meter, counted, web>>

\* Meter.add_line.
AddLine(m, n) ==
  LET l == Lines[n]
      push(s) == LET t == Append(s, l.saved) IN IF Len(t) > Recent THEN Tail(t) ELSE t
  IN  [requests |-> m.requests + (IF l.perf THEN 1 ELSE 0),
       frames   |-> m.frames + (IF l.frame THEN 1 ELSE 0),
       before   |-> m.before + (IF l.perf THEN l.before ELSE 0),
       saved    |-> m.saved + (IF l.perf THEN l.saved ELSE 0),
       weighted |-> m.weighted + (IF l.perf THEN l.hit * Max2(l.before, 1) ELSE 0),
       weight   |-> m.weight + (IF l.perf THEN Max2(l.before, 1) ELSE 0),
       recent   |-> IF l.perf THEN push(m.recent) ELSE m.recent,
       toin     |-> IF l.toin THEN n ELSE m.toin,
       changes  |-> m.changes + (IF l.perf \/ l.frame \/ l.toin THEN 1 ELSE 0)]

\* Half a line matches none of the patterns.
Count ==
  /\ at = "holding"
  /\ IF held = 0 THEN UNCHANGED <<meter, counted>>
     ELSE meter' = AddLine(meter, held) /\ counted' = Append(counted, held)
  /\ at' = IF meter' = meter THEN "reading" ELSE "changed"
  /\ held' = 0
  /\ UNCHANGED <<log, handle, pos, inode, stopping, web>>

\* _broadcast of a fresh snapshot: a full queue costs its subscriber its place.
Broadcast ==
  /\ at = "changed" /\ at' = "reading"
  /\ LET room == {p \in subscribers : Len(queues[p]) < QueueSize}
     IN  /\ subscribers' = room
         /\ queues' = [p \in Pages |-> IF p \in room THEN Append(queues[p], meter.changes)
                                                    ELSE queues[p]]
         /\ since' = [p \in Pages |-> IF Over(p) /\ p \in room
                                      THEN since[p] + 1 ELSE since[p]]
  /\ UNCHANGED <<log, handle, pos, inode, held, stopping, meter, counted,
                 page, pageShows, late, lost>>

\* Meter.snapshot, the rates rounded down; 0 while there is nothing to divide by.
Ratio(part, whole) == IF whole <= 0 THEN 0 ELSE part \div whole

Snapshot(m) ==
  [regen     |-> Ratio(100 * m.saved, m.before),
   pulses    |-> m.recent,
   total     |-> m.saved,
   completed |-> m.requests,
   avg_saved |-> Ratio(m.saved, m.requests),
   cache     |-> Ratio(m.weighted, m.weight)]

-----------------------------------------------------------------------------
(* lifespan and the endpoint. *)

\* start() does nothing while a thread is alive, one that is to stop as well.
StartMonitor ==
  /\ at = "off"
  /\ stopping' = FALSE /\ at' = "looking"
  /\ UNCHANGED <<log, handle, pos, inode, held, meter, counted, web>>

\* stop() waits two seconds at most: the thread may be alive when it returns.
StopMonitor ==
  /\ at # "off" /\ ~stopping
  /\ stopping' = TRUE
  /\ UNCHANGED <<log, tail, meter, counted, web>>

SetPage(p, place) == page' = [page EXCEPT ![p] = place]

Subscribe(p) ==
  /\ page[p] = "off" /\ SetPage(p, "subscribed")
  /\ subscribers' = subscribers \cup {p}
  /\ UNCHANGED <<log, tail, stopping, meter, counted, queues, pageShows, late, lost, since>>

\* The generator begins with a snapshot of its own.
SendFirst(p) ==
  /\ page[p] = "subscribed" /\ SetPage(p, "open")
  /\ pageShows' = [pageShows EXCEPT ![p] = meter.changes]
  /\ UNCHANGED <<log, tail, stopping, meter, counted, subscribers, queues, late, lost, since>>

\* queue.get in the executor has a snapshot.
Send(p) ==
  /\ page[p] = "open" /\ queues[p] # << >>
  /\ queues' = [queues EXCEPT ![p] = Tail(@)]
  /\ pageShows' = [pageShows EXCEPT ![p] = Head(queues[p])] /\ lost' = [lost EXCEPT ![p] = FALSE]
  /\ UNCHANGED <<log, tail, stopping, meter, counted, subscribers, page, late, since>>

\* wait_for gives up after 5 seconds on a get that a starved executor began late;
\* a heartbeat is sent.  A get lasts a second, so at most one is left over.
GiveUp(p) ==
  /\ page[p] = "open" /\ late[p] = 0
  /\ late' = [late EXCEPT ![p] = 1]
  /\ UNCHANGED <<log, tail, stopping, meter, counted, subscribers, queues, page,
                 pageShows, lost, since>>

\* Such a get takes a snapshot, which is sent to nobody, or ends without one.
LateGet(p) ==
  /\ late[p] > 0
  /\ late' = [late EXCEPT ![p] = @ - 1]
  /\ IF queues[p] = << >> THEN UNCHANGED <<queues, lost>>
     ELSE /\ queues' = [queues EXCEPT ![p] = Tail(@)]
          /\ lost' = [lost EXCEPT ![p] = page[p] = "open"]
  /\ UNCHANGED <<log, tail, stopping, meter, counted, subscribers, page, pageShows, since>>

\* The connection is over; nobody unsubscribes its queue.
EndPage(p, place) ==
  /\ SetPage(p, place)
  /\ pageShows' = [pageShows EXCEPT ![p] = -1] /\ lost' = [lost EXCEPT ![p] = FALSE]
  /\ UNCHANGED <<log, tail, stopping, meter, counted, subscribers, queues, since>>

\* A second without a snapshot: get raises Empty, and its handler a NameError,
\* for web_demo.py does not import Empty.  The stream ends; the browser may make
\* another connection.
EndQuiet(p) ==
  /\ page[p] = "open" /\ queues[p] = << >>
  /\ EndPage(p, "ended")
  /\ UNCHANGED late

\* The page goes away, perhaps during a get, which runs on.
LeavePage(p) ==
  /\ page[p] \in {"subscribed", "open"}
  /\ EndPage(p, "gone")
  /\ late' = [late EXCEPT ![p] = IF page[p] = "open" THEN @ + 1 ELSE @]

-----------------------------------------------------------------------------

ThreadStep ==
  OpenLog \/ StatLog \/ ReadLogLine \/ CheckRotation \/ Stopped \/ Count \/ Broadcast

MonitorNext ==
  \/ Write \/ WriteRest \/ Rotate \/ Create
  \/ ThreadStep
  \/ StartMonitor \/ StopMonitor
  \/ \E p \in Pages :
       \/ Subscribe(p) \/ SendFirst(p) \/ Send(p) \/ GiveUp(p) \/ LateGet(p)
       \/ EndQuiet(p) \/ LeavePage(p)

MonitorSpec == MonitorInit /\ [][MonitorNext]_monitorVars

\* Fairness.  The thread is scheduled, and its sleeps end.
MonitorFairness == WF_monitorVars(ThreadStep)

-----------------------------------------------------------------------------

\* Across rotations, restarts and half lines, every line is counted at most
\* once and in its order, and a snapshot tells of the lines counted and no
\* others: also its averages lie within what they average.
CountedOnce ==
  LET perf == {n \in ToSet(counted) : Lines[n].perf}
      shot == Snapshot(meter)
      within(avg, all) == perf # {} => (\E x \in all : x <= avg) /\ (\E x \in all : avg <= x)
  IN  /\ \A i, j \in DOMAIN counted : i < j => counted[i] < counted[j]
      /\ shot.completed = Cardinality(perf)
      /\ Len(shot.pulses) = Min2(Recent, Cardinality(perf))
      /\ within(shot.cache, {Lines[n].hit : n \in perf})
      /\ within(shot.avg_saved, {Lines[n].saved : n \in perf})
      /\ shot.regen \in 0..100 /\ shot.avg_saved <= shot.total

\* As long as its connection stands, a page that has kept up shows the meter as it
\* is: what changed between its subscription and its first snapshot reaches it too.
PageCatchesUp ==
  \A p \in subscribers :
    page[p] = "open" /\ queues[p] = << >> /\ at # "changed" /\ ~lost[p]
      => pageShows[p] = meter.changes

\* A connection that is over, be it that the page left or that the server ended the
\* stream, keeps its place for a queue's length of snapshots, and for those which
\* the gets still in the executor take out of the queue: two at most.
LeakIsBounded == \A p \in Pages : since[p] <= QueueSize + 2

\* The two sides of the bounded queue: a page that reads is shown the meter while
\* its connection stands, and one that is not there any more is let go.
SubscribersServed == PageCatchesUp /\ LeakIsBounded

\* web_demo.py:638 answers a second without a snapshot as it does a wait_for that
\* gives up, with a heartbeat: the server does not end the stream of a page that
\* stays.
QuietStreamsGoOn == \A p \in Pages : page[p] # "ended"

Tailing(n) ==
  at \notin {"off", "looking", "opened"} /\ handle = current
    /\ \E i \in (pos + 1)..Len(files[handle]) : files[handle][i] = [line |-> n, part |-> "whole"]

\* While its file stays in place, a line that is written behind the position of
\* the thread is counted; and when the path names another file, the thread goes
\* there, unless the file was replaced between open() and stat().
LinesAreCounted ==
  /\ \A n \in DOMAIN Lines :
       Tailing(n) ~> (stopping \/ handle # current \/ \E i \in DOMAIN counted : counted[i] = n)
  /\ (at = "reading" /\ inode = handle /\ current \notin {0, handle})
       ~> (stopping \/ current = 0 \/ (at = "opened" /\ handle = current))
=============================================================================
