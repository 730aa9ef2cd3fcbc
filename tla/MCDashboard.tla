----------------------------- MODULE MCDashboard -----------------------------
(***************************************************************************)
(* The two parts of the web demo that work while no page asks: the runs of *)
(* its managers, and the headroom monitor, each with its streams.  They    *)
(* share nothing, so each is explored while the other is at rest.          *)
(***************************************************************************)
EXTENDS RunManager, Headroom

\* PERF lines of different rates, the second one of an empty request and a TOIN
\* line too, and frame lines: one after it and one between them.
MCLines == <<
  [perf |-> TRUE,  frame |-> FALSE, toin |-> FALSE, before |-> 4, saved |-> 1, hit |-> 50],
  [perf |-> FALSE, frame |-> TRUE,  toin |-> FALSE, before |-> 9, saved |-> 5, hit |-> 0],
  [perf |-> TRUE,  frame |-> FALSE, toin |-> TRUE,  before |-> 0, saved |-> 0, hit |-> 100],
  [perf |-> FALSE, frame |-> TRUE,  toin |-> FALSE, before |-> 9, saved |-> 5, hit |-> 0] >>

\* Rotations and restarts are explored without a page: one sees of them only
\* when the meter changes, and the lifespan of the application starts the monitor
\* before the first connection and stops it behind the last.
MonitorStep ==
  /\ MonitorNext
  /\ \/ Len(files') <= 1 /\ ~stopping'
     \/ \A p \in Pages : page'[p] = "off"

DashboardInit == Init /\ MonitorInit

ManagerRests == Init /\ manager = "race"

DashboardNext ==
  \/ MonitorInit /\ Next /\ UNCHANGED monitorVars
  \/ ManagerRests /\ MonitorStep /\ UNCHANGED vars

\* A part at rest has no fair action enabled.
DashboardSpec ==
  /\ DashboardInit /\ [][DashboardNext]_<<vars, monitorVars>>
  /\ RunFairness /\ MonitorFairness
=============================================================================
