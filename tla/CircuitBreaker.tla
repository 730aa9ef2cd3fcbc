--------------------------- MODULE CircuitBreaker ---------------------------
(***************************************************************************)
(* The CircuitBreaker of cfire/reliability.py, shared by concurrent        *)
(* callers on one asyncio event loop.                                      *)
(*                                                                         *)
(* call() has two critical sections under the breaker's lock and awaits    *)
(* the protected function between them, outside the lock.  No section      *)
(* contains an await, so each is one atomic action: Admit or Refuse before *)
(* the await, Succeed or Fail after it.  A caller may also be cancelled    *)
(* while it awaits: CancelledError is not an Exception, so neither the     *)
(* except clause nor the success section runs.                             *)
(*                                                                         *)
(* Time.  The code reads the clock only in clock() - last_failure >        *)
(* cooldown, so the model keeps that difference, sinceFailure, and lets it *)
(* saturate just above Cooldown.  failures is only compared with the       *)
(* threshold, so it saturates at FailureCap, just above Threshold.  Both   *)
(* are exact and leave the behaviours unbounded.                           *)
(***************************************************************************)
EXTENDS Naturals

CONSTANTS
  Callers,      \* the tasks that share the breaker
  Threshold,    \* consecutive failures that open it
  Cooldown      \* ticks to stay open after the latest failure

ASSUME ThresholdAssumption == Threshold \in Nat \ {0}
ASSUME CooldownAssumption == Cooldown \in Nat

VARIABLES
  state,          \* self.state
  failures,       \* self.failures, saturating at FailureCap
  sinceFailure,   \* clock() - self.last_failure, saturating
  inCall,         \* the callers that await the protected function
  outcome,        \* what the latest call of each caller ended with
  sinceTrip       \* history: ticks since the breaker last opened, saturating

vars == <<state, failures, sinceFailure, inCall, outcome, sinceTrip>>

FailureCap == Threshold + 1
Elapsed == Cooldown + 1

\* One more than n, but never above cap.
UpTo(cap, n) == IF n < cap THEN n + 1 ELSE cap

Init ==
  /\ state = "closed"
  /\ failures = 0
  /\ sinceFailure = Elapsed
  /\ inCall = {}
  /\ outcome = [c \in Callers |-> "none"]
  /\ sinceTrip = Elapsed

(* Variants with a mistake somebody could make; each breaks a property below. *)

CooledDownAtBoundary == sinceFailure >= Cooldown

SucceedLeaving(c, newState, newFailures) ==
  /\ c \in inCall
  /\ state' = newState
  /\ failures' = newFailures
  /\ inCall' = inCall \ {c}
  /\ outcome' = [outcome EXCEPT ![c] = "ok"]
  /\ UNCHANGED <<sinceFailure, sinceTrip>>

SucceedClosingAlways(c) == SucceedLeaving(c, "closed", 0)
SucceedNeverClosing(c) == SucceedLeaving(c, state, 0)

-----------------------------------------------------------------------------

CooledDown == sinceFailure > Cooldown

(***************************************************************************)
(* The first critical section: an open breaker past its cooldown becomes   *)
(* half-open and lets the call through.  Half-open admits every caller.    *)
(***************************************************************************)
Admit(c) ==
  /\ c \notin inCall
  /\ state = "open" => CooledDown
  /\ state' = IF state = "open" THEN "half-open" ELSE state
  /\ inCall' = inCall \cup {c}
  /\ UNCHANGED <<failures, sinceFailure, outcome, sinceTrip>>

\* The first critical section raises CircuitOpenError.
Refuse(c) ==
  /\ c \notin inCall
  /\ state = "open" /\ ~CooledDown
  /\ outcome' = [outcome EXCEPT ![c] = "refused"]
  /\ UNCHANGED <<state, failures, sinceFailure, inCall, sinceTrip>>

\* The awaited function raised: the except clause counts it, may trip, re-raises.
Fail(c) ==
  LET trips == failures + 1 >= Threshold /\ state # "open"
  IN  /\ c \in inCall
      /\ failures' = UpTo(FailureCap, failures)
      /\ sinceFailure' = 0
      /\ state' = IF trips THEN "open" ELSE state
      /\ sinceTrip' = IF trips THEN 0 ELSE sinceTrip
      /\ inCall' = inCall \ {c}
      /\ outcome' = [outcome EXCEPT ![c] = "failed"]

\* The awaited function returned: the last critical section.  It resets the
\* counter in every state, an open breaker's included.
Succeed(c) ==
  /\ c \in inCall
  /\ state' = IF state = "half-open" THEN "closed" ELSE state
  /\ failures' = 0
  /\ inCall' = inCall \ {c}
  /\ outcome' = [outcome EXCEPT ![c] = "ok"]
  /\ UNCHANGED <<sinceFailure, sinceTrip>>

\* The caller's task is cancelled at the await: the breaker learns nothing.
Cancel(c) ==
  /\ c \in inCall
  /\ inCall' = inCall \ {c}
  /\ outcome' = [outcome EXCEPT ![c] = "cancelled"]
  /\ UNCHANGED <<state, failures, sinceFailure, sinceTrip>>

Tick ==
  /\ sinceFailure' = UpTo(Elapsed, sinceFailure)
  /\ sinceTrip' = UpTo(Elapsed, sinceTrip)
  /\ UNCHANGED <<state, failures, inCall, outcome>>

Next ==
  \/ \E c \in Callers : Admit(c) \/ Refuse(c) \/ Fail(c) \/ Succeed(c) \/ Cancel(c)
  \/ Tick

Spec == Init /\ [][Next]_vars

(***************************************************************************)
(* Fairness.  The clock advances; the protected function returns or raises *)
(* (the transport puts a timeout on every request); each caller comes back *)
(* with another request.                                                   *)
(***************************************************************************)
Fairness ==
  /\ WF_vars(Tick)
  /\ \A c \in Callers :
       /\ WF_vars(Admit(c) \/ Refuse(c))
       /\ WF_vars(Fail(c) \/ Succeed(c) \/ Cancel(c))

FairSpec == Spec /\ Fairness

-----------------------------------------------------------------------------

TypeOK ==
  /\ state \in {"closed", "open", "half-open"}
  /\ failures \in 0..FailureCap
  /\ sinceFailure \in 0..Elapsed
  /\ inCall \subseteq Callers
  /\ outcome \in [Callers -> {"none", "ok", "failed", "refused", "cancelled"}]
  /\ sinceTrip \in 0..Elapsed

\* A closed breaker always has failures left before it trips: whichever path
\* led back to closed, the counter of the outage before it is gone.
ClosedBelowThreshold == state = "closed" => failures < Threshold

\* Until the cooldown of the latest trip has elapsed the breaker is open: no
\* late answer to a call admitted before the trip re-opens the way.
OpenWhileCooling == sinceTrip <= Cooldown => state = "open"

\* An open breaker measures its cooldown from the latest failure, late ones
\* of calls admitted before the trip included, never from an earlier moment.
CooldownFromLatestFailure == sinceFailure <= sinceTrip

\* The three of them need each other, and TypeOK: together they are inductive.
BreakerInvariant ==
  /\ TypeOK
  /\ ClosedBelowThreshold
  /\ OpenWhileCooling
  /\ CooldownFromLatestFailure

\* No call reaches the protected function within a cooldown of a trip.
NoCallWhileCooling ==
  [][\A c \in Callers : c \in inCall' \ inCall => sinceTrip > Cooldown]_vars

\* Seen through state and "the latest trip is still cooling", the breaker is
\* the three-state machine of its docstring.
Abstract == INSTANCE BreakerStates WITH cooling <- (sinceTrip <= Cooldown)

ImplementsBreakerStates == Abstract!AbstractSpec

\* Once the backend answers every call, and no caller is cancelled, the breaker
\* closes for good: no caller is refused from then on.
Recovers ==
  <>[][\A c \in Callers : ~Fail(c) /\ ~Cancel(c)]_vars => <>[](state = "closed")

\* "half-open -> open on next failure" (cfire/reliability.py:47).  A late success
\* resets the counter while the breaker is open, and the failure of the next
\* probe is then below the threshold: the breaker stays half-open.
ReopensOnFailure ==
  [][\A c \in Callers : state = "half-open" /\ Fail(c) => state' = "open"]_vars
=============================================================================
