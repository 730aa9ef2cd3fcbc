--------------------------- MODULE BreakerStates ---------------------------
(***************************************************************************)
(* What a circuit breaker promises to the code around it, with no failure  *)
(* counter, no clock and no callers: the three states drawn in the class   *)
(* docstring of cfire/reliability.py, and a cooling flag that says that    *)
(* the cooldown of the latest trip has not elapsed yet.  CircuitBreaker    *)
(* implements this specification.                                          *)
(***************************************************************************)

VARIABLES
  state,      \* "closed", "open" or "half-open"
  cooling     \* TRUE from a trip until the cooldown has elapsed

abstractVars == <<state, cooling>>

AbstractInit ==
  /\ state = "closed"
  /\ cooling = FALSE

Trip ==
  /\ state \in {"closed", "half-open"}
  /\ state' = "open"
  /\ cooling' = TRUE

CooledDown ==
  /\ cooling
  /\ cooling' = FALSE
  /\ UNCHANGED state

\* Probing is what the breaker must not do while it is still cooling.
Probe ==
  /\ state = "open"
  /\ ~cooling
  /\ state' = "half-open"
  /\ UNCHANGED cooling

Recover ==
  /\ state = "half-open"
  /\ state' = "closed"
  /\ UNCHANGED cooling

AbstractNext == Trip \/ CooledDown \/ Probe \/ Recover

AbstractSpec == AbstractInit /\ [][AbstractNext]_abstractVars
=============================================================================
