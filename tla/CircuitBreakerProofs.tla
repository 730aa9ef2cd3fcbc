------------------------ MODULE CircuitBreakerProofs ------------------------
(***************************************************************************)
(* The safety of the circuit breaker for every set of callers, threshold   *)
(* and cooldown.  BreakerInvariant is inductive: its conjuncts need each   *)
(* other (a probe is admitted only when sinceFailure exceeds the cooldown, *)
(* which CooldownFromLatestFailure carries over to sinceTrip).             *)
(***************************************************************************)
EXTENDS CircuitBreaker, TLAPS

\* What the saturating step does to a counter that is within its cap: it
\* stays within it, and never goes down.
LEMMA UpToBounds ==
  ASSUME NEW cap \in Nat, NEW n \in 0..cap
  PROVE  /\ UpTo(cap, n) \in 0..cap
         /\ n <= UpTo(cap, n)
         /\ UpTo(cap, n) = cap \/ UpTo(cap, n) = n + 1
BY DEF UpTo

\* The two saturation bounds are naturals, above what they are compared with.
LEMMA Bounds ==
  /\ FailureCap \in Nat /\ Threshold \in Nat /\ 0 < Threshold
  /\ FailureCap = Threshold + 1
  /\ Elapsed \in Nat /\ Cooldown \in Nat /\ Elapsed = Cooldown + 1
BY ThresholdAssumption, CooldownAssumption DEF FailureCap, Elapsed

\* The initial state satisfies the inductive invariant.
LEMMA InitInvariant == Init => BreakerInvariant
BY Bounds DEF Init, BreakerInvariant, TypeOK, ClosedBelowThreshold, OpenWhileCooling,
              CooldownFromLatestFailure

\* Every step of a caller, and of the clock, preserves the types.
LEMMA TypePreserved == TypeOK /\ [Next]_vars => TypeOK'
<1> SUFFICES ASSUME TypeOK, [Next]_vars PROVE TypeOK'
  OBVIOUS
<1> USE Bounds DEF TypeOK
<1>1. ASSUME NEW c \in Callers, Admit(c) PROVE TypeOK'
  BY <1>1 DEF Admit
<1>2. ASSUME NEW c \in Callers, Refuse(c) PROVE TypeOK'
  BY <1>2 DEF Refuse
<1>3. ASSUME NEW c \in Callers, Fail(c) PROVE TypeOK'
  BY <1>3, UpToBounds DEF Fail
<1>4. ASSUME NEW c \in Callers, Succeed(c) PROVE TypeOK'
  BY <1>4 DEF Succeed
<1>5. ASSUME NEW c \in Callers, Cancel(c) PROVE TypeOK'
  BY <1>5 DEF Cancel
<1>6. CASE Tick
  BY <1>6, UpToBounds DEF Tick
<1>7. CASE UNCHANGED vars
  BY <1>7 DEF vars
<1> QED
  BY <1>1, <1>2, <1>3, <1>4, <1>5, <1>6, <1>7 DEF Next

\* Every step preserves the inductive invariant.
LEMMA InvariantPreserved == BreakerInvariant /\ [Next]_vars => BreakerInvariant'
<1> SUFFICES ASSUME BreakerInvariant, [Next]_vars PROVE BreakerInvariant'
  OBVIOUS
<1> USE Bounds DEF BreakerInvariant, ClosedBelowThreshold, OpenWhileCooling,
                   CooldownFromLatestFailure
<1>0. TypeOK'
  BY TypePreserved
<1>1. ASSUME NEW c \in Callers, Admit(c) PROVE BreakerInvariant'
  BY <1>0, <1>1 DEF Admit, CooledDown, TypeOK
<1>2. ASSUME NEW c \in Callers, Refuse(c) PROVE BreakerInvariant'
  BY <1>0, <1>2 DEF Refuse
<1>3. ASSUME NEW c \in Callers, Fail(c) PROVE BreakerInvariant'
  <2>1. CASE failures + 1 >= Threshold /\ state # "open"
    BY <1>0, <1>3, <2>1 DEF Fail
  <2>2. CASE ~(failures + 1 >= Threshold /\ state # "open")
    <3>1. state' = state /\ sinceTrip' = sinceTrip /\ sinceFailure' = 0
      BY <1>3, <2>2 DEF Fail
    <3>2. ClosedBelowThreshold'
      BY <1>3, <2>2, <3>1 DEF Fail, TypeOK, UpTo
    <3> QED
      BY <1>0, <3>1, <3>2 DEF TypeOK
  <2> QED
    BY <2>1, <2>2
<1>4. ASSUME NEW c \in Callers, Succeed(c) PROVE BreakerInvariant'
  BY <1>0, <1>4 DEF Succeed, TypeOK
<1>5. ASSUME NEW c \in Callers, Cancel(c) PROVE BreakerInvariant'
  BY <1>0, <1>5 DEF Cancel
<1>6. CASE Tick
  BY <1>0, <1>6 DEF Tick, UpTo, TypeOK
<1>7. CASE UNCHANGED vars
  BY <1>0, <1>7 DEF vars
<1> QED
  BY <1>1, <1>2, <1>3, <1>4, <1>5, <1>6, <1>7 DEF Next

\* For every set of callers, threshold and cooldown: the state keeps its types,
\* a closed breaker is below its threshold, an open one stays open for the
\* cooldown of its trip, and measures it from the latest failure.
THEOREM Invariance == Spec => []BreakerInvariant
BY InitInvariant, InvariantPreserved, PTL DEF Spec

\* Type correctness of the breaker's state.
THEOREM TypeCorrect == Spec => []TypeOK
BY Invariance, PTL DEF BreakerInvariant

\* No call reaches the protected function within a cooldown of a trip,
\* whatever late answers arrive in between.
THEOREM CallsWaitForCooldown == Spec => NoCallWhileCooling
<1> DEFINE Quiet == \A c \in Callers : c \in inCall' \ inCall => sinceTrip > Cooldown
<1>1. BreakerInvariant /\ [Next]_vars => [Quiet]_vars
  <2> SUFFICES ASSUME BreakerInvariant, Next, NEW c \in Callers, c \in inCall' \ inCall
               PROVE  sinceTrip > Cooldown
    BY DEF Quiet
  <2>1. PICK d \in Callers : Admit(d)
    BY DEF Next, Refuse, Fail, Succeed, Cancel, Tick
  <2> QED
    BY <2>1, Bounds DEF Admit, CooledDown, BreakerInvariant, TypeOK, OpenWhileCooling,
                        CooldownFromLatestFailure
<1> QED
  BY <1>1, Invariance, PTL DEF Spec, NoCallWhileCooling

\* The breaker with its counter, clock and concurrent callers implements the
\* three-state machine of its docstring.
THEOREM Implementation == Spec => ImplementsBreakerStates
<1> USE Bounds DEF Abstract!abstractVars
<1>1. Init => Abstract!AbstractInit
  BY DEF Init, Abstract!AbstractInit
<1>2. BreakerInvariant /\ [Next]_vars => [Abstract!AbstractNext]_(Abstract!abstractVars)
  <2> SUFFICES ASSUME BreakerInvariant, [Next]_vars
               PROVE  [Abstract!AbstractNext]_(Abstract!abstractVars)
    OBVIOUS
  <2> USE DEF BreakerInvariant, TypeOK, OpenWhileCooling, CooldownFromLatestFailure
  <2>1. ASSUME NEW c \in Callers, Admit(c)
        PROVE  [Abstract!AbstractNext]_(Abstract!abstractVars)
    <3>1. CASE state = "open"
      BY <2>1, <3>1 DEF Admit, CooledDown, Abstract!AbstractNext, Abstract!Probe
    <3>2. CASE state # "open"
      BY <2>1, <3>2 DEF Admit
    <3> QED
      BY <3>1, <3>2
  <2>2. ASSUME NEW c \in Callers, Fail(c)
        PROVE  [Abstract!AbstractNext]_(Abstract!abstractVars)
    <3>1. CASE failures + 1 >= Threshold /\ state # "open"
      BY <2>2, <3>1 DEF Fail, Abstract!AbstractNext, Abstract!Trip
    <3>2. CASE ~(failures + 1 >= Threshold /\ state # "open")
      BY <2>2, <3>2 DEF Fail
    <3> QED
      BY <3>1, <3>2
  <2>3. ASSUME NEW c \in Callers, Succeed(c)
        PROVE  [Abstract!AbstractNext]_(Abstract!abstractVars)
    BY <2>3 DEF Succeed, Abstract!AbstractNext, Abstract!Recover
  <2>4. ASSUME NEW c \in Callers, Refuse(c) \/ Cancel(c)
        PROVE  [Abstract!AbstractNext]_(Abstract!abstractVars)
    BY <2>4 DEF Refuse, Cancel
  <2>5. CASE Tick
    BY <2>5 DEF Tick, UpTo, Abstract!AbstractNext, Abstract!CooledDown
  <2>6. CASE UNCHANGED vars
    BY <2>6 DEF vars
  <2> QED
    BY <2>1, <2>2, <2>3, <2>4, <2>5, <2>6 DEF Next
<1> QED
  BY <1>1, <1>2, Invariance, PTL DEF Spec, ImplementsBreakerStates, Abstract!AbstractSpec
=============================================================================
