--------------------------- MODULE ForgetfulCache ---------------------------
(***************************************************************************)
(* What a cache promises to AsyncCfire.complete: a lookup either misses or *)
(* returns the response last stored under that key, and that one only      *)
(* until its time to live is over.  It may miss at any time.               *)
(***************************************************************************)
EXTENDS Integers

CONSTANTS Keys, Values, Ttls, NoValue, Expired

VARIABLES
  latest,     \* the response last stored under each key, or NoValue
  due,        \* ticks until it expires, Expired once it has
  answer      \* what the latest lookup returned

abstractVars == <<latest, due, answer>>

AbstractInit ==
  /\ latest = [k \in Keys |-> NoValue]
  /\ due = [k \in Keys |-> Expired]
  /\ answer = NoValue

Lookup(k) ==
  /\ answer' \in {NoValue} \cup (IF due[k] # Expired THEN {latest[k]} ELSE {})
  /\ UNCHANGED <<latest, due>>

Store(k, v, ttl) ==
  /\ latest' = [latest EXCEPT ![k] = v]
  /\ due' = [due EXCEPT ![k] = ttl]
  /\ UNCHANGED answer

Pass ==
  /\ due' = [k \in Keys |-> IF due[k] = Expired THEN Expired ELSE due[k] - 1]
  /\ UNCHANGED <<latest, answer>>

AbstractNext ==
  \/ \E k \in Keys : Lookup(k) \/ \E v \in Values, ttl \in Ttls : Store(k, v, ttl)
  \/ Pass

AbstractSpec == AbstractInit /\ [][AbstractNext]_abstractVars
=============================================================================
