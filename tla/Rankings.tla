------------------------------ MODULE Rankings ------------------------------
(***************************************************************************)
(* What Python's sort does with the places of a list: by ascending key,    *)
(* those with equal keys in the order of their places, reverse=True or     *)
(* not.  An algorithm would say how; this says where each place ends up,   *)
(* behind all that come before it.                                         *)
(***************************************************************************)
EXTENDS Integers, Sequences, FiniteSets

ComesBefore(key, i, j) == key[i] < key[j] \/ (key[i] = key[j] /\ i < j)

\* sorted(...), by the places of what is sorted.
Ranking(places, key) ==
  [k \in 1..Cardinality(places) |->
     CHOOSE i \in places : Cardinality({j \in places : ComesBefore(key, j, i)}) = k - 1]

\* A mistake somebody could make: sort() and then reversed(), which puts equals
\* in reverse order.
SortedAndReversed(places, key) ==
  LET order == Ranking(places, key)
  IN  [k \in DOMAIN order |-> order[Len(order) + 1 - k]]

\* sorted(..., reverse=True)
Descending(places, key) == Ranking(places, [i \in places |-> -key[i]])
=============================================================================
