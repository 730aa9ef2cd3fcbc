-------------------------- MODULE MemoryLRUHistory --------------------------
(***************************************************************************)
(* MemoryLRU with the history its promises are about: what was last stored *)
(* under each key and when that expires, whether or not it is still there, *)
(* and the order in which the keys were last used.                         *)
(***************************************************************************)
EXTENDS MemoryLRU

VARIABLES
  latest, due,    \* the response last stored under each key, and its time left
  recency         \* the keys ever used, the most recently used last

vars == <<lruVars, latest, due, recency>>

Init ==
  /\ LruInit
  /\ latest = [k \in Keys |-> NoValue]
  /\ due = [k \in Keys |-> Expired]
  /\ recency = << >>

Use(k) == recency' = Touched(recency, k)

Lookup(k) ==
  /\ Get(k)
  /\ IF Hits(k) THEN Use(k) ELSE UNCHANGED recency
  /\ UNCHANGED <<latest, due>>

Store(k, v, ttl) ==
  /\ Put(k, v, ttl)
  /\ Use(k)
  /\ latest' = [latest EXCEPT ![k] = v]
  /\ due' = [due EXCEPT ![k] = ttl]

Pass ==
  /\ Age
  /\ due' = [k \in Keys |-> IF due[k] = Expired THEN Expired ELSE due[k] - 1]
  /\ UNCHANGED <<latest, recency>>

Next ==
  \/ \E k \in Keys : Lookup(k) \/ \E v \in Values, ttl \in Ttls : Store(k, v, ttl)
  \/ Clear /\ UNCHANGED <<latest, due, recency>>
  \/ Pass

Spec == Init /\ [][Next]_vars

-----------------------------------------------------------------------------

\* Whether a is ahead of b in the sequence s.
Ahead(s, a, b) == \E i, j \in DOMAIN s : i < j /\ s[i] = a /\ s[j] = b

\* The keys that hold a response leave in the order they were last used in.
OrderIsRecency == \A j, k \in Keys : Ahead(storedKeys, j, k) => Ahead(recency, j, k)

\* The two dictionaries and the order stay one store, bounded and in the order
\* of use, through every mixture of hits, misses, expiries and evictions.
StoreConsistent ==
  /\ LruTypeOK
  /\ SameKeys
  /\ Bounded
  /\ OrderIsRecency

\* An eviction by put takes the key whose last use is the oldest of all keys
\* stored, even if another one has expired already.
EvictsLeastRecentlyUsed ==
  [][\A k, j \in Keys :
       /\ Len(storedKeys') >= Len(storedKeys)
       /\ value[k] # NoValue /\ value'[k] = NoValue
       /\ value[j] # NoValue /\ j # k
       => Ahead(recency, k, j)]_vars

Abstract == INSTANCE ForgetfulCache

\* The store may forget, but a hit is the response last stored under the key,
\* within its time to live.
ForgetsButNeverLies == Abstract!AbstractSpec
=============================================================================
