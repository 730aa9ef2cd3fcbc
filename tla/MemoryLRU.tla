----------------------------- MODULE MemoryLRU -----------------------------
(***************************************************************************)
(* The MemoryLRU of cfire/cache.py: a bounded store that evicts the least  *)
(* recently used key, with a time to live per entry.  Its operations run   *)
(* under an asyncio lock without an await inside, so each is one action.   *)
(*                                                                         *)
(* _store is an OrderedDict: storedKeys holds its keys, oldest first, and  *)
(* value what they map to.  _expiry is a dict of its own; left[k] is its   *)
(* entry for k as the ticks from now to it, Expired once it is in the past.*)
(***************************************************************************)
EXTENDS Integers, Sequences, SequencesExt

CONSTANTS
  Keys,
  Values,     \* the responses, told apart by identity only
  NoValue,    \* None
  MaxSize,    \* self.maxsize
  Ttls        \* the times to live that put is called with

ASSUME MaxSizeAssumption == MaxSize \in Nat \ {0}
ASSUME TtlsAssumption == Ttls \subseteq Nat
ASSUME NoValueAssumption == NoValue \notin Values

VARIABLES
  storedKeys, \* the keys of _store, least recently used first
  value,      \* _store
  left,       \* _expiry - clock(), NoEntry for a key that is not in it
  answer      \* what the latest get returned

lruVars == <<storedKeys, value, left, answer>>

Expired == -1
NoEntry == -2

LruInit ==
  /\ storedKeys = << >>
  /\ value = [k \in Keys |-> NoValue]
  /\ left = [k \in Keys |-> NoEntry]
  /\ answer = NoValue

\* The sequence s without k, which it holds at most once.
Without(s, k) ==
  IF k \in ToSet(s) THEN RemoveAt(s, CHOOSE i \in DOMAIN s : s[i] = k) ELSE s

\* The sequence s with k as its last element, whether it held k or not.
Touched(s, k) == Append(Without(s, k), k)

(* Variants with a mistake somebody could make; each breaks a property below. *)

GetExpiredAnswering(k) ==
  /\ left[k] = Expired
  /\ storedKeys' = Without(storedKeys, k)
  /\ value' = [value EXCEPT ![k] = NoValue]
  /\ left' = [left EXCEPT ![k] = NoEntry]
  /\ answer' = value[k]

\* Every hit starts the time to live again.
GetHitSliding(k) ==
  /\ left[k] # Expired /\ value[k] # NoValue
  /\ storedKeys' = Touched(storedKeys, k)
  /\ answer' = value[k]
  /\ left' = [left EXCEPT ![k] = CHOOSE ttl \in Ttls : \A other \in Ttls : other <= ttl]
  /\ UNCHANGED value

PutKeepingExpiry(k, v, ttl) ==
  /\ value[k] = NoValue /\ Len(storedKeys) >= MaxSize
  /\ storedKeys' = Append(Tail(storedKeys), k)
  /\ value' = [value EXCEPT ![Head(storedKeys)] = NoValue, ![k] = v]
  /\ left' = [left EXCEPT ![k] = ttl]

\* popitem() instead of popitem(last=False).
PutEvictingNewest(k, v, ttl) ==
  /\ value[k] = NoValue /\ Len(storedKeys) >= MaxSize
  /\ storedKeys' = Append(Front(storedKeys), k)
  /\ value' = [value EXCEPT ![Last(storedKeys)] = NoValue, ![k] = v]
  /\ left' = [left EXCEPT ![Last(storedKeys)] = NoEntry, ![k] = ttl]

-----------------------------------------------------------------------------

\* OrderedDict.move_to_end, or the insertion of a new key.
MoveToEnd(k) == storedKeys' = Touched(storedKeys, k)

\* The lazy expiration in get: an entry whose time is over is dropped.
GetExpired(k) ==
  /\ left[k] = Expired
  /\ storedKeys' = Without(storedKeys, k)
  /\ value' = [value EXCEPT ![k] = NoValue]
  /\ left' = [left EXCEPT ![k] = NoEntry]
  /\ answer' = NoValue

\* Whether get would return a response.
Hits(k) == left[k] # Expired /\ value[k] # NoValue

GetMiss(k) ==
  /\ left[k] # Expired /\ value[k] = NoValue
  /\ answer' = NoValue
  /\ UNCHANGED <<storedKeys, value, left>>

\* The caller gets a copy, marked as cached, with its latency zeroed.
GetHit(k) ==
  /\ Hits(k)
  /\ MoveToEnd(k)
  /\ answer' = value[k]
  /\ UNCHANGED <<value, left>>

Get(k) == GetExpired(k) \/ GetMiss(k) \/ GetHit(k)

\* put of a key that is stored, or that there is room for.
PutInPlace(k, v, ttl) ==
  /\ value[k] # NoValue \/ Len(storedKeys) < MaxSize
  /\ MoveToEnd(k)
  /\ value' = [value EXCEPT ![k] = v]
  /\ left' = [left EXCEPT ![k] = ttl]

\* put of a new key at capacity: popitem(last=False), and its expiry with it.
PutEvicting(k, v, ttl) ==
  /\ value[k] = NoValue /\ Len(storedKeys) >= MaxSize
  /\ storedKeys' = Append(Tail(storedKeys), k)
  /\ value' = [value EXCEPT ![Head(storedKeys)] = NoValue, ![k] = v]
  /\ left' = [left EXCEPT ![Head(storedKeys)] = NoEntry, ![k] = ttl]

Put(k, v, ttl) == (PutInPlace(k, v, ttl) \/ PutEvicting(k, v, ttl)) /\ UNCHANGED answer

\* aclose clears both dictionaries; the cache stays usable.
Clear ==
  /\ storedKeys' = << >>
  /\ value' = [k \in Keys |-> NoValue]
  /\ left' = [k \in Keys |-> NoEntry]
  /\ UNCHANGED answer

Age ==
  /\ left' = [k \in Keys |-> IF left[k] < 0 THEN left[k] ELSE left[k] - 1]
  /\ UNCHANGED <<storedKeys, value, answer>>

LruNext ==
  \/ \E k \in Keys : Get(k) \/ \E v \in Values, ttl \in Ttls : Put(k, v, ttl)
  \/ Clear
  \/ Age

LruSpec == LruInit /\ [][LruNext]_lruVars

-----------------------------------------------------------------------------

LruTypeOK ==
  /\ storedKeys \in Seq(Keys)
  /\ value \in [Keys -> Values \cup {NoValue}]
  /\ left \in [Keys -> Nat \cup {Expired, NoEntry}]
  /\ answer \in Values \cup {NoValue}

\* The order, the values and the expiries always have the same keys: no key is
\* left without an expiry, which would never leave, and no expiry outlives
\* its key, which would leak.
SameKeys ==
  \A k \in Keys :
    /\ value[k] # NoValue <=> left[k] # NoEntry
    /\ value[k] # NoValue <=> k \in ToSet(storedKeys)

\* Bug #2 of the module docstring: the store never outgrows its bound, and
\* holds each key once.
Bounded == Len(storedKeys) <= MaxSize /\ IsInjective(storedKeys)
=============================================================================
