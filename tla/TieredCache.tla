---------------------------- MODULE TieredCache ----------------------------
(***************************************************************************)
(* TieredCache of cfire/cache.py over two tiers: a MemoryLRU, and a        *)
(* RedisCache whose server other clients may use too.  Every call of the   *)
(* second tier is a round trip during which other requests run; it may     *)
(* fail, and RedisCache then answers None, or drops the write.             *)
(*                                                                         *)
(* The responses are numbered in the order in which they are stored, so    *)
(* Values is 1..MaxStores, and the history age says how old each one is.   *)
(* Each tier has its own time to live.  Nothing limits a round trip, for   *)
(* the connection is made without a timeout; the history longest says how  *)
(* long one has really taken, and Delay only bounds what is explored.      *)
(***************************************************************************)
EXTENDS MemoryLRU

CONSTANTS
  Tasks,        \* the requests that use the cache
  MemoryTtl,    \* ttl of the MemoryLRU: CACHE_TTL_SEC
  RedisTtl,     \* default_ttl of the RedisCache, which the client leaves as it is
  Delay,        \* bound: the longest round trip to Redis, in ticks
  MaxStores     \* bound: how many responses are stored

ASSUME TtlAssumption == MemoryTtl \in Ttls \ {0} /\ RedisTtl \in Nat \ {0}
ASSUME DelayAssumption == Delay \in Nat /\ MaxStores \in Nat
ASSUME ValuesAssumption == Values = 1..MaxStores

VARIABLES
  redis, redisLeft,   \* the server: what it holds, and the ticks left of it
  pc, key, held,      \* each task: its place, its key and the response in hand
  waited,             \* ticks since the task sent its command to Redis
  longest,            \* history: the longest that a round trip has taken yet
  stores, age         \* history: responses stored so far, and their ages

tiered == <<redis, redisLeft, pc, key, held, waited, longest, stores, age>>
tieredVars == <<lruVars, tiered>>

\* Bound: ages are told apart up to here.
MaxAge == MemoryTtl + RedisTtl + 2 * Delay

TieredInit ==
  /\ LruInit
  /\ redis = [k \in Keys |-> NoValue]
  /\ redisLeft = [k \in Keys |-> 0]
  /\ pc = [t \in Tasks |-> "idle"]
  /\ key \in [Tasks -> Keys]
  /\ held = [t \in Tasks |-> NoValue]
  /\ waited = [t \in Tasks |-> 0] /\ longest = 0
  /\ stores = 0
  /\ age = [v \in Values |-> 0]

GoTo(t, place) == pc' = [pc EXCEPT ![t] = place]

-----------------------------------------------------------------------------

\* TieredCache.get asks the first tier, and the second if that one misses.
LookUp(t, k) ==
  /\ pc[t] = "idle"
  /\ Get(k)
  /\ IF Hits(k)
     THEN UNCHANGED <<pc, key, waited>>
     ELSE /\ GoTo(t, "asking")
          /\ key' = [key EXCEPT ![t] = k]
          /\ waited' = [waited EXCEPT ![t] = 0]
  /\ UNCHANGED <<redis, redisLeft, held, longest, stores, age>>

\* The server evaluates GET, or the round trip fails, that of _ensure_client
\* included, and get fails open.
RedisGet(t) ==
  /\ pc[t] = "asking"
  /\ \E v \in {NoValue, redis[key[t]]} : held' = [held EXCEPT ![t] = v]
  /\ GoTo(t, "answered")
  /\ UNCHANGED <<lruVars, redis, redisLeft, key, waited, longest, stores, age>>

\* The reply arrives.  A hit is written back to the first tier, with the time to
\* live of that tier, however old it is, and held[t] is what get returns.
ReadRepair(t) ==
  /\ pc[t] = "answered"
  /\ IF held[t] # NoValue THEN Put(key[t], held[t], MemoryTtl) ELSE UNCHANGED lruVars
  /\ GoTo(t, "idle")
  /\ UNCHANGED <<redis, redisLeft, key, held, waited, longest, stores, age>>

\* TieredCache.put writes both tiers, as the client calls it: without a time to
\* live, so that each tier takes its own.  The first needs no round trip.
StoreBoth(t, k) ==
  /\ pc[t] = "idle" /\ stores < MaxStores
  /\ stores' = stores + 1
  /\ Put(k, stores + 1, MemoryTtl)
  /\ GoTo(t, "setting")
  /\ key' = [key EXCEPT ![t] = k]
  /\ held' = [held EXCEPT ![t] = stores + 1]
  /\ waited' = [waited EXCEPT ![t] = 0]
  /\ UNCHANGED <<redis, redisLeft, longest, age>>

\* The server evaluates SET with its expiry, or the write is lost.
RedisSet(t) ==
  /\ pc[t] = "setting"
  /\ \/ /\ redis' = [redis EXCEPT ![key[t]] = held[t]]
        /\ redisLeft' = [redisLeft EXCEPT ![key[t]] = RedisTtl]
     \/ UNCHANGED <<redis, redisLeft>>
  /\ GoTo(t, "idle")
  /\ UNCHANGED <<lruVars, key, held, waited, longest, stores, age>>

\* aclose() clears the first tier and closes the connection of the second, which
\* fails the calls in flight there (they may fail anyway) and is made anew by
\* the next call.
Close == Clear /\ UNCHANGED tiered

\* Time passes in both tiers and for the round trips.
Tick ==
  /\ \A t \in Tasks : pc[t] # "idle" => waited[t] < Delay
  /\ Age
  /\ redisLeft' = [k \in Keys |-> IF redisLeft[k] > 0 THEN redisLeft[k] - 1 ELSE 0]
  /\ redis' = [k \in Keys |-> IF redisLeft[k] <= 1 THEN NoValue ELSE redis[k]]
  /\ waited' = [t \in Tasks |-> IF pc[t] # "idle" THEN waited[t] + 1 ELSE 0]
  /\ longest' = IF \E t \in Tasks : waited'[t] > longest THEN longest + 1 ELSE longest
  /\ age' = [v \in Values |-> IF v <= stores /\ age[v] <= MaxAge THEN age[v] + 1 ELSE age[v]]
  /\ UNCHANGED <<pc, key, held, stores>>

TieredNext ==
  \/ \E t \in Tasks, k \in Keys : LookUp(t, k) \/ StoreBoth(t, k)
  \/ \E t \in Tasks : RedisGet(t) \/ ReadRepair(t) \/ RedisSet(t)
  \/ Close \/ Tick

TieredSpec == TieredInit /\ [][TieredNext]_tieredVars

-----------------------------------------------------------------------------

TypeOK ==
  /\ LruTypeOK
  /\ redis \in [Keys -> Values \cup {NoValue}]
  /\ redisLeft \in [Keys -> 0..RedisTtl]
  /\ pc \in [Tasks -> {"idle", "asking", "answered", "setting"}]
  /\ key \in [Tasks -> Keys]
  /\ held \in [Tasks -> Values \cup {NoValue}]
  /\ waited \in [Tasks -> 0..Delay] /\ longest \in 0..Delay
  /\ stores \in 0..MaxStores
  /\ age \in [Values -> 0..(MaxAge + 1)]

\* The age that no response in use reaches, as the round trips were so far.
StaleAt == MemoryTtl + RedisTtl + 2 * longest

\* A response served from Redis, written back and served again from memory
\* outlives the time to live of either tier, but not without end: whatever a lookup
\* can return was stored less than both times to live and two round trips ago, of
\* the longest that any request has had to wait for.
BoundedStaleness ==
  /\ \A k \in Keys : Hits(k) => age[value[k]] < StaleAt
  /\ \A t \in Tasks : pc[t] = "answered" /\ held[t] # NoValue => age[held[t]] < StaleAt

\* No interleaving of lookups, stores and write-backs puts the response to one
\* prompt under the key of another, in either tier.
NoCrossedKeys ==
  \A j, k \in Keys :
    j # k => {value[j], redis[j]} \cap {value[k], redis[k]} \subseteq {NoValue}

\* What two tasks, two tiers, lost replies and write-backs cannot upset.
TiersAgree ==
  /\ TypeOK
  /\ NoCrossedKeys
  /\ BoundedStaleness
=============================================================================
