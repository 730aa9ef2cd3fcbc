------------------------- MODULE RequestPathProofs --------------------------
(***************************************************************************)
(* Proofs about the way of a request: through the rate limiter and the     *)
(* caches and, in the fork, through the router.                            *)
(*                                                                         *)
(* The limiter, for every set of callers, both budgets and every window.   *)
(* What acquire tests are the entries of its log, what it promises is      *)
(* about the grants: the inductive invariant says that the log, from any   *)
(* age on, holds exactly what was granted since.  It is about sums, so the *)
(* lemmas on SumTo come first, by induction over Nat.                      *)
(*                                                                         *)
(* The caches, for all sets of keys and responses and every bound.  For    *)
(* the memory cache the inductive invariant adds to StoreConsistent how    *)
(* the store relates to its history: what is stored was used, and is what  *)
(* was stored last, with the time to live it was given.  For the two tiers *)
(* it follows a response through both tiers and the round trips between    *)
(* them: it has one key, and its age and the time that is left for it      *)
(* where it is make up a bound that depends on the place.                  *)
(*                                                                         *)
(* The router, for every set of backends, both policies and every number   *)
(* of retries: the invariant tells how often each backend of the order has *)
(* been called, from the place in the loop.                                *)
(***************************************************************************)
EXTENDS RateLimiter, MemoryLRUHistory, TieredCache, Router, Lemmas, SequenceTheorems

-----------------------------------------------------------------------------
(* The limiter. *)

\* No entry is younger than the one behind it.
InOrderOfTime(entries) ==
  \A i, j \in DOMAIN entries : i <= j => entries[j].age <= entries[i].age

\* The entries younger than n are the grants of the latest n ticks.
GrantsLogged ==
  \A n \in 0..Window : /\ GrantedRequests(n) = Len(Younger(log, n))
                       /\ GrantedTokens(n) = TokensIn(Younger(log, n))

\* A sleeping caller is due when the oldest entry leaves the window, or before.
DueInTime ==
  \A c \in Callers :
    phase[c] = "waiting" /\ timer[c] > 0 /\ Pruned # << >> =>
      timer[c] + Pruned[1].age <= Window

LimiterInvariant ==
  /\ BudgetsKept
  /\ SleepsOnlyWhileBlocked
  /\ InOrderOfTime(log)
  /\ GrantsLogged
  /\ DueInTime

-----------------------------------------------------------------------------
(* Sums. *)

\* g holds the sums of the first elements of f, up to the n-th.
RunningSum(f, n, g) ==
  /\ g \in [0..n -> Nat]
  /\ g[0] = 0
  /\ \A i \in 1..n : g[i] = g[i - 1] + f[i]

\* There are such sums.
LEMMA RunningSumExists ==
  ASSUME NEW m \in Nat, NEW f \in [1..m -> Nat], NEW n \in 0..m
  PROVE  \E g : RunningSum(f, n, g)
<1> DEFINE T == {k \in Nat : k <= m => \E g : RunningSum(f, k, g)}
<1>1. 0 \in T
  <2>1. RunningSum(f, 0, [i \in 0..0 |-> 0])
    BY DEF RunningSum
  <2> QED
    BY <2>1
<1>2. ASSUME NEW k \in Nat, k \in T PROVE k + 1 \in T
  <2> SUFFICES ASSUME k + 1 <= m PROVE \E g : RunningSum(f, k + 1, g)
    OBVIOUS
  <2>1. PICK g : RunningSum(f, k, g)
    BY <1>2
  <2> DEFINE h == [i \in 0..(k + 1) |-> IF i <= k THEN g[i] ELSE g[k] + f[k + 1]]
  <2>2. RunningSum(f, k + 1, h)
    <3>1. f[k + 1] \in Nat /\ k + 1 \in Nat /\ k \in 0..k
      OBVIOUS
    <3>2. h \in [0..(k + 1) -> Nat]
      BY <2>1, <3>1 DEF RunningSum
    <3>3. h[0] = 0
      BY <2>1 DEF RunningSum
    <3>4. ASSUME NEW i \in 1..(k + 1) PROVE h[i] = h[i - 1] + f[i]
      <4>1. CASE i = k + 1
        BY <3>1, <4>1
      <4>2. CASE i # k + 1
        BY <2>1, <4>2 DEF RunningSum
      <4> QED
        BY <4>1, <4>2
    <3> QED
      BY <3>2, <3>3, <3>4 DEF RunningSum
  <2> QED
    BY <2>2
<1> HIDE DEF T
<1>3. \A k \in Nat : k \in T
  BY <1>1, <1>2, InductionInSet
<1> QED
  BY <1>3 DEF T

\* Two of them agree as far as both go, if they are sums of the same elements.
LEMMA RunningSumsAgree ==
  ASSUME NEW n \in Nat, NEW m \in Nat, NEW f, NEW h, NEW g1, NEW g2,
         RunningSum(f, n, g1), RunningSum(h, m, g2), n <= m, \A i \in 1..n : f[i] = h[i]
  PROVE  g1[n] = g2[n]
<1> DEFINE T == {k \in Nat : k <= n => g1[k] = g2[k]}
<1>1. 0 \in T
  BY DEF RunningSum
<1>2. ASSUME NEW k \in Nat, k \in T PROVE k + 1 \in T
  BY <1>2 DEF RunningSum
<1> HIDE DEF T
<1>3. \A k \in Nat : k \in T
  BY <1>1, <1>2, InductionInSet
<1> QED
  BY <1>3 DEF T

\* SumTo is the last of the sums.
LEMMA SumToIsRunningSum ==
  ASSUME NEW m \in Nat, NEW f \in [1..m -> Nat], NEW n \in 0..m
  PROVE  \E g : RunningSum(f, n, g) /\ SumTo(f, n) = g[n]
<1> DEFINE IsSum(g) == g = [i \in 0..n |-> IF i = 0 THEN 0 ELSE g[i - 1] + f[i]]
           sum == CHOOSE g : IsSum(g)
<1>1. PICK g : RunningSum(f, n, g)
  BY RunningSumExists
<1>2. IsSum(g)
  BY <1>1 DEF RunningSum
<1>3. IsSum(sum)
  BY <1>2
<1>4. SumTo(f, n) = sum[n]
  BY DEF SumTo
<1> HIDE DEF sum
<1>5. sum[0] = 0 /\ \A i \in 1..n : sum[i] = sum[i - 1] + f[i]
  BY <1>3
<1>6. sum[n] = g[n]
  <2> DEFINE T == {k \in Nat : k <= n => sum[k] = g[k]}
  <2>1. 0 \in T
    BY <1>1, <1>5 DEF RunningSum
  <2>2. ASSUME NEW k \in Nat, k \in T PROVE k + 1 \in T
    BY <1>1, <1>5, <2>2 DEF RunningSum
  <2> HIDE DEF T
  <2>3. \A k \in Nat : k \in T
    BY <2>1, <2>2, InductionInSet
  <2> QED
    BY <2>3 DEF T
<1> QED
  BY <1>1, <1>4, <1>6

\* The sum of nothing.
LEMMA SumToZero == \A f : SumTo(f, 0) = 0
<1> SUFFICES ASSUME NEW f PROVE SumTo(f, 0) = 0
  OBVIOUS
<1> DEFINE IsSum(g) == g = [i \in 0..0 |-> IF i = 0 THEN 0 ELSE g[i - 1] + f[i]]
           sum == CHOOSE g : IsSum(g)
<1>1. IsSum([i \in 0..0 |-> 0])
  OBVIOUS
<1>2. IsSum(sum)
  BY <1>1
<1>3. SumTo(f, 0) = sum[0]
  BY DEF SumTo
<1> HIDE DEF sum
<1> QED
  BY <1>2, <1>3

\* What every sum is made of.
LEMMA SumToProperties ==
  ASSUME NEW m \in Nat, NEW f \in [1..m -> Nat]
  PROVE  /\ \A n \in 0..m : SumTo(f, n) \in Nat
         /\ SumTo(f, 0) = 0
         /\ \A n \in 1..m : SumTo(f, n) = SumTo(f, n - 1) + f[n]
<1>1. ASSUME NEW n \in 0..m PROVE SumTo(f, n) \in Nat
  <2>1. PICK g : RunningSum(f, n, g) /\ SumTo(f, n) = g[n]
    BY SumToIsRunningSum
  <2> QED
    BY <2>1 DEF RunningSum
<1>2. SumTo(f, 0) = 0
  <2>1. PICK g : RunningSum(f, 0, g) /\ SumTo(f, 0) = g[0]
    BY SumToIsRunningSum
  <2> QED
    BY <2>1 DEF RunningSum
<1>3. ASSUME NEW n \in 1..m PROVE SumTo(f, n) = SumTo(f, n - 1) + f[n]
  <2>1. PICK g : RunningSum(f, n, g) /\ SumTo(f, n) = g[n]
    BY SumToIsRunningSum
  <2>2. PICK h : RunningSum(f, n - 1, h) /\ SumTo(f, n - 1) = h[n - 1]
    BY SumToIsRunningSum
  <2>3. h[n - 1] = g[n - 1]
    BY <2>1, <2>2, RunningSumsAgree
  <2> QED
    BY <2>1, <2>2, <2>3 DEF RunningSum
<1> QED
  BY <1>1, <1>2, <1>3

\* A sum depends on its elements only.
LEMMA SumToOfEqual ==
  ASSUME NEW m \in Nat, NEW f \in [1..m -> Nat], NEW k \in Nat, NEW h \in [1..k -> Nat],
         NEW n \in Nat, n <= m, n <= k, \A i \in 1..n : f[i] = h[i]
  PROVE  SumTo(f, n) = SumTo(h, n)
<1>1. PICK g1 : RunningSum(f, n, g1) /\ SumTo(f, n) = g1[n]
  BY SumToIsRunningSum
<1>2. PICK g2 : RunningSum(h, n, g2) /\ SumTo(h, n) = g2[n]
  BY SumToIsRunningSum
<1>3. RunningSum(f, n, g1) /\ RunningSum(h, n, g2) /\ n <= n
  BY <1>1, <1>2
<1>4. g1[n] = g2[n]
  <2> HIDE DEF RunningSum
  <2> QED
    BY <1>3, RunningSumsAgree
<1> QED
  BY <1>1, <1>2, <1>4

\* A longer sum is no smaller.
LEMMA SumToMonotone ==
  ASSUME NEW m \in Nat \ {0}, NEW f \in [1..m -> Nat]
  PROVE  SumTo(f, m - 1) <= SumTo(f, m)
<1>1. m \in 1..m /\ m - 1 \in 0..m /\ f[m] \in Nat
  OBVIOUS
<1>2. SumTo(f, m) = SumTo(f, m - 1) + f[m] /\ SumTo(f, m - 1) \in Nat
  BY <1>1, SumToProperties
<1> QED
  BY <1>1, <1>2

\* When every element moves one place on and 0 takes the first place, the sums
\* move one place on.
LEMMA SumToShifted ==
  ASSUME NEW m \in Nat, NEW f \in [1..m -> Nat], NEW h \in [1..m -> Nat],
         NEW n \in 1..m, h[1] = 0, \A i \in 2..m : h[i] = f[i - 1]
  PROVE  SumTo(h, n) = SumTo(f, n - 1)
<1> DEFINE T == {k \in Nat : k + 1 <= m => SumTo(h, k + 1) = SumTo(f, k)}
<1>1. /\ SumTo(h, 0) = 0 /\ \A i \in 1..m : SumTo(h, i) = SumTo(h, i - 1) + h[i]
      /\ SumTo(f, 0) = 0 /\ \A i \in 1..m : SumTo(f, i) = SumTo(f, i - 1) + f[i]
  BY SumToProperties
<1>2. 0 \in T
  BY <1>1
<1>3. ASSUME NEW k \in Nat, k \in T PROVE k + 1 \in T
  BY <1>1, <1>3
<1> HIDE DEF T
<1>4. \A k \in Nat : k \in T
  BY <1>2, <1>3, InductionInSet
<1>5. n - 1 \in Nat /\ (n - 1) + 1 = n
  OBVIOUS
<1>6. n - 1 \in T
  BY <1>4, <1>5
<1> QED
  BY <1>5, <1>6 DEF T

\* When the first element grows, every sum grows with it.
LEMMA SumToGrown ==
  ASSUME NEW m \in Nat, NEW f \in [1..m -> Nat], NEW h \in [1..m -> Nat],
         NEW n \in 1..m, NEW d \in Nat, h[1] = f[1] + d, \A i \in 2..m : h[i] = f[i]
  PROVE  SumTo(h, n) = SumTo(f, n) + d
<1> DEFINE T == {k \in Nat : k + 1 <= m => SumTo(h, k + 1) = SumTo(f, k + 1) + d}
<1>1. /\ \A i \in 0..m : SumTo(f, i) \in Nat /\ SumTo(h, i) \in Nat
      /\ SumTo(h, 0) = 0 /\ \A i \in 1..m : SumTo(h, i) = SumTo(h, i - 1) + h[i]
      /\ SumTo(f, 0) = 0 /\ \A i \in 1..m : SumTo(f, i) = SumTo(f, i - 1) + f[i]
  BY SumToProperties
<1>2. 0 \in T
  BY <1>1
<1>3. ASSUME NEW k \in Nat, k \in T PROVE k + 1 \in T
  <2> SUFFICES ASSUME k + 2 <= m PROVE SumTo(h, k + 2) = SumTo(f, k + 2) + d
    OBVIOUS
  <2>1. k + 1 \in 1..m /\ k + 2 \in 1..m /\ k + 2 \in 2..m /\ (k + 2) - 1 = k + 1 /\ f[k + 2] \in Nat
    OBVIOUS
  <2>2. SumTo(h, k + 1) = SumTo(f, k + 1) + d
    BY <1>3, <2>1
  <2>3. SumTo(h, k + 2) = SumTo(h, k + 1) + h[k + 2] /\ SumTo(f, k + 2) = SumTo(f, k + 1) + f[k + 2]
    BY <1>1, <2>1
  <2>4. h[k + 2] = f[k + 2] /\ SumTo(f, k + 1) \in Nat
    BY <1>1, <2>1
  <2> QED
    BY <2>1, <2>2, <2>3, <2>4
<1> HIDE DEF T
<1>4. \A k \in Nat : k \in T
  BY <1>2, <1>3, InductionInSet
<1>5. n - 1 \in Nat /\ (n - 1) + 1 = n
  OBVIOUS
<1>6. n - 1 \in T
  BY <1>4, <1>5
<1> QED
  BY <1>5, <1>6 DEF T

-----------------------------------------------------------------------------
(* The log. *)

Entries == [age : 0..Window, tokens : Nat]

\* What an entry of a log holds.
LEMMA EntryProperties ==
  ASSUME NEW s \in Seq(Entries), NEW i \in 1..Len(s)
  PROVE  /\ s[i].age \in Nat /\ s[i].age <= Window /\ s[i].tokens \in Nat
         /\ s[i] = [age |-> s[i].age, tokens |-> s[i].tokens]
<1>1. s[i] \in Entries
  OBVIOUS
<1> QED
  BY <1>1, WindowAssumption DEF Entries

\* The tokens of a log: none in an empty one, and a new entry adds its own.
LEMMA TokensInProperties ==
  /\ TokensIn(<< >>) = 0
  /\ \A s \in Seq(Entries) : TokensIn(s) \in Nat
  /\ \A s \in Seq(Entries), e \in Entries : TokensIn(Append(s, e)) = TokensIn(s) + e.tokens
<1>1. ASSUME NEW s \in Seq(Entries)
      PROVE  [i \in DOMAIN s |-> s[i].tokens] \in [1..Len(s) -> Nat] /\ Len(s) \in Nat
  <2>1. \A i \in 1..Len(s) : s[i].tokens \in Nat
    BY EntryProperties
  <2> QED
    BY <2>1
<1>2. << >> \in Seq(Entries) /\ Len(<< >>) = 0
  OBVIOUS
<1>3. TokensIn(<< >>) = 0
  BY <1>1, <1>2, SumToProperties DEF TokensIn
<1>4. ASSUME NEW s \in Seq(Entries) PROVE TokensIn(s) \in Nat
  <2> DEFINE f == [i \in DOMAIN s |-> s[i].tokens]
  <2>1. f \in [1..Len(s) -> Nat] /\ Len(s) \in Nat /\ Len(s) \in 0..Len(s)
    BY <1>1
  <2>2. TokensIn(s) = SumTo(f, Len(s))
    BY DEF TokensIn
  <2> HIDE DEF f
  <2> QED
    BY <2>1, <2>2, SumToProperties
<1>5. ASSUME NEW s \in Seq(Entries), NEW e \in Entries
      PROVE  TokensIn(Append(s, e)) = TokensIn(s) + e.tokens
  <2> DEFINE t == Append(s, e)
             f == [i \in DOMAIN s |-> s[i].tokens]
             h == [i \in DOMAIN t |-> t[i].tokens]
             n == Len(s)
  <2>1. t \in Seq(Entries) /\ Len(t) = n + 1 /\ n \in Nat /\ t[n + 1] = e
        /\ \A i \in 1..n : t[i] = s[i]
    OBVIOUS
  <2>2. f \in [1..n -> Nat] /\ h \in [1..(n + 1) -> Nat] /\ h[n + 1] = e.tokens
        /\ \A i \in 1..n : f[i] = h[i]
    <3>1. f \in [1..n -> Nat]
      BY <1>1
    <3>2. h \in [1..(n + 1) -> Nat]
      BY <1>1, <2>1
    <3>3. h[n + 1] = e.tokens /\ \A i \in 1..n : f[i] = h[i]
      BY <2>1
    <3> QED
      BY <3>1, <3>2, <3>3
  <2>3. TokensIn(s) = SumTo(f, n) /\ TokensIn(t) = SumTo(h, n + 1)
    BY <2>1 DEF TokensIn
  <2> HIDE DEF t, f, h, n
  <2>4. SumTo(h, n + 1) = SumTo(h, n) + h[n + 1]
    <3>1. n + 1 \in 1..(n + 1) /\ (n + 1) - 1 = n /\ n + 1 \in Nat
      BY <2>1
    <3> QED
      BY <2>2, <3>1, SumToProperties
  <2>5. SumTo(f, n) = SumTo(h, n)
    <3>1. n \in Nat /\ n + 1 \in Nat /\ n <= n /\ n <= n + 1
      BY <2>1
    <3>2. f \in [1..n -> Nat] /\ h \in [1..(n + 1) -> Nat] /\ \A i \in 1..n : f[i] = h[i]
      BY <2>2
    <3> QED
      BY <3>1, <3>2, SumToOfEqual
  <2> QED
    BY <2>2, <2>3, <2>4, <2>5 DEF t
<1> QED
  BY <1>3, <1>4, <1>5

\* Logs whose entries have the same tokens have the same sum.
LEMMA TokensOfEqual ==
  ASSUME NEW s \in Seq(Entries), NEW t \in Seq(Entries), Len(s) = Len(t),
         \A i \in 1..Len(s) : s[i].tokens = t[i].tokens
  PROVE  TokensIn(s) = TokensIn(t)
<1>1. [i \in DOMAIN s |-> s[i].tokens] = [i \in DOMAIN t |-> t[i].tokens]
  OBVIOUS
<1> QED
  BY <1>1 DEF TokensIn

\* What is younger than n in a log in order of time is its end from the first
\* such entry on, wherever that is.
LEMMA YoungerFrom ==
  ASSUME NEW s \in Seq(Entries), NEW n, NEW i \in 1..(Len(s) + 1),
         \A j \in 1..Len(s) : s[j].age < n <=> j >= i
  PROVE  Younger(s, n) = SubSeq(s, i, Len(s))
<1> DEFINE first == CHOOSE k \in 1..(Len(s) + 1) : \A j \in DOMAIN s : s[j].age < n <=> j >= k
<1>1. first \in 1..(Len(s) + 1) /\ \A j \in 1..Len(s) : s[j].age < n <=> j >= first
  OBVIOUS
<1>2. Younger(s, n) = SubSeq(s, first, Len(s))
  BY DEF Younger
<1> HIDE DEF first
<1>3. first = i
  <2>1. CASE first < i
    BY <1>1, <2>1
  <2>2. CASE i < first
    BY <1>1, <2>2
  <2> QED
    BY <1>1, <2>1, <2>2
<1> QED
  BY <1>2, <1>3

\* There is such a place, the end of the log if nothing is that young.
LEMMA YoungerExists ==
  ASSUME NEW s \in Seq(Entries), InOrderOfTime(s), NEW n \in Nat
  PROVE  \E i \in 1..(Len(s) + 1) :
           /\ \A j \in 1..Len(s) : s[j].age < n <=> j >= i
           /\ Younger(s, n) = SubSeq(s, i, Len(s))
<1> DEFINE T == {i \in 1..(Len(s) + 1) : i = Len(s) + 1 \/ s[i].age < n}
<1>1. T \subseteq Nat /\ Len(s) + 1 \in T
  OBVIOUS
<1>2. PICK i \in T : \A j \in T : i <= j
  BY <1>1, LeastNatural
<1>3. ASSUME NEW j \in 1..Len(s) PROVE s[j].age < n <=> j >= i
  <2>1. ASSUME s[j].age < n PROVE j >= i
    BY <1>2, <2>1
  <2>2. ASSUME j >= i PROVE s[j].age < n
    <3>1. i \in 1..Len(s) /\ s[i].age < n
      BY <1>2, <2>2
    <3>2. s[j].age <= s[i].age /\ s[j].age \in Nat /\ s[i].age \in Nat
      <4>1. s[j].age <= s[i].age
        BY <2>2, <3>1 DEF InOrderOfTime
      <4> QED
        BY <3>1, <4>1, EntryProperties
    <3> QED
      BY <3>1, <3>2
  <2> QED
    BY <2>1, <2>2
<1> QED
  BY <1>2, <1>3, YoungerFrom

\* A log of young entries only is young altogether.
LEMMA AllYoung ==
  ASSUME NEW s \in Seq(Entries), NEW n, \A j \in 1..Len(s) : s[j].age < n
  PROVE  Younger(s, n) = s
<1>1. Younger(s, n) = SubSeq(s, 1, Len(s))
  <2>1. 1 \in 1..(Len(s) + 1) /\ \A j \in 1..Len(s) : s[j].age < n <=> j >= 1
    OBVIOUS
  <2> QED
    BY <2>1, YoungerFrom
<1> QED
  BY <1>1

\* What is younger than n is a log, in order of time, and nothing in it is older.
LEMMA YoungerProperties ==
  ASSUME NEW s \in Seq(Entries), InOrderOfTime(s), NEW n \in Nat
  PROVE  /\ Younger(s, n) \in Seq(Entries)
         /\ InOrderOfTime(Younger(s, n))
         /\ \A j \in 1..Len(Younger(s, n)) : Younger(s, n)[j].age < n
         /\ Len(Younger(s, n)) <= Len(s)
<1> DEFINE t == Younger(s, n)
<1>1. PICK i \in 1..(Len(s) + 1) :
        (\A j \in 1..Len(s) : s[j].age < n <=> j >= i) /\ t = SubSeq(s, i, Len(s))
  BY YoungerExists
<1> HIDE DEF t
<1>2. /\ t \in Seq(Entries) /\ Len(t) = Len(s) - i + 1
      /\ \A j \in 1..Len(t) : t[j] = s[i + j - 1] /\ i + j - 1 \in 1..Len(s) /\ i + j - 1 >= i
  BY <1>1
<1>3. InOrderOfTime(t)
  <2>0. DOMAIN t = 1..Len(t)
    BY <1>2
  <2> SUFFICES ASSUME NEW j \in 1..Len(t), NEW k \in 1..Len(t), j <= k
               PROVE  t[k].age <= t[j].age
    BY <2>0 DEF InOrderOfTime
  <2>1. i + j - 1 \in 1..Len(s) /\ i + k - 1 \in 1..Len(s) /\ i + j - 1 <= i + k - 1
    BY <1>2
  <2>2. s[i + k - 1].age <= s[i + j - 1].age
    BY <2>1 DEF InOrderOfTime
  <2> QED
    BY <1>2, <2>2
<1>4. \A j \in 1..Len(t) : t[j].age < n
  BY <1>1, <1>2
<1> QED
  BY <1>2, <1>3, <1>4 DEF t

\* What is younger than n is the same before and after pruning, and in a log
\* with a new entry it has the new entry besides.
LEMMA YoungerOfPruned ==
  ASSUME NEW s \in Seq(Entries), InOrderOfTime(s), NEW m \in Nat, NEW n \in 0..m
  PROVE  /\ Younger(Younger(s, m), n) = Younger(s, n)
         /\ \A e \in Entries : e.age = 0 /\ n > 0 =>
              Younger(Append(Younger(s, m), e), n) = Append(Younger(s, n), e)
<1> DEFINE t == Younger(s, m)
<1>1. PICK i \in 1..(Len(s) + 1) :
        (\A j \in 1..Len(s) : s[j].age < m <=> j >= i) /\ t = SubSeq(s, i, Len(s))
  BY YoungerExists
<1>2. n \in Nat
  OBVIOUS
<1>3. PICK k \in 1..(Len(s) + 1) :
        (\A j \in 1..Len(s) : s[j].age < n <=> j >= k) /\ Younger(s, n) = SubSeq(s, k, Len(s))
  BY <1>2, YoungerExists
<1> HIDE DEF t
<1>4. i <= k
  <2> SUFFICES ASSUME k < i PROVE FALSE
    OBVIOUS
  <2>1. k \in 1..Len(s) /\ s[k].age < n /\ ~(s[k].age < m)
    BY <1>1, <1>3
  <2>2. s[k].age \in Nat
    BY <2>1, EntryProperties
  <2> QED
    BY <2>1, <2>2
<1> DEFINE start == k - i + 1
<1>5. /\ t \in Seq(Entries) /\ Len(t) = Len(s) - i + 1
      /\ \A j \in 1..Len(t) : t[j] = s[i + j - 1] /\ i + j - 1 \in 1..Len(s)
  BY <1>1
<1>6. start \in 1..(Len(t) + 1) /\ \A j \in 1..Len(t) : t[j].age < n <=> j >= start
  <2>1. start \in 1..(Len(t) + 1)
    BY <1>1, <1>3, <1>4, <1>5
  <2>2. ASSUME NEW j \in 1..Len(t) PROVE t[j].age < n <=> j >= start
    <3>1. t[j] = s[i + j - 1] /\ i + j - 1 \in 1..Len(s)
      BY <1>5
    <3>2. t[j].age < n <=> i + j - 1 >= k
      BY <1>3, <3>1
    <3>3. i + j - 1 >= k <=> j >= start
      BY <1>1, <1>3
    <3> QED
      BY <3>2, <3>3
  <2> QED
    BY <2>1, <2>2
<1>7. SubSeq(t, start, Len(t)) = SubSeq(s, k, Len(s))
  <2> DEFINE a == SubSeq(t, start, Len(t))
             b == SubSeq(s, k, Len(s))
  <2>1. a \in Seq(Entries) /\ Len(a) = Len(t) - start + 1
        /\ \A j \in 1..(Len(t) - start + 1) : a[j] = t[start + j - 1]
    <3>1. start \in 1..(Len(t) + 1)
      BY <1>6
    <3> HIDE DEF start
    <3> QED
      BY <1>5, <3>1
  <2>2. b \in Seq(Entries) /\ Len(b) = Len(s) - k + 1
        /\ \A j \in 1..(Len(s) - k + 1) : b[j] = s[k + j - 1]
    BY <1>3
  <2> HIDE DEF a, b
  <2>3. Len(a) = Len(b)
    BY <1>1, <1>3, <1>5, <2>1, <2>2
  <2>4. ASSUME NEW j \in 1..Len(a) PROVE a[j] = b[j]
    <3>1. start + j - 1 \in 1..Len(t) /\ i + (start + j - 1) - 1 = k + j - 1
      BY <1>1, <1>3, <1>4, <1>5, <2>1, SMTT(30)
    <3>2. t[start + j - 1] = s[k + j - 1]
      BY <1>5, <3>1
    <3>3. j \in 1..(Len(t) - start + 1) /\ j \in 1..(Len(s) - k + 1)
      BY <2>1, <2>2, <2>3
    <3> QED
      BY <2>1, <2>2, <3>2, <3>3
  <2>5. a = b
    BY <2>1, <2>2, <2>3, <2>4, SeqEqual
  <2> QED
    BY <2>5 DEF a, b
<1>8. Younger(t, n) = Younger(s, n)
  BY <1>3, <1>5, <1>6, <1>7, YoungerFrom
<1>9. ASSUME NEW e \in Entries, e.age = 0, n > 0
      PROVE  Younger(Append(t, e), n) = Append(Younger(s, n), e)
  <2> DEFINE u == Append(t, e)
  <2>0. t \in Seq(Entries) /\ Len(t) \in Nat
    BY <1>5
  <2>1. /\ u \in Seq(Entries) /\ Len(u) = Len(t) + 1 /\ u[Len(t) + 1] = e
        /\ \A j \in 1..Len(t) : u[j] = t[j]
    BY <2>0
  <2> HIDE DEF u
  <2>2. start \in 1..(Len(u) + 1) /\ \A j \in 1..Len(u) : u[j].age < n <=> j >= start
    <3>1. start \in 1..(Len(t) + 1)
      BY <1>6
    <3> HIDE DEF start
    <3>2. \A j \in 1..Len(t) : t[j].age < n <=> j >= start
      BY <1>6 DEF start
    <3>3. ASSUME NEW j \in 1..Len(u) PROVE u[j].age < n <=> j >= start
      <4>1. CASE j = Len(t) + 1
        BY <1>9, <2>0, <2>1, <3>1, <4>1
      <4>2. CASE j # Len(t) + 1
        BY <2>0, <2>1, <3>2, <4>2
      <4> QED
        BY <4>1, <4>2
    <3> QED
      BY <2>0, <2>1, <3>1, <3>3
  <2>3. Younger(u, n) = SubSeq(u, start, Len(u))
    BY <2>1, <2>2, YoungerFrom
  <2>4. SubSeq(u, start, Len(u)) = Append(SubSeq(t, start, Len(t)), e)
    <3>1. start \in 1..(Len(t) + 1)
      BY <1>6
    <3> HIDE DEF start
    <3>2. /\ SubSeq(t, start, Len(t)) \in Seq(Entries)
          /\ Len(SubSeq(t, start, Len(t))) = Len(t) - start + 1
          /\ \A j \in 1..(Len(t) - start + 1) : SubSeq(t, start, Len(t))[j] = t[start + j - 1]
      BY <2>0, <3>1
    <3>3. /\ SubSeq(u, start, Len(u)) \in Seq(Entries)
          /\ Len(SubSeq(u, start, Len(u))) = Len(t) - start + 2
          /\ \A j \in 1..(Len(t) - start + 2) : SubSeq(u, start, Len(u))[j] = u[start + j - 1]
      BY <2>0, <2>1, <3>1
    <3> DEFINE short == SubSeq(t, start, Len(t))
               long == SubSeq(u, start, Len(u))
    <3>4. /\ Append(short, e) \in Seq(Entries)
          /\ Len(Append(short, e)) = Len(t) - start + 2
      BY <1>9, <2>0, <3>1, <3>2
    <3>5. ASSUME NEW j \in 1..(Len(t) - start + 2) PROVE long[j] = Append(short, e)[j]
      <4>1. CASE j = Len(t) - start + 2
        <5>1. start + j - 1 = Len(t) + 1
          BY <2>0, <3>1, <4>1
        <5>2. long[j] = e
          BY <2>1, <3>3, <5>1
        <5>3. j = Len(short) + 1
          BY <2>0, <3>1, <3>2, <4>1
        <5>4. short \in Seq(Entries)
          BY <3>2
        <5> HIDE DEF short
        <5>5. Append(short, e)[j] = e
          BY <5>3, <5>4
        <5> QED
          BY <5>2, <5>5
      <4>2. CASE j # Len(t) - start + 2
        <5>1. j \in 1..(Len(t) - start + 1) /\ start + j - 1 \in 1..Len(t)
          BY <2>0, <3>1, <4>2
        <5>2. long[j] = short[j]
          BY <2>1, <3>2, <3>3, <5>1
        <5>3. short \in Seq(Entries) /\ Len(short) = Len(t) - start + 1
          BY <3>2
        <5> HIDE DEF short
        <5>4. Append(short, e)[j] = short[j]
          BY <5>1, <5>3
        <5> QED
          BY <5>2, <5>4
      <4> QED
        BY <4>1, <4>2
    <3>6. long \in Seq(Entries) /\ Len(long) = Len(t) - start + 2
      BY <3>3
    <3>7. long = Append(short, e)
      <4> DEFINE whole == Append(short, e)
      <4>1. whole \in Seq(Entries) /\ Len(whole) = Len(t) - start + 2
        BY <3>4
      <4>2. \A j \in 1..(Len(t) - start + 2) : long[j] = whole[j]
        BY <3>5
      <4> HIDE DEF long, whole
      <4>3. Len(long) = Len(whole) /\ \A j \in 1..Len(long) : long[j] = whole[j]
        BY <3>6, <4>1, <4>2
      <4>4. long = whole
        BY <3>6, <4>1, <4>3, SeqEqual
      <4> QED
        BY <4>4 DEF whole
    <3> QED
      BY <3>7
  <2> QED
    BY <1>3, <1>7, <2>3, <2>4 DEF u
<1> QED
  BY <1>8, <1>9 DEF t

\* A log one tick later.
Aged(s) == [i \in DOMAIN s |-> [s[i] EXCEPT !.age = IF @ < Window THEN @ + 1 ELSE @]]

\* What is younger than n after a tick was younger than n - 1 before.
LEMMA YoungerAfterTick ==
  ASSUME NEW s \in Seq(Entries), InOrderOfTime(s)
  PROVE  /\ Aged(s) \in Seq(Entries)
         /\ InOrderOfTime(Aged(s))
         /\ \A n \in 1..Window :
              LET now == Younger(Aged(s), n)
                  before == Younger(s, n - 1)
              IN  /\ Len(now) = Len(before)
                  /\ TokensIn(now) = TokensIn(before)
                  /\ \A j \in 1..Len(before) : now[j].age = before[j].age + 1
<1> DEFINE t == Aged(s)
<1>1. ASSUME NEW i \in 1..Len(s)
      PROVE  /\ t[i] \in Entries
             /\ t[i].age = IF s[i].age < Window THEN s[i].age + 1 ELSE s[i].age
             /\ t[i].tokens = s[i].tokens
  <2>1. /\ s[i].age \in Nat /\ s[i].age <= Window /\ s[i].tokens \in Nat
        /\ s[i] = [age |-> s[i].age, tokens |-> s[i].tokens]
    BY EntryProperties
  <2>2. t[i] = [age |-> IF s[i].age < Window THEN s[i].age + 1 ELSE s[i].age,
                tokens |-> s[i].tokens]
    BY <2>1 DEF Aged
  <2> QED
    BY <2>1, <2>2, WindowAssumption DEF Entries
<1>2. t \in Seq(Entries) /\ Len(t) = Len(s)
  <2>1. DOMAIN t = 1..Len(s) /\ Len(s) \in Nat
    BY DEF Aged
  <2> HIDE DEF t
  <2>2. t = [i \in 1..Len(s) |-> t[i]]
    BY <2>1 DEF t, Aged
  <2> QED
    BY <1>1, <2>1, <2>2
<1> HIDE DEF t
<1>3. InOrderOfTime(t)
  <2> SUFFICES ASSUME NEW i \in 1..Len(s), NEW j \in 1..Len(s), i <= j
               PROVE  t[j].age <= t[i].age
    BY <1>2 DEF InOrderOfTime
  <2>1. s[j].age <= s[i].age
    BY DEF InOrderOfTime
  <2>2. s[i].age \in Nat /\ s[j].age \in Nat /\ s[i].age <= Window
    BY EntryProperties
  <2> QED
    BY <1>1, <2>1, <2>2, WindowAssumption
<1>4. ASSUME NEW n \in 1..Window
      PROVE  LET now == Younger(t, n)
                 before == Younger(s, n - 1)
             IN  /\ Len(now) = Len(before)
                 /\ TokensIn(now) = TokensIn(before)
                 /\ \A j \in 1..Len(before) : now[j].age = before[j].age + 1
  <2>1. n - 1 \in Nat
    BY WindowAssumption
  <2>2. PICK i \in 1..(Len(s) + 1) :
          /\ \A j \in 1..Len(s) : s[j].age < n - 1 <=> j >= i
          /\ Younger(s, n - 1) = SubSeq(s, i, Len(s))
    BY <2>1, YoungerExists
  <2>3. ASSUME NEW j \in 1..Len(s) PROVE t[j].age < n <=> j >= i
    <3>1. s[j].age \in Nat /\ s[j].age <= Window
      BY EntryProperties
    <3>2. t[j].age < n <=> s[j].age < n - 1
      BY <1>1, <3>1, WindowAssumption
    <3> QED
      BY <2>2, <3>2
  <2>4. Younger(t, n) = SubSeq(t, i, Len(s))
    BY <1>2, <2>3, YoungerFrom
  <2> DEFINE now == SubSeq(t, i, Len(s))
             before == SubSeq(s, i, Len(s))
  <2>5. /\ now \in Seq(Entries) /\ before \in Seq(Entries)
        /\ Len(now) = Len(s) - i + 1 /\ Len(before) = Len(s) - i + 1
        /\ \A j \in 1..(Len(s) - i + 1) :
             /\ now[j] = t[i + j - 1] /\ before[j] = s[i + j - 1]
             /\ i + j - 1 \in 1..Len(s) /\ i + j - 1 >= i
    BY <1>2
  <2> HIDE DEF now, before
  <2>6. ASSUME NEW j \in 1..Len(before)
        PROVE  now[j].age = before[j].age + 1 /\ now[j].tokens = before[j].tokens
    <3>1. i + j - 1 \in 1..Len(s) /\ s[i + j - 1].age < n - 1
      BY <2>2, <2>5
    <3>2. s[i + j - 1].age \in Nat
      BY <3>1, EntryProperties
    <3>3. s[i + j - 1].age < Window
      BY <3>1, <3>2, WindowAssumption
    <3> QED
      BY <1>1, <2>5, <3>1, <3>3
  <2>7. TokensIn(now) = TokensIn(before)
    BY <2>5, <2>6, TokensOfEqual
  <2> QED
    BY <2>2, <2>4, <2>5, <2>6, <2>7 DEF now, before
<1> QED
  BY <1>2, <1>3, <1>4 DEF t

\* Nothing is younger than 0.
LEMMA NoneYoungerThanZero ==
  ASSUME NEW s \in Seq(Entries)
  PROVE  Younger(s, 0) = << >>
<1>1. ASSUME NEW j \in 1..Len(s) PROVE s[j].age < 0 <=> j >= Len(s) + 1
  <2>1. s[j].age \in Nat
    BY EntryProperties
  <2> QED
    BY <2>1
<1>2. Len(s) + 1 \in 1..(Len(s) + 1)
  OBVIOUS
<1>3. Younger(s, 0) = SubSeq(s, Len(s) + 1, Len(s))
  BY <1>1, <1>2, YoungerFrom
<1> QED
  BY <1>3

-----------------------------------------------------------------------------
(* The grants. *)

\* The sums of the grants are naturals, and grow with the window.
LEMMA GrantSums ==
  ASSUME LimiterTypeOK
  PROVE  /\ \A n \in 0..Window : GrantedRequests(n) \in Nat /\ GrantedTokens(n) \in Nat
         /\ GrantedRequests(Window - 1) <= GrantedRequests(Window)
         /\ GrantedTokens(Window - 1) <= GrantedTokens(Window)
         /\ GrantedRequests(0) = 0 /\ GrantedTokens(0) = 0
<1> DEFINE f == [a \in 1..Window |-> granted[a - 1].requests]
           g == [a \in 1..Window |-> granted[a - 1].tokens]
<1>1. f \in [1..Window -> Nat] /\ g \in [1..Window -> Nat] /\ Window \in Nat \ {0}
  BY WindowAssumption DEF LimiterTypeOK, Ages
<1>2. \A n : GrantedRequests(n) = SumTo(f, n) /\ GrantedTokens(n) = SumTo(g, n)
  BY DEF GrantedRequests, GrantedTokens
<1> HIDE DEF f, g
<1>3. /\ \A n \in 0..Window : SumTo(f, n) \in Nat /\ SumTo(g, n) \in Nat
      /\ SumTo(f, 0) = 0 /\ SumTo(g, 0) = 0
  BY <1>1, SumToProperties
<1>4. SumTo(f, Window - 1) <= SumTo(f, Window) /\ SumTo(g, Window - 1) <= SumTo(g, Window)
  BY <1>1, SumToMonotone
<1> QED
  BY <1>2, <1>3, <1>4

\* A grant counts in every window that ends now.
LEMMA GrantsGrow ==
  ASSUME LimiterTypeOK, NEW d \in Nat, NEW n \in 1..Window,
         granted' = [granted EXCEPT ![0] = [requests |-> @.requests + 1, tokens |-> @.tokens + d]]
  PROVE  /\ GrantedRequests(n)' = GrantedRequests(n) + 1
         /\ GrantedTokens(n)' = GrantedTokens(n) + d
<1> DEFINE f == [a \in 1..Window |-> granted[a - 1].requests]
           g == [a \in 1..Window |-> granted[a - 1].tokens]
           f1 == [a \in 1..Window |-> granted'[a - 1].requests]
           g1 == [a \in 1..Window |-> granted'[a - 1].tokens]
<1>1. /\ f \in [1..Window -> Nat] /\ g \in [1..Window -> Nat] /\ Window \in Nat \ {0}
      /\ 1 \in Nat
  BY WindowAssumption DEF LimiterTypeOK, Ages
<1>2. /\ f1 \in [1..Window -> Nat] /\ f1[1] = f[1] + 1 /\ \A i \in 2..Window : f1[i] = f[i]
      /\ g1 \in [1..Window -> Nat] /\ g1[1] = g[1] + d /\ \A i \in 2..Window : g1[i] = g[i]
  BY <1>1, WindowAssumption DEF LimiterTypeOK, Ages
<1>3. /\ GrantedRequests(n) = SumTo(f, n) /\ GrantedRequests(n)' = SumTo(f1, n)
      /\ GrantedTokens(n) = SumTo(g, n) /\ GrantedTokens(n)' = SumTo(g1, n)
  BY DEF GrantedRequests, GrantedTokens
<1> HIDE DEF f, g, f1, g1
<1>4. SumTo(f1, n) = SumTo(f, n) + 1
  <2>1. /\ Window \in Nat /\ 1 \in Nat /\ f \in [1..Window -> Nat] /\ f1 \in [1..Window -> Nat]
        /\ f1[1] = f[1] + 1 /\ \A i \in 2..Window : f1[i] = f[i]
    BY <1>1, <1>2
  <2> QED
    BY <2>1, SumToGrown
<1>5. SumTo(g1, n) = SumTo(g, n) + d
  <2>1. /\ Window \in Nat /\ g \in [1..Window -> Nat] /\ g1 \in [1..Window -> Nat]
        /\ g1[1] = g[1] + d /\ \A i \in 2..Window : g1[i] = g[i]
    BY <1>1, <1>2
  <2> QED
    BY <2>1, SumToGrown
<1> QED
  BY <1>3, <1>4, <1>5

\* After a tick the grants of the latest n ticks are those of the n - 1 before.
LEMMA GrantsAge ==
  ASSUME LimiterTypeOK, NEW n \in 1..Window,
         granted' = [a \in Ages |-> IF a = 0 THEN [requests |-> 0, tokens |-> 0]
                                     ELSE granted[a - 1]]
  PROVE  /\ GrantedRequests(n)' = GrantedRequests(n - 1)
         /\ GrantedTokens(n)' = GrantedTokens(n - 1)
<1> DEFINE f == [a \in 1..Window |-> granted[a - 1].requests]
           g == [a \in 1..Window |-> granted[a - 1].tokens]
           f1 == [a \in 1..Window |-> granted'[a - 1].requests]
           g1 == [a \in 1..Window |-> granted'[a - 1].tokens]
<1>1. f \in [1..Window -> Nat] /\ g \in [1..Window -> Nat] /\ Window \in Nat \ {0}
  BY WindowAssumption DEF LimiterTypeOK, Ages
<1>2. /\ f1 \in [1..Window -> Nat] /\ f1[1] = 0 /\ \A i \in 2..Window : f1[i] = f[i - 1]
      /\ g1 \in [1..Window -> Nat] /\ g1[1] = 0 /\ \A i \in 2..Window : g1[i] = g[i - 1]
  BY <1>1, WindowAssumption DEF LimiterTypeOK, Ages
<1>3. /\ GrantedRequests(n - 1) = SumTo(f, n - 1) /\ GrantedRequests(n)' = SumTo(f1, n)
      /\ GrantedTokens(n - 1) = SumTo(g, n - 1) /\ GrantedTokens(n)' = SumTo(g1, n)
  BY DEF GrantedRequests, GrantedTokens
<1> HIDE DEF f, g, f1, g1
<1>4. SumTo(f1, n) = SumTo(f, n - 1) /\ SumTo(g1, n) = SumTo(g, n - 1)
  BY <1>1, <1>2, SumToShifted
<1> QED
  BY <1>3, <1>4

\* Without any grant the sums are 0.
LEMMA NoGrants ==
  ASSUME LimiterInit, NEW n \in 0..Window
  PROVE  GrantedRequests(n) = 0 /\ GrantedTokens(n) = 0
<1> DEFINE z == [a \in 1..Window |-> 0]
           T == {k \in Nat : k <= Window => SumTo(z, k) = 0}
<1>1. z \in [1..Window -> Nat] /\ Window \in Nat
  BY WindowAssumption
<1>2. GrantedRequests(n) = SumTo(z, n) /\ GrantedTokens(n) = SumTo(z, n)
  <2>1. \A a \in 1..Window : granted[a - 1].requests = 0 /\ granted[a - 1].tokens = 0
    BY WindowAssumption DEF LimiterInit, Ages
  <2> QED
    BY <2>1 DEF GrantedRequests, GrantedTokens
<1>3. \A i \in 1..Window : z[i] = 0
  OBVIOUS
<1> HIDE DEF z
<1>4. SumTo(z, 0) = 0 /\ \A i \in 1..Window : SumTo(z, i) = SumTo(z, i - 1) + z[i]
  BY <1>1, SumToProperties
<1>5. 0 \in T
  BY <1>4
<1>6. ASSUME NEW k \in Nat, k \in T PROVE k + 1 \in T
  BY <1>1, <1>3, <1>4, <1>6
<1> HIDE DEF T
<1>7. \A k \in Nat : k \in T
  BY <1>5, <1>6, InductionInSet
<1> QED
  BY <1>1, <1>2, <1>7 DEF T

-----------------------------------------------------------------------------
(* The inductive invariant. *)

\* Before the first request nothing is logged and nothing was granted.
LEMMA LimiterInitInvariant == LimiterInit => LimiterInvariant
<1> SUFFICES ASSUME LimiterInit PROVE LimiterInvariant
  OBVIOUS
<1>1. log = << >> /\ log \in Seq(Entries) /\ Len(log) = 0
  BY DEF LimiterInit
<1>2. LimiterTypeOK
  BY <1>1, WindowAssumption DEF LimiterInit, LimiterTypeOK, Entries, Ages
<1>3. \A n \in 0..Window : Younger(log, n) = << >>
  <2>1. \A n : \A j \in 1..Len(log) : log[j].age < n
    BY <1>1
  <2> QED
    BY <1>1, <2>1, AllYoung
<1>4. GrantsLogged
  BY <1>3, NoGrants, TokensInProperties DEF GrantsLogged
<1>5. WithinBudgets
  <2>1. Window \in 0..Window
    BY WindowAssumption
  <2> QED
    BY <2>1, NoGrants, LimitsAssumption DEF WithinBudgets
<1>6. InOrderOfTime(log)
  BY <1>1 DEF InOrderOfTime
<1>7. SleepsOnlyWhileBlocked /\ DueInTime
  BY DEF LimiterInit, SleepsOnlyWhileBlocked, DueInTime
<1> QED
  BY <1>2, <1>4, <1>5, <1>6, <1>7 DEF LimiterInvariant, BudgetsKept

\* What every state that satisfies the invariant offers to its steps.
LEMMA LogProperties ==
  ASSUME LimiterInvariant
  PROVE  /\ log \in Seq(Entries) /\ InOrderOfTime(log) /\ Window \in Nat \ {0}
         /\ Pruned \in Seq(Entries) /\ InOrderOfTime(Pruned)
         /\ \A j \in 1..Len(Pruned) : Pruned[j].age < Window
         /\ TokensIn(Pruned) \in Nat
         /\ GrantedRequests(Window) = Len(Pruned) /\ GrantedTokens(Window) = TokensIn(Pruned)
<1>1. log \in Seq(Entries) /\ InOrderOfTime(log) /\ Window \in Nat \ {0}
  BY WindowAssumption DEF LimiterInvariant, BudgetsKept, LimiterTypeOK, Entries
<1>2. /\ Pruned \in Seq(Entries) /\ InOrderOfTime(Pruned)
      /\ \A j \in 1..Len(Pruned) : Pruned[j].age < Window
  BY <1>1, YoungerProperties DEF Pruned
<1>3. TokensIn(Pruned) \in Nat
  BY <1>2, TokensInProperties
<1>4. Window \in 0..Window
  BY <1>1
<1> QED
  BY <1>1, <1>2, <1>3, <1>4 DEF LimiterInvariant, GrantsLogged, Pruned

\* A reservation is logged and granted at once, within the budgets that Fits
\* has tested, and leaves no caller asleep.
LEMMA ReservePreserves ==
  ASSUME LimiterInvariant, NEW c \in Callers, Reserve(c)
  PROVE  LimiterInvariant'
<1> DEFINE e == [age |-> 0, tokens |-> Tokens[c]]
<1>1. /\ log \in Seq(Entries) /\ InOrderOfTime(log) /\ Window \in Nat \ {0}
      /\ Pruned \in Seq(Entries) /\ InOrderOfTime(Pruned)
      /\ GrantedRequests(Window) = Len(Pruned) /\ GrantedTokens(Window) = TokensIn(Pruned)
  BY LogProperties
<1>2. e \in Entries /\ e.age = 0 /\ e.tokens = Tokens[c] /\ Tokens[c] \in Nat
  BY <1>1, TokensAssumption DEF Entries
<1>3. log' = Append(Pruned, e)
  BY DEF Reserve
<1> HIDE DEF e
<1>4. LimiterTypeOK
  BY DEF LimiterInvariant, BudgetsKept
<1>5. log' \in Seq(Entries)
  BY <1>1, <1>2, <1>3
<1>6. granted' = [granted EXCEPT ![0] = [requests |-> @.requests + 1, tokens |-> @.tokens + Tokens[c]]]
  BY DEF Reserve
<1>7. LimiterTypeOK'
  <2>1. granted' \in [Ages -> [requests : Nat, tokens : Nat]]
    <3>1. 0 \in Ages
      BY <1>1 DEF Ages
    <3>2. granted[0].requests + 1 \in Nat /\ granted[0].tokens + Tokens[c] \in Nat
      BY <1>2, <1>4, <3>1 DEF LimiterTypeOK
    <3> QED
      BY <1>4, <1>6, <3>1, <3>2 DEF LimiterTypeOK
  <2> QED
    BY <1>4, <1>5, <2>1 DEF LimiterTypeOK, Entries, Reserve
<1>8. InOrderOfTime(log')
  <2> SUFFICES ASSUME NEW i \in 1..Len(log'), NEW j \in 1..Len(log'), i <= j
               PROVE  log'[j].age <= log'[i].age
    BY <1>5 DEF InOrderOfTime
  <2>1. log'[i].age \in Nat
    BY <1>5, EntryProperties
  <2>2. CASE j = Len(Pruned) + 1
    BY <1>1, <1>2, <1>3, <2>1, <2>2
  <2>3. CASE j # Len(Pruned) + 1
    BY <1>1, <1>2, <1>3, <2>3 DEF InOrderOfTime
  <2> QED
    BY <2>2, <2>3
<1>9. GrantsLogged'
  <2> SUFFICES ASSUME NEW n \in 0..Window
               PROVE  /\ GrantedRequests(n)' = Len(Younger(log', n))
                      /\ GrantedTokens(n)' = TokensIn(Younger(log', n))
    BY DEF GrantsLogged
  <2>1. CASE n = 0
    <3>1. GrantedRequests(0)' = 0 /\ GrantedTokens(0)' = 0
      BY SumToZero DEF GrantedRequests, GrantedTokens
    <3>2. Younger(log', 0) = << >>
      BY <1>5, NoneYoungerThanZero
    <3> QED
      BY <2>1, <3>1, <3>2, TokensInProperties
  <2>2. CASE n > 0
    <3>1. Younger(log', n) = Append(Younger(log, n), e)
      BY <1>1, <1>2, <1>3, <2>2, YoungerOfPruned DEF Pruned
    <3>2. Younger(log, n) \in Seq(Entries)
      <4>1. log \in Seq(Entries) /\ InOrderOfTime(log) /\ n \in Nat
        BY <1>1
      <4> QED
        BY <4>1, YoungerProperties
    <3>3. /\ Len(Younger(log', n)) = Len(Younger(log, n)) + 1
          /\ TokensIn(Younger(log', n)) = TokensIn(Younger(log, n)) + Tokens[c]
      BY <1>2, <3>1, <3>2, TokensInProperties
    <3>4. /\ GrantedRequests(n)' = GrantedRequests(n) + 1
          /\ GrantedTokens(n)' = GrantedTokens(n) + Tokens[c]
      <4>1. n \in 1..Window
        BY <1>1, <2>2
      <4> QED
        BY <1>2, <1>4, <1>6, <4>1, GrantsGrow
    <3> QED
      BY <3>3, <3>4 DEF LimiterInvariant, GrantsLogged
  <2> QED
    BY <2>1, <2>2
<1>10. WithinBudgets'
  <2>1. Window \in 1..Window
    BY <1>1
  <2>2. /\ GrantedRequests(Window)' = GrantedRequests(Window) + 1
        /\ GrantedTokens(Window)' = GrantedTokens(Window) + Tokens[c]
    BY <1>2, <1>4, <1>6, <2>1, GrantsGrow
  <2> QED
    BY <1>1, <2>2 DEF Reserve, Fits, WithinBudgets
<1>11. SleepsOnlyWhileBlocked' /\ DueInTime'
  <2>1. \A d \in Callers : phase'[d] # "waiting"
    BY DEF Reserve
  <2> QED
    BY <2>1 DEF SleepsOnlyWhileBlocked, DueInTime
<1> QED
  BY <1>7, <1>8, <1>9, <1>10, <1>11 DEF LimiterInvariant, BudgetsKept

\* A caller that does not fit prunes the log, which takes nothing from it that
\* counts, and sleeps no longer than until its oldest entry leaves the window.
LEMMA SleepPreserves ==
  ASSUME LimiterInvariant, NEW c \in Callers, Sleep(c)
  PROVE  LimiterInvariant'
<1>1. /\ log \in Seq(Entries) /\ InOrderOfTime(log) /\ Window \in Nat \ {0}
      /\ Pruned \in Seq(Entries) /\ InOrderOfTime(Pruned)
      /\ \A j \in 1..Len(Pruned) : Pruned[j].age < Window
  BY LogProperties
<1>2. LimiterTypeOK
  BY DEF LimiterInvariant, BudgetsKept
<1>3. log' = Pruned /\ granted' = granted
  BY DEF Sleep
<1>4. \A n \in 0..Window : Younger(log', n) = Younger(log, n)
  BY <1>1, <1>3, YoungerOfPruned DEF Pruned
<1>5. Pruned' = Pruned
  BY <1>1, <1>4 DEF Pruned
<1>6. SleepFor(Pruned) \in 0..Window /\ (Pruned # << >> => SleepFor(Pruned) = Window - Pruned[1].age)
  <2>1. CASE Pruned = << >>
    BY <1>1, <2>1 DEF SleepFor
  <2>2. CASE Pruned # << >>
    <3>1. 1 \in 1..Len(Pruned)
      BY <1>1, <2>2
    <3>2. Pruned[1].age \in Nat /\ Pruned[1].age <= Window
      BY <1>1, <3>1, EntryProperties
    <3> QED
      BY <1>1, <2>2, <3>2 DEF SleepFor
  <2> QED
    BY <2>1, <2>2
<1>7. LimiterTypeOK'
  BY <1>1, <1>2, <1>3, <1>6 DEF LimiterTypeOK, Entries, Sleep
<1>8. GrantsLogged' /\ WithinBudgets'
  BY <1>3, <1>4 DEF LimiterInvariant, BudgetsKept, GrantsLogged, WithinBudgets,
                    GrantedRequests, GrantedTokens
<1>9. SleepsOnlyWhileBlocked'
  <2> SUFFICES ASSUME NEW d \in Callers, phase'[d] = "waiting", timer'[d] > 0
               PROVE  ~Fits(d, Pruned)
    BY <1>5 DEF SleepsOnlyWhileBlocked, Fits
  <2> QED
    BY <1>2 DEF Sleep, LimiterTypeOK, LimiterInvariant, SleepsOnlyWhileBlocked
<1>10. DueInTime'
  <2> SUFFICES ASSUME NEW d \in Callers, phase'[d] = "waiting", timer'[d] > 0, Pruned # << >>
               PROVE  timer'[d] + Pruned[1].age <= Window
    BY <1>5 DEF DueInTime
  <2>1. 1 \in 1..Len(Pruned)
    BY <1>1
  <2>2. Pruned[1].age \in Nat
    BY <1>1, <2>1, EntryProperties
  <2>3. CASE d = c
    BY <1>1, <1>2, <1>6, <2>2, <2>3 DEF Sleep, LimiterTypeOK
  <2>4. CASE d # c
    BY <1>2, <2>4 DEF Sleep, LimiterTypeOK, LimiterInvariant, DueInTime
  <2> QED
    BY <2>3, <2>4
<1> QED
  BY <1>1, <1>3, <1>7, <1>8, <1>9, <1>10 DEF LimiterInvariant, BudgetsKept

\* A tick ages the log and the grants alike.  A caller with time left on its
\* timeout afterwards finds that nothing has left the window.
LEMMA TickPreserves ==
  ASSUME LimiterInvariant, LimiterTick
  PROVE  LimiterInvariant'
<1>1. /\ log \in Seq(Entries) /\ InOrderOfTime(log) /\ Window \in Nat \ {0}
      /\ Pruned \in Seq(Entries) /\ InOrderOfTime(Pruned)
      /\ TokensIn(Pruned) \in Nat
  BY LogProperties
<1>2. LimiterTypeOK
  BY DEF LimiterInvariant, BudgetsKept
<1>3. /\ log' = Aged(log)
      /\ granted' = [a \in Ages |-> IF a = 0 THEN [requests |-> 0, tokens |-> 0] ELSE granted[a - 1]]
      /\ phase' = phase
      /\ timer' = [d \in Callers |-> IF timer[d] > 0 THEN timer[d] - 1 ELSE 0]
  BY DEF LimiterTick, Aged
<1>4. /\ log' \in Seq(Entries) /\ InOrderOfTime(log')
      /\ \A n \in 1..Window :
           /\ Len(Younger(log', n)) = Len(Younger(log, n - 1))
           /\ TokensIn(Younger(log', n)) = TokensIn(Younger(log, n - 1))
           /\ \A j \in 1..Len(Younger(log, n - 1)) :
                Younger(log', n)[j].age = Younger(log, n - 1)[j].age + 1
  BY <1>1, <1>3, YoungerAfterTick
<1>5. LimiterTypeOK'
  <2>1. granted' \in [Ages -> [requests : Nat, tokens : Nat]]
    BY <1>1, <1>2, <1>3 DEF LimiterTypeOK, Ages
  <2>2. timer' \in [Callers -> 0..Window]
    BY <1>1, <1>2, <1>3 DEF LimiterTypeOK
  <2> QED
    BY <1>2, <1>3, <1>4, <2>1, <2>2 DEF LimiterTypeOK, Entries
<1>6. ASSUME NEW n \in 1..Window
      PROVE  /\ GrantedRequests(n)' = GrantedRequests(n - 1)
             /\ GrantedTokens(n)' = GrantedTokens(n - 1)
  BY <1>2, <1>3, GrantsAge
<1>7. GrantsLogged'
  <2> SUFFICES ASSUME NEW n \in 0..Window
               PROVE  /\ GrantedRequests(n)' = Len(Younger(log', n))
                      /\ GrantedTokens(n)' = TokensIn(Younger(log', n))
    BY DEF GrantsLogged
  <2>1. CASE n = 0
    <3>1. GrantedRequests(0)' = 0 /\ GrantedTokens(0)' = 0
      BY SumToZero DEF GrantedRequests, GrantedTokens
    <3>2. Younger(log', 0) = << >>
      BY <1>4, NoneYoungerThanZero
    <3> QED
      BY <2>1, <3>1, <3>2, TokensInProperties
  <2>2. CASE n > 0
    <3>1. n \in 1..Window /\ n - 1 \in 0..Window
      BY <1>1, <2>2
    <3> QED
      BY <1>4, <1>6, <3>1 DEF LimiterInvariant, GrantsLogged
  <2> QED
    BY <2>1, <2>2
<1>8. WithinBudgets'
  <2>1. Window \in 1..Window /\ Window - 1 \in 0..Window /\ Window \in 0..Window
    BY <1>1
  <2>2. /\ GrantedRequests(Window)' = GrantedRequests(Window - 1)
        /\ GrantedTokens(Window)' = GrantedTokens(Window - 1)
    BY <1>6, <2>1
  <2>3. /\ GrantedRequests(Window - 1) <= GrantedRequests(Window)
        /\ GrantedTokens(Window - 1) <= GrantedTokens(Window)
        /\ GrantedRequests(Window - 1) \in Nat /\ GrantedTokens(Window - 1) \in Nat
        /\ GrantedRequests(Window) \in Nat /\ GrantedTokens(Window) \in Nat
    BY <1>2, <2>1, GrantSums
  <2>4. GrantedRequests(Window) <= ReqLimit /\ GrantedTokens(Window) <= TokLimit
    BY DEF LimiterInvariant, BudgetsKept, WithinBudgets
  <2> QED
    BY <2>2, <2>3, <2>4, LimitsAssumption DEF WithinBudgets
<1>9. ASSUME NEW d \in Callers, phase[d] = "waiting", timer'[d] > 0
      PROVE  /\ ~Fits(d, Pruned)'
             /\ Pruned' # << >> => timer'[d] + Pruned'[1].age <= Window
  <2>1. timer[d] \in Nat /\ timer[d] > 1 /\ timer'[d] = timer[d] - 1
    BY <1>1, <1>2, <1>3, <1>9 DEF LimiterTypeOK
  <2>2. /\ ~Fits(d, Pruned)
        /\ Pruned # << >> => timer[d] + Pruned[1].age <= Window
    BY <1>9, <2>1 DEF LimiterInvariant, SleepsOnlyWhileBlocked, DueInTime
  <2>3. ASSUME NEW j \in 1..Len(Pruned) PROVE Pruned[j].age < Window - 1
    <3>1. 1 \in 1..Len(Pruned) /\ Pruned # << >>
      BY <1>1
    <3>2. Pruned[j].age <= Pruned[1].age
      BY <1>1, <3>1 DEF InOrderOfTime
    <3>3. Pruned[j].age \in Nat /\ Pruned[1].age \in Nat
      BY <1>1, <3>1, EntryProperties
    <3>4. Window \in Nat /\ timer[d] + Pruned[1].age <= Window
      BY <1>1, <2>2, <3>1
    <3>5. Pruned[1].age < Window - 1
      BY <2>1, <3>3, <3>4
    <3> QED
      BY <3>2, <3>3, <3>4, <3>5
  <2>4. Younger(Pruned, Window - 1) = Pruned
    BY <1>1, <2>3, AllYoung
  <2>5. Window - 1 \in 0..Window /\ Window \in 1..Window
    BY <1>1
  <2>6. Younger(log, Window - 1) = Pruned
    BY <1>1, <2>4, <2>5, YoungerOfPruned DEF Pruned
  <2>7. /\ Len(Pruned') = Len(Pruned) /\ TokensIn(Pruned') = TokensIn(Pruned)
        /\ \A j \in 1..Len(Pruned) : Pruned'[j].age = Pruned[j].age + 1
    BY <1>4, <2>5, <2>6 DEF Pruned
  <2>8. ~Fits(d, Pruned)'
    BY <2>2, <2>7 DEF Fits
  <2>9. ASSUME Pruned' # << >> PROVE timer'[d] + Pruned'[1].age <= Window
    <3>1. Pruned' \in Seq(Entries)
      BY <1>1, <1>4, YoungerProperties DEF Pruned
    <3>2. 1 \in 1..Len(Pruned) /\ Pruned # << >>
      BY <1>1, <2>7, <2>9, <3>1
    <3>3. Pruned[1].age \in Nat
      BY <1>1, <3>2, EntryProperties
    <3> QED
      BY <1>1, <2>1, <2>2, <2>7, <3>2, <3>3
  <2> QED
    BY <2>8, <2>9
<1>10. SleepsOnlyWhileBlocked' /\ DueInTime'
  BY <1>3, <1>9 DEF SleepsOnlyWhileBlocked, DueInTime
<1> QED
  BY <1>4, <1>5, <1>7, <1>8, <1>10 DEF LimiterInvariant, BudgetsKept

\* Every step preserves the inductive invariant.
LEMMA LimiterInvariantPreserved == LimiterInvariant /\ [LimiterNext]_limiterVars => LimiterInvariant'
<1> SUFFICES ASSUME LimiterInvariant, [LimiterNext]_limiterVars PROVE LimiterInvariant'
  OBVIOUS
<1>1. ASSUME NEW c \in Callers, Attempt(c) PROVE LimiterInvariant'
  BY <1>1, ReservePreserves, SleepPreserves DEF Attempt
<1>2. ASSUME UNCHANGED <<log, timer, granted>>, LimiterTypeOK',
             \A d \in Callers : phase'[d] = "waiting" => phase[d] = "waiting"
      PROVE  LimiterInvariant'
  <2>1. Pruned' = Pruned
    BY <1>2 DEF Pruned
  <2>2. GrantsLogged' /\ WithinBudgets'
    BY <1>2 DEF LimiterInvariant, BudgetsKept, GrantsLogged, WithinBudgets, GrantedRequests, GrantedTokens
  <2>3. SleepsOnlyWhileBlocked' /\ DueInTime'
    BY <1>2, <2>1 DEF LimiterInvariant, SleepsOnlyWhileBlocked, DueInTime, Fits
  <2> QED
    BY <1>2, <2>2, <2>3 DEF LimiterInvariant, BudgetsKept
<1>3. ASSUME NEW c \in Callers, TimedOut(c) \/ Cancel(c) \/ ComeBack(c)
      PROVE  /\ UNCHANGED <<log, timer, granted>> /\ LimiterTypeOK'
             /\ \A d \in Callers : phase'[d] = "waiting" => phase[d] = "waiting"
  BY <1>3 DEF TimedOut, Cancel, ComeBack, LimiterInvariant, BudgetsKept, LimiterTypeOK
<1>4. CASE LimiterTick
  BY <1>4, TickPreserves
<1>5. CASE UNCHANGED limiterVars
  <2>1. LimiterTypeOK'
    BY <1>5 DEF limiterVars, LimiterInvariant, BudgetsKept, LimiterTypeOK
  <2> QED
    BY <1>2, <1>5, <2>1 DEF limiterVars
<1> QED
  BY <1>1, <1>2, <1>3, <1>4, <1>5 DEF LimiterNext

-----------------------------------------------------------------------------

\* The log and the grants stay in step.
THEOREM LimiterInvariance == LimiterSpec => []LimiterInvariant
BY LimiterInitInvariant, LimiterInvariantPreserved, PTL DEF LimiterSpec

\* For every set of callers, whatever they ask for, and every budget and window:
\* the requests granted in the last window, and their tokens, are within budget.
THEOREM BudgetsAreKept == LimiterSpec => []BudgetsKept
BY LimiterInvariance, PTL DEF LimiterInvariant

\* No caller sleeps, with time left on its timeout, while its request would fit.
THEOREM NoMissedWakeup == LimiterSpec => []SleepsOnlyWhileBlocked
BY LimiterInvariance, PTL DEF LimiterInvariant

-----------------------------------------------------------------------------
(* The memory cache. *)

\* Every key was used once at most, and lately, in the order of use.
HistoryTypeOK ==
  /\ latest \in [Keys -> Values \cup {NoValue}]
  /\ due \in [Keys -> Nat \cup {Expired}]
  /\ recency \in Seq(Keys)
  /\ IsInjective(recency)

\* What is stored is what was stored last, and was used since.
StoredIsLatest ==
  \A k \in Keys :
    value[k] # NoValue =>
      /\ k \in ToSet(recency)
      /\ value[k] = latest[k]
      /\ left[k] = due[k]

HistoryInvariant == StoreConsistent /\ HistoryTypeOK /\ StoredIsLatest

-----------------------------------------------------------------------------
(* Sequences without repetitions. *)

\* What an occurrence of k in a sequence is.
LEMMA ToSetIsRange ==
  ASSUME NEW S, NEW s \in Seq(S), NEW k
  PROVE  k \in ToSet(s) <=> \E i \in 1..Len(s) : s[i] = k
BY DEF ToSet

\* What it means that a sequence has no repetition.
LEMMA InjectiveMeans ==
  ASSUME NEW S, NEW s \in Seq(S)
  PROVE  IsInjective(s) <=> \A i, j \in 1..Len(s) : s[i] = s[j] => i = j
BY DEF IsInjective

\* Only what a sequence holds is ahead of something in it, or behind.
LEMMA AheadInside ==
  ASSUME NEW S, NEW s \in Seq(S), NEW a, NEW b, Ahead(s, a, b)
  PROVE  a \in ToSet(s) /\ b \in ToSet(s)
BY ToSetIsRange DEF Ahead

\* Where the elements of Without(s, k) stand in s: those before the place of
\* k where they were, those behind it one place further.
LEMMA WithoutShape ==
  ASSUME NEW S, NEW s \in Seq(S), NEW k, k \in ToSet(s)
  PROVE  \E p \in 1..Len(s) :
           /\ s[p] = k
           /\ Without(s, k) \in Seq(S)
           /\ Len(Without(s, k)) = Len(s) - 1
           /\ \A i \in 1..(Len(s) - 1) :
                Without(s, k)[i] = IF i < p THEN s[i] ELSE s[i + 1]
<1> DEFINE p == CHOOSE i \in DOMAIN s : s[i] = k
           front == SubSeq(s, 1, p - 1)
           back == SubSeq(s, p + 1, Len(s))
<1>1. p \in 1..Len(s) /\ s[p] = k
  BY ToSetIsRange
<1> HIDE DEF p
<1>2. front \in Seq(S) /\ Len(front) = p - 1 /\ \A i \in 1..(p - 1) : front[i] = s[i]
  BY <1>1
<1>3. back \in Seq(S) /\ Len(back) = Len(s) - p /\ \A i \in 1..(Len(s) - p) : back[i] = s[p + i]
  BY <1>1
<1>4. Without(s, k) = front \o back
  BY DEF Without, RemoveAt, p
<1> HIDE DEF front, back
<1> DEFINE t == front \o back
<1>5. t \in Seq(S) /\ Len(t) = Len(s) - 1
  <2>1. t \in Seq(S) /\ Len(t) = Len(front) + Len(back)
    BY <1>2, <1>3, ConcatProperties
  <2> QED
    BY <1>1, <1>2, <1>3, <2>1
<1>6. ASSUME NEW i \in 1..(Len(s) - 1) PROVE t[i] = IF i < p THEN s[i] ELSE s[i + 1]
  <2>1. CASE i < p
    BY <1>1, <1>2, <1>3, <2>1
  <2>2. CASE ~(i < p)
    <3>1. i - (p - 1) \in 1..(Len(s) - p) /\ p + (i - (p - 1)) = i + 1
      BY <1>1, <2>2
    <3>2. i \in 1..(Len(front) + Len(back)) /\ ~(i <= Len(front))
      BY <1>1, <1>2, <1>3, <2>2
    <3>3. t[i] = back[i - (p - 1)]
      BY <1>2, <1>3, <3>2, ConcatProperties
    <3> QED
      BY <1>3, <2>2, <3>1, <3>3
  <2> QED
    BY <2>1, <2>2
<1> QED
  BY <1>1, <1>4, <1>5, <1>6

\* Taking an element out of a sequence takes out nothing else, and leaves the
\* order of the others.
LEMMA WithoutProperties ==
  ASSUME NEW S, NEW s \in Seq(S), IsInjective(s), NEW k
  PROVE  /\ Without(s, k) \in Seq(S)
         /\ Len(Without(s, k)) = IF k \in ToSet(s) THEN Len(s) - 1 ELSE Len(s)
         /\ IsInjective(Without(s, k))
         /\ ToSet(Without(s, k)) = ToSet(s) \ {k}
         /\ \A a, b : Ahead(Without(s, k), a, b) <=> Ahead(s, a, b) /\ a # k /\ b # k
<1>1. CASE k \notin ToSet(s)
  BY <1>1, ToSetIsRange DEF Without, Ahead
<1>2. CASE k \in ToSet(s)
  <2> DEFINE t == Without(s, k)
  <2>1. PICK p \in 1..Len(s) :
          /\ s[p] = k
          /\ t \in Seq(S)
          /\ Len(t) = Len(s) - 1
          /\ \A i \in 1..(Len(s) - 1) : t[i] = IF i < p THEN s[i] ELSE s[i + 1]
    BY <1>2, WithoutShape
  <2> HIDE DEF t
  <2>2. \A i, j \in 1..Len(s) : s[i] = s[j] => i = j
    BY InjectiveMeans
  <2>3. ASSUME NEW i \in 1..Len(t)
        PROVE  \E j \in 1..Len(s) : j # p /\ s[j] = t[i] /\ j = IF i < p THEN i ELSE i + 1
    BY <2>1
  <2>4. ASSUME NEW j \in 1..Len(s), j # p
        PROVE  \E i \in 1..Len(t) : t[i] = s[j] /\ i = IF j < p THEN j ELSE j - 1
    <3>1. CASE j < p
      BY <2>1, <3>1
    <3>2. CASE j > p
      <4>1. j - 1 \in 1..(Len(s) - 1) /\ ~(j - 1 < p) /\ (j - 1) + 1 = j
        BY <2>1, <3>2
      <4>2. t[j - 1] = s[j] /\ j - 1 \in 1..Len(t)
        BY <2>1, <4>1
      <4> QED
        BY <3>2, <4>2
    <3> QED
      BY <2>4, <3>1, <3>2
  <2>5. IsInjective(t)
    <3> SUFFICES ASSUME NEW i \in 1..Len(t), NEW j \in 1..Len(t), t[i] = t[j] PROVE i = j
      BY <2>1, InjectiveMeans
    <3> QED
      BY <2>2, <2>3
  <2>6. ToSet(t) = ToSet(s) \ {k}
    <3>1. ASSUME NEW e \in ToSet(t) PROVE e \in ToSet(s) \ {k}
      BY <2>1, <2>2, <2>3, <3>1, ToSetIsRange
    <3>2. ASSUME NEW e \in ToSet(s) \ {k} PROVE e \in ToSet(t)
      <4>1. PICK j \in 1..Len(s) : s[j] = e /\ j # p
        BY <2>1, <3>2, ToSetIsRange
      <4>2. PICK i \in 1..Len(t) : t[i] = e
        BY <2>4, <4>1
      <4> QED
        BY <2>1, <4>2, ToSetIsRange
    <3> QED
      BY <3>1, <3>2
  <2>7. ASSUME NEW a, NEW b, Ahead(t, a, b) PROVE Ahead(s, a, b) /\ a # k /\ b # k
    <3>1. PICK i, j \in 1..Len(t) : i < j /\ t[i] = a /\ t[j] = b
      BY <2>1, <2>7 DEF Ahead
    <3>2. PICK m \in 1..Len(s) : m # p /\ s[m] = a /\ m = IF i < p THEN i ELSE i + 1
      BY <2>3, <3>1
    <3>3. PICK n \in 1..Len(s) : n # p /\ s[n] = b /\ n = IF j < p THEN j ELSE j + 1
      BY <2>3, <3>1
    <3>4. m < n
      BY <3>1, <3>2, <3>3
    <3>5. a # k /\ b # k
      BY <2>1, <2>2, <3>2, <3>3
    <3>6. Ahead(s, a, b)
      BY <3>2, <3>3, <3>4 DEF Ahead
    <3> QED
      BY <3>5, <3>6
  <2>8. ASSUME NEW a, NEW b, Ahead(s, a, b), a # k, b # k PROVE Ahead(t, a, b)
    <3>1. PICK i, j \in 1..Len(s) : i < j /\ s[i] = a /\ s[j] = b
      BY <2>8 DEF Ahead
    <3>2. PICK m \in 1..Len(t) : t[m] = a /\ m = IF i < p THEN i ELSE i - 1
      BY <2>1, <2>4, <2>8, <3>1
    <3>3. PICK n \in 1..Len(t) : t[n] = b /\ n = IF j < p THEN j ELSE j - 1
      BY <2>1, <2>4, <2>8, <3>1
    <3>4. m < n
      BY <2>1, <2>8, <3>1, <3>2, <3>3
    <3> QED
      BY <2>1, <3>2, <3>3, <3>4 DEF Ahead
  <2> QED
    BY <1>2, <2>1, <2>5, <2>6, <2>7, <2>8 DEF t
<1> QED
  BY <1>1, <1>2

\* Putting a new element at the end keeps what was there, in its order.
LEMMA NewLastProperties ==
  ASSUME NEW S, NEW s \in Seq(S), IsInjective(s), NEW k \in S, k \notin ToSet(s)
  PROVE  /\ Append(s, k) \in Seq(S)
         /\ Len(Append(s, k)) = Len(s) + 1
         /\ IsInjective(Append(s, k))
         /\ ToSet(Append(s, k)) = ToSet(s) \cup {k}
         /\ \A a, b : Ahead(Append(s, k), a, b) <=>
              Ahead(s, a, b) \/ (a \in ToSet(s) /\ b = k)
<1> DEFINE t == Append(s, k)
<1>1. /\ t \in Seq(S) /\ Len(t) = Len(s) + 1
      /\ \A i \in 1..Len(s) : t[i] = s[i]
      /\ t[Len(s) + 1] = k
  OBVIOUS
<1> HIDE DEF t
<1>2. \A i \in 1..Len(s) : s[i] # k
  BY ToSetIsRange
<1>3. IsInjective(t)
  <2>1. \A i, j \in 1..Len(s) : s[i] = s[j] => i = j
    BY InjectiveMeans
  <2>2. \A i, j \in 1..Len(t) : t[i] = t[j] => i = j
    BY <1>1, <1>2, <2>1
  <2> QED
    BY <1>1, <2>2, InjectiveMeans
<1>4. ToSet(t) = ToSet(s) \cup {k}
  <2>1. \A e : e \in ToSet(t) <=> \E i \in 1..Len(t) : t[i] = e
    BY <1>1, ToSetIsRange
  <2>2. \A e : e \in ToSet(s) <=> \E i \in 1..Len(s) : s[i] = e
    BY ToSetIsRange
  <2> QED
    BY <1>1, <2>1, <2>2
<1>5. ASSUME NEW a, NEW b
      PROVE  Ahead(t, a, b) <=> Ahead(s, a, b) \/ (a \in ToSet(s) /\ b = k)
  <2>1. ASSUME Ahead(t, a, b) PROVE Ahead(s, a, b) \/ (a \in ToSet(s) /\ b = k)
    BY <1>1, <2>1, ToSetIsRange DEF Ahead
  <2>2. ASSUME Ahead(s, a, b) PROVE Ahead(t, a, b)
    BY <1>1, <2>2 DEF Ahead
  <2>3. ASSUME a \in ToSet(s), b = k PROVE Ahead(t, a, b)
    BY <1>1, <2>3, ToSetIsRange DEF Ahead
  <2> QED
    BY <2>1, <2>2, <2>3
<1> QED
  BY <1>1, <1>3, <1>4, <1>5 DEF t

\* The elements of u are in the order they have in s, except that k is behind
\* all of them.
MovedBehind(u, s, k) ==
  \A a, b : Ahead(u, a, b) <=> \/ Ahead(s, a, b) /\ a # k /\ b # k
                               \/ a \in ToSet(s) /\ a # k /\ b = k

\* The most recently used element is the last one, behind all the others.
LEMMA TouchedProperties ==
  ASSUME NEW S, NEW s \in Seq(S), IsInjective(s), NEW k \in S, NEW u, u = Touched(s, k)
  PROVE  /\ u \in Seq(S)
         /\ Len(u) = IF k \in ToSet(s) THEN Len(s) ELSE Len(s) + 1
         /\ IsInjective(u)
         /\ ToSet(u) = ToSet(s) \cup {k}
         /\ MovedBehind(u, s, k)
<1> DEFINE t == Without(s, k)
<1>1. /\ t \in Seq(S) /\ IsInjective(t) /\ ToSet(t) = ToSet(s) \ {k}
      /\ Len(t) = IF k \in ToSet(s) THEN Len(s) - 1 ELSE Len(s)
      /\ \A a, b : Ahead(t, a, b) <=> Ahead(s, a, b) /\ a # k /\ b # k
  BY WithoutProperties
<1>2. u = Append(t, k)
  BY DEF Touched
<1> HIDE DEF t
<1>3. /\ Append(t, k) \in Seq(S) /\ Len(Append(t, k)) = Len(t) + 1
      /\ IsInjective(Append(t, k)) /\ ToSet(Append(t, k)) = ToSet(t) \cup {k}
      /\ \A a, b : Ahead(Append(t, k), a, b) <=> Ahead(t, a, b) \/ (a \in ToSet(t) /\ b = k)
  BY <1>1, NewLastProperties
<1>4. MovedBehind(u, s, k)
  <2> SUFFICES ASSUME NEW a, NEW b
               PROVE  Ahead(u, a, b) <=> \/ Ahead(s, a, b) /\ a # k /\ b # k
                                         \/ a \in ToSet(s) /\ a # k /\ b = k
    BY DEF MovedBehind
  <2>1. Ahead(u, a, b) <=> Ahead(t, a, b) \/ (a \in ToSet(t) /\ b = k)
    BY <1>2, <1>3
  <2> QED
    BY <1>1, <2>1
<1> QED
  BY <1>1, <1>2, <1>3, <1>4

\* Without its oldest element, a sequence keeps the others in their order; the
\* oldest one was ahead of all of them.
LEMMA TailProperties ==
  ASSUME NEW S, NEW s \in Seq(S), IsInjective(s), s # << >>
  PROVE  /\ Tail(s) \in Seq(S)
         /\ Len(Tail(s)) = Len(s) - 1
         /\ IsInjective(Tail(s))
         /\ Head(s) \in S
         /\ Head(s) \in ToSet(s)
         /\ ToSet(Tail(s)) = ToSet(s) \ {Head(s)}
         /\ \A a, b : Ahead(Tail(s), a, b) => Ahead(s, a, b)
         /\ \A b \in ToSet(s) : b # Head(s) => Ahead(s, Head(s), b)
<1> DEFINE t == Tail(s)
<1>1. /\ t \in Seq(S) /\ Len(t) = Len(s) - 1 /\ Head(s) = s[1] /\ 1 \in 1..Len(s)
      /\ \A i \in 1..Len(t) : t[i] = s[i + 1]
  OBVIOUS
<1> HIDE DEF t
<1>2. \A i, j \in 1..Len(s) : s[i] = s[j] => i = j
  BY InjectiveMeans
<1>3. IsInjective(t)
  <2>1. \A i, j \in 1..Len(t) : t[i] = t[j] => i = j
    BY <1>1, <1>2
  <2> QED
    BY <1>1, <2>1, InjectiveMeans
<1>4. \A e : e \in ToSet(s) <=> \E i \in 1..Len(s) : s[i] = e
  BY ToSetIsRange
<1>5. ToSet(t) = ToSet(s) \ {s[1]}
  <2>1. \A e : e \in ToSet(t) <=> \E i \in 1..Len(t) : t[i] = e
    BY <1>1, ToSetIsRange
  <2>2. ASSUME NEW e \in ToSet(t) PROVE e \in ToSet(s) \ {s[1]}
    BY <1>1, <1>2, <1>4, <2>1, <2>2
  <2>3. ASSUME NEW e \in ToSet(s) \ {s[1]} PROVE e \in ToSet(t)
    <3>1. PICK i \in 1..Len(s) : s[i] = e /\ i # 1
      BY <1>4, <2>3
    <3>2. i - 1 \in 1..Len(t) /\ t[i - 1] = e
      BY <1>1, <3>1
    <3> QED
      BY <2>1, <3>2
  <2> QED
    BY <2>2, <2>3
<1>6. ASSUME NEW a, NEW b, Ahead(t, a, b) PROVE Ahead(s, a, b)
  <2>1. PICK i, j \in 1..Len(t) : i < j /\ t[i] = a /\ t[j] = b
    BY <1>1, <1>6 DEF Ahead
  <2>2. i + 1 \in 1..Len(s) /\ j + 1 \in 1..Len(s) /\ i + 1 < j + 1
    BY <1>1, <2>1
  <2>3. s[i + 1] = a /\ s[j + 1] = b
    BY <1>1, <2>1
  <2> QED
    BY <2>2, <2>3 DEF Ahead
<1>7. ASSUME NEW b \in ToSet(s), b # s[1] PROVE Ahead(s, s[1], b)
  BY <1>1, <1>4, <1>7 DEF Ahead
<1> QED
  BY <1>1, <1>3, <1>4, <1>5, <1>6, <1>7 DEF t

-----------------------------------------------------------------------------
(* The inductive invariant. *)

\* The empty store, with an empty history, satisfies the inductive invariant.
LEMMA HistoryInit == Init => HistoryInvariant
<1> SUFFICES ASSUME Init PROVE HistoryInvariant
  OBVIOUS
<1> USE DEF Init, LruInit
<1>1. LruTypeOK /\ HistoryTypeOK
  BY DEF LruTypeOK, HistoryTypeOK, IsInjective, Expired, NoEntry
<1>2. ToSet(storedKeys) = {}
  BY DEF ToSet
<1>3. SameKeys /\ StoredIsLatest
  BY <1>2 DEF SameKeys, StoredIsLatest
<1>4. Bounded
  BY MaxSizeAssumption DEF Bounded, IsInjective
<1>5. OrderIsRecency
  BY DEF OrderIsRecency, Ahead
<1> QED
  BY <1>1, <1>3, <1>4, <1>5 DEF HistoryInvariant, StoreConsistent

\* A key moved to the end of the store is the last of its keys, once.
LEMMA MoveToEndProperties ==
  ASSUME NEW k \in Keys, storedKeys \in Seq(Keys), IsInjective(storedKeys), MoveToEnd(k)
  PROVE  /\ storedKeys' \in Seq(Keys) /\ IsInjective(storedKeys')
         /\ Len(storedKeys') = IF k \in ToSet(storedKeys) THEN Len(storedKeys) ELSE Len(storedKeys) + 1
         /\ ToSet(storedKeys') = ToSet(storedKeys) \cup {k}
         /\ MovedBehind(storedKeys', storedKeys, k)
<1>1. storedKeys' = Touched(storedKeys, k)
  BY DEF MoveToEnd
<1>2. storedKeys' \in Seq(Keys) /\ IsInjective(storedKeys') /\ MovedBehind(storedKeys', storedKeys, k)
  BY <1>1, TouchedProperties
<1>3. ToSet(storedKeys') = ToSet(storedKeys) \cup {k}
  BY <1>1, TouchedProperties
<1>4. Len(storedKeys') = IF k \in ToSet(storedKeys) THEN Len(storedKeys) ELSE Len(storedKeys) + 1
  BY <1>1, TouchedProperties
<1> QED
  BY <1>2, <1>3, <1>4

\* A key that is used is the last of the keys ever used, once.
LEMMA UseProperties ==
  ASSUME NEW k \in Keys, recency \in Seq(Keys), IsInjective(recency), Use(k)
  PROVE  /\ recency' \in Seq(Keys) /\ IsInjective(recency')
         /\ ToSet(recency') = ToSet(recency) \cup {k}
         /\ MovedBehind(recency', recency, k)
<1>1. recency' = Touched(recency, k)
  BY DEF Use
<1>2. recency' \in Seq(Keys) /\ IsInjective(recency') /\ MovedBehind(recency', recency, k)
  BY <1>1, TouchedProperties
<1>3. ToSet(recency') = ToSet(recency) \cup {k}
  BY <1>1, TouchedProperties
<1> QED
  BY <1>2, <1>3

\* A hit moves its key to the end of the store and of the history alike.
LEMMA HitPreserves ==
  ASSUME HistoryInvariant, NEW k \in Keys, GetHit(k), Use(k), UNCHANGED <<latest, due>>
  PROVE  HistoryInvariant'
<1> USE DEF HistoryInvariant, StoreConsistent
<1>1. /\ storedKeys \in Seq(Keys) /\ IsInjective(storedKeys) /\ recency \in Seq(Keys) /\ IsInjective(recency)
      /\ value[k] # NoValue /\ k \in ToSet(storedKeys)
  BY DEF LruTypeOK, Bounded, HistoryTypeOK, GetHit, Hits, SameKeys
<1>2. /\ storedKeys' \in Seq(Keys) /\ Len(storedKeys') = Len(storedKeys)
      /\ IsInjective(storedKeys') /\ ToSet(storedKeys') = ToSet(storedKeys)
      /\ MovedBehind(storedKeys', storedKeys, k)
  BY <1>1, MoveToEndProperties DEF GetHit
<1>3. /\ recency' \in Seq(Keys)
      /\ IsInjective(recency') /\ ToSet(recency') = ToSet(recency) \cup {k}
      /\ MovedBehind(recency', recency, k)
  BY <1>1, UseProperties
<1>4. /\ value' = value /\ left' = left /\ latest' = latest /\ due' = due
      /\ answer' \in Values \cup {NoValue}
  BY DEF GetHit, LruTypeOK
<1>5. LruTypeOK' /\ HistoryTypeOK'
  BY <1>2, <1>3, <1>4 DEF LruTypeOK, HistoryTypeOK
<1>6. SameKeys' /\ StoredIsLatest'
  BY <1>2, <1>3, <1>4 DEF SameKeys, StoredIsLatest
<1>7. Bounded'
  BY <1>2 DEF Bounded
<1>8. OrderIsRecency'
  BY <1>2, <1>3 DEF OrderIsRecency, SameKeys, StoredIsLatest, MovedBehind
<1> QED
  BY <1>5, <1>6, <1>7, <1>8

\* An entry whose time is over leaves the store, and nothing else does.
LEMMA ExpiryPreserves ==
  ASSUME HistoryInvariant, NEW k \in Keys, GetExpired(k), UNCHANGED <<latest, due, recency>>
  PROVE  HistoryInvariant'
<1> USE DEF HistoryInvariant, StoreConsistent
<1>1. storedKeys \in Seq(Keys) /\ IsInjective(storedKeys)
  BY DEF LruTypeOK, Bounded
<1>2. /\ storedKeys' \in Seq(Keys) /\ Len(storedKeys') <= Len(storedKeys)
      /\ IsInjective(storedKeys') /\ ToSet(storedKeys') = ToSet(storedKeys) \ {k}
      /\ \A a, b : Ahead(storedKeys', a, b) => Ahead(storedKeys, a, b)
  BY <1>1, WithoutProperties DEF GetExpired
<1>3. LruTypeOK' /\ HistoryTypeOK'
  BY <1>2 DEF LruTypeOK, HistoryTypeOK, GetExpired, NoEntry
<1>4. SameKeys'
  BY <1>2 DEF SameKeys, GetExpired, LruTypeOK
<1>5. StoredIsLatest'
  BY DEF StoredIsLatest, GetExpired, LruTypeOK
<1>6. Bounded'
  BY <1>1, <1>2, MaxSizeAssumption DEF Bounded
<1>7. OrderIsRecency'
  BY <1>2 DEF OrderIsRecency
<1> QED
  BY <1>3, <1>4, <1>5, <1>6, <1>7

\* A key stored where there is room for it, or again, is the latest one used.
LEMMA PutInPlacePreserves ==
  ASSUME HistoryInvariant, NEW k \in Keys, NEW v \in Values, NEW ttl \in Ttls,
         PutInPlace(k, v, ttl), UNCHANGED answer, Use(k),
         latest' = [latest EXCEPT ![k] = v], due' = [due EXCEPT ![k] = ttl]
  PROVE  HistoryInvariant'
<1> USE DEF HistoryInvariant, StoreConsistent
<1>1. /\ storedKeys \in Seq(Keys) /\ IsInjective(storedKeys) /\ recency \in Seq(Keys) /\ IsInjective(recency)
      /\ v # NoValue /\ ttl \in Nat
  BY NoValueAssumption, TtlsAssumption DEF LruTypeOK, Bounded, HistoryTypeOK
<1>2. /\ storedKeys' \in Seq(Keys)
      /\ Len(storedKeys') = IF k \in ToSet(storedKeys) THEN Len(storedKeys) ELSE Len(storedKeys) + 1
      /\ IsInjective(storedKeys') /\ ToSet(storedKeys') = ToSet(storedKeys) \cup {k}
      /\ MovedBehind(storedKeys', storedKeys, k)
  BY <1>1, MoveToEndProperties DEF PutInPlace
<1>3. /\ recency' \in Seq(Keys)
      /\ IsInjective(recency') /\ ToSet(recency') = ToSet(recency) \cup {k}
      /\ MovedBehind(recency', recency, k)
  BY <1>1, UseProperties
<1>4. value' = [value EXCEPT ![k] = v] /\ left' = [left EXCEPT ![k] = ttl]
  BY DEF PutInPlace
<1>5. LruTypeOK' /\ HistoryTypeOK'
  BY <1>1, <1>2, <1>3, <1>4 DEF LruTypeOK, HistoryTypeOK
<1>6. SameKeys'
  BY <1>1, <1>2, <1>4 DEF SameKeys, LruTypeOK, NoEntry
<1>7. StoredIsLatest'
  BY <1>1, <1>3, <1>4 DEF StoredIsLatest, LruTypeOK, HistoryTypeOK
<1>8. Bounded'
  BY <1>1, <1>2, MaxSizeAssumption DEF Bounded, PutInPlace, SameKeys
<1>9. OrderIsRecency'
  BY <1>2, <1>3 DEF OrderIsRecency, SameKeys, StoredIsLatest, MovedBehind
<1> QED
  BY <1>5, <1>6, <1>7, <1>8, <1>9

\* At capacity the oldest key makes room for the new one.
LEMMA PutEvictingPreserves ==
  ASSUME HistoryInvariant, NEW k \in Keys, NEW v \in Values, NEW ttl \in Ttls,
         PutEvicting(k, v, ttl), UNCHANGED answer, Use(k),
         latest' = [latest EXCEPT ![k] = v], due' = [due EXCEPT ![k] = ttl]
  PROVE  HistoryInvariant'
<1> USE DEF HistoryInvariant, StoreConsistent
<1> DEFINE oldest == Head(storedKeys)
           rest == Tail(storedKeys)
<1>1. /\ storedKeys \in Seq(Keys) /\ IsInjective(storedKeys) /\ recency \in Seq(Keys) /\ IsInjective(recency)
      /\ v # NoValue /\ ttl \in Nat /\ value[k] = NoValue /\ Len(storedKeys) = MaxSize /\ storedKeys # << >>
  BY NoValueAssumption, TtlsAssumption, MaxSizeAssumption
     DEF LruTypeOK, Bounded, HistoryTypeOK, PutEvicting
<1>2. /\ rest \in Seq(Keys) /\ Len(rest) = Len(storedKeys) - 1 /\ IsInjective(rest)
      /\ oldest \in Keys /\ oldest \in ToSet(storedKeys) /\ ToSet(rest) = ToSet(storedKeys) \ {oldest}
      /\ \A a, b : Ahead(rest, a, b) => Ahead(storedKeys, a, b)
  BY <1>1, TailProperties
<1>3. k \notin ToSet(storedKeys) /\ k \notin ToSet(rest) /\ k # oldest
  BY <1>1, <1>2 DEF SameKeys
<1>4. /\ storedKeys' = Append(rest, k)
      /\ value' = [value EXCEPT ![oldest] = NoValue, ![k] = v]
      /\ left' = [left EXCEPT ![oldest] = NoEntry, ![k] = ttl]
  BY DEF PutEvicting
<1> HIDE DEF oldest, rest
<1>5. /\ storedKeys' \in Seq(Keys) /\ Len(storedKeys') = Len(rest) + 1 /\ IsInjective(storedKeys')
      /\ ToSet(storedKeys') = ToSet(rest) \cup {k}
      /\ \A a, b : Ahead(storedKeys', a, b) <=> Ahead(rest, a, b) \/ (a \in ToSet(rest) /\ b = k)
  BY <1>2, <1>3, <1>4, NewLastProperties
<1>6. /\ recency' \in Seq(Keys)
      /\ IsInjective(recency') /\ ToSet(recency') = ToSet(recency) \cup {k}
      /\ MovedBehind(recency', recency, k)
  BY <1>1, UseProperties
<1>7. LruTypeOK' /\ HistoryTypeOK'
  BY <1>1, <1>2, <1>4, <1>5, <1>6 DEF LruTypeOK, HistoryTypeOK, NoEntry
<1>8. SameKeys'
  BY <1>1, <1>2, <1>3, <1>4, <1>5 DEF SameKeys, LruTypeOK, NoEntry
<1>9. StoredIsLatest'
  BY <1>1, <1>2, <1>3, <1>4, <1>6 DEF StoredIsLatest, LruTypeOK, HistoryTypeOK
<1>10. Bounded'
  BY <1>1, <1>2, <1>5 DEF Bounded
<1>11. OrderIsRecency'
  <2> SUFFICES ASSUME NEW a \in Keys, NEW b \in Keys, Ahead(storedKeys', a, b)
               PROVE  Ahead(recency', a, b)
    BY DEF OrderIsRecency
  <2>1. CASE Ahead(rest, a, b)
    <3>1. a # k /\ b # k
      BY <1>2, <1>3, <2>1, AheadInside
    <3>2. Ahead(recency, a, b)
      BY <1>2, <2>1 DEF OrderIsRecency
    <3> QED
      BY <1>6, <3>1, <3>2 DEF MovedBehind
  <2>2. CASE a \in ToSet(rest) /\ b = k
    BY <1>2, <1>3, <1>6, <2>2 DEF SameKeys, StoredIsLatest, MovedBehind
  <2> QED
    BY <1>5, <2>1, <2>2
<1> QED
  BY <1>7, <1>8, <1>9, <1>10, <1>11

\* aclose empties the store, and keeps the history.
LEMMA ClearPreserves ==
  ASSUME HistoryInvariant, Clear, UNCHANGED <<latest, due, recency>>
  PROVE  HistoryInvariant'
<1> USE DEF HistoryInvariant, StoreConsistent, Clear
<1>1. LruTypeOK' /\ HistoryTypeOK'
  BY DEF LruTypeOK, HistoryTypeOK, NoEntry
<1>2. SameKeys' /\ StoredIsLatest'
  BY DEF SameKeys, StoredIsLatest, ToSet
<1>3. Bounded' /\ OrderIsRecency'
  BY MaxSizeAssumption DEF Bounded, IsInjective, OrderIsRecency, Ahead
<1> QED
  BY <1>1, <1>2, <1>3

\* Time takes a tick from every entry and from its history alike.
LEMMA PassPreserves ==
  ASSUME HistoryInvariant, Pass
  PROVE  HistoryInvariant'
<1> USE DEF HistoryInvariant, StoreConsistent, Pass, Age, Expired, NoEntry
<1>1. LruTypeOK' /\ HistoryTypeOK'
  BY DEF LruTypeOK, HistoryTypeOK
<1>2. SameKeys' /\ StoredIsLatest'
  BY DEF SameKeys, StoredIsLatest, LruTypeOK, HistoryTypeOK
<1>3. Bounded' /\ OrderIsRecency'
  BY DEF Bounded, OrderIsRecency
<1> QED
  BY <1>1, <1>2, <1>3

\* Every operation preserves the inductive invariant.
LEMMA HistoryPreserved == HistoryInvariant /\ [Next]_vars => HistoryInvariant'
<1> SUFFICES ASSUME HistoryInvariant, [Next]_vars PROVE HistoryInvariant'
  OBVIOUS
<1>1. ASSUME NEW k \in Keys, Lookup(k) PROVE HistoryInvariant'
  <2>1. CASE GetExpired(k)
    BY <1>1, <2>1, ExpiryPreserves DEF Lookup, GetExpired, Hits
  <2>2. CASE GetMiss(k)
    <3>1. answer' = NoValue /\ UNCHANGED <<storedKeys, value, left, latest, due, recency>>
      BY <1>1, <2>2 DEF Lookup, GetMiss, Hits
    <3> QED
      BY <3>1 DEF HistoryInvariant, StoreConsistent, LruTypeOK, SameKeys, Bounded,
                  OrderIsRecency, HistoryTypeOK, StoredIsLatest
  <2>3. CASE GetHit(k)
    BY <1>1, <2>3, HitPreserves DEF Lookup, GetHit
  <2> QED
    BY <1>1, <2>1, <2>2, <2>3 DEF Lookup, Get
<1>2. ASSUME NEW k \in Keys, NEW v \in Values, NEW ttl \in Ttls, Store(k, v, ttl)
      PROVE  HistoryInvariant'
  BY <1>2, PutInPlacePreserves, PutEvictingPreserves DEF Store, Put
<1>3. CASE Clear /\ UNCHANGED <<latest, due, recency>>
  BY <1>3, ClearPreserves
<1>4. CASE Pass
  BY <1>4, PassPreserves
<1>5. CASE UNCHANGED vars
  BY <1>5 DEF vars, lruVars, HistoryInvariant, StoreConsistent, LruTypeOK, SameKeys, Bounded,
              OrderIsRecency, HistoryTypeOK, StoredIsLatest
<1> QED
  BY <1>1, <1>2, <1>3, <1>4, <1>5 DEF Next

-----------------------------------------------------------------------------

\* The store and its history stay in step.
THEOREM HistoryInvariance == Spec => []HistoryInvariant
BY HistoryInit, HistoryPreserved, PTL DEF Spec

\* For every bound, set of keys and set of responses: through every mixture of
\* hits, misses, expiries and evictions, the order, the values and the expiries
\* have the same keys, at most MaxSize of them, in the order of their last use.
THEOREM StoreStaysConsistent == Spec => []StoreConsistent
BY HistoryInvariance, PTL DEF HistoryInvariant

\* An eviction takes the key whose last use is the oldest of all keys stored.
THEOREM EvictionIsLRU == Spec => EvictsLeastRecentlyUsed
<1> DEFINE Evicted(k, j) == /\ Len(storedKeys') >= Len(storedKeys)
                            /\ value[k] # NoValue /\ value'[k] = NoValue
                            /\ value[j] # NoValue /\ j # k
           A == \A k, j \in Keys : Evicted(k, j) => Ahead(recency, k, j)
<1>1. HistoryInvariant /\ [Next]_vars => [A]_vars
  <2> SUFFICES ASSUME HistoryInvariant, Next, NEW k \in Keys, NEW j \in Keys, Evicted(k, j)
               PROVE  Ahead(recency, k, j)
    OBVIOUS
  <2> USE DEF HistoryInvariant, StoreConsistent
  <2>1. storedKeys \in Seq(Keys) /\ IsInjective(storedKeys) /\ k \in ToSet(storedKeys) /\ j \in ToSet(storedKeys)
    BY DEF LruTypeOK, Bounded, SameKeys
  <2>2. ASSUME NEW i \in Keys, Lookup(i) PROVE FALSE
    <3>1. GetExpired(i) /\ i = k
      BY <2>2 DEF Lookup, Get, GetExpired, GetMiss, GetHit, LruTypeOK
    <3>2. Len(storedKeys') = Len(storedKeys) - 1
      BY <2>1, <3>1, WithoutProperties DEF GetExpired
    <3> QED
      BY <2>1, <3>2
  <2>3. ASSUME NEW i \in Keys, NEW v \in Values, NEW ttl \in Ttls, Store(i, v, ttl)
        PROVE  Ahead(storedKeys, k, j)
    <3>1. PutEvicting(i, v, ttl) /\ k = Head(storedKeys)
      BY <2>3, NoValueAssumption DEF Store, Put, PutInPlace, PutEvicting, LruTypeOK
    <3>2. storedKeys # << >>
      BY <2>1, ToSetIsRange
    <3> QED
      BY <2>1, <3>1, <3>2, TailProperties
  <2>4. ~Clear
    BY <2>1, ToSetIsRange DEF Clear
  <2>5. ~Pass
    BY DEF Pass, Age
  <2> QED
    BY <2>2, <2>3, <2>4, <2>5 DEF Next, OrderIsRecency
<1>2. [][A]_vars => EvictsLeastRecentlyUsed
  BY PTL DEF EvictsLeastRecentlyUsed
<1> QED
  BY <1>1, <1>2, HistoryInvariance, PTL DEF Spec

\* The cache implements the forgetful one: a lookup misses, or answers with
\* the response last stored under its key, within its time to live.
THEOREM Implementation == Spec => ForgetsButNeverLies
<1> USE DEF Expired
<1>1. Init => Abstract!AbstractInit
  BY DEF Init, LruInit, Abstract!AbstractInit
<1>2. HistoryInvariant /\ [Next]_vars => [Abstract!AbstractNext]_(Abstract!abstractVars)
  <2> SUFFICES ASSUME HistoryInvariant, [Next]_vars
               PROVE  Abstract!AbstractNext \/ UNCHANGED <<latest, due, answer>>
    BY DEF Abstract!abstractVars
  <2>1. ASSUME NEW k \in Keys, Lookup(k) PROVE Abstract!Lookup(k)
    BY <2>1 DEF Lookup, Get, GetExpired, GetMiss, GetHit, Hits, Abstract!Lookup,
                HistoryInvariant, StoredIsLatest
  <2>2. ASSUME NEW k \in Keys, NEW v \in Values, NEW ttl \in Ttls, Store(k, v, ttl)
        PROVE  Abstract!Store(k, v, ttl)
    BY <2>2 DEF Store, Put, Abstract!Store
  <2>3. CASE Clear /\ UNCHANGED <<latest, due, recency>>
    BY <2>3 DEF Clear
  <2>4. CASE Pass
    BY <2>4 DEF Pass, Age, Abstract!Pass, Abstract!AbstractNext
  <2>5. CASE UNCHANGED vars
    BY <2>5 DEF vars, lruVars
  <2> QED
    BY <2>1, <2>2, <2>3, <2>4, <2>5 DEF Next, Abstract!AbstractNext
<1> QED
  BY <1>1, <1>2, HistoryInvariance, PTL DEF Spec, ForgetsButNeverLies, Abstract!AbstractSpec

-----------------------------------------------------------------------------
(* The operations of the memory cache, as the tiered cache sees them. *)

LruInvariant == LruTypeOK /\ SameKeys /\ Bounded

\* The step drops what is stored under a key, or leaves it with its expiry.
DropsOrKeeps(k) ==
  \/ value'[k] = NoValue
  \/ value'[k] = value[k] /\ left'[k] = left[k]

\* A lookup changes nothing but the order, and drops what has expired.
LEMMA GetKeeps ==
  ASSUME LruInvariant, NEW k \in Keys, Get(k)
  PROVE  LruInvariant' /\ \A j \in Keys : DropsOrKeeps(j)
<1> USE DEF LruInvariant
<1>1. storedKeys \in Seq(Keys) /\ IsInjective(storedKeys)
  BY DEF LruTypeOK, Bounded
<1>2. CASE GetExpired(k)
  <2>1. /\ storedKeys' \in Seq(Keys) /\ Len(storedKeys') <= Len(storedKeys)
        /\ IsInjective(storedKeys') /\ ToSet(storedKeys') = ToSet(storedKeys) \ {k}
    BY <1>1, <1>2, WithoutProperties DEF GetExpired
  <2>2. LruTypeOK'
    BY <1>2, <2>1 DEF LruTypeOK, GetExpired, NoEntry
  <2>3. SameKeys'
    BY <1>2, <2>1 DEF SameKeys, GetExpired, LruTypeOK
  <2>4. Bounded'
    BY <1>1, <2>1, MaxSizeAssumption DEF Bounded
  <2>5. \A j \in Keys : DropsOrKeeps(j)
    BY <1>2 DEF DropsOrKeeps, GetExpired, LruTypeOK
  <2> QED
    BY <2>2, <2>3, <2>4, <2>5
<1>3. CASE GetMiss(k)
  BY <1>3, NoValueAssumption DEF GetMiss, LruTypeOK, SameKeys, Bounded, DropsOrKeeps
<1>4. CASE GetHit(k)
  <2>1. value[k] # NoValue /\ k \in ToSet(storedKeys) /\ UNCHANGED <<value, left>> /\ MoveToEnd(k)
    BY <1>4 DEF GetHit, Hits, SameKeys
  <2>2. /\ storedKeys' \in Seq(Keys) /\ Len(storedKeys') = Len(storedKeys)
        /\ IsInjective(storedKeys') /\ ToSet(storedKeys') = ToSet(storedKeys)
    BY <1>1, <2>1, MoveToEndProperties
  <2>3. LruTypeOK'
    BY <1>4, <2>1, <2>2 DEF LruTypeOK, GetHit
  <2>4. SameKeys' /\ Bounded'
    BY <2>1, <2>2 DEF SameKeys, Bounded
  <2>5. \A j \in Keys : DropsOrKeeps(j)
    BY <2>1 DEF DropsOrKeeps
  <2> QED
    BY <2>3, <2>4, <2>5
<1> QED
  BY <1>2, <1>3, <1>4 DEF Get

\* A response is stored, and of the others at most one is dropped.
LEMMA PutKeeps ==
  ASSUME LruInvariant, NEW k \in Keys, NEW v \in Values, NEW ttl \in Ttls, Put(k, v, ttl)
  PROVE  /\ LruInvariant' /\ value'[k] = v /\ left'[k] = ttl
         /\ \A j \in Keys \ {k} : DropsOrKeeps(j)
<1> USE DEF LruInvariant
<1>1. /\ storedKeys \in Seq(Keys) /\ IsInjective(storedKeys) /\ Len(storedKeys) <= MaxSize
      /\ v # NoValue /\ ttl \in Nat /\ UNCHANGED answer
  BY NoValueAssumption, TtlsAssumption DEF LruTypeOK, Bounded, Put
<1>2. CASE PutInPlace(k, v, ttl)
  <2>1. /\ storedKeys' \in Seq(Keys)
        /\ Len(storedKeys') = IF k \in ToSet(storedKeys) THEN Len(storedKeys) ELSE Len(storedKeys) + 1
        /\ IsInjective(storedKeys') /\ ToSet(storedKeys') = ToSet(storedKeys) \cup {k}
    BY <1>1, <1>2, MoveToEndProperties DEF PutInPlace
  <2>2. value' = [value EXCEPT ![k] = v] /\ left' = [left EXCEPT ![k] = ttl]
    BY <1>2 DEF PutInPlace
  <2>3. LruTypeOK'
    BY <1>1, <2>1, <2>2 DEF LruTypeOK
  <2>4. SameKeys'
    BY <1>1, <2>1, <2>2 DEF SameKeys, LruTypeOK, NoEntry
  <2>5. Bounded'
    BY <1>1, <1>2, <2>1, MaxSizeAssumption DEF Bounded, PutInPlace, SameKeys
  <2>6. value'[k] = v /\ left'[k] = ttl /\ \A j \in Keys \ {k} : DropsOrKeeps(j)
    BY <2>2 DEF DropsOrKeeps, LruTypeOK
  <2> QED
    BY <2>3, <2>4, <2>5, <2>6
<1>3. CASE PutEvicting(k, v, ttl)
  <2> DEFINE oldest == Head(storedKeys)
             rest == Tail(storedKeys)
  <2>1. value[k] = NoValue /\ Len(storedKeys) = MaxSize /\ storedKeys # << >>
    BY <1>1, <1>3, MaxSizeAssumption DEF PutEvicting
  <2>2. /\ rest \in Seq(Keys) /\ Len(rest) = Len(storedKeys) - 1 /\ IsInjective(rest)
        /\ oldest \in Keys /\ oldest \in ToSet(storedKeys) /\ ToSet(rest) = ToSet(storedKeys) \ {oldest}
    BY <1>1, <2>1, TailProperties
  <2>3. k \notin ToSet(storedKeys) /\ k \notin ToSet(rest) /\ k # oldest
    BY <2>1, <2>2 DEF SameKeys
  <2>4. /\ storedKeys' = Append(rest, k)
        /\ value' = [value EXCEPT ![oldest] = NoValue, ![k] = v]
        /\ left' = [left EXCEPT ![oldest] = NoEntry, ![k] = ttl]
    BY <1>3 DEF PutEvicting
  <2> HIDE DEF oldest, rest
  <2>5. /\ storedKeys' \in Seq(Keys) /\ Len(storedKeys') = Len(rest) + 1 /\ IsInjective(storedKeys')
        /\ ToSet(storedKeys') = ToSet(rest) \cup {k}
    BY <2>2, <2>3, <2>4, NewLastProperties
  <2>6. LruTypeOK'
    BY <1>1, <2>2, <2>4, <2>5 DEF LruTypeOK, NoEntry
  <2>7. SameKeys'
    BY <1>1, <2>2, <2>3, <2>4, <2>5 DEF SameKeys, LruTypeOK, NoEntry
  <2>8. Bounded'
    BY <1>1, <2>2, <2>5 DEF Bounded
  <2>9. value'[k] = v /\ left'[k] = ttl /\ \A j \in Keys \ {k} : DropsOrKeeps(j)
    BY <2>2, <2>3, <2>4 DEF DropsOrKeeps, LruTypeOK
  <2> QED
    BY <2>6, <2>7, <2>8, <2>9
<1> QED
  BY <1>2, <1>3 DEF Put

\* Clearing drops everything, time drops nothing.
LEMMA ClearAndAgeKeep ==
  ASSUME LruInvariant
  PROVE  /\ Clear => LruInvariant' /\ \A k \in Keys : DropsOrKeeps(k)
         /\ Age => LruInvariant'
<1>1. ASSUME Clear PROVE LruInvariant' /\ \A k \in Keys : DropsOrKeeps(k)
  <2>1. LruTypeOK'
    BY <1>1 DEF LruInvariant, LruTypeOK, Clear, NoEntry
  <2>2. SameKeys'
    BY <1>1 DEF Clear, SameKeys, ToSet
  <2>3. Bounded'
    BY <1>1, MaxSizeAssumption DEF Clear, Bounded, IsInjective
  <2>4. \A k \in Keys : DropsOrKeeps(k)
    BY <1>1 DEF Clear, DropsOrKeeps
  <2> QED
    BY <2>1, <2>2, <2>3, <2>4 DEF LruInvariant
<1>2. ASSUME Age PROVE LruInvariant'
  BY <1>2 DEF LruInvariant, Age, LruTypeOK, SameKeys, Bounded, Expired, NoEntry
<1> QED
  BY <1>1, <1>2

-----------------------------------------------------------------------------
(* The two tiers. *)

\* A response is somewhere under a key: in a tier, or on its way to or from one.
Holds(v, k) ==
  \/ value[k] = v
  \/ redis[k] = v
  \/ \E t \in Tasks : pc[t] \in {"answered", "setting"} /\ held[t] = v /\ key[t] = k

\* Each response has one key.  Those not stored yet are nowhere, and as new as
\* they will be when they are.
OneKeyEach ==
  \A v \in Values :
    /\ \A j, k \in Keys : Holds(v, j) /\ Holds(v, k) => j = k
    /\ \A k \in Keys : Holds(v, k) => v <= stores
    /\ v > stores => age[v] = 0

\* The age of a response in memory, with the time left for it.
MemoryInTime ==
  \A k \in Keys : value[k] # NoValue /\ left[k] >= 0 => age[value[k]] + left[k] < StaleAt

\* It is younger in Redis, where nothing is written back to.
RedisInTime ==
  \A k \in Keys : redis[k] # NoValue => redisLeft[k] > 0 /\ age[redis[k]] + redisLeft[k] <= RedisTtl + longest

\* On its way it gets older by the round trip.
TripsInTime ==
  \A t \in Tasks :
    /\ waited[t] <= longest
    /\ pc[t] = "setting" => held[t] # NoValue /\ age[held[t]] <= waited[t]
    /\ pc[t] = "answered" /\ held[t] # NoValue => age[held[t]] < RedisTtl + longest + waited[t]

TiersInvariant ==
  LruInvariant /\ TypeOK /\ OneKeyEach /\ MemoryInTime /\ RedisInTime /\ TripsInTime

\* The bounds are naturals.
LEMMA TiersBounds ==
  /\ MemoryTtl \in Nat \ {0} /\ RedisTtl \in Nat \ {0} /\ Delay \in Nat /\ MaxStores \in Nat
  /\ MaxAge = MemoryTtl + RedisTtl + 2 * Delay /\ StaleAt = MemoryTtl + RedisTtl + 2 * longest
BY TtlAssumption, TtlsAssumption, DelayAssumption DEF MaxAge, StaleAt

\* Longer round trips never lower a bound.
LEMMA BoundGrows ==
  ASSUME NEW a \in Nat, NEW b \in Nat, NEW m \in Nat, NEW n \in Nat, m <= n
  PROVE  a + b + 2 * m \in Nat /\ a + b + 2 * n \in Nat /\ a + b + 2 * m <= a + b + 2 * n
OBVIOUS

\* Nothing new anywhere: each response keeps its key, or is gone.
LEMMA KeysKept ==
  ASSUME OneKeyEach, UNCHANGED <<longest, stores, age>>,
         \A v \in Values, k \in Keys : Holds(v, k)' => Holds(v, k)
  PROVE  OneKeyEach'
BY DEF OneKeyEach

\* What a step drops in memory or leaves alone is in time.
LEMMA MemoryKept ==
  ASSUME MemoryInTime, UNCHANGED <<longest, age>>, NEW S \in SUBSET Keys, \A k \in S : DropsOrKeeps(k)
  PROVE  \A k \in S : value'[k] # NoValue /\ left'[k] >= 0 => age'[value'[k]] + left'[k] < StaleAt'
BY DEF MemoryInTime, DropsOrKeeps, StaleAt

\* A lookup that hits ends, one that misses asks Redis.
LEMMA LookUpKeeps ==
  ASSUME TiersInvariant, NEW t \in Tasks, NEW k \in Keys, LookUp(t, k)
  PROVE  TiersInvariant'
<1> USE DEF TiersInvariant
<1>1. LruInvariant' /\ \A j \in Keys : DropsOrKeeps(j)
  BY GetKeeps DEF LookUp
<1>2. /\ UNCHANGED <<redis, redisLeft, held, longest, stores, age>>
      /\ \/ UNCHANGED <<pc, key, waited>>
         \/ /\ pc[t] = "idle" /\ pc' = [pc EXCEPT ![t] = "asking"]
            /\ key' = [key EXCEPT ![t] = k] /\ waited' = [waited EXCEPT ![t] = 0]
  BY DEF LookUp, GoTo
<1>3. TypeOK'
  BY <1>1, <1>2, TiersBounds DEF TypeOK, LruInvariant, MaxAge
<1>4. \A u \in Tasks : pc'[u] \in {"answered", "setting"} =>
        pc'[u] = pc[u] /\ key'[u] = key[u] /\ held'[u] = held[u] /\ waited'[u] = waited[u]
  BY <1>2 DEF TypeOK
<1>5. \A v \in Values, j \in Keys : Holds(v, j)' => Holds(v, j)
  BY <1>1, <1>2, <1>4, NoValueAssumption DEF Holds, DropsOrKeeps
<1>6. OneKeyEach'
  BY <1>2, <1>5, KeysKept
<1>7. MemoryInTime'
  BY <1>1, <1>2, MemoryKept DEF MemoryInTime
<1>8. RedisInTime'
  BY <1>2 DEF RedisInTime
<1>9. \A u \in Tasks : waited'[u] <= longest
  BY <1>2, TiersBounds DEF TypeOK, TripsInTime
<1>10. TripsInTime'
  BY <1>2, <1>4, <1>9 DEF TripsInTime
<1> QED
  BY <1>1, <1>3, <1>6, <1>7, <1>8, <1>10

\* Redis answers with what it has under the key, or the round trip fails.
LEMMA RedisGetKeeps ==
  ASSUME TiersInvariant, NEW t \in Tasks, RedisGet(t)
  PROVE  TiersInvariant'
<1> USE DEF TiersInvariant
<1>1. PICK v \in {NoValue, redis[key[t]]} : held' = [held EXCEPT ![t] = v]
  BY DEF RedisGet
<1>2. /\ pc[t] = "asking" /\ pc' = [pc EXCEPT ![t] = "answered"]
      /\ UNCHANGED <<lruVars, redis, redisLeft, key, waited, longest, stores, age>>
  BY DEF RedisGet, GoTo
<1>3. LruInvariant'
  BY <1>2 DEF LruInvariant, LruTypeOK, SameKeys, Bounded, lruVars
<1>4. key[t] \in Keys /\ v \in Values \cup {NoValue}
  BY <1>1 DEF TypeOK
<1>5. TypeOK'
  BY <1>1, <1>2, <1>3, <1>4 DEF TypeOK, LruInvariant, MaxAge
<1>6. \A u \in Tasks \ {t} : pc'[u] = pc[u] /\ held'[u] = held[u]
  BY <1>1, <1>2 DEF TypeOK
<1>7. pc'[t] = "answered" /\ held'[t] = v
  BY <1>1, <1>2 DEF TypeOK
<1>8. \A w \in Values, j \in Keys : Holds(w, j)' => Holds(w, j)
  BY <1>1, <1>2, <1>6, <1>7, NoValueAssumption DEF Holds, lruVars
<1>9. OneKeyEach'
  BY <1>2, <1>8, KeysKept
<1>10. MemoryInTime' /\ RedisInTime'
  BY <1>2 DEF MemoryInTime, RedisInTime, lruVars, StaleAt
<1>11. v # NoValue => age[v] < RedisTtl + longest + waited[t]
  <2>1. ASSUME v # NoValue PROVE redisLeft[key[t]] > 0 /\ age[v] + redisLeft[key[t]] <= RedisTtl + longest
    BY <1>1, <1>4, <2>1 DEF RedisInTime
  <2>2. ASSUME v # NoValue PROVE age[v] \in Nat
    BY <1>4, <2>2 DEF TypeOK
  <2>3. redisLeft[key[t]] \in Nat /\ waited[t] \in Nat /\ longest \in Nat
    BY <1>4, TiersBounds DEF TypeOK
  <2> QED
    BY <2>1, <2>2, <2>3, TiersBounds
<1>12. TripsInTime'
  BY <1>2, <1>6, <1>7, <1>11 DEF TripsInTime
<1> QED
  BY <1>3, <1>5, <1>9, <1>10, <1>12

\* The reply is written back under its key, with a full time to live.
LEMMA ReadRepairKeeps ==
  ASSUME TiersInvariant, NEW t \in Tasks, ReadRepair(t)
  PROVE  TiersInvariant'
<1> USE DEF TiersInvariant
<1> DEFINE k == key[t]
           v == held[t]
<1>1. /\ pc[t] = "answered" /\ pc' = [pc EXCEPT ![t] = "idle"]
      /\ UNCHANGED <<redis, redisLeft, key, held, waited, longest, stores, age>>
      /\ IF v # NoValue THEN Put(k, v, MemoryTtl) ELSE UNCHANGED lruVars
  BY DEF ReadRepair, GoTo
<1>2. k \in Keys /\ v \in Values \cup {NoValue} /\ waited[t] \in 0..Delay
  BY DEF TypeOK
<1>3. /\ \A u \in Tasks \ {t} : pc'[u] = pc[u]
      /\ pc'[t] = "idle"
  BY <1>1 DEF TypeOK
<1>4. v # NoValue => age[v] \in Nat /\ age[v] + MemoryTtl < StaleAt
  <2>1. v # NoValue => age[v] \in Nat /\ age[v] < RedisTtl + longest + waited[t]
    BY <1>1, <1>2 DEF TypeOK, TripsInTime
  <2>2. waited[t] <= longest /\ longest \in Nat
    BY TiersBounds DEF TypeOK, TripsInTime
  <2> QED
    BY <1>2, <2>1, <2>2, TiersBounds
<1>5. Holds(v, k)
  BY <1>1 DEF Holds
<1> HIDE DEF k, v
<1>6. /\ LruInvariant' /\ \A j \in Keys \ {k} : DropsOrKeeps(j)
      /\ v # NoValue => value'[k] = v /\ left'[k] = MemoryTtl
      /\ v = NoValue => UNCHANGED <<value, left>>
  <2>1. CASE v # NoValue
    <3>1. v \in Values /\ MemoryTtl \in Ttls /\ Put(k, v, MemoryTtl)
      BY <1>1, <1>2, <2>1, TtlAssumption
    <3> QED
      BY <1>2, <2>1, <3>1, PutKeeps
  <2>2. CASE v = NoValue
    <3>1. UNCHANGED lruVars
      BY <1>1, <2>2
    <3> QED
      BY <2>2, <3>1 DEF LruInvariant, LruTypeOK, SameKeys, Bounded, lruVars, DropsOrKeeps
  <2> QED
    BY <2>1, <2>2
<1>7. TypeOK'
  BY <1>1, <1>6 DEF TypeOK, LruInvariant, MaxAge
<1>8. \A w \in Values, j \in Keys : Holds(w, j)' => Holds(w, j)
  <2>1. \A j \in Keys : value'[j] \in {NoValue, value[j]} \/ (j = k /\ value'[j] = v)
    BY <1>6 DEF DropsOrKeeps
  <2> QED
    BY <1>1, <1>3, <1>5, <2>1, NoValueAssumption DEF Holds
<1>9. OneKeyEach'
  BY <1>1, <1>8, KeysKept
<1>10. MemoryInTime'
  <2>1. \A j \in Keys \ {k} : value'[j] # NoValue /\ left'[j] >= 0 => age'[value'[j]] + left'[j] < StaleAt'
    BY <1>1, <1>6, MemoryKept
  <2>2. value'[k] # NoValue /\ left'[k] >= 0 => age'[value'[k]] + left'[k] < StaleAt'
    BY <1>1, <1>2, <1>4, <1>6 DEF MemoryInTime, StaleAt
  <2> QED
    BY <2>1, <2>2 DEF MemoryInTime
<1>11. RedisInTime' /\ TripsInTime'
  BY <1>1, <1>3 DEF RedisInTime, TripsInTime
<1> QED
  BY <1>6, <1>7, <1>9, <1>10, <1>11

\* A response is new where it is stored, and is sent to Redis too.
LEMMA StoreBothKeeps ==
  ASSUME TiersInvariant, NEW t \in Tasks, NEW k \in Keys, StoreBoth(t, k)
  PROVE  TiersInvariant'
<1> USE DEF TiersInvariant
<1> DEFINE v == stores + 1
<1>1. /\ pc[t] = "idle" /\ pc' = [pc EXCEPT ![t] = "setting"] /\ Put(k, v, MemoryTtl)
      /\ key' = [key EXCEPT ![t] = k] /\ held' = [held EXCEPT ![t] = v]
      /\ waited' = [waited EXCEPT ![t] = 0]
      /\ stores < MaxStores /\ stores' = v
      /\ UNCHANGED <<redis, redisLeft, longest, age>>
  BY DEF StoreBoth, GoTo
<1>2. /\ v \in Values /\ v \in 0..MaxStores /\ v # NoValue /\ MemoryTtl \in Ttls
      /\ v > stores /\ stores \in Nat
  BY <1>1, TiersBounds, ValuesAssumption, NoValueAssumption, TtlAssumption DEF TypeOK
<1>3. \A w \in Values : w \in Nat
  BY ValuesAssumption
<1>4. age[v] = 0
  BY <1>2 DEF OneKeyEach
<1>5. \A w \in Values : w <= stores => w # v /\ w <= v
  BY <1>2, <1>3
<1>6. \A w \in Values : w > v => w > stores
  BY <1>2, <1>3
<1> HIDE DEF v
<1>7. LruInvariant' /\ value'[k] = v /\ left'[k] = MemoryTtl /\ \A j \in Keys \ {k} : DropsOrKeeps(j)
  BY <1>1, <1>2, PutKeeps
<1>8. /\ \A u \in Tasks \ {t} : pc'[u] = pc[u] /\ key'[u] = key[u] /\ held'[u] = held[u] /\ waited'[u] = waited[u]
      /\ pc'[t] = "setting" /\ key'[t] = k /\ held'[t] = v /\ waited'[t] = 0
  BY <1>1 DEF TypeOK
<1>9. TypeOK'
  BY <1>1, <1>2, <1>7, TiersBounds DEF TypeOK, LruInvariant, MaxAge
<1>10. OneKeyEach'
  <2>1. \A w \in Values, j \in Keys : Holds(w, j)' => Holds(w, j) \/ (w = v /\ j = k)
    BY <1>1, <1>2, <1>7, <1>8, NoValueAssumption DEF Holds, DropsOrKeeps
  <2>2. \A j \in Keys : ~ Holds(v, j)
    BY <1>2, <1>5 DEF OneKeyEach
  <2>3. ASSUME NEW w \in Values PROVE \A j, i \in Keys : Holds(w, j)' /\ Holds(w, i)' => j = i
    BY <2>1, <2>2 DEF OneKeyEach
  <2>4. ASSUME NEW w \in Values, NEW j \in Keys, Holds(w, j)' PROVE w <= v
    BY <1>2, <1>5, <2>1, <2>4 DEF OneKeyEach
  <2>5. ASSUME NEW w \in Values, w > v PROVE age[w] = 0
    BY <1>6, <2>5 DEF OneKeyEach
  <2> QED
    BY <1>1, <2>3, <2>4, <2>5 DEF OneKeyEach
<1>14. longest \in Nat
  BY DelayAssumption DEF TypeOK
<1>11. MemoryInTime'
  <2>1. \A j \in Keys \ {k} : value'[j] # NoValue /\ left'[j] >= 0 => age'[value'[j]] + left'[j] < StaleAt'
    BY <1>1, <1>7, MemoryKept
  <2>2. age'[value'[k]] + left'[k] < StaleAt'
    BY <1>1, <1>2, <1>4, <1>7, <1>14, TiersBounds DEF StaleAt
  <2> QED
    BY <2>1, <2>2 DEF MemoryInTime
<1>12. RedisInTime'
  BY <1>1 DEF RedisInTime
<1>13. TripsInTime'
  BY <1>1, <1>2, <1>4, <1>8, <1>14 DEF TripsInTime
<1> QED
  BY <1>7, <1>9, <1>10, <1>11, <1>12, <1>13

\* Redis stores the response for its time to live, or the write is lost.
LEMMA RedisSetKeeps ==
  ASSUME TiersInvariant, NEW t \in Tasks, RedisSet(t)
  PROVE  TiersInvariant'
<1> USE DEF TiersInvariant
<1>1. /\ pc[t] = "setting" /\ pc' = [pc EXCEPT ![t] = "idle"]
      /\ UNCHANGED <<lruVars, key, held, waited, longest, stores, age>>
      /\ \/ /\ redis' = [redis EXCEPT ![key[t]] = held[t]]
            /\ redisLeft' = [redisLeft EXCEPT ![key[t]] = RedisTtl]
         \/ UNCHANGED <<redis, redisLeft>>
  BY DEF RedisSet, GoTo
<1>2. /\ key[t] \in Keys /\ held[t] \in Values /\ waited[t] \in 0..Delay
      /\ age[held[t]] \in Nat /\ age[held[t]] <= waited[t]
      /\ waited[t] <= longest /\ longest \in Nat
  BY <1>1, TiersBounds DEF TypeOK, TripsInTime
<1>3. pc'[t] = "idle" /\ \A u \in Tasks \ {t} : pc'[u] = pc[u]
  BY <1>1 DEF TypeOK
<1>4. LruInvariant'
  BY <1>1 DEF LruInvariant, LruTypeOK, SameKeys, Bounded, lruVars
<1>5. TypeOK'
  BY <1>1, <1>2, <1>4, TiersBounds DEF TypeOK, LruInvariant, MaxAge
<1>6. \A j \in Keys : \/ redis'[j] = redis[j] /\ redisLeft'[j] = redisLeft[j]
                      \/ j = key[t] /\ redis'[j] = held[t] /\ redisLeft'[j] = RedisTtl
  BY <1>1, <1>2 DEF TypeOK
<1>7. \A w \in Values, j \in Keys : Holds(w, j)' => Holds(w, j)
  BY <1>1, <1>3, <1>6 DEF Holds, lruVars
<1>8. OneKeyEach'
  BY <1>1, <1>7, KeysKept
<1>9. MemoryInTime'
  BY <1>1 DEF MemoryInTime, lruVars, StaleAt
<1>10. RedisInTime'
  <2>1. RedisTtl > 0 /\ age[held[t]] + RedisTtl <= RedisTtl + longest
    BY <1>2, TiersBounds
  <2> QED
    BY <1>1, <1>6, <2>1 DEF RedisInTime
<1>11. TripsInTime'
  BY <1>1, <1>3 DEF TripsInTime
<1> QED
  BY <1>4, <1>5, <1>8, <1>9, <1>10, <1>11

\* Closing drops what is in memory, and no more.
LEMMA CloseKeeps ==
  ASSUME TiersInvariant, Close
  PROVE  TiersInvariant'
<1> USE DEF TiersInvariant
<1>1. LruInvariant' /\ \A j \in Keys : DropsOrKeeps(j)
  BY ClearAndAgeKeep DEF Close
<1>2. UNCHANGED <<redis, redisLeft, pc, key, held, waited, longest, stores, age>>
  BY DEF Close, tiered
<1>3. TypeOK'
  BY <1>1, <1>2 DEF TypeOK, LruInvariant, MaxAge
<1>4. \A v \in Values, j \in Keys : Holds(v, j)' => Holds(v, j)
  BY <1>1, <1>2, NoValueAssumption DEF Holds, DropsOrKeeps
<1>5. OneKeyEach'
  BY <1>2, <1>4, KeysKept
<1>6. MemoryInTime'
  BY <1>1, <1>2, MemoryKept DEF MemoryInTime
<1>7. RedisInTime' /\ TripsInTime'
  BY <1>2 DEF RedisInTime, TripsInTime
<1> QED
  BY <1>1, <1>3, <1>5, <1>6, <1>7

\* What is a tick older has a tick less left, or has made a tick of its trip.
LEMMA TickKeeps ==
  ASSUME TiersInvariant, Tick
  PROVE  TiersInvariant'
<1> USE DEF TiersInvariant
<1>1. /\ Age /\ UNCHANGED <<pc, key, held, stores>>
      /\ \A t \in Tasks : pc[t] # "idle" => waited[t] < Delay
      /\ redisLeft' = [k \in Keys |-> IF redisLeft[k] > 0 THEN redisLeft[k] - 1 ELSE 0]
      /\ redis' = [k \in Keys |-> IF redisLeft[k] <= 1 THEN NoValue ELSE redis[k]]
      /\ waited' = [t \in Tasks |-> IF pc[t] # "idle" THEN waited[t] + 1 ELSE 0]
      /\ longest' = IF \E t \in Tasks : waited'[t] > longest THEN longest + 1 ELSE longest
      /\ age' = [v \in Values |-> IF v <= stores /\ age[v] <= MaxAge THEN age[v] + 1 ELSE age[v]]
  BY DEF Tick
<1>2. LruInvariant'
  BY <1>1, ClearAndAgeKeep
<1>3. MaxAge \in Nat /\ longest \in 0..Delay /\ \A t \in Tasks : waited[t] \in 0..Delay /\ waited[t] <= longest
  BY TiersBounds DEF TypeOK, TripsInTime
<1>10. /\ longest' \in 0..Delay /\ longest <= longest' /\ longest' \in Nat
       /\ \A t \in Tasks : waited'[t] <= longest'
  <2>1. \A t \in Tasks : waited'[t] \in 0..Delay /\ waited'[t] <= longest + 1
    BY <1>1, <1>3, TiersBounds
  <2>2. CASE \E t \in Tasks : waited'[t] > longest
    <3>1. PICK t \in Tasks : waited'[t] > longest
      BY <2>2
    <3>2. waited'[t] = longest + 1 /\ longest' = longest + 1
      BY <1>1, <1>3, <2>1, <3>1
    <3> QED
      BY <1>3, <2>1, <3>2, TiersBounds
  <2>3. CASE ~ \E t \in Tasks : waited'[t] > longest
    <3>1. longest' = longest
      BY <1>1, <2>3
    <3> QED
      BY <1>3, <2>1, <2>3, <3>1, TiersBounds
  <2> QED
    BY <2>2, <2>3
<1>11. StaleAt \in Nat /\ StaleAt' \in Nat /\ StaleAt <= StaleAt'
  <2>1. StaleAt = MemoryTtl + RedisTtl + 2 * longest /\ StaleAt' = MemoryTtl + RedisTtl + 2 * longest'
    BY DEF StaleAt
  <2>2. MemoryTtl \in Nat /\ RedisTtl \in Nat /\ longest \in Nat
    BY <1>3, TiersBounds
  <2>3. longest' \in Nat /\ longest <= longest'
    BY <1>10
  <2> QED
    BY <2>1, <2>2, <2>3, BoundGrows, ZenonT(30)
<1>4. \A v \in Values : /\ age[v] \in 0..(MaxAge + 1) /\ age'[v] \in 0..(MaxAge + 1)
                        /\ age'[v] <= age[v] + 1 /\ (v > stores => age'[v] = age[v])
  <2> SUFFICES ASSUME NEW v \in Values
               PROVE  /\ age[v] \in 0..(MaxAge + 1) /\ age'[v] \in 0..(MaxAge + 1)
                      /\ age'[v] <= age[v] + 1 /\ (v > stores => age'[v] = age[v])
    OBVIOUS
  <2>1. age[v] \in 0..(MaxAge + 1) /\ v \in Nat /\ stores \in Nat
    BY ValuesAssumption DEF TypeOK
  <2>2. age'[v] = IF v <= stores /\ age[v] <= MaxAge THEN age[v] + 1 ELSE age[v]
    BY <1>1
  <2> QED
    BY <1>3, <2>1, <2>2
<1>5. TypeOK'
  <2>1. redisLeft' \in [Keys -> 0..RedisTtl] /\ redis' \in [Keys -> Values \cup {NoValue}]
    BY <1>1, TiersBounds DEF TypeOK
  <2>2. waited' \in [Tasks -> 0..Delay]
    BY <1>1, <1>3, TiersBounds
  <2>3. age' \in [Values -> 0..(MaxAge + 1)]
    BY <1>1, <1>4
  <2> QED
    BY <1>1, <1>2, <1>10, <2>1, <2>2, <2>3 DEF TypeOK, LruInvariant, MaxAge
<1>6. OneKeyEach'
  <2>1. \A v \in Values, j \in Keys : Holds(v, j)' => Holds(v, j)
    BY <1>1, NoValueAssumption DEF Holds, Age
  <2>2. \A v \in Values : v > stores => age'[v] = 0
    BY <1>4 DEF OneKeyEach
  <2> QED
    BY <1>1, <2>1, <2>2 DEF OneKeyEach
<1>7. MemoryInTime'
  <2> SUFFICES ASSUME NEW k \in Keys, value'[k] # NoValue, left'[k] >= 0
               PROVE  age'[value'[k]] + left'[k] < StaleAt'
    BY DEF MemoryInTime
  <2>1. value'[k] = value[k] /\ value[k] \in Values
    BY <1>1 DEF Age, TypeOK, LruTypeOK
  <2>2. left[k] >= 0 /\ left'[k] = left[k] - 1 /\ left[k] \in Nat
    <3>1. left[k] \in Nat \cup {-1, -2} /\ left'[k] = IF left[k] < 0 THEN left[k] ELSE left[k] - 1
      BY <1>1 DEF Age, TypeOK, LruTypeOK, Expired, NoEntry
    <3> QED
      BY <3>1
  <2>3. age[value[k]] + left[k] < StaleAt
    BY <2>1, <2>2 DEF MemoryInTime
  <2> QED
    BY <1>3, <1>4, <1>11, <2>1, <2>2, <2>3
<1>8. RedisInTime'
  <2> SUFFICES ASSUME NEW k \in Keys, redis'[k] # NoValue
               PROVE  redisLeft'[k] > 0 /\ age'[redis'[k]] + redisLeft'[k] <= RedisTtl + longest'
    BY DEF RedisInTime
  <2>1. redisLeft[k] > 1 /\ redis'[k] = redis[k] /\ redisLeft[k] \in Nat
    BY <1>1, TiersBounds DEF TypeOK
  <2>2. redisLeft'[k] = redisLeft[k] - 1 /\ redis[k] \in Values
    BY <1>1, <2>1 DEF TypeOK
  <2>3. age[redis[k]] + redisLeft[k] <= RedisTtl + longest
    BY <2>1, <2>2 DEF RedisInTime
  <2> QED
    BY <1>3, <1>4, <1>10, <2>1, <2>2, <2>3, TiersBounds
<1>9. TripsInTime'
  <2> SUFFICES ASSUME NEW t \in Tasks, pc[t] \in {"setting", "answered"}, held[t] # NoValue
               PROVE  /\ pc[t] = "setting" => age'[held[t]] <= waited'[t]
                      /\ pc[t] = "answered" => age'[held[t]] < RedisTtl + longest' + waited'[t]
    BY <1>1, <1>10 DEF TripsInTime
  <2>1. waited'[t] = waited[t] + 1 /\ held[t] \in Values
    BY <1>1 DEF TypeOK
  <2>2. /\ pc[t] = "setting" => age[held[t]] <= waited[t]
        /\ pc[t] = "answered" => age[held[t]] < RedisTtl + longest + waited[t]
    BY DEF TripsInTime
  <2> QED
    BY <1>3, <1>4, <1>10, <2>1, <2>2, TiersBounds
<1> QED
  BY <1>2, <1>5, <1>6, <1>7, <1>8, <1>9

\* Nothing is stored at first.
LEMMA TiersBegin == TieredInit => TiersInvariant
<1> SUFFICES ASSUME TieredInit PROVE TiersInvariant
  OBVIOUS
<1> USE DEF TieredInit, LruInit
<1>1. LruInvariant
  <2>1. << >> \in Seq(Keys)
    OBVIOUS
  <2> QED
    BY <2>1, MaxSizeAssumption DEF LruInvariant, LruTypeOK, SameKeys, Bounded, ToSet, IsInjective, NoEntry
<1>2. TypeOK
  BY <1>1, TiersBounds DEF LruInvariant, TypeOK
<1>3. OneKeyEach
  BY NoValueAssumption DEF OneKeyEach, Holds
<1>4. MemoryInTime /\ RedisInTime /\ TripsInTime
  BY DEF MemoryInTime, RedisInTime, TripsInTime
<1> QED
  BY <1>1, <1>2, <1>3, <1>4 DEF TiersInvariant

\* A step for each action.
LEMMA TiersGoOn == TiersInvariant /\ [TieredNext]_tieredVars => TiersInvariant'
<1> SUFFICES ASSUME TiersInvariant, [TieredNext]_tieredVars PROVE TiersInvariant'
  OBVIOUS
<1>1. ASSUME UNCHANGED tieredVars PROVE TiersInvariant'
  BY <1>1 DEF TiersInvariant, tieredVars, tiered, lruVars, LruInvariant, LruTypeOK, SameKeys, Bounded,
              TypeOK, OneKeyEach, Holds, MemoryInTime, RedisInTime, TripsInTime, MaxAge, StaleAt
<1> QED
  BY <1>1, LookUpKeeps, RedisGetKeeps, ReadRepairKeeps, StoreBothKeeps, RedisSetKeeps, CloseKeeps,
     TickKeeps DEF TieredNext

\* The inductive invariant of the two tiers: every response has one key, and
\* grows no older where it is than its place allows.
THEOREM TiersInvariance == TieredSpec => []TiersInvariant
BY TiersBegin, TiersGoOn, PTL DEF TieredSpec

\* For any number of requests, keys and stores, any time to live of each tier and
\* round trips of any length: no response comes up under the key of another, and
\* what a lookup can return was stored less than both times to live and two of the
\* longest round trips made so far ago.
THEOREM TiersStayInAgreement == TieredSpec => []TiersAgree
<1>1. TiersInvariant => TiersAgree
  <2> SUFFICES ASSUME TiersInvariant PROVE TiersAgree
    OBVIOUS
  <2> USE DEF TiersInvariant
  <2>1. NoCrossedKeys
    <3> SUFFICES ASSUME NEW j \in Keys, NEW k \in Keys, NEW v,
                        v \in {value[j], redis[j]} \cap {value[k], redis[k]}, v # NoValue
                 PROVE  j = k
      BY DEF NoCrossedKeys
    <3>1. v \in Values /\ Holds(v, j) /\ Holds(v, k)
      BY DEF TypeOK, LruTypeOK, Holds
    <3> QED
      BY <3>1 DEF OneKeyEach
  <2>2. ASSUME NEW k \in Keys, Hits(k) PROVE age[value[k]] < StaleAt
    <3>1. value[k] # NoValue /\ left[k] \in Nat /\ value[k] \in Values
      BY <2>2 DEF Hits, LruInvariant, SameKeys, TypeOK, LruTypeOK
    <3>2. age[value[k]] \in Nat /\ age[value[k]] + left[k] < StaleAt
      BY <3>1 DEF MemoryInTime, TypeOK
    <3>3. StaleAt \in Nat
      BY TiersBounds DEF TypeOK
    <3> QED
      BY <3>1, <3>2, <3>3
  <2>3. ASSUME NEW t \in Tasks, pc[t] = "answered", held[t] # NoValue PROVE age[held[t]] < StaleAt
    <3>1. age[held[t]] \in Nat /\ waited[t] \in 0..Delay /\ longest \in 0..Delay /\ waited[t] <= longest
      BY <2>3 DEF TypeOK, TripsInTime
    <3>2. age[held[t]] < RedisTtl + longest + waited[t]
      BY <2>3 DEF TripsInTime
    <3> QED
      BY <3>1, <3>2, TiersBounds
  <2> QED
    BY <2>1, <2>2, <2>3 DEF TiersAgree, BoundedStaleness
<1> QED
  BY <1>1, TiersInvariance, PTL

-----------------------------------------------------------------------------
(* The router. *)

\* The least place, where there is one.
LEMMA FirstPlace ==
  ASSUME NEW T, T \subseteq Nat, T # {}
  PROVE  Min(T) \in T
BY LeastNatural DEF Min

NoneTwice(s) == \A i, j \in 1..Len(s) : s[i] = s[j] => i = j

\* Without a name that occurs once, a sequence has all the others, each once.
LEMMA WithoutOne ==
  ASSUME NEW S, NEW s \in Seq(S), NoneTwice(s), NEW e
  PROVE  /\ RemoveFirst(s, e) \in Seq(S) /\ NoneTwice(RemoveFirst(s, e))
         /\ ToSet(RemoveFirst(s, e)) = ToSet(s) \ {e}
<1>1. CASE ~ \E i \in 1..Len(s) : s[i] = e
  <2>1. RemoveFirst(s, e) = s
    BY <1>1 DEF RemoveFirst
  <2>2. e \notin ToSet(s)
    BY <1>1 DEF ToSet
  <2> QED
    BY <2>1, <2>2
<1>2. CASE \E i \in 1..Len(s) : s[i] = e
  <2> DEFINE n == Len(s)
             T == {i \in 1..n : s[i] = e}
             p == Min(T)
  <2>1. n \in Nat /\ T \subseteq Nat /\ T # {}
    BY <1>2
  <2>2. p \in T
    <3> HIDE DEF T
    <3> QED
      BY <2>1, FirstPlace
  <2>3. p \in 1..n /\ s[p] = e
    BY <2>2
  <2>4. RemoveFirst(s, e) = SubSeq(s, 1, p - 1) \o SubSeq(s, p + 1, n)
    BY <1>2, <2>1 DEF RemoveFirst, RemoveAt, SelectInSeq
  <2> DEFINE before == SubSeq(s, 1, p - 1)
             after == SubSeq(s, p + 1, n)
             r == before \o after
  <2> HIDE DEF p, n
  <2>5. before \in Seq(S) /\ Len(before) = p - 1 /\ \A k \in 1..(p - 1) : before[k] = s[k]
    BY <2>1, <2>3, SubSeqProperties DEF n
  <2>6. after \in Seq(S) /\ Len(after) = n - p /\ \A k \in 1..(n - p) : after[k] = s[p + k]
    BY <2>1, <2>3, SubSeqProperties DEF n
  <2> HIDE DEF before, after
  <2>7. r \in Seq(S) /\ Len(r) = n - 1
    <3>1. r \in Seq(S) /\ Len(r) = Len(before) + Len(after)
      BY <2>5, <2>6, ConcatProperties
    <3> QED
      BY <2>1, <2>3, <2>5, <2>6, <3>1
  <2>8. \A k \in 1..(n - 1) : r[k] = IF k < p THEN s[k] ELSE s[k + 1]
    <3> TAKE k \in 1..(n - 1)
    <3>1. CASE k < p
      <4>1. r[k] = before[k]
        BY <2>1, <2>3, <2>5, <2>6, <3>1, ConcatProperties
      <4> QED
        BY <2>1, <2>3, <2>5, <3>1, <4>1
    <3>2. CASE ~ (k < p)
      <4>1. r[k] = after[k - (p - 1)]
        BY <2>1, <2>3, <2>5, <2>6, <3>2, ConcatProperties
      <4>2. k - (p - 1) \in 1..(n - p) /\ p + (k - (p - 1)) = k + 1
        BY <2>1, <2>3, <3>2
      <4> QED
        BY <2>6, <3>2, <4>1, <4>2
    <3> QED
      BY <3>1, <3>2
  <2> HIDE DEF r
  <2> DEFINE from(k) == IF k < p THEN k ELSE k + 1
  <2>9. \A k \in 1..(n - 1) : from(k) \in 1..n /\ from(k) # p /\ r[k] = s[from(k)]
    <3> TAKE k \in 1..(n - 1)
    <3>1. from(k) \in 1..n /\ from(k) # p
      BY <2>1, <2>3
    <3>2. r[k] = s[from(k)]
      BY <2>8
    <3> QED
      BY <3>1, <3>2
  <2>10. \A k, l \in 1..(n - 1) : from(k) = from(l) => k = l
    BY <2>1, <2>3
  <2>11. \A i \in 1..n : i # p => \E k \in 1..(n - 1) : from(k) = i
    <3> TAKE i \in 1..n
    <3> HAVE i # p
    <3>1. CASE i < p
      <4>1. i \in 1..(n - 1) /\ from(i) = i
        BY <2>1, <2>3, <3>1
      <4> QED
        BY <4>1
    <3>2. CASE ~ (i < p)
      <4>1. i - 1 \in 1..(n - 1) /\ from(i - 1) = i
        BY <2>1, <2>3, <3>2
      <4> QED
        BY <4>1
    <3> QED
      BY <3>1, <3>2
  <2> HIDE DEF from
  <2>12. \A i, j \in 1..n : s[i] = s[j] => i = j
    BY DEF NoneTwice, n
  <2>13. NoneTwice(r)
    BY <2>7, <2>9, <2>10, <2>12 DEF NoneTwice
  <2>14. ToSet(r) = ToSet(s) \ {e}
    <3>1. ToSet(r) = {r[k] : k \in 1..(n - 1)} /\ ToSet(s) = {s[i] : i \in 1..n}
      BY <2>7 DEF ToSet, n
    <3>2. \A k \in 1..(n - 1) : r[k] \in {s[i] : i \in 1..n} /\ r[k] # e
      BY <2>3, <2>9, <2>12
    <3>3. \A i \in 1..n : s[i] # e => \E k \in 1..(n - 1) : r[k] = s[i]
      BY <2>3, <2>9, <2>11
    <3> QED
      BY <3>1, <3>2, <3>3
  <2> QED
    BY <2>4, <2>7, <2>13, <2>14 DEF r, before, after, n
<1> QED
  BY <1>1, <1>2

-----------------------------------------------------------------------------

RouterTypeOK ==
  /\ registered \in Seq(Names) /\ registered # << >> /\ NoneTwice(registered)
  /\ mode \in {"complete", "stream"}
  /\ order \in Seq(Names)
  /\ turn \in Nat /\ attempt \in Nat /\ tried \in [Names -> Nat] /\ failed \in Nat

Routed == stage \notin {"opening", "unopened", "routing"}

\* The selected backend comes first, and each only once; behind the primary
\* one come all that are registered.
OrderIsRight ==
  IF Routed
    THEN /\ NoneTwice(order) /\ turn \in 1..Len(order)
         /\ order[1] = Primary => ToSet(order) = ToSet(registered)
    ELSE order = << >> /\ turn = 1 /\ attempt = 0 /\ \A n \in Names : tried[n] = 0

\* The calls made to the backends of the order.
CallsInTurn ==
  Routed =>
    /\ \A i \in 1..Len(order) : i < turn => tried[order[i]] = CallsEach
    /\ \A i \in 1..Len(order) : i > turn => tried[order[i]] = 0
    /\ tried[order[turn]] <= CallsEach
    /\ stage = "trying" => tried[order[turn]] = attempt
    /\ stage = "trying" /\ mode = "complete" => attempt <= MaxRetries

\* What is raised is the latest error; one to fail over on at the last of the order.
RaisedInTheEnd ==
  stage = "raised" =>
    /\ lastError.number = failed /\ failed > 0
    /\ lastError.class \in Errors!Retryable => turn = Len(order) /\ tried[order[turn]] = CallsEach

RouterInvariant == RouterTypeOK /\ OrderIsRight /\ CallsInTurn /\ RaisedInTheEnd

LEMMA RouterInitially == RouterInit => RouterInvariant
<1> SUFFICES ASSUME RouterInit PROVE RouterInvariant
  OBVIOUS
<1>1. PICK n \in 1..Cardinality(Names) : registered \in [1..n -> Names] /\ IsInjective(registered)
  BY DEF RouterInit
<1>2. n \in Nat \ {0}
  OBVIOUS
<1>3. registered \in Seq(Names) /\ Len(registered) = n
  BY <1>1, <1>2
<1>4. registered # << >> /\ NoneTwice(registered)
  BY <1>1, <1>2, <1>3 DEF NoneTwice, IsInjective
<1>5. RouterTypeOK
  BY <1>3, <1>4 DEF RouterInit, RouterTypeOK
<1> QED
  BY <1>5 DEF RouterInit, RouterInvariant, OrderIsRight, CallsInTurn, RaisedInTheEnd, Routed

LEMMA NamesInOrder ==
  ASSUME RouterInvariant, Routed
  PROVE  /\ order \in Seq(Names) /\ Len(order) \in Nat /\ turn \in 1..Len(order)
         /\ \A i \in 1..Len(order) : order[i] \in Names
         /\ \A i \in 1..Len(order) : i # turn => order[i] # order[turn]
         /\ CallsEach \in Nat \ {0}
<1>1. order \in Seq(Names) /\ turn \in 1..Len(order) /\ NoneTwice(order)
  BY DEF RouterInvariant, RouterTypeOK, OrderIsRight
<1>2. CallsEach \in Nat \ {0}
  BY RetriesAssumption DEF CallsEach
<1> QED
  BY <1>1, <1>2 DEF NoneTwice

\* The backend whose turn it is is called once more, or not.
LEMMA TurnOfCalls ==
  ASSUME RouterInvariant, stage = "trying", UNCHANGED <<registered, cerebrasFirst, local, mode, order>>,
         NEW called \in {0, 1}, called = 1 => Called, called = 0 => UNCHANGED tried,
         stage' \in {"trying", "returned", "raised"}, turn' \in Nat, attempt' \in Nat, failed' \in Nat,
         attempt + called <= CallsEach,
         \/ UNCHANGED turn
         \/ turn < Len(order) /\ turn' = turn + 1 /\ attempt' = 0 /\ attempt + called = CallsEach,
         turn' = turn /\ stage' = "trying" => attempt' = attempt + called,
         stage' = "trying" /\ mode = "complete" => attempt' <= MaxRetries
  PROVE  RouterTypeOK' /\ OrderIsRight' /\ CallsInTurn' /\ tried'[order[turn]] = attempt + called
<1>1. Routed /\ Routed'
  BY DEF Routed
<1>2. /\ order \in Seq(Names) /\ Len(order) \in Nat /\ turn \in 1..Len(order)
      /\ \A i \in 1..Len(order) : order[i] \in Names
      /\ \A i \in 1..Len(order) : i # turn => order[i] # order[turn]
      /\ CallsEach \in Nat \ {0}
  BY <1>1, NamesInOrder
<1>3. /\ tried \in [Names -> Nat] /\ attempt \in Nat /\ tried[order[turn]] = attempt
      /\ \A i \in 1..Len(order) : i < turn => tried[order[i]] = CallsEach
      /\ \A i \in 1..Len(order) : i > turn => tried[order[i]] = 0
  BY <1>1 DEF RouterInvariant, RouterTypeOK, CallsInTurn
<1>4. /\ tried' \in [Names -> Nat]
      /\ tried'[order[turn]] = attempt + called
      /\ \A i \in 1..Len(order) : i # turn => tried'[order[i]] = tried[order[i]]
  <2>1. CASE called = 1
    <3>1. tried' = [tried EXCEPT ![order[turn]] = @ + 1]
      BY <2>1 DEF Called, Current
    <3> QED
      BY <1>2, <1>3, <2>1, <3>1
  <2>2. CASE called = 0
    BY <1>2, <1>3, <2>2
  <2> QED
    BY <2>1, <2>2
<1>5. CallsEach' = CallsEach /\ Primary' = Primary
  BY DEF CallsEach, Primary, Has
<1>6. turn' \in 1..Len(order)
  BY <1>2
<1>7. OrderIsRight'
  BY <1>1, <1>5, <1>6 DEF RouterInvariant, OrderIsRight, NoneTwice
<1>8. RouterTypeOK'
  BY <1>4 DEF RouterInvariant, RouterTypeOK, NoneTwice
<1>9. CallsInTurn'
  <2>1. CASE turn' = turn
    <3>1. \A i \in 1..Len(order) : i < turn => tried'[order[i]] = CallsEach
      <4>1. \A i \in 1..Len(order) : i < turn => i # turn
        BY <1>2
      <4> QED
        BY <1>3, <1>4, <4>1
    <3>2. \A i \in 1..Len(order) : i > turn => tried'[order[i]] = 0
      BY <1>2, <1>3, <1>4
    <3> QED
      BY <1>1, <1>4, <1>5, <2>1, <3>1, <3>2 DEF CallsInTurn
  <2>2. CASE turn < Len(order) /\ turn' = turn + 1 /\ attempt' = 0 /\ attempt + called = CallsEach
    <3>1. \A i \in 1..Len(order) : i < turn' => tried'[order[i]] = CallsEach
      <4>1. \A i \in 1..Len(order) : i < turn' => i = turn \/ (i # turn /\ i < turn)
        BY <1>2, <2>2
      <4> QED
        BY <1>3, <1>4, <2>2, <4>1
    <3>2. \A i \in 1..Len(order) : i >= turn' => tried'[order[i]] = 0
      <4>1. \A i \in 1..Len(order) : i >= turn' => i # turn /\ i > turn
        BY <1>2, <2>2
      <4> QED
        BY <1>3, <1>4, <4>1
    <3>3. \A i \in 1..Len(order) : i > turn' => i >= turn'
      BY <1>2, <1>6
    <3>4. turn' >= turn'
      BY <1>6
    <3>5. tried'[order[turn']] = 0
      BY <1>6, <3>2, <3>4
    <3> QED
      BY <1>1, <1>2, <1>5, <2>2, <3>1, <3>2, <3>3, <3>5 DEF CallsInTurn
  <2> QED
    BY <2>1, <2>2
<1> QED
  BY <1>4, <1>7, <1>8, <1>9

\* The attempts at a backend are used up: the next one, or the end.
LEMMA LastOrNext ==
  ASSUME RouterInvariant, stage = "trying", UNCHANGED <<registered, cerebrasFirst, local, mode, order>>,
         NEW called \in {0, 1}, called = 1 => Called, called = 0 => UNCHANGED tried,
         NextBackend, attempt + called = CallsEach, failed' = failed + 1, lastError'.number = failed'
  PROVE  RouterInvariant'
<1>1. Routed
  BY DEF Routed
<1>2. /\ turn \in 1..Len(order) /\ Len(order) \in Nat /\ CallsEach \in Nat \ {0}
      /\ attempt \in Nat /\ failed \in Nat /\ turn \in Nat
      /\ CallsEach' = CallsEach
  BY <1>1, NamesInOrder DEF RouterInvariant, RouterTypeOK, CallsEach
<1>3. CASE turn < Len(order)
  <2>1. turn' = turn + 1 /\ attempt' = 0 /\ stage' = stage
    BY <1>3 DEF NextBackend
  <2>2. RouterTypeOK' /\ OrderIsRight' /\ CallsInTurn'
    BY <1>2, <1>3, <2>1, TurnOfCalls, RetriesAssumption
  <2> QED
    BY <2>1, <2>2 DEF RouterInvariant, RaisedInTheEnd
<1>4. CASE ~ (turn < Len(order))
  <2>1. UNCHANGED <<turn, attempt>> /\ stage' = "raised" /\ turn = Len(order)
    BY <1>2, <1>4 DEF NextBackend
  <2>2. RouterTypeOK' /\ OrderIsRight' /\ CallsInTurn' /\ tried'[order[turn]] = CallsEach
    BY <1>2, <2>1, TurnOfCalls
  <2> QED
    BY <1>2, <2>1, <2>2 DEF RouterInvariant, RaisedInTheEnd
<1> QED
  BY <1>3, <1>4

\* The order made of the selected backend and the fallbacks.
LEMMA RouteKeeps ==
  ASSUME RouterInvariant, Route
  PROVE  RouterInvariant'
<1>1. /\ registered \in Seq(Names) /\ registered # << >> /\ NoneTwice(registered)
      /\ order = << >> /\ turn = 1 /\ attempt = 0 /\ \A n \in Names : tried[n] = 0
      /\ tried \in [Names -> Nat]
      /\ UNCHANGED <<registered, cerebrasFirst, local, mode, turn, attempt, tried, failed>>
      /\ stage' = "trying"
  BY DEF Route, Routed, RouterInvariant, RouterTypeOK, OrderIsRight, deployment
<1>2. registered[1] \in Names /\ Head(registered) = registered[1] /\ 1 \in 1..Len(registered)
  BY <1>1
<1>3. Primary \in ToSet(registered) /\ Selected \in ToSet(registered) /\ ToSet(registered) \subseteq Names
  <2>1. Head(registered) \in ToSet(registered) /\ ToSet(registered) \subseteq Names
    BY <1>1, <1>2 DEF ToSet
  <2>2. Primary \in ToSet(registered)
    BY <2>1 DEF Primary, Has
  <2> QED
    BY <2>1, <2>2 DEF Selected, Has
<1>4. /\ Fallbacks \in Seq(Names) /\ NoneTwice(Fallbacks)
      /\ ToSet(Fallbacks) = ToSet(registered) \ {Primary}
  BY <1>1, WithoutOne DEF Fallbacks
<1> DEFINE rest == RemoveFirst(Fallbacks, Selected)
<1>5. rest \in Seq(Names) /\ NoneTwice(rest) /\ ToSet(rest) = ToSet(Fallbacks) \ {Selected}
  BY <1>4, WithoutOne
<1> HIDE DEF rest
<1>6. /\ order' \in Seq(Names) /\ Len(order') = 1 + Len(rest) /\ Len(rest) \in Nat
      /\ order'[1] = Selected /\ \A k \in 1..Len(rest) : order'[k + 1] = rest[k]
  <2>1. order' = <<Selected>> \o rest
    BY DEF Route, rest
  <2>2. <<Selected>> \in Seq(Names) /\ Len(<<Selected>>) = 1 /\ <<Selected>>[1] = Selected
    BY <1>3
  <2>3. order' \in Seq(Names) /\ Len(order') = 1 + Len(rest) /\ Len(rest) \in Nat
    BY <1>5, <2>1, <2>2, ConcatProperties
  <2>4. order'[1] = Selected
    BY <1>5, <2>1, <2>2, <2>3, ConcatProperties
  <2>5. ASSUME NEW k \in 1..Len(rest) PROVE order'[k + 1] = rest[k]
    <3>1. order'[k + 1] = rest[k + 1 - 1]
      BY <1>5, <2>1, <2>2, <2>3, ConcatProperties
    <3> QED
      BY <2>3, <3>1
  <2> QED
    BY <2>3, <2>4, <2>5
<1>7. \A k \in 1..Len(rest) : rest[k] \in ToSet(rest)
  BY DEF ToSet
<1>8. \A i \in 1..Len(order') : i = 1 \/ (i - 1 \in 1..Len(rest) /\ order'[i] = rest[i - 1])
  <2> TAKE i \in 1..Len(order')
  <2>1. i # 1 => i - 1 \in 1..Len(rest) /\ i = (i - 1) + 1
    BY <1>6
  <2> QED
    BY <1>6, <2>1
<1>9. NoneTwice(order')
  <2>1. \A i \in 1..Len(order') : i # 1 => order'[i] # Selected
    BY <1>5, <1>7, <1>8
  <2>2. \A i, j \in 1..Len(order') : i # 1 /\ j # 1 /\ order'[i] = order'[j] => i - 1 = j - 1
    BY <1>5, <1>8 DEF NoneTwice
  <2>3. \A i, j \in 1..Len(order') : i - 1 = j - 1 => i = j
    BY <1>6
  <2> QED
    BY <1>6, <2>1, <2>2, <2>3 DEF NoneTwice
<1>10. ASSUME order'[1] = Primary PROVE ToSet(order') = ToSet(registered)
  <2>1. Selected = Primary
    BY <1>6, <1>10
  <2>2. ToSet(rest) = ToSet(registered) \ {Selected}
    BY <1>4, <1>5, <2>1
  <2>3. ToSet(order') = {order'[i] : i \in 1..Len(order')} /\ ToSet(rest) = {rest[k] : k \in 1..Len(rest)}
    <3>1. DOMAIN order' = 1..Len(order') /\ DOMAIN rest = 1..Len(rest)
      BY <1>5, <1>6
    <3> QED
      BY <3>1 DEF ToSet
  <2>4. \A i \in 1..Len(order') : order'[i] \in {Selected} \cup ToSet(rest)
    BY <1>6, <1>7, <1>8
  <2>5. Selected \in ToSet(order') /\ \A k \in 1..Len(rest) : rest[k] \in ToSet(order')
    <3>1. 1 \in 1..Len(order') /\ \A k \in 1..Len(rest) : k + 1 \in 1..Len(order')
      BY <1>6
    <3> QED
      BY <1>6, <2>3, <3>1
  <2>6. ToSet(order') = {Selected} \cup ToSet(rest)
    BY <2>3, <2>4, <2>5
  <2> QED
    BY <1>3, <2>2, <2>6
<1>11. Routed' /\ Primary' = Primary /\ CallsEach' = CallsEach /\ CallsEach \in Nat
  BY <1>1, RetriesAssumption DEF Routed, Primary, Has, CallsEach
<1>12. RouterTypeOK'
  BY <1>1, <1>6 DEF RouterInvariant, RouterTypeOK
<1>13. OrderIsRight'
  BY <1>1, <1>6, <1>9, <1>10, <1>11 DEF OrderIsRight
<1>14. CallsInTurn'
  <2>1. \A i \in 1..Len(order') : order'[i] \in Names
    BY <1>6
  <2>2. 1 \in 1..Len(order') /\ \A i \in 1..Len(order') : ~ (i < 1)
    BY <1>6
  <2> QED
    BY <1>1, <1>11, <2>1, <2>2, RetriesAssumption DEF CallsInTurn
<1>15. RaisedInTheEnd'
  BY <1>1 DEF RaisedInTheEnd
<1> QED
  BY <1>12, <1>13, <1>14, <1>15 DEF RouterInvariant

LEMMA CallsKeep ==
  ASSUME RouterInvariant,
         Completes \/ CompleteRaises \/ CompleteFailsOver \/ Yields \/ StreamEnds \/ StreamRaises
  PROVE  RouterInvariant'
<1>1. /\ stage = "trying" /\ UNCHANGED <<registered, cerebrasFirst, local, mode, order>>
  BY DEF Completes, CompleteRaises, CompleteFailsOver, Yields, StreamEnds, StreamRaises, deployment
<1>2. Routed
  BY <1>1 DEF Routed
<1>3. turn \in 1..Len(order) /\ Len(order) \in Nat /\ attempt \in Nat /\ failed \in Nat /\ turn \in Nat
  BY <1>2, NamesInOrder DEF RouterInvariant, RouterTypeOK
<1>4. tried[order[turn]] = attempt /\ tried[order[turn]] <= CallsEach
  BY <1>1, <1>2 DEF RouterInvariant, CallsInTurn
<1>5. CallsEach' = CallsEach /\ CallsEach \in Nat \ {0}
  BY <1>1, <1>2, NamesInOrder DEF CallsEach
<1>6. mode = "complete" => CallsEach = MaxRetries + 1 /\ MaxRetries \in Nat /\ attempt <= MaxRetries
  BY <1>1, <1>2, RetriesAssumption DEF CallsEach, RouterInvariant, CallsInTurn
<1>7. mode = "stream" => CallsEach = 1 /\ attempt \in {0, 1}
  <2>1. mode = "stream" => CallsEach = 1
    BY DEF CallsEach
  <2> QED
    BY <1>3, <1>4, <2>1
<1>8. CASE Completes
  <2>1. /\ Called /\ stage' = "returned" /\ UNCHANGED <<turn, attempt, failed>> /\ mode = "complete"
    BY <1>8 DEF Completes
  <2>2. RouterTypeOK' /\ OrderIsRight' /\ CallsInTurn'
    BY <1>1, <1>3, <1>6, <2>1, TurnOfCalls
  <2> QED
    BY <2>1, <2>2 DEF RouterInvariant, RaisedInTheEnd
<1>9. CASE CompleteRaises
  <2>1. /\ Called /\ stage' = "raised" /\ UNCHANGED <<turn, attempt>> /\ mode = "complete"
        /\ failed' = failed + 1 /\ lastError'.number = failed' /\ lastError'.class \notin Errors!Retryable
    BY <1>9 DEF CompleteRaises, Error
  <2>2. RouterTypeOK' /\ OrderIsRight' /\ CallsInTurn'
    BY <1>1, <1>3, <1>6, <2>1, TurnOfCalls
  <2> QED
    BY <1>3, <2>1, <2>2 DEF RouterInvariant, RaisedInTheEnd
<1>10. CASE CompleteFailsOver
  <2>1. /\ Called /\ mode = "complete" /\ failed' = failed + 1 /\ lastError'.number = failed'
    BY <1>10 DEF CompleteFailsOver, Error
  <2>2. CASE attempt < MaxRetries
    <3>1. UNCHANGED <<turn, stage>> /\ attempt' = attempt + 1
      BY <1>10, <2>2 DEF CompleteFailsOver
    <3>2. RouterTypeOK' /\ OrderIsRight' /\ CallsInTurn'
      BY <1>1, <1>3, <1>6, <2>1, <2>2, <3>1, TurnOfCalls
    <3> QED
      BY <1>1, <3>1, <3>2 DEF RouterInvariant, RaisedInTheEnd
  <2>3. CASE ~ (attempt < MaxRetries)
    <3>1. NextBackend /\ attempt + 1 = CallsEach
      BY <1>3, <1>6, <1>10, <2>1, <2>3 DEF CompleteFailsOver
    <3> QED
      BY <1>1, <1>3, <1>5, <1>6, <2>1, <3>1, LastOrNext
  <2> QED
    BY <2>2, <2>3
<1>11. CASE Yields \/ StreamEnds \/ StreamRaises
  <2>1. PICK called \in {0, 1} :
          (called = 1 => Called) /\ (called = 0 => UNCHANGED tried) /\ called = 1 - attempt
    <3>1. mode = "stream" /\ IF attempt = 0 THEN Called ELSE UNCHANGED tried
      BY <1>11 DEF Yields, StreamEnds, StreamRaises
    <3> QED
      BY <1>7, <3>1
  <2>2. mode = "stream" /\ attempt + called = CallsEach
    <3>1. mode = "stream"
      BY <1>11 DEF Yields, StreamEnds, StreamRaises
    <3> QED
      BY <1>3, <1>7, <2>1, <3>1
  <2>3. CASE Yields
    <3>1. UNCHANGED <<turn, stage, failed>> /\ attempt' = 1
      BY <2>3 DEF Yields
    <3>2. RouterTypeOK' /\ OrderIsRight' /\ CallsInTurn'
      BY <1>1, <1>3, <1>7, <2>1, <2>2, <3>1, TurnOfCalls
    <3> QED
      BY <1>1, <3>1, <3>2 DEF RouterInvariant, RaisedInTheEnd
  <2>4. CASE StreamEnds
    <3>1. UNCHANGED <<turn, attempt, failed>> /\ stage' = "returned"
      BY <2>4 DEF StreamEnds
    <3>2. RouterTypeOK' /\ OrderIsRight' /\ CallsInTurn'
      BY <1>1, <1>3, <1>5, <2>1, <2>2, <3>1, TurnOfCalls
    <3> QED
      BY <3>1, <3>2 DEF RouterInvariant, RaisedInTheEnd
  <2>5. CASE StreamRaises
    <3>1. /\ failed' = failed + 1 /\ lastError'.number = failed'
          /\ \/ NextBackend
             \/ lastError'.class \notin Errors!Retryable /\ stage' = "raised" /\ UNCHANGED <<turn, attempt>>
      BY <2>5 DEF StreamRaises, Error
    <3>2. CASE NextBackend
      BY <1>1, <1>3, <1>5, <2>1, <2>2, <3>1, <3>2, LastOrNext
    <3>3. CASE lastError'.class \notin Errors!Retryable /\ stage' = "raised" /\ UNCHANGED <<turn, attempt>>
      <4>1. RouterTypeOK' /\ OrderIsRight' /\ CallsInTurn'
        BY <1>1, <1>3, <1>5, <2>1, <2>2, <3>1, <3>3, TurnOfCalls
      <4> QED
        BY <1>3, <3>1, <3>3, <4>1 DEF RouterInvariant, RaisedInTheEnd
    <3> QED
      BY <3>1, <3>2, <3>3
  <2> QED
    BY <1>11, <2>3, <2>4, <2>5
<1> QED
  BY <1>8, <1>9, <1>10, <1>11

LEMMA RouterKeeps == RouterInvariant /\ [RouterNext]_routerVars => RouterInvariant'
<1> SUFFICES ASSUME RouterInvariant, [RouterNext]_routerVars PROVE RouterInvariant'
  OBVIOUS
<1>1. CASE OpenNext \/ OpenRaises
  <2>1. /\ stage = "opening" /\ stage' \in {"opening", "routing", "unopened"}
        /\ UNCHANGED <<registered, mode, order, turn, attempt, tried, failed>>
    BY <1>1 DEF OpenNext, OpenRaises, deployment
  <2> QED
    BY <2>1 DEF RouterInvariant, RouterTypeOK, OrderIsRight, CallsInTurn, RaisedInTheEnd, Routed, NoneTwice
<1>2. CASE CloseNext \/ CloseRaises \/ UNCHANGED routerVars
  <2>1. /\ UNCHANGED <<registered, cerebrasFirst, local, mode, order, turn, attempt, lastError, tried, failed>>
        /\ stage' = stage \/ (stage \in {"returned", "raised"} /\ stage' = "unclosed")
    BY <1>2 DEF CloseNext, CloseRaises, deployment, routerVars
  <2>2. Primary' = Primary /\ CallsEach' = CallsEach
    BY <2>1 DEF Primary, Has, CallsEach
  <2>3. stage' = stage \/ (Routed /\ Routed' /\ stage' = "unclosed")
    BY <2>1 DEF Routed
  <2> QED
    BY <2>1, <2>2, <2>3 DEF RouterInvariant, RouterTypeOK, OrderIsRight, CallsInTurn, RaisedInTheEnd, Routed, NoneTwice
<1>3. CASE Route
  BY <1>3, RouteKeeps
<1>4. CASE Completes \/ CompleteRaises \/ CompleteFailsOver \/ Yields \/ StreamEnds \/ StreamRaises
  BY <1>4, CallsKeep
<1> QED
  BY <1>1, <1>2, <1>3, <1>4 DEF RouterNext

\* In every reachable state of a request the backends before the one whose turn
\* it is have been called as often as the policy says and those behind it never,
\* and no backend comes twice.
THEOREM RouterInvariance == RouterSpec => []RouterInvariant
<1>1. RouterInit => RouterInvariant
  BY RouterInitially
<1>2. RouterInvariant /\ [RouterNext]_routerVars => RouterInvariant'
  BY RouterKeeps
<1> QED
  BY <1>1, <1>2, PTL DEF RouterSpec

\* For every deployment, policy and number of retries: the backends are tried in
\* turn, the latest error is the one raised, and one to fail over on, if the
\* caller has had nothing yet, only when the order is exhausted
\* (Router.complete, Router.stream, _recompute_order).
THEOREM FailsOver == RouterSpec => []FailsOverInTurn
<1>1. RouterInvariant => FailsOverInTurn
  <2> SUFFICES ASSUME RouterInvariant PROVE FailsOverInTurn
    OBVIOUS
  <2>1. DOMAIN order = 1..Len(order)
    BY DEF RouterInvariant, RouterTypeOK
  <2>2. ~ Routed => order = << >> /\ 1..Len(order) = {}
    BY DEF RouterInvariant, OrderIsRight
  <2>3. InTurn
    BY <2>1, <2>2 DEF InTurn, IsInjective, RouterInvariant, OrderIsRight, CallsInTurn, NoneTwice
  <2>4. ASSUME stage = "raised", lastError.class \in Errors!Retryable, NEW i \in DOMAIN order
        PROVE  tried[order[i]] = CallsEach
    <3>1. Routed
      BY <2>4 DEF Routed
    <3>2. turn = Len(order) /\ tried[order[turn]] = CallsEach
      BY <2>4 DEF RouterInvariant, RaisedInTheEnd
    <3>3. i < turn \/ i = turn
      <4>1. i \in 1..Len(order) /\ Len(order) \in Nat
        BY <2>1, <3>1, NamesInOrder
      <4> QED
        BY <3>2, <4>1
    <3> QED
      BY <2>1, <3>1, <3>2, <3>3 DEF RouterInvariant, CallsInTurn
  <2>5. RaisesLatestError
    BY <2>4 DEF RaisesLatestError, FailedForGood, RouterInvariant, RaisedInTheEnd
  <2>6. PrimaryFallsBack
    <3> SUFFICES ASSUME stage = "raised", lastError.class \in Errors!Retryable, order[1] = Primary,
                        NEW n \in ToSet(registered)
                 PROVE  tried[n] = CallsEach
      BY DEF PrimaryFallsBack, FailedForGood
    <3>1. n \in ToSet(order)
      BY DEF RouterInvariant, OrderIsRight, Routed
    <3>2. PICK i \in DOMAIN order : order[i] = n
      BY <3>1 DEF ToSet
    <3> QED
      BY <2>4, <3>2
  <2> QED
    BY <2>3, <2>5, <2>6 DEF FailsOverInTurn
<1> QED
  BY <1>1, RouterInvariance, PTL
=============================================================================
