---------------------------- MODULE SweepProofs ----------------------------
(***************************************************************************)
(* The safety of the benchmark drivers for all configurations, batches and *)
(* rates.  The inductive invariant is about slots: those a semaphore has   *)
(* free and the calls of the batch that uses it make up the concurrency of *)
(* the configuration that is measured, whenever and by whom the semaphore  *)
(* was made; and no two batches that have begun share one.  The results of *)
(* a batch, the reservoir of latencies, and the best summary have          *)
(* invariants of their own.                                                *)
(*                                                                         *)
(* The percentiles rise because the value at a place between two of the    *)
(* sorted latencies lies between these.  That report, file and memory have *)
(* one winner follows from what comes first in a ranking: the first of the *)
(* greatest, which is what max() takes.                                    *)
(***************************************************************************)
EXTENDS Sweep, Lemmas, SequenceTheorems

WorkerStates == {"none", "waiting", "calling", "unwinding", "done", "failed", "cancelled"}

Summary == [config : 1..(Race - 1), ok : Nat, tok : Nat, req : Nat, instant : BOOLEAN]

SweepTypeOK ==
  /\ driver \in {"manager", "advanced", "optimizer"} /\ metric \in Metrics
  /\ stage \in {"preflight", "next", "batch", "closing", "over"}
  /\ at \in 1..Race
  /\ free \in [0..Race -> Nat]
  /\ worker \in [Batches -> [Indices -> WorkerStates]]
  /\ summaries \in Seq(Summary)
  /\ best = None \/ best \in Summary
  /\ waves \in Nat

Begun(b) == \E i \in Indices : worker[b][i] # "none"

\* The requests of a batch that have a slot.
Calls(b) == {i \in Indices : worker[b][i] \in {"calling", "unwinding"}}

SlotsKept == \A b \in Batches : Begun(b) => free[Sem(b)] + Cardinality(Calls(b)) = Limit(b)

OwnSemaphores == \A b, c \in Batches : Begun(b) /\ Begun(c) /\ Sem(b) = Sem(c) => b = c

\* The race has its configuration, and between its waves nobody is at work.
RaceIsOn ==
  /\ Begun(Race) => best # None
  /\ stage = "batch" /\ at = Race => best # None
  /\ waves > 0 => stage # "preflight" /\ at = Race /\ best # None
  /\ waves > 0 /\ stage = "next" => \A i \in Indices : worker[Race][i] = "done"

StopIsFinal ==
  ending = "stopped" =>
    stage \in {"closing", "over"} /\ \A b \in Batches, i \in Indices : worker[b][i] # "waiting"

Result == [idx : Indices, ok : BOOLEAN]

Ordered(rs) == \A k, l \in 1..Len(rs) : k < l => rs[k].idx < rs[l].idx

\* The workers that are done have one result each, and its progress went out.
Recorded(b) ==
  /\ results[b] \in Seq(Result)
  /\ \A k \in 1..Len(results[b]) : worker[b][results[b][k].idx] = "done"
  /\ \A i \in Indices : worker[b][i] = "done" =>
       <<b, i>> \in queue /\ \E k \in 1..Len(results[b]) : results[b][k].idx = i
  /\ \A k, l \in 1..Len(results[b]) : results[b][k].idx = results[b][l].idx => k = l
  /\ driver # "optimizer" => Ordered(results[b])

AllRecorded == DOMAIN results = Batches /\ \A b \in Batches : Recorded(b)

SweepInvariant ==
  SweepTypeOK /\ SlotsKept /\ OwnSemaphores /\ RaceIsOn /\ StopIsFinal /\ AllRecorded

-----------------------------------------------------------------------------
(* The best of some summaries. *)

Below(S, m) == {i \in S : i <= m}

Greatest(f, S) == \E i \in S : \A j \in S : f[j] <= f[i]

\* Some place has the greatest number of them all.
LEMMA GreatestExists ==
  ASSUME NEW n \in Nat, NEW S \in SUBSET (1..n), S # {}, NEW f \in [1..n -> Nat]
  PROVE  Greatest(f, S)
<1> DEFINE T == {m \in 0..n : Below(S, m) # {} /\ ~ Greatest(f, Below(S, m))}
<1>1. ASSUME T # {} PROVE FALSE
  <2>1. T \subseteq Nat
    OBVIOUS
  <2>2. PICK m \in T : \A l \in T : m <= l
    <3> HIDE DEF T
    <3> QED
      BY <1>1, <2>1, LeastNatural
  <2>3. m \in 0..n /\ Below(S, m) # {} /\ ~ Greatest(f, Below(S, m))
    BY <2>2
  <2>4. m \in 1..n
    <3>1. m # 0
      <4>1. Below(S, 0) = {}
        <5>1. \A i \in S : i \in 1..n
          OBVIOUS
        <5>2. \A i \in S : ~ (i <= 0)
          BY <5>1
        <5> QED
          BY <5>2 DEF Below
      <4> QED
        BY <2>3, <4>1
    <3> QED
      BY <2>3, <3>1
  <2>5. m - 1 \in 0..n /\ m - 1 \notin T
    BY <2>1, <2>2, <2>4
  <2>6. Below(S, m - 1) = {} \/ Greatest(f, Below(S, m - 1))
    BY <2>5
  <2>7. \A i \in S : i <= m <=> i <= m - 1 \/ i = m
    BY <2>4
  <2>8. \A i \in S : i \in Below(S, m) <=> i \in Below(S, m - 1) \/ i = m
    BY <2>7 DEF Below
  <2>9. Below(S, m) \subseteq S /\ Below(S, m - 1) \subseteq S /\ \A i \in S : f[i] \in Nat
    BY DEF Below
  <2> HIDE DEF T
  <2>10. CASE Below(S, m - 1) = {}
    <3>1. m \in Below(S, m) /\ \A j \in Below(S, m) : j = m
      BY <2>3, <2>8, <2>9, <2>10
    <3> QED
      BY <2>3, <2>9, <3>1 DEF Greatest
  <2>11. CASE Greatest(f, Below(S, m - 1))
    <3>1. PICK i \in Below(S, m - 1) : \A j \in Below(S, m - 1) : f[j] <= f[i]
      BY <2>11 DEF Greatest
    <3>2. i \in Below(S, m) /\ i \in S
      BY <2>8, <2>9, <3>1
    <3>3. CASE m \in S /\ f[i] <= f[m]
      <4>1. \A j \in Below(S, m) : f[j] <= f[m]
        BY <2>8, <2>9, <3>1, <3>2, <3>3
      <4> QED
        BY <2>3, <2>8, <3>3, <4>1 DEF Greatest
    <3>4. CASE m \in S => ~ (f[i] <= f[m])
      <4>1. \A j \in Below(S, m) : f[j] <= f[i]
        BY <2>8, <2>9, <3>1, <3>2, <3>4
      <4> QED
        BY <2>3, <3>2, <4>1 DEF Greatest
    <3> QED
      BY <3>3, <3>4
  <2> QED
    BY <2>6, <2>10, <2>11
<1>2. Below(S, n) = S
  <2>1. \A i \in S : i <= n
    OBVIOUS
  <2> QED
    BY <2>1 DEF Below
<1>3. n \in 0..n /\ n \notin T
  BY <1>1
<1> QED
  BY <1>2, <1>3

\* The best of the summaries at some places is the first of those with the
\* greatest score.
LEMMA BestIsFirst ==
  ASSUME NEW ss \in Seq(Summary), NEW m \in Metrics, NEW S \in SUBSET DOMAIN ss, S # {}
  PROVE  \E i \in S :
           /\ Best(ss, S, m) = ss[i]
           /\ \A j \in S : \/ Score(ss[j], m) < Score(ss[i], m)
                           \/ Score(ss[j], m) = Score(ss[i], m) /\ i <= j
<1> DEFINE n == Len(ss)
           f == [i \in 1..n |-> Score(ss[i], m)]
           greatest == {i \in S : \A j \in S : Score(ss[i], m) >= Score(ss[j], m)}
<1>1. n \in Nat /\ S \in SUBSET (1..n) /\ \A i \in 1..n : ss[i] \in Summary
  OBVIOUS
<1>2. \A i \in 1..n : Score(ss[i], m) \in Nat
  <2>1. ASSUME NEW i \in 1..n PROVE ss[i].tok \in Nat /\ ss[i].req \in Nat
    BY <1>1 DEF Summary
  <2> QED
    BY <2>1 DEF Score, Metrics
<1> HIDE DEF n
<1>3. f \in [1..n -> Nat]
  BY <1>2
<1>4. PICK i \in S : \A j \in S : f[j] <= f[i]
  <2> HIDE DEF f
  <2> QED
    BY <1>1, <1>3, GreatestExists DEF Greatest
<1>5. i \in greatest /\ greatest \subseteq S
  <2>1. \A j \in S : Score(ss[i], m) >= Score(ss[j], m)
    BY <1>1, <1>2, <1>4
  <2> QED
    BY <2>1
<1>6. Min(greatest) \in greatest /\ \A j \in greatest : Min(greatest) <= j
  <2> HIDE DEF greatest
  <2>1. greatest \subseteq Nat /\ greatest # {}
    BY <1>1, <1>5
  <2>2. \E k \in greatest : \A l \in greatest : k <= l
    BY <2>1, LeastNatural
  <2> QED
    BY <2>2 DEF Min
<1>7. ASSUME NEW j \in S
      PROVE  LET k == Min(greatest)
             IN  Score(ss[j], m) < Score(ss[k], m) \/ (Score(ss[j], m) = Score(ss[k], m) /\ k <= j)
  <2> DEFINE k == Min(greatest)
  <2>1. k \in S /\ \A l \in S : Score(ss[k], m) >= Score(ss[l], m)
    BY <1>6
  <2>2. \A l \in greatest : k <= l
    BY <1>6
  <2> HIDE DEF k
  <2>3. Score(ss[j], m) \in Nat /\ Score(ss[k], m) \in Nat /\ Score(ss[k], m) >= Score(ss[j], m)
    BY <1>1, <1>2, <2>1
  <2>4. CASE Score(ss[j], m) = Score(ss[k], m)
    <3>1. j \in greatest
      BY <2>1, <2>4
    <3> QED
      BY <2>2, <2>4, <3>1 DEF k
  <2>5. CASE Score(ss[j], m) # Score(ss[k], m)
    BY <2>3, <2>5 DEF k
  <2> QED
    BY <2>4, <2>5
<1> QED
  BY <1>5, <1>6, <1>7 DEF Best

\* It is one of them.
LEMMA BestIsOne ==
  ASSUME SweepTypeOK, NEW S \in SUBSET DOMAIN summaries, S # {}
  PROVE  Best(summaries, S, metric) \in Summary
<1>1. summaries \in Seq(Summary) /\ metric \in Metrics
  BY DEF SweepTypeOK
<1>2. \E i \in S : Best(summaries, S, metric) = summaries[i]
  BY <1>1, BestIsFirst
<1> QED
  BY <1>1, <1>2
-----------------------------------------------------------------------------
(* A worker takes a step. *)

LEMMA IndicesFinite ==
  /\ IsFiniteSet(Indices)
  /\ \A S \in SUBSET Indices : IsFiniteSet(S) /\ Cardinality(S) \in Nat
<1>1. IsFiniteSet(Indices)
  BY BatchAssumption, FS_Interval DEF Indices
<1>2. \A S \in SUBSET Indices : IsFiniteSet(S)
  BY <1>1, FS_Subset
<1> QED
  BY <1>1, <1>2, FS_CardinalityType

\* What a configuration allows is a number as long as the configuration is known.
LEMMA LimitIsNatural ==
  ASSUME SweepTypeOK, NEW b \in Batches, b = Race => best # None
  PROVE  /\ Race \in Nat \ {0} /\ Sem(b) \in 0..Race
         /\ ConfigOf(b) \in 1..(Race - 1) /\ Limit(b) \in Nat
<1>1. Len(Concurrency) \in Nat /\ \A k \in 1..Len(Concurrency) : Concurrency[k] \in Nat
  BY ConfigurationsAssumption
<1>2. Race \in Nat \ {0} /\ Race - 1 = Len(Concurrency) /\ b \in 1..Race
  BY <1>1 DEF Race, Batches
<1>3. ConfigOf(b) \in 1..(Race - 1)
  <2>1. CASE b = Race
    BY <2>1 DEF ConfigOf, SweepTypeOK, Summary
  <2>2. CASE b # Race
    BY <1>2, <2>2 DEF ConfigOf
  <2> QED
    BY <2>1, <2>2
<1> QED
  BY <1>1, <1>2, <1>3 DEF Limit, Sem

SlotTaken(b, i) == worker[b][i] \in {"waiting"} /\ free[Sem(b)] > 0 /\ Acquire(b)

SlotGiven(b, i) == worker[b][i] \in {"calling", "unwinding"} /\ Release(b)

\* Whether a slot is taken or given back, those of the semaphore and those of
\* the batch still make up its concurrency, and no other batch is concerned.
LEMMA SlotsMove ==
  ASSUME SweepInvariant, NEW b \in Batches, NEW i \in Indices, NEW s \in WorkerStates,
         SetWorker(b, i, s), UNCHANGED <<driver, best>>,
         \/ SlotTaken(b, i) /\ s = "calling"
         \/ SlotGiven(b, i) /\ s \in {"done", "failed", "cancelled"}
  PROVE  /\ free' \in [0..Race -> Nat] /\ worker' \in [Batches -> [Indices -> WorkerStates]]
         /\ \A c \in Batches : Begun(c)' = Begun(c)
         /\ SlotsKept' /\ OwnSemaphores'
<1>1. worker' \in [Batches -> [Indices -> WorkerStates]]
  BY DEF SweepInvariant, SweepTypeOK, SetWorker
<1>2. \A c \in Batches, j \in Indices :
        worker'[c][j] = IF c = b /\ j = i THEN s ELSE worker[c][j]
  BY DEF SweepInvariant, SweepTypeOK, SetWorker
<1>3. worker[b][i] # "none" /\ s # "none"
  BY DEF SlotTaken, SlotGiven
<1>4. \A c \in Batches : Begun(c)' = Begun(c)
  BY <1>2, <1>3 DEF Begun
<1>5. Begun(b)
  BY <1>3 DEF Begun
<1>6. \A c \in Batches : Sem(c)' = Sem(c) /\ Limit(c)' = Limit(c)
  BY DEF Sem, Limit, ConfigOf
<1>7. \A c \in Batches : c # b => Calls(c)' = Calls(c)
  BY <1>2 DEF Calls
<1>8. \A c \in Batches : c # b /\ Begun(c) => Sem(c) # Sem(b)
  BY <1>5 DEF SweepInvariant, OwnSemaphores
<1>9. /\ \A c \in Batches : Begun(c) => Sem(c) \in 0..Race /\ Limit(c) \in Nat
      /\ free \in [0..Race -> Nat]
  BY LimitIsNatural DEF SweepInvariant, SweepTypeOK, RaceIsOn
<1>10. free[Sem(b)] + Cardinality(Calls(b)) = Limit(b)
  BY <1>5 DEF SweepInvariant, SlotsKept
<1>11. Calls(b) \subseteq Indices /\ IsFiniteSet(Calls(b)) /\ Cardinality(Calls(b)) \in Nat
  BY IndicesFinite DEF Calls
<1>12. /\ free' \in [0..Race -> Nat]
       /\ \A m \in 0..Race : m # Sem(b) => free'[m] = free[m]
       /\ free'[Sem(b)] + Cardinality(Calls(b)') = Limit(b)
  <2>1. CASE SlotTaken(b, i) /\ s = "calling"
    <3>1. i \notin Calls(b) /\ Calls(b)' = Calls(b) \cup {i}
      BY <1>2, <2>1 DEF Calls, SlotTaken
    <3>2. Cardinality(Calls(b)') = Cardinality(Calls(b)) + 1
      BY <1>11, <3>1, FS_AddElement
    <3>3. free[Sem(b)] > 0 /\ free' = [free EXCEPT ![Sem(b)] = @ - 1]
      BY <2>1 DEF SlotTaken, Acquire
    <3> QED
      BY <1>5, <1>9, <1>10, <1>11, <3>2, <3>3
  <2>2. CASE SlotGiven(b, i) /\ s \in {"done", "failed", "cancelled"}
    <3>1. i \in Calls(b) /\ Calls(b)' = Calls(b) \ {i}
      BY <1>2, <2>2 DEF Calls, SlotGiven
    <3>2. Cardinality(Calls(b)') = Cardinality(Calls(b)) - 1
      BY <1>11, <3>1, FS_RemoveElement
    <3>3. free' = [free EXCEPT ![Sem(b)] = @ + 1]
      BY <2>2 DEF SlotGiven, Release
    <3> QED
      BY <1>5, <1>9, <1>10, <1>11, <3>2, <3>3
  <2> QED
    BY <2>1, <2>2
<1>13. SlotsKept'
  <2> SUFFICES ASSUME NEW c \in Batches, Begun(c)
               PROVE  free'[Sem(c)] + Cardinality(Calls(c)') = Limit(c)
    BY <1>4, <1>6 DEF SlotsKept
  <2>1. CASE c # b
    BY <1>7, <1>8, <1>9, <1>12, <2>1 DEF SweepInvariant, SlotsKept
  <2> QED
    BY <1>12, <2>1
<1>14. OwnSemaphores'
  BY <1>4, <1>6 DEF SweepInvariant, OwnSemaphores
<1> QED
  BY <1>1, <1>4, <1>12, <1>13, <1>14

-----------------------------------------------------------------------------
(* A result is recorded. *)

\* new is rs with r put at place p.
Inserted(new, rs, p, r) ==
  /\ p \in 1..(Len(rs) + 1) /\ Len(new) = Len(rs) + 1
  /\ \A k \in 1..(Len(rs) + 1) : new[k] = IF k < p THEN rs[k] ELSE IF k = p THEN r ELSE rs[k - 1]

LEMMA InsertAtInserts ==
  ASSUME NEW S, NEW rs \in Seq(S), NEW r \in S, NEW p \in 1..(Len(rs) + 1)
  PROVE  InsertAt(rs, p, r) \in Seq(S) /\ Inserted(InsertAt(rs, p, r), rs, p, r)
<1> DEFINE n == Len(rs)
           before == SubSeq(rs, 1, p - 1)
           after == SubSeq(rs, p, n)
<1>1. n \in Nat /\ p \in 1..(n + 1)
  OBVIOUS
<1>2. before \in Seq(S) /\ Len(before) = p - 1 /\ \A k \in 1..(p - 1) : before[k] = rs[k]
  BY <1>1, SubSeqProperties
<1>3. after \in Seq(S) /\ Len(after) = n + 1 - p /\ \A k \in 1..(n + 1 - p) : after[k] = rs[p + k - 1]
  BY <1>1, SubSeqProperties
<1>4. <<r>> \in Seq(S) /\ Len(<<r>>) = 1 /\ <<r>>[1] = r
  OBVIOUS
<1> HIDE DEF n, before, after
<1>5. /\ before \o <<r>> \in Seq(S) /\ Len(before \o <<r>>) = p
      /\ \A k \in 1..(p - 1) : (before \o <<r>>)[k] = rs[k]
      /\ (before \o <<r>>)[p] = r
  BY <1>1, <1>2, <1>4, ConcatProperties
<1> DEFINE head == before \o <<r>>
<1> HIDE DEF head
<1>6. head \in Seq(S) /\ Len(head) = p /\ head[p] = r /\ \A k \in 1..(p - 1) : head[k] = rs[k]
  BY <1>5 DEF head
<1>7. head \o after \in Seq(S) /\ Len(head \o after) = n + 1
  <2>1. head \o after \in Seq(S) /\ Len(head \o after) = Len(head) + Len(after)
    BY <1>3, <1>6, ConcatProperties
  <2> QED
    BY <1>1, <1>3, <1>6, <2>1
<1>8. ASSUME NEW k \in 1..(n + 1)
      PROVE  (head \o after)[k] = IF k < p THEN rs[k] ELSE IF k = p THEN r ELSE rs[k - 1]
  <2>1. CASE k <= p
    BY <1>1, <1>3, <1>6, <2>1, ConcatProperties
  <2>2. CASE k > p
    <3>1. (head \o after)[k] = after[k - p]
      BY <1>1, <1>3, <1>6, <2>2, ConcatProperties
    <3>2. k - p \in 1..(n + 1 - p) /\ p + (k - p) - 1 = k - 1
      BY <1>1, <2>2
    <3> QED
      BY <1>1, <1>3, <2>2, <3>1, <3>2
  <2>3. k <= p \/ k > p
    BY <1>1
  <2> QED
    BY <2>1, <2>2, <2>3
<1>9. InsertAt(rs, p, r) = head \o after
  BY DEF InsertAt, n, before, after, head
<1> QED
  BY <1>1, <1>7, <1>8, <1>9 DEF Inserted, n

LEMMA AppendInserts ==
  ASSUME NEW S, NEW rs \in Seq(S), NEW r \in S
  PROVE  Append(rs, r) \in Seq(S) /\ Inserted(Append(rs, r), rs, Len(rs) + 1, r)
BY AppendProperties DEF Inserted

\* Results in order have a place for one that is missing.
LEMMA PlaceFits ==
  ASSUME NEW rs \in Seq(Result), Ordered(rs), NEW i \in Indices,
         \A k \in 1..Len(rs) : rs[k].idx # i
  PROVE  /\ Place(rs, i) \in 1..(Len(rs) + 1)
         /\ \A k \in 1..Len(rs) : rs[k].idx < i <=> k < Place(rs, i)
<1> DEFINE n == Len(rs)
           T == {k \in 1..(n + 1) : k = n + 1 \/ rs[k].idx > i}
<1>1. n \in Nat /\ DOMAIN rs = 1..n /\ i \in Nat /\ \A k \in 1..n : rs[k].idx \in Nat
  <2>1. \A k \in 1..n : rs[k] \in Result
    OBVIOUS
  <2>2. Indices \subseteq Nat
    BY BatchAssumption DEF Indices
  <2>3. n \in Nat /\ DOMAIN rs = 1..n
    OBVIOUS
  <2>4. \A k \in 1..n : rs[k].idx \in Indices
    BY <2>1 DEF Result
  <2> QED
    BY <2>2, <2>3, <2>4
<1>2. T \subseteq Nat /\ n + 1 \in T
  BY <1>1
<1>3. PICK p \in T : \A l \in T : p <= l
  <2> HIDE DEF T
  <2> QED
    BY <1>2, LeastNatural
<1>4. p \in 1..(n + 1)
  BY <1>3
<1>5. ASSUME NEW k \in 1..n PROVE rs[k].idx < i <=> k < p
  <2>1. CASE k < p
    <3>1. k \notin T
      BY <1>1, <1>2, <1>3, <2>1
    <3> QED
      BY <1>1, <2>1, <3>1
  <2>2. CASE ~ (k < p)
    <3>1. p \in 1..n /\ rs[p].idx > i
      BY <1>1, <1>3, <1>4, <2>2
    <3>2. p = k \/ rs[p].idx < rs[k].idx
      BY <1>1, <1>4, <2>2, <3>1 DEF Ordered
    <3> QED
      BY <1>1, <2>2, <3>1, <3>2
  <2> QED
    BY <2>1, <2>2
<1> HIDE DEF n, T
<1>6. \E q \in 1..(n + 1) : \A k \in DOMAIN rs : rs[k].idx < i <=> k < q
  BY <1>1, <1>4, <1>5
<1> QED
  BY <1>1, <1>6 DEF Place, n

-----------------------------------------------------------------------------
(* The invariant. *)

LEMMA NothingRecorded ==
  ASSUME NEW b \in Batches, results[b] = << >>, \A i \in Indices : worker[b][i] # "done"
  PROVE  Recorded(b)
<1>1. << >> \in Seq(Result) /\ Len(<< >>) = 0 /\ 1..0 = {}
  OBVIOUS
<1> QED
  BY <1>1 DEF Recorded, Ordered

\* A worker that is done is recorded, wherever its result comes.
LEMMA RecordedOneMore ==
  ASSUME SweepTypeOK, NEW b \in Batches, NEW i \in Indices, Recorded(b), worker[b][i] # "done",
         SetWorker(b, i, "done"), UNCHANGED driver, queue' = queue \cup {<<b, i>>},
         NEW r \in Result, r.idx = i, NEW p,
         results'[b] \in Seq(Result), Inserted(results'[b], results[b], p, r),
         driver # "optimizer" => \A k \in 1..Len(results[b]) : results[b][k].idx < i <=> k < p
  PROVE  Recorded(b)'
<1> DEFINE old == results[b]
           new == results'[b]
           n == Len(old)
<1>1. n \in Nat /\ old \in Seq(Result) /\ new \in Seq(Result) /\ Len(new) = n + 1 /\ p \in 1..(n + 1)
  BY DEF Recorded, Inserted
<1>2. \A k \in 1..(n + 1) : new[k] = IF k < p THEN old[k] ELSE IF k = p THEN r ELSE old[k - 1]
  BY DEF Inserted
<1>3. \A j \in Indices : worker'[b][j] = IF j = i THEN "done" ELSE worker[b][j]
  BY DEF SweepTypeOK, SetWorker
<1>4. /\ \A k \in 1..n : old[k] \in Result
      /\ \A k \in 1..n : old[k].idx \in Indices /\ old[k].idx \in Nat /\ worker[b][old[k].idx] = "done"
      /\ i \in Nat
  <2>1. \A k \in 1..n : old[k] \in Result
    BY <1>1
  <2>2. Indices \subseteq Nat
    BY BatchAssumption DEF Indices
  <2> QED
    BY <2>1, <2>2 DEF Recorded, Result
<1>5. \A k \in 1..n : old[k].idx # i
  BY <1>4
<1>6. /\ \A k, l \in 1..n : old[k].idx = old[l].idx => k = l
      /\ \A j \in Indices : worker[b][j] = "done" => <<b, j>> \in queue /\ \E k \in 1..n : old[k].idx = j
      /\ driver # "optimizer" => \A k, l \in 1..n : k < l => old[k].idx < old[l].idx
      /\ driver # "optimizer" => \A k \in 1..n : old[k].idx < i <=> k < p
  BY DEF Recorded, Ordered
<1> HIDE DEF old, new, n
<1> DEFINE from(k) == IF k < p THEN k ELSE k - 1
<1>7. \A k \in 1..(n + 1) : k # p => from(k) \in 1..n /\ new[k] = old[from(k)]
  BY <1>1, <1>2
<1>8. new[p] = r
  BY <1>1, <1>2
<1>9. \A k \in 1..n : \E l \in 1..(n + 1) : l # p /\ from(l) = k
  <2> TAKE k \in 1..n
  <2>1. CASE k < p
    <3>1. k \in 1..(n + 1) /\ k # p /\ from(k) = k
      BY <1>1, <2>1
    <3> QED
      BY <3>1
  <2>2. CASE ~ (k < p)
    <3>1. k + 1 \in 1..(n + 1) /\ k + 1 # p /\ from(k + 1) = k
      BY <1>1, <2>2
    <3> QED
      BY <3>1
  <2> QED
    BY <2>1, <2>2
<1>10. \A k, l \in 1..(n + 1) : k # p /\ l # p => (from(k) = from(l) => k = l) /\ (k < l => from(k) < from(l))
  BY <1>1
<1>11. \A k \in 1..(n + 1) : k # p => (from(k) < p <=> k < p)
  BY <1>1
<1> HIDE DEF from
<1>12. \A k \in 1..(n + 1) : worker'[b][new[k].idx] = "done"
  <2> TAKE k \in 1..(n + 1)
  <2>1. CASE k = p
    BY <1>3, <1>8, <2>1
  <2>2. CASE k # p
    BY <1>3, <1>4, <1>7, <2>2
  <2> QED
    BY <2>1, <2>2
<1>13. ASSUME NEW j \in Indices, worker'[b][j] = "done"
       PROVE  <<b, j>> \in queue' /\ \E k \in 1..(n + 1) : new[k].idx = j
  <2>1. CASE j = i
    BY <1>1, <1>8, <2>1
  <2>2. CASE j # i
    <3>1. worker[b][j] = "done"
      BY <1>3, <1>13, <2>2
    <3>2. PICK k \in 1..n : old[k].idx = j
      BY <1>6, <3>1
    <3>3. PICK l \in 1..(n + 1) : l # p /\ from(l) = k
      BY <1>9
    <3> QED
      BY <1>6, <1>7, <3>1, <3>2, <3>3
  <2> QED
    BY <2>1, <2>2
<1>14. ASSUME NEW k \in 1..(n + 1), NEW l \in 1..(n + 1), new[k].idx = new[l].idx PROVE k = l
  <2>1. CASE k = p \/ l = p
    BY <1>5, <1>7, <1>8, <1>14, <2>1
  <2>2. CASE k # p /\ l # p
    BY <1>6, <1>7, <1>10, <1>14, <2>2
  <2> QED
    BY <2>1, <2>2
<1>15. ASSUME driver # "optimizer", NEW k \in 1..(n + 1), NEW l \in 1..(n + 1), k < l
       PROVE  new[k].idx < new[l].idx
  <2>1. CASE k # p /\ l # p
    BY <1>6, <1>7, <1>10, <1>15, <2>1
  <2>2. CASE l = p
    <3>1. k # p /\ from(k) \in 1..n /\ from(k) < p
      BY <1>1, <1>7, <1>11, <1>15, <2>2
    <3> QED
      BY <1>6, <1>7, <1>8, <1>15, <2>2, <3>1
  <2>3. CASE k = p
    <3>1. l # p /\ ~ (l < p)
      BY <1>1, <1>15, <2>3
    <3>2. from(l) \in 1..n /\ ~ (from(l) < p) /\ new[l] = old[from(l)]
      BY <1>7, <1>11, <3>1
    <3>3. ~ (old[from(l)].idx < i) /\ old[from(l)].idx # i /\ old[from(l)].idx \in Nat
      BY <1>4, <1>5, <1>6, <1>15, <3>2
    <3>4. i < old[from(l)].idx
      BY <1>4, <3>3
    <3> QED
      BY <1>8, <2>3, <3>2, <3>4
  <2> QED
    BY <2>1, <2>2, <2>3
<1>16. driver' = driver
  OBVIOUS
<1> QED
  BY <1>1, <1>12, <1>13, <1>14, <1>15, <1>16 DEF Recorded, Ordered, new

LEMMA RecordKeeps ==
  ASSUME SweepInvariant, NEW b \in Batches, NEW i \in Indices, worker[b][i] # "done",
         SetWorker(b, i, "done"), UNCHANGED driver, Emit(b, i),
         NEW ok \in BOOLEAN, results' = Record(b, i, [idx |-> i, ok |-> ok])
  PROVE  AllRecorded'
<1> DEFINE r == [idx |-> i, ok |-> ok]
           p == IF driver = "optimizer" THEN Len(results[b]) + 1 ELSE Place(results[b], i)
<1>1. /\ Recorded(b) /\ results[b] \in Seq(Result) /\ DOMAIN results = Batches
      /\ r \in Result /\ r.idx = i
      /\ queue' = queue \cup {<<b, i>>}
  BY DEF SweepInvariant, AllRecorded, Recorded, Result, Emit
<1>2. \A k \in 1..Len(results[b]) : results[b][k].idx # i
  BY <1>1 DEF Recorded
<1> HIDE DEF r
<1>3. results' = [results EXCEPT ![b] = IF driver = "optimizer" THEN Append(@, r)
                                          ELSE InsertAt(@, Place(@, i), r)]
  BY DEF Record, r
<1>4. /\ results'[b] \in Seq(Result) /\ Inserted(results'[b], results[b], p, r)
      /\ driver # "optimizer" => \A k \in 1..Len(results[b]) : results[b][k].idx < i <=> k < p
  <2>1. CASE driver = "optimizer"
    <3>1. results'[b] = Append(results[b], r)
      BY <1>1, <1>3, <2>1
    <3> QED
      BY <1>1, <2>1, <3>1, AppendInserts
  <2>2. CASE driver # "optimizer"
    <3>1. results'[b] = InsertAt(results[b], Place(results[b], i), r)
      BY <1>1, <1>3, <2>2
    <3>2. Ordered(results[b])
      BY <1>1, <2>2 DEF Recorded
    <3>3. /\ Place(results[b], i) \in 1..(Len(results[b]) + 1)
          /\ \A k \in 1..Len(results[b]) : results[b][k].idx < i <=> k < Place(results[b], i)
      BY <1>1, <1>2, <3>2, PlaceFits
    <3> QED
      BY <1>1, <2>2, <3>1, <3>3, InsertAtInserts
  <2> QED
    BY <2>1, <2>2
<1> HIDE DEF p
<1>5. Recorded(b)'
  BY <1>1, <1>4, RecordedOneMore DEF SweepInvariant
<1>6. ASSUME NEW c \in Batches, c # b PROVE Recorded(c)'
  <2>1. results'[c] = results[c] /\ \A j \in Indices : <<c, j>> \in queue => <<c, j>> \in queue'
    BY <1>1, <1>3, <1>6
  <2>2. worker'[c] = worker[c]
    BY <1>6 DEF SweepInvariant, SweepTypeOK, SetWorker
  <2>3. Recorded(c)
    BY DEF SweepInvariant, AllRecorded
  <2> QED
    BY <2>1, <2>2, <2>3 DEF Recorded
<1>7. DOMAIN results' = Batches
  BY <1>1, <1>3
<1> QED
  BY <1>5, <1>6, <1>7 DEF AllRecorded

LEMMA RecordsRest ==
  ASSUME AllRecorded, UNCHANGED <<driver, results, queue>>,
         \A b \in Batches, i \in Indices : worker'[b][i] = "done" <=> worker[b][i] = "done"
  PROVE  AllRecorded'
<1> SUFFICES ASSUME NEW b \in Batches PROVE Recorded(b)'
  BY DEF AllRecorded
<1>1. Recorded(b)
  BY DEF AllRecorded
<1>2. \A k \in 1..Len(results[b]) : results[b][k].idx \in Indices
  <2>1. \A k \in 1..Len(results[b]) : results[b][k] \in Result
    BY <1>1 DEF Recorded
  <2> QED
    BY <2>1 DEF Result
<1> QED
  BY <1>1, <1>2 DEF Recorded

LEMMA SweepInit == Init => SweepInvariant
<1> SUFFICES ASSUME Init PROVE SweepInvariant
  OBVIOUS
<1>1. Len(Concurrency) \in Nat /\ Race \in Nat \ {0} /\ Default \in Nat
  BY ConfigurationsAssumption DEF Race
<1>2. SweepTypeOK
  <2>1. at \in 1..Race /\ waves \in Nat
    BY <1>1 DEF Init
  <2>2. free \in [0..Race -> Nat]
    BY <1>1 DEF Init
  <2>3. worker \in [Batches -> [Indices -> WorkerStates]]
    BY DEF Init, WorkerStates
  <2>4. summaries \in Seq(Summary)
    BY DEF Init
  <2> QED
    BY <2>1, <2>2, <2>3, <2>4 DEF Init, SweepTypeOK
<1>3. \A b \in Batches, i \in Indices : worker[b][i] = "none"
  BY DEF Init
<1>4. \A b \in Batches : ~ Begun(b)
  BY <1>3 DEF Begun
<1>5. Race \in Batches
  BY <1>1 DEF Batches
<1>6. RaceIsOn
  BY <1>4, <1>5 DEF Init, RaceIsOn
<1>7. SlotsKept /\ OwnSemaphores /\ StopIsFinal
  BY <1>4 DEF Init, SlotsKept, OwnSemaphores, StopIsFinal
<1>8. AllRecorded
  BY <1>3, NothingRecorded DEF Init, AllRecorded
<1> QED
  BY <1>2, <1>6, <1>7, <1>8 DEF SweepInvariant

LEMMA WorkerKeeps ==
  ASSUME SweepInvariant, NEW b \in Batches, NEW i \in Indices, Worker(b, i)
  PROVE  SweepInvariant'
<1>1. \E s \in WorkerStates :
        /\ SetWorker(b, i, s)
        /\ \/ SlotTaken(b, i) /\ s = "calling"
           \/ SlotGiven(b, i) /\ s \in {"done", "failed", "cancelled"}
        /\ s = "calling" => worker[b][i] = "waiting"
  <2>1. CASE Call(b, i)
    BY <2>1 DEF Call, SlotTaken, WorkerStates
  <2>2. CASE Answer(b, i)
    BY <2>2 DEF Answer, SlotGiven, WorkerStates
  <2>3. CASE Fail(b, i)
    BY <2>3 DEF Fail, Freed, SlotGiven, WorkerStates
  <2>4. CASE Unwind(b, i)
    BY <2>4 DEF Unwind, SlotGiven, WorkerStates
  <2> QED
    BY <2>1, <2>2, <2>3, <2>4 DEF Worker
<1>2. /\ UNCHANGED <<driver, metric, at, summaries, best, waves>>
      /\ \/ UNCHANGED <<stage, ending>>
         \/ stage' = "closing" /\ ending' = "error"
  BY DEF Worker, Call, Answer, Fail, Unwind, progress
<1>3. PICK s \in WorkerStates :
        /\ SetWorker(b, i, s)
        /\ \/ SlotTaken(b, i) /\ s = "calling"
           \/ SlotGiven(b, i) /\ s \in {"done", "failed", "cancelled"}
        /\ s = "calling" => worker[b][i] = "waiting"
  BY <1>1
<1>4. /\ free' \in [0..Race -> Nat] /\ worker' \in [Batches -> [Indices -> WorkerStates]]
      /\ \A c \in Batches : Begun(c)' = Begun(c)
      /\ SlotsKept' /\ OwnSemaphores'
  BY <1>2, <1>3, SlotsMove
<1>5. SweepTypeOK'
  BY <1>2, <1>4 DEF SweepInvariant, SweepTypeOK, Summary
<1>6. \A c \in Batches, j \in Indices :
        worker'[c][j] = IF c = b /\ j = i THEN s ELSE worker[c][j]
  BY <1>3 DEF SweepInvariant, SweepTypeOK, SetWorker
<1>7. worker[b][i] \in {"waiting", "calling", "unwinding"} /\ s # "waiting"
  BY <1>3 DEF SlotTaken, SlotGiven
<1>8. Race \in Batches
  BY ConfigurationsAssumption DEF Race, Batches
<1>9. RaceIsOn'
  BY <1>2, <1>4, <1>6, <1>7, <1>8 DEF SweepInvariant, RaceIsOn
<1>10. StopIsFinal'
  BY <1>2, <1>6, <1>7 DEF SweepInvariant, StopIsFinal
<1>11. AllRecorded'
  <2>1. CASE Answer(b, i)
    <3>1. results' = Record(b, i, [idx |-> i, ok |-> TRUE]) /\ Emit(b, i) /\ SetWorker(b, i, "done")
      BY <2>1 DEF Answer
    <3> QED
      BY <1>2, <1>7, <3>1, RecordKeeps
  <2>2. CASE Fail(b, i) /\ driver = "optimizer"
    <3>1. results' = Record(b, i, [idx |-> i, ok |-> FALSE]) /\ Emit(b, i) /\ SetWorker(b, i, "done")
      BY <2>2 DEF Fail
    <3> QED
      BY <1>2, <1>7, <3>1, RecordKeeps
  <2>3. CASE Call(b, i) \/ Unwind(b, i) \/ (Fail(b, i) /\ driver # "optimizer")
    <3>1. \E q \in WorkerStates \ {"done"} : SetWorker(b, i, q) /\ UNCHANGED <<results, queue>>
      BY <2>3 DEF Call, Unwind, Fail, WorkerStates
    <3>2. \A c \in Batches, j \in Indices : worker'[c][j] = "done" <=> worker[c][j] = "done"
      BY <1>7, <3>1 DEF SweepInvariant, SweepTypeOK, SetWorker
    <3> QED
      BY <1>2, <3>1, <3>2, RecordsRest DEF SweepInvariant
  <2> QED
    BY <2>1, <2>2, <2>3 DEF Worker
<1> QED
  BY <1>4, <1>5, <1>9, <1>10, <1>11 DEF SweepInvariant

\* A new batch: the semaphores of its configurations are new too, except
\* between the waves of a race, when all slots have been given back.
LEMMA BeginKeeps ==
  ASSUME SweepInvariant, Begin
  PROVE  SweepInvariant'
<1> DEFINE bs == IF driver = "optimizer" /\ at = 1 THEN 1..(Race - 1) ELSE {at}
<1>1. /\ stage = "next" /\ stage' = "batch" /\ (at = Race => best # None)
      /\ free' = IF waves > 0 THEN free ELSE Reconfigure(bs)
      /\ worker' = [b \in Batches |-> [i \in Indices |-> IF b \in bs THEN "waiting" ELSE "none"]]
      /\ waves' = IF at = Race THEN waves + 1 ELSE waves
      /\ UNCHANGED <<driver, metric, at, summaries, best, ending>>
  BY DEF Begin
<1>2. Race \in Nat \ {0} /\ at \in 1..Race /\ Batches = 1..Race /\ Race \in Batches
  BY ConfigurationsAssumption DEF Race, Batches, SweepInvariant, SweepTypeOK
<1>3. at = Race => Race > 1
  BY <1>1, <1>2 DEF SweepInvariant, SweepTypeOK, Summary
<1>4. /\ bs \subseteq Batches /\ (Race \in bs => at = Race) /\ (at = Race => bs = {Race})
      /\ \A b, c \in bs : Sem(b) = Sem(c) => b = c
  <2>1. CASE driver = "optimizer" /\ at = 1
    BY <1>2, <1>3, <2>1 DEF Sem
  <2>2. CASE ~ (driver = "optimizer" /\ at = 1)
    BY <1>2, <2>2
  <2> QED
    BY <2>1, <2>2
<1> HIDE DEF bs
<1>5. \A b \in bs : Sem(b) \in 0..Race /\ Limit(b) \in Nat
  BY <1>1, <1>4, LimitIsNatural DEF SweepInvariant
<1>6. \A b \in Batches : Begun(b)' => b \in bs
  BY <1>1 DEF Begun
<1>7. \A b \in Batches : Calls(b)' = {} /\ Cardinality(Calls(b)') = 0
  <2>1. \A b \in Batches, i \in Indices : worker'[b][i] \notin {"calling", "unwinding"}
    BY <1>1
  <2> QED
    BY <2>1, FS_EmptySet DEF Calls
<1>8. free' \in [0..Race -> Nat] /\ \A b \in Batches : Begun(b)' => free'[Sem(b)] = Limit(b)
  <2>1. CASE waves > 0
    <3>1. at = Race /\ free' = free /\ \A i \in Indices : worker[Race][i] = "done"
      BY <1>1, <2>1 DEF SweepInvariant, RaceIsOn
    <3>2. ASSUME NEW b \in Batches, Begun(b)' PROVE free'[Sem(b)] = Limit(b)
      <4>1. b = Race /\ Indices # {}
        BY <1>4, <1>6, <3>1, <3>2 DEF Begun
      <4>2. Begun(Race) /\ Calls(Race) = {} /\ Cardinality(Calls(Race)) = 0
        BY <3>1, <4>1, FS_EmptySet DEF Begun, Calls
      <4>3. free[Sem(Race)] + 0 = Limit(Race)
        BY <1>2, <4>2 DEF SweepInvariant, SlotsKept
      <4>4. free[Sem(Race)] \in Nat
        BY <1>5, <1>4, <1>6, <3>2, <4>1 DEF SweepInvariant, SweepTypeOK
      <4> QED
        BY <3>1, <4>1, <4>3, <4>4
    <3> QED
      BY <3>1, <3>2 DEF SweepInvariant, SweepTypeOK
  <2>2. CASE ~ (waves > 0)
    <3>1. free' = Reconfigure(bs) /\ free \in [0..Race -> Nat]
      BY <1>1, <2>2 DEF SweepInvariant, SweepTypeOK
    <3>2. ASSUME NEW m \in 0..Race, \E b \in bs : Sem(b) = m
          PROVE  \E b \in bs : Sem(b) = m /\ (CHOOSE c \in bs : Sem(c) = m) = b
      BY <1>4, <3>2
    <3>3. \A b \in bs : (CHOOSE c \in bs : Sem(c) = Sem(b)) = b
      BY <1>4
    <3>4. DOMAIN free = 0..Race
      BY <3>1
    <3>5. /\ DOMAIN free' = 0..Race
          /\ \A m \in 0..Race : free'[m] = IF \E b \in bs : Sem(b) = m
                                             THEN Limit(CHOOSE b \in bs : Sem(b) = m) ELSE free[m]
          /\ free' = [m \in 0..Race |-> free'[m]]
      BY <3>1, <3>4 DEF Reconfigure
    <3>6. \A b \in bs : free'[Sem(b)] = Limit(b)
      BY <1>5, <3>3, <3>5
    <3>7. ASSUME NEW m \in 0..Race PROVE free'[m] \in Nat
      BY <1>5, <3>1, <3>2, <3>5
    <3> QED
      BY <1>6, <3>5, <3>6, <3>7
  <2> QED
    BY <2>1, <2>2
<1>9. \A b \in Batches : Sem(b)' = Sem(b) /\ Limit(b)' = Limit(b)
  BY <1>1 DEF Sem, Limit, ConfigOf
<1>10. SlotsKept'
  <2> SUFFICES ASSUME NEW b \in Batches, Begun(b)'
               PROVE  free'[Sem(b)] + Cardinality(Calls(b)') = Limit(b)
    BY <1>9 DEF SlotsKept
  <2>1. Limit(b) \in Nat /\ free'[Sem(b)] = Limit(b) /\ Cardinality(Calls(b)') = 0
    BY <1>5, <1>6, <1>7, <1>8
  <2> QED
    BY <2>1
<1>11. OwnSemaphores'
  BY <1>4, <1>6, <1>9 DEF OwnSemaphores
<1>12. RaceIsOn'
  <2>1. waves' > 0 => at = Race
    BY <1>1 DEF SweepInvariant, RaceIsOn
  <2> QED
    BY <1>1, <1>2, <1>4, <1>6, <2>1 DEF RaceIsOn
<1>13. StopIsFinal'
  BY <1>1 DEF SweepInvariant, StopIsFinal
<1>14. SweepTypeOK'
  <2>1. worker' \in [Batches -> [Indices -> WorkerStates]]
    BY <1>1 DEF WorkerStates
  <2>2. waves' \in Nat
    BY <1>1 DEF SweepInvariant, SweepTypeOK
  <2> QED
    BY <1>1, <1>8, <2>1, <2>2 DEF SweepInvariant, SweepTypeOK, Summary
<1>15. AllRecorded'
  <2>1. DOMAIN results' = Batches /\ \A b \in Batches : results'[b] = << >>
    BY DEF Begin
  <2>2. \A b \in Batches, i \in Indices : worker'[b][i] # "done"
    BY <1>1
  <2>3. ASSUME NEW b \in Batches PROVE Recorded(b)'
    <3>1. << >> \in Seq(Result) /\ Len(<< >>) = 0 /\ 1..0 = {}
      OBVIOUS
    <3> QED
      BY <2>1, <2>2, <3>1 DEF Recorded, Ordered
  <2> QED
    BY <2>1, <2>3 DEF AllRecorded
<1> QED
  BY <1>10, <1>11, <1>12, <1>13, <1>14, <1>15 DEF SweepInvariant

\* The steps of the driver that leave the workers and the semaphores alone.
AtRest == UNCHANGED <<driver, free, worker>>

LEMMA SlotsRest ==
  ASSUME SweepInvariant, AtRest, Begun(Race) => UNCHANGED best
  PROVE  /\ \A b \in Batches : Begun(b)' = Begun(b)
         /\ SlotsKept' /\ OwnSemaphores'
<1>1. \A b \in Batches : Begun(b)' = Begun(b) /\ Calls(b)' = Calls(b) /\ Sem(b)' = Sem(b)
  BY DEF AtRest, Begun, Calls, Sem
<1>2. \A b \in Batches : Begun(b) => Limit(b)' = Limit(b)
  BY DEF Limit, ConfigOf
<1>3. \A b \in Batches : Begun(b)' => Begun(b)
  BY <1>1
<1>4. SlotsKept'
  <2> SUFFICES ASSUME NEW b \in Batches, Begun(b)
               PROVE  (free[Sem(b)] + Cardinality(Calls(b)) = Limit(b))'
    BY <1>3 DEF SlotsKept
  <2>1. free[Sem(b)] + Cardinality(Calls(b)) = Limit(b)
    BY DEF SweepInvariant, SlotsKept
  <2> QED
    BY <1>1, <1>2, <2>1 DEF AtRest
<1>5. OwnSemaphores'
  BY <1>1 DEF SweepInvariant, OwnSemaphores
<1> QED
  BY <1>1, <1>4, <1>5

LEMMA RunningBatches ==
  ASSUME SweepTypeOK, stage = "batch", at # Race
  PROVE  /\ Running \subseteq 1..(Race - 1)
         /\ Cardinality(Running) \in Nat /\ at + Cardinality(Running) \in 1..Race
         /\ \A k \in 1..Cardinality(Running) : at + k - 1 \in Running
<1>1. Race \in Nat \ {0} /\ at \in 1..(Race - 1)
  BY ConfigurationsAssumption DEF Race, SweepTypeOK
<1>2. CASE driver = "optimizer" /\ at = 1
  <2>1. Running = 1..(Race - 1)
    BY <1>2 DEF Running
  <2>2. Cardinality(Running) = Race - 1
    BY <1>1, <2>1, FS_Interval
  <2> QED
    BY <1>1, <1>2, <2>1, <2>2
<1>3. CASE ~ (driver = "optimizer" /\ at = 1)
  <2>1. Running = {at}
    BY <1>3 DEF Running
  <2>2. Cardinality(Running) = 1
    BY <2>1, FS_Singleton
  <2> QED
    BY <1>1, <2>1, <2>2
<1> QED
  BY <1>2, <1>3

\* What is summarised is the measurement of a configuration.
LEMMA SummariesAre ==
  ASSUME SweepTypeOK, NEW b \in 1..(Race - 1), IsFiniteSet(DOMAIN results[b])
  PROVE  SummariesOf(b) \subseteq Summary
<1> DEFINE successes == {k \in DOMAIN results[b] : results[b][k].ok}
<1>1. Cardinality(successes) \in Nat
  <2>1. successes \subseteq DOMAIN results[b]
    OBVIOUS
  <2> HIDE DEF successes
  <2> QED
    BY <2>1, FS_Subset, FS_CardinalityType
<1>2. Race \in Nat /\ ConfigOf(b) \in 1..(Race - 1)
  BY ConfigurationsAssumption DEF ConfigOf, Race
<1>3. Rates \subseteq Nat \X Nat \X BOOLEAN
  BY RatesAssumption
<1>4. ASSUME NEW r \in IF Cardinality(successes) = 0 THEN {<<0, 0, TRUE>>} ELSE Rates
      PROVE  r[1] \in Nat /\ r[2] \in Nat /\ r[3] \in BOOLEAN
  <2>1. CASE r = <<0, 0, TRUE>>
    BY <2>1
  <2>2. CASE r \in Nat \X Nat \X BOOLEAN
    BY <2>2, Z3
  <2> QED
    BY <1>3, <1>4, <2>1, <2>2
<1> HIDE DEF successes
<1>5. ASSUME NEW r \in IF Cardinality(successes) = 0 THEN {<<0, 0, TRUE>>} ELSE Rates
      PROVE  [config |-> ConfigOf(b), ok |-> Cardinality(successes),
              tok |-> r[1], req |-> r[2], instant |-> r[3]]
               \in Summary
  BY <1>1, <1>2, <1>4, <1>5 DEF Summary
<1> USE DEF successes
<1> QED
  BY <1>5 DEF SummariesOf

LEMMA DriverKeeps ==
  ASSUME SweepInvariant, Preflight \/ Point \/ Choose \/ Raced
  PROVE  SweepInvariant'
<1>1. /\ AtRest /\ UNCHANGED <<metric, results, queue, waves>>
      /\ stage' \in {"next", "closing"}
      /\ ending' = "stopped" => ending = "stopped"
      /\ stage = "closing" \/ stage = "over" => FALSE
  BY DEF Preflight, Point, Choose, Raced, AtRest, Gathered, Running
<1>2. Begun(Race) => UNCHANGED best
  BY DEF SweepInvariant, RaceIsOn, Preflight, Point, Choose, Raced
<1>3. (\A b \in Batches : Begun(b)' = Begun(b)) /\ SlotsKept' /\ OwnSemaphores'
  BY <1>1, <1>2, SlotsRest
<1>4. AllRecorded'
  BY <1>1, RecordsRest DEF SweepInvariant, AtRest
<1>5. StopIsFinal'
  BY <1>1 DEF SweepInvariant, StopIsFinal
<1>6. Race \in Batches
  BY ConfigurationsAssumption DEF Race, Batches
<1>7. SweepTypeOK' /\ RaceIsOn'
  <2>1. CASE Preflight
    BY <1>1, <1>3, <1>6, <2>1 DEF Preflight, AtRest, SweepInvariant, SweepTypeOK, Summary, RaceIsOn
  <2>2. CASE Point
    <3>1. /\ stage = "batch" /\ at # Race /\ at' = at + Cardinality(Running) /\ stage' = "next"
          /\ UNCHANGED best
      BY <2>2 DEF Point, Gathered, Running
    <3>2. /\ Running \subseteq 1..(Race - 1) /\ Cardinality(Running) \in Nat
          /\ at + Cardinality(Running) \in 1..Race
          /\ \A k \in 1..Cardinality(Running) : at + k - 1 \in Running
      BY <3>1, RunningBatches DEF SweepInvariant
    <3>3. \A b \in Running : SummariesOf(b) \subseteq Summary
      <4>1. ASSUME NEW b \in Running PROVE IsFiniteSet(DOMAIN results[b])
        <5>1. b \in Batches
          BY <3>2 DEF Batches, Race
        <5>2. results[b] \in Seq(Result)
          BY <5>1 DEF SweepInvariant, AllRecorded, Recorded
        <5>3. DOMAIN results[b] = 1..Len(results[b]) /\ Len(results[b]) \in Nat
          BY <5>2
        <5> QED
          BY <5>3, FS_Interval
      <4> QED
        BY <3>2, <4>1, SummariesAre DEF SweepInvariant
    <3>4. PICK new : /\ \A b \in Running : new[b] \in SummariesOf(b)
                     /\ summaries' = summaries \o [k \in 1..Cardinality(Running) |-> new[at + k - 1]]
      BY <2>2 DEF Point
    <3>5. [k \in 1..Cardinality(Running) |-> new[at + k - 1]] \in Seq(Summary)
      <4>1. \A k \in 1..Cardinality(Running) : new[at + k - 1] \in Summary
        BY <3>2, <3>3, <3>4
      <4> QED
        BY <3>2, <4>1
    <3>6. summaries' \in Seq(Summary)
      BY <3>4, <3>5, ConcatProperties DEF SweepInvariant, SweepTypeOK
    <3>7. ~ (waves > 0)
      BY <3>1 DEF SweepInvariant, RaceIsOn
    <3> QED
      BY <1>1, <1>3, <1>6, <3>1, <3>2, <3>6, <3>7 DEF AtRest, SweepInvariant, SweepTypeOK, Summary, RaceIsOn
  <2>3. CASE Choose
    <3>1. UNCHANGED <<at, summaries>> /\ best = None
      BY <2>3 DEF Choose
    <3>2. best' = None \/ best' \in Summary
      <4>1. CASE Candidates = {}
        BY <2>3, <4>1 DEF Choose
      <4>2. CASE Candidates # {}
        <5>1. best' = Best(summaries, Candidates, metric)
          BY <2>3, <4>2 DEF Choose
        <5>2. Candidates \subseteq DOMAIN summaries
          BY DEF Candidates, Valid
        <5> QED
          BY <4>2, <5>1, <5>2, BestIsOne DEF SweepInvariant
      <4> QED
        BY <4>1, <4>2
    <3>3. ~ (waves > 0) /\ ~ Begun(Race)
      BY <3>1 DEF SweepInvariant, RaceIsOn
    <3>4. SweepTypeOK'
      BY <1>1, <3>1, <3>2 DEF AtRest, SweepInvariant, SweepTypeOK, Summary
    <3> QED
      BY <1>1, <1>3, <1>6, <3>3, <3>4 DEF RaceIsOn
  <2>4. CASE Raced
    <3>1. UNCHANGED <<at, summaries, best>> /\ at = Race /\ stage = "batch"
      BY <2>4 DEF Raced, Gathered
    <3>2. at # 1
      <4>1. best \in Summary /\ Race \in Nat
        BY <3>1, ConfigurationsAssumption DEF SweepInvariant, SweepTypeOK, RaceIsOn, Race
      <4> QED
        BY <3>1, <4>1 DEF Summary
    <3>3. \A i \in Indices : worker[Race][i] = "done"
      BY <2>4, <3>1, <3>2 DEF Raced, Gathered, Running
    <3> QED
      BY <1>1, <1>3, <1>6, <3>1, <3>3 DEF AtRest, SweepInvariant, SweepTypeOK, Summary, RaceIsOn
  <2> QED
    BY <2>1, <2>2, <2>3, <2>4
<1> QED
  BY <1>3, <1>4, <1>5, <1>7 DEF SweepInvariant

\* A cancellation leaves no worker waiting; those at the backend keep their slots.
LEMMA CancelKeeps ==
  ASSUME SweepInvariant, CancelAll \/ UNCHANGED worker, stage' \in {"closing", "over"},
         UNCHANGED <<driver, metric, at, free, summaries, best, waves, results, queue>>,
         ending' = "stopped" => CancelAll \/ ending = "stopped"
  PROVE  SweepInvariant'
<1>1. /\ worker' \in [Batches -> [Indices -> WorkerStates]]
      /\ \A b \in Batches, i \in Indices :
           worker'[b][i] = worker[b][i] \/ worker'[b][i] = Cancelled(worker[b][i])
  <2>1. CASE CancelAll
    <3>1. \A b \in Batches, i \in Indices : Cancelled(worker[b][i]) \in WorkerStates
      BY DEF SweepInvariant, SweepTypeOK, Cancelled, WorkerStates
    <3> QED
      BY <2>1, <3>1 DEF CancelAll
  <2>2. CASE UNCHANGED worker
    BY <2>2 DEF SweepInvariant, SweepTypeOK
  <2> QED
    BY <2>1, <2>2
<1>2. \A b \in Batches, i \in Indices :
        /\ worker'[b][i] # "none" <=> worker[b][i] # "none"
        /\ worker'[b][i] \in {"calling", "unwinding"} <=> worker[b][i] \in {"calling", "unwinding"}
        /\ worker'[b][i] = "done" <=> worker[b][i] = "done"
        /\ worker'[b][i] = "waiting" => worker[b][i] = "waiting"
  BY <1>1 DEF Cancelled
<1>3. \A b \in Batches :
        Begun(b)' = Begun(b) /\ Calls(b)' = Calls(b) /\ Sem(b)' = Sem(b) /\ Limit(b)' = Limit(b)
  BY <1>2 DEF Begun, Calls, Sem, Limit, ConfigOf
<1>4. SlotsKept' /\ OwnSemaphores'
  BY <1>3 DEF SweepInvariant, SlotsKept, OwnSemaphores
<1>5. Race \in Batches
  BY ConfigurationsAssumption DEF Race, Batches
<1>6. RaceIsOn'
  BY <1>3, <1>5 DEF SweepInvariant, RaceIsOn
<1>7. StopIsFinal'
  <2>1. CancelAll => \A b \in Batches, i \in Indices : worker'[b][i] # "waiting"
    BY DEF CancelAll, Cancelled
  <2> QED
    BY <1>2, <2>1 DEF SweepInvariant, StopIsFinal
<1>8. AllRecorded'
  BY <1>2, RecordsRest DEF SweepInvariant
<1>9. SweepTypeOK'
  BY <1>1 DEF SweepInvariant, SweepTypeOK, Summary
<1> QED
  BY <1>4, <1>6, <1>7, <1>8, <1>9 DEF SweepInvariant

LEMMA NextKeeps == SweepInvariant /\ [Next]_vars => SweepInvariant'
<1> SUFFICES ASSUME SweepInvariant, [Next]_vars PROVE SweepInvariant'
  OBVIOUS
<1>1. CASE \E b \in Batches, i \in Indices : Worker(b, i)
  BY <1>1, WorkerKeeps
<1>2. CASE Begin
  BY <1>2, BeginKeeps
<1>3. CASE Preflight \/ Point \/ Choose \/ Raced
  BY <1>3, DriverKeeps
<1>4. CASE Stop
  BY <1>4, CancelKeeps DEF Stop
<1>5. CASE Close
  BY <1>5, CancelKeeps DEF Close
<1>6. CASE UNCHANGED vars
  <2>1. UNCHANGED <<driver, metric, stage, at, summaries, best, waves, ending, free, worker, results, queue>>
    BY <1>6 DEF vars, progress
  <2>2. /\ \A b \in Batches :
             Begun(b)' = Begun(b) /\ Calls(b)' = Calls(b) /\ Sem(b)' = Sem(b) /\ Limit(b)' = Limit(b)
        /\ Begun(Race)' = Begun(Race)
    BY <2>1 DEF Begun, Calls, Sem, Limit, ConfigOf
  <2>3. SlotsKept' /\ OwnSemaphores' /\ RaceIsOn' /\ StopIsFinal'
    BY <2>1, <2>2 DEF SweepInvariant, SlotsKept, OwnSemaphores, RaceIsOn, StopIsFinal
  <2>4. AllRecorded'
    BY <2>1, RecordsRest DEF SweepInvariant
  <2> QED
    BY <2>1, <2>3, <2>4 DEF SweepInvariant, SweepTypeOK, Summary
<1> QED
  BY <1>1, <1>2, <1>3, <1>4, <1>5, <1>6 DEF Next, Driver

-----------------------------------------------------------------------------
(* The theorems. *)

\* In every reachable state the free slots of a semaphore and the calls of the
\* batch that uses it make up the concurrency of the configuration measured,
\* no two batches share a semaphore, and a worker is done if and only if its
\* result is recorded, once.
THEOREM SweepInvariance == Spec => []SweepInvariant
<1>1. Init => SweepInvariant
  BY SweepInit
<1>2. SweepInvariant /\ [Next]_vars => SweepInvariant'
  BY NextKeeps
<1> QED
  BY <1>1, <1>2, PTL DEF Spec

\* No batch has more calls at the backend at a time than the configuration it
\* measures allows, for all three drivers, however the semaphore was replaced
\* and whatever was cancelled (client.semaphore, run_config).
THEOREM ConcurrencyIsKept == Spec => []WithinConcurrency
<1>1. SweepInvariant => WithinConcurrency
  <2> SUFFICES ASSUME SweepInvariant, NEW b \in Batches,
                      {i \in Indices : worker[b][i] \in {"calling", "unwinding"}} # {}
               PROVE  Cardinality(Calls(b)) <= Limit(b)
    BY DEF WithinConcurrency, Calls
  <2>1. Begun(b)
    BY DEF Begun
  <2>2. free[Sem(b)] + Cardinality(Calls(b)) = Limit(b)
    BY <2>1 DEF SweepInvariant, SlotsKept
  <2>3. Sem(b) \in 0..Race
    BY <2>1, LimitIsNatural DEF SweepInvariant, RaceIsOn
  <2>4. free[Sem(b)] \in Nat
    BY <2>3 DEF SweepInvariant, SweepTypeOK
  <2>5. Cardinality(Calls(b)) \in Nat
    BY IndicesFinite DEF Calls
  <2> QED
    BY <2>2, <2>4, <2>5
<1> QED
  BY <1>1, SweepInvariance, PTL

\* A stopped run calls no more: a slot that comes free lets nobody through.
THEOREM StoppedIsQuiet == Spec => StopsCalling
<1>1. ASSUME SweepInvariant, [Next]_vars, ending = "stopped",
             NEW b \in Batches, NEW i \in Indices, worker'[b][i] = "calling"
      PROVE  worker[b][i] = "calling"
  <2>1. stage \in {"closing", "over"} /\ worker[b][i] # "waiting"
    BY <1>1 DEF SweepInvariant, StopIsFinal
  <2>2. ASSUME NEW c \in Batches, NEW j \in Indices, Worker(c, j) PROVE worker[b][i] = "calling"
    <3>1. \E s \in WorkerStates : SetWorker(c, j, s) /\ (s = "calling" => worker[c][j] = "waiting")
      BY <2>2 DEF Worker, Call, Answer, Fail, Unwind, WorkerStates
    <3> QED
      BY <1>1, <2>1, <3>1 DEF SweepInvariant, SweepTypeOK, SetWorker
  <2>3. ASSUME Driver \/ Stop PROVE worker[b][i] = "calling"
    <3>1. Close /\ (CancelAll \/ UNCHANGED worker)
      BY <2>1, <2>3 DEF Driver, Preflight, Begin, Point, Choose, Raced, Close, Stop, Gathered, Running
    <3> QED
      BY <1>1, <3>1 DEF CancelAll, Cancelled
  <2>4. ASSUME UNCHANGED vars PROVE worker[b][i] = "calling"
    BY <1>1, <2>4 DEF vars
  <2> QED
    BY <1>1, <2>2, <2>3, <2>4 DEF Next
<1>2. SweepInvariant /\ [Next]_vars =>
        [ending = "stopped" => \A b \in Batches, i \in Indices :
           worker'[b][i] = "calling" => worker[b][i] = "calling"]_vars
  BY <1>1
<1> QED
  BY <1>2, SweepInvariance, PTL DEF Spec, StopsCalling

\* The numbers of a full set in order are those from 1 on.
LEMMA InOrder ==
  ASSUME NEW n \in Nat, NEW f \in [1..n -> 1..n],
         \A k, l \in 1..n : k < l => f[k] < f[l], \A i \in 1..n : \E k \in 1..n : f[k] = i
  PROVE  \A k \in 1..n : f[k] = k
<1> DEFINE T == {k \in 1..n : f[k] # k}
<1>1. ASSUME T # {} PROVE FALSE
  <2>1. PICK k \in T : \A l \in T : k <= l
    <3>1. T \subseteq Nat
      OBVIOUS
    <3> HIDE DEF T
    <3> QED
      BY <1>1, <3>1, LeastNatural
  <2>2. k \in 1..n /\ f[k] # k /\ f[k] \in 1..n
    OBVIOUS
  <2>3. \A l \in 1..n : l < k => f[l] = l
    BY <2>1
  <2>4. PICK l \in 1..n : f[l] = k
    BY <2>2
  <2>5. ~ (l < k) /\ l # k
    BY <2>2, <2>3, <2>4
  <2>6. f[k] < k
    BY <2>2, <2>4, <2>5
  <2>7. f[f[k]] = f[k] /\ f[f[k]] < f[k]
    BY <2>2, <2>3, <2>6
  <2> QED
    BY <2>2, <2>7
<1> QED
  BY <1>1

\* A batch that ends has one result for each of its requests and the progress
\* of every request went out; those of bulk() are in the order of the requests,
\* however the answers came (AsyncCfire.bulk, run_config).
THEOREM BatchesAreWhole == Spec => []BatchIsWhole
<1>1. ASSUME SweepInvariant, Gathered, NEW b \in Running
      PROVE  /\ {results[b][k].idx : k \in DOMAIN results[b]} = Indices /\ Len(results[b]) = Requests
             /\ driver # "optimizer" => \A k \in Indices : results[b][k].idx = k
             /\ \A i \in Indices : <<b, i>> \in queue
  <2> DEFINE n == Len(results[b])
             f == [k \in 1..n |-> results[b][k].idx]
  <2>1. b \in Batches
    <3>1. Race \in Nat \ {0} /\ at \in 1..Race
      BY <1>1, ConfigurationsAssumption DEF Race, SweepInvariant, SweepTypeOK
    <3> QED
      BY <3>1 DEF Running, Batches
  <2>2. Recorded(b) /\ \A i \in Indices : worker[b][i] = "done"
    BY <1>1, <2>1 DEF SweepInvariant, AllRecorded, Gathered
  <2>3. n \in Nat /\ DOMAIN results[b] = 1..n /\ \A k \in 1..n : results[b][k].idx \in Indices
    <3>1. n \in Nat /\ DOMAIN results[b] = 1..n /\ \A k \in 1..n : results[b][k] \in Result
      BY <2>2 DEF Recorded
    <3> QED
      BY <3>1 DEF Result
  <2>4. /\ \A i \in Indices : <<b, i>> \in queue /\ \E k \in 1..n : results[b][k].idx = i
        /\ \A k, l \in 1..n : results[b][k].idx = results[b][l].idx => k = l
        /\ driver # "optimizer" => \A k, l \in 1..n : k < l => results[b][k].idx < results[b][l].idx
    BY <2>2 DEF Recorded, Ordered
  <2> HIDE DEF n
  <2>5. f \in Bijection(1..n, Indices)
    BY <2>3, <2>4 DEF Bijection, Injection, Surjection, IsInjective
  <2>6. n = Requests
    <3>1. IsFiniteSet(1..n) /\ Cardinality(1..n) = n
      BY <2>3, FS_Interval
    <3>2. Cardinality(Indices) = Requests
      BY BatchAssumption, FS_Interval DEF Indices
    <3> HIDE DEF f
    <3>3. Cardinality(Indices) = Cardinality(1..n)
      BY <2>5, <3>1, FS_Bijection DEF ExistsBijection
    <3> QED
      BY <3>1, <3>2, <3>3
  <2>7. f \in [1..n -> 1..n] /\ Indices = 1..n
    BY <2>3, <2>6 DEF Indices
  <2>8. driver # "optimizer" => \A k \in 1..n : f[k] = k
    <3>1. \A i \in 1..n : \E k \in 1..n : f[k] = i
      BY <2>4, <2>7
    <3>2. driver # "optimizer" => \A k, l \in 1..n : k < l => f[k] < f[l]
      BY <2>4
    <3> HIDE DEF f
    <3> QED
      BY <2>3, <2>7, <3>1, <3>2, InOrder
  <2>9. driver # "optimizer" => \A k \in Indices : results[b][k].idx = k
    BY <2>7, <2>8
  <2>10. {results[b][k].idx : k \in DOMAIN results[b]} = Indices
    <3>1. \A k \in 1..n : results[b][k].idx \in Indices
      BY <2>3
    <3>2. \A i \in Indices : \E k \in 1..n : results[b][k].idx = i
      BY <2>4
    <3>3. {results[b][k].idx : k \in 1..n} = Indices
      BY <3>1, <3>2
    <3> QED
      BY <2>3, <3>3
  <2> QED
    BY <2>4, <2>6, <2>9, <2>10 DEF n
<1>2. SweepInvariant => BatchIsWhole
  BY <1>1 DEF BatchIsWhole
<1> QED
  BY <1>2, SweepInvariance, PTL

-----------------------------------------------------------------------------
(* The reservoir. *)

ReservoirInvariant == seen \in Nat /\ reservoir \in Seq(Nat) /\ ReservoirFills

\* Every latency that is observed is a new one, and takes a place of its own.
LEMMA MeasureKeeps ==
  ASSUME ReservoirInvariant, Measure \/ UNCHANGED metrics
  PROVE  ReservoirInvariant'
<1>1. /\ seen \in Nat /\ reservoir \in Seq(Nat) /\ ReservoirSize \in Nat \ {0}
      /\ Len(reservoir) = IF seen < ReservoirSize THEN seen ELSE ReservoirSize
      /\ \A i \in 1..Len(reservoir) : reservoir[i] \in 1..seen
      /\ \A i, j \in 1..Len(reservoir) : reservoir[i] = reservoir[j] => i = j
      /\ DOMAIN reservoir = 1..Len(reservoir) /\ Len(reservoir) \in Nat
  <2>1. DOMAIN reservoir = 1..Len(reservoir)
    BY DEF ReservoirInvariant
  <2>2. \A i \in 1..Len(reservoir) : reservoir[i] \in 1..seen
    BY <2>1 DEF ReservoirInvariant, ReservoirFills, ToSet
  <2>3. \A i, j \in 1..Len(reservoir) : reservoir[i] = reservoir[j] => i = j
    BY <2>1 DEF ReservoirInvariant, ReservoirFills, IsInjective
  <2> QED
    BY <2>1, <2>2, <2>3, SizeAssumption DEF ReservoirInvariant, ReservoirFills
\* What there is to show of the new reservoir.
<1>2. ASSUME NEW r \in Seq(Nat), NEW n \in Nat, reservoir' = r, seen' = n,
             Len(r) = IF n < ReservoirSize THEN n ELSE ReservoirSize,
             \A i \in 1..Len(r) : r[i] \in 1..n,
             \A i, j \in 1..Len(r) : r[i] = r[j] => i = j
      PROVE  ReservoirInvariant'
  <2>1. DOMAIN r = 1..Len(r)
    OBVIOUS
  <2>2. ToSet(r) \subseteq 1..n
    BY <1>2, <2>1 DEF ToSet
  <2>3. IsInjective(r)
    BY <1>2, <2>1 DEF IsInjective
  <2> QED
    BY <1>2, <2>2, <2>3 DEF ReservoirInvariant, ReservoirFills
<1>3. CASE UNCHANGED metrics
  BY <1>1, <1>2, <1>3 DEF metrics
<1>4. CASE seen' = seen + 1 /\ reservoir' \in Observe(reservoir, seen', seen')
  <2> DEFINE n == seen + 1
  <2>1. n \in Nat /\ n = seen' /\ \A x \in 1..seen : x \in 1..n /\ x # n
    BY <1>1, <1>4
  <2>2. n \in 1..n /\ reservoir' \in Observe(reservoir, n, n)
    BY <1>1, <1>4
  <2>3. CASE Len(reservoir) < ReservoirSize
    <3>1. reservoir' = Append(reservoir, n)
      BY <2>2, <2>3 DEF Observe
    <3> HIDE DEF n
    <3>2. /\ reservoir' \in Seq(Nat) /\ Len(reservoir') = Len(reservoir) + 1
          /\ \A i \in 1..Len(reservoir) : reservoir'[i] = reservoir[i]
          /\ reservoir'[Len(reservoir) + 1] = n
      BY <1>1, <2>1, <3>1, AppendProperties
    <3>3. \A i \in 1..Len(reservoir') : i \in 1..Len(reservoir) \/ i = Len(reservoir) + 1
      BY <1>1, <3>2
    <3>4. \A i \in 1..Len(reservoir') : reservoir'[i] \in 1..n
      BY <1>1, <2>1, <2>2, <3>2, <3>3
    <3>5. \A i, j \in 1..Len(reservoir') : reservoir'[i] = reservoir'[j] => i = j
      BY <1>1, <2>1, <3>2, <3>3
    <3>6. Len(reservoir') = IF n < ReservoirSize THEN n ELSE ReservoirSize
      BY <1>1, <2>3, <3>2 DEF n
    <3> QED
      BY <1>2, <2>1, <3>2, <3>4, <3>5, <3>6
  <2>4. CASE ~(Len(reservoir) < ReservoirSize)
    <3>1. Len(reservoir) = ReservoirSize /\ ~(n < ReservoirSize)
      BY <1>1, <2>4
    <3> HIDE DEF n
    <3>2. CASE reservoir' = reservoir
      <4>1. \A i \in 1..Len(reservoir) : reservoir[i] \in 1..n
        BY <1>1, <2>1
      <4> QED
        BY <1>1, <1>2, <2>1, <3>1, <3>2, <4>1
    <3>3. CASE \E k \in 1..ReservoirSize : reservoir' = [reservoir EXCEPT ![k] = n]
      <4>1. PICK k \in 1..ReservoirSize : reservoir' = [reservoir EXCEPT ![k] = n]
        BY <3>3
      <4>2. /\ reservoir' \in Seq(Nat) /\ Len(reservoir') = Len(reservoir)
            /\ \A i \in 1..Len(reservoir) : reservoir'[i] = IF i = k THEN n ELSE reservoir[i]
        BY <1>1, <2>1, <3>1, <4>1
      <4>3. \A i \in 1..Len(reservoir') : reservoir'[i] \in 1..n
        BY <1>1, <2>1, <2>2, <4>2
      <4>4. \A i, j \in 1..Len(reservoir') : reservoir'[i] = reservoir'[j] => i = j
        <5>1. \A i \in 1..Len(reservoir) : reservoir[i] # n
          BY <1>1, <2>1
        <5>2. ASSUME NEW i \in 1..Len(reservoir), NEW j \in 1..Len(reservoir), reservoir'[i] = reservoir'[j]
              PROVE  i = j
          <6>1. CASE i = k \/ j = k
            BY <4>2, <5>1, <5>2, <6>1
          <6>2. CASE i # k /\ j # k
            <7>1. reservoir[i] = reservoir[j]
              BY <4>2, <5>2, <6>2
            <7> QED
              BY <1>1, <7>1
          <6> QED
            BY <6>1, <6>2
        <5> QED
          BY <4>2, <5>2
      <4> QED
        BY <1>2, <2>1, <3>1, <4>2, <4>3, <4>4
    <3> QED
      BY <2>2, <2>4, <3>2, <3>3 DEF Observe
  <2> QED
    BY <2>3, <2>4
<1> QED
  BY <1>3, <1>4 DEF Measure

\* The invariant holds in every state.
LEMMA ReservoirInvariance == Spec => []ReservoirInvariant
<1>1. Init => ReservoirInvariant
  <2> SUFFICES ASSUME Init PROVE ReservoirInvariant
    OBVIOUS
  <2>1. /\ seen = 0 /\ reservoir = << >> /\ << >> \in Seq(Nat) /\ Len(<< >>) = 0
        /\ DOMAIN << >> = {} /\ ReservoirSize \in Nat \ {0}
    BY SizeAssumption DEF Init
  <2>2. ToSet(reservoir) = {} /\ IsInjective(reservoir)
    BY <2>1 DEF ToSet, IsInjective
  <2> QED
    BY <2>1, <2>2 DEF ReservoirInvariant, ReservoirFills
<1>2. ReservoirInvariant /\ [Next]_vars => ReservoirInvariant'
  <2> SUFFICES ASSUME ReservoirInvariant, [Next]_vars PROVE ReservoirInvariant'
    OBVIOUS
  <2>1. CASE Driver \/ Stop \/ UNCHANGED vars
    <3>1. Measure \/ UNCHANGED metrics
      BY <2>1 DEF Driver, Preflight, Begin, Point, Choose, Raced, Close, Stop, vars
    <3> QED
      BY <3>1, MeasureKeeps
  <2>2. ASSUME NEW b \in Batches, NEW i \in Indices, Worker(b, i) PROVE ReservoirInvariant'
    <3>1. Measure \/ UNCHANGED metrics
      BY <2>2 DEF Worker, Call, Answer, Fail, Unwind
    <3> QED
      BY <3>1, MeasureKeeps
  <2> QED
    BY <2>1, <2>2 DEF Next
<1> QED
  BY <1>1, <1>2, PTL DEF Spec

\* Metrics._observe_latency: for every size of the reservoir and however many
\* answers there are, it holds as many latencies as it can, each once.
THEOREM ReservoirIsKept == Spec => []ReservoirFills
<1>1. ReservoirInvariant => ReservoirFills
  BY DEF ReservoirInvariant
<1> QED
  BY <1>1, ReservoirInvariance, PTL

-----------------------------------------------------------------------------
(* The percentiles. *)

\* f hundredths of the way from one value to another, as percentile() interpolates.
Between(x, y, f) == x * (100 - f) + y * f

\* Between two values that do not fall, further along is not lower.
LEMMA Interpolation ==
  ASSUME NEW x \in Nat, NEW y \in Nat, x <= y, NEW f \in 0..100, NEW g \in 0..100
  PROVE  /\ Between(x, y, f) \in Nat
         /\ 100 * x <= Between(x, y, f) /\ Between(x, y, f) <= 100 * y
         /\ f <= g => Between(x, y, f) <= Between(x, y, g)
         /\ Between(x, y, 0) = 100 * x
<1> DEFINE d == y - x
<1>1. d \in Nat /\ y = x + d
  OBVIOUS
<1> HIDE DEF d
<1>2. Between(x, y, f) = 100 * x + d * f /\ Between(x, y, g) = 100 * x + d * g
  BY <1>1 DEF Between
<1>3. d * f \in Nat /\ d * f <= 100 * d /\ (f <= g => d * f <= d * g)
  BY <1>1
<1>4. Between(x, y, 0) = 100 * x
  BY DEF Between
<1> QED
  BY <1>1, <1>2, <1>3, <1>4

\* sorted() of latencies: ascending, and the same values.
LEMMA SortedProperties ==
  ASSUME NEW s \in Seq(Nat)
  PROVE  LET r == Ranking(DOMAIN s, s)
             sorted == [k \in DOMAIN s |-> s[r[k]]]
         IN  /\ DOMAIN s = 1..Len(s) /\ Len(s) \in Nat
             /\ sorted \in [1..Len(s) -> Nat]
             /\ \A k, l \in 1..Len(s) : k <= l => sorted[k] <= sorted[l]
             /\ \A k \in 1..Len(s) : \E i \in 1..Len(s) : sorted[k] = s[i]
             /\ \A i \in 1..Len(s) : \E k \in 1..Len(s) : sorted[k] = s[i]
<1> DEFINE n == Len(s)
           r == Ranking(DOMAIN s, s)
           sorted == [k \in DOMAIN s |-> s[r[k]]]
<1>1. DOMAIN s = 1..n /\ n \in Nat /\ s \in [1..n -> Nat]
  OBVIOUS
<1> HIDE DEF n
<1>2. IsFiniteSet(1..n) /\ Cardinality(1..n) = n
  BY <1>1, FS_Interval
<1>3. /\ r \in [1..n -> 1..n]
      /\ \A i \in 1..n : \E k \in 1..n : r[k] = i
      /\ \A k, l \in 1..n : k < l => ComesBefore(s, r[k], r[l])
  <2>1. 1..n \subseteq Int /\ s \in [1..n -> Int]
    BY <1>1
  <2>2. /\ Ranking(1..n, s) \in [1..Cardinality(1..n) -> 1..n]
        /\ \A i \in 1..n : \E k \in 1..Cardinality(1..n) : Ranking(1..n, s)[k] = i
        /\ \A k, l \in 1..Cardinality(1..n) :
             k < l => ComesBefore(s, Ranking(1..n, s)[k], Ranking(1..n, s)[l])
    BY <1>2, <2>1, RankingProperties, ZenonT(60)
  <2> QED
    BY <1>1, <1>2, <2>2
<1> HIDE DEF r
<1>4. \A k \in 1..n : sorted[k] = s[r[k]] /\ r[k] \in 1..n /\ sorted[k] \in Nat
  BY <1>1, <1>3
<1>5. sorted \in [1..n -> Nat]
  BY <1>1, <1>4
<1> HIDE DEF sorted
<1>6. ASSUME NEW k \in 1..n, NEW l \in 1..n, k <= l PROVE sorted[k] <= sorted[l]
  <2>1. CASE k = l
    BY <1>4, <2>1
  <2>2. CASE k < l
    <3>1. ComesBefore(s, r[k], r[l])
      BY <1>3, <2>2
    <3>2. s[r[k]] <= s[r[l]]
      BY <1>4, <3>1 DEF ComesBefore
    <3> QED
      BY <1>4, <3>2
  <2> QED
    BY <1>6, <2>1, <2>2
<1>7. ASSUME NEW i \in 1..n PROVE \E k \in 1..n : sorted[k] = s[i]
  <2>1. PICK k \in 1..n : r[k] = i
    BY <1>3
  <2> QED
    BY <1>4, <2>1
<1> QED
  BY <1>1, <1>4, <1>5, <1>6, <1>7 DEF n, r, sorted

\* The value that many hundredths behind the first of n values.
ValueAt(f, n, k) ==
  LET lo == k \div 100
      hi == IF lo + 1 < n THEN lo + 1 ELSE n - 1
  IN  Between(f[lo + 1], f[hi + 1], k % 100)

LEMMA ValueAtPlace ==
  ASSUME NEW n \in Nat \ {0}, NEW f \in [1..n -> Nat], NEW k \in 0..(100 * (n - 1))
  PROVE  \E a \in 1..n, b \in 1..n, m \in 0..99 :
           /\ k = 100 * (a - 1) + m
           /\ b = a + 1 \/ (b = a /\ a = n /\ m = 0)
           /\ ValueAt(f, n, k) = Between(f[a], f[b], m)
<1> DEFINE lo == k \div 100
           m == k % 100
           hi == IF lo + 1 < n THEN lo + 1 ELSE n - 1
<1>1. lo \in Nat /\ m \in 0..99 /\ k = 100 * lo + m
  OBVIOUS
<1>2. ValueAt(f, n, k) = Between(f[lo + 1], f[hi + 1], m)
  BY DEF ValueAt
<1> HIDE DEF lo, m
<1>3. lo \in 0..(n - 1) /\ (m = 0 \/ lo < n - 1)
  BY <1>1
<1>4. hi \in 0..(n - 1) /\ (hi = lo + 1 \/ (hi = lo /\ lo = n - 1 /\ m = 0))
  BY <1>1, <1>3
<1> HIDE DEF hi
<1>5. lo + 1 \in 1..n /\ hi + 1 \in 1..n /\ k = 100 * ((lo + 1) - 1) + m
  BY <1>1, <1>3, <1>4
<1>6. hi + 1 = (lo + 1) + 1 \/ (hi + 1 = lo + 1 /\ lo + 1 = n /\ m = 0)
  BY <1>3, <1>4
<1> QED
  BY <1>1, <1>2, <1>5, <1>6

\* Further along is not lower, and at the ends are the first and the last.
LEMMA ValueAtRises ==
  ASSUME NEW n \in Nat \ {0}, NEW f \in [1..n -> Nat],
         \A i, j \in 1..n : i <= j => f[i] <= f[j]
  PROVE  /\ \A k, l \in 0..(100 * (n - 1)) : k <= l => ValueAt(f, n, k) <= ValueAt(f, n, l)
         /\ ValueAt(f, n, 0) = 100 * f[1]
         /\ ValueAt(f, n, 100 * (n - 1)) = 100 * f[n]
<1>1. \A k \in 0..(100 * (n - 1)) :
        \E a \in 1..n, b \in 1..n, m \in 0..99 :
           /\ k = 100 * (a - 1) + m
           /\ b = a + 1 \/ (b = a /\ a = n /\ m = 0)
           /\ ValueAt(f, n, k) = Between(f[a], f[b], m)
  BY ValueAtPlace, ZenonT(60)
<1>2. ASSUME NEW k \in 0..(100 * (n - 1)), NEW l \in 0..(100 * (n - 1)), k <= l
      PROVE  ValueAt(f, n, k) <= ValueAt(f, n, l)
  <2>1. PICK a \in 1..n, b \in 1..n, x \in 0..99 :
          /\ k = 100 * (a - 1) + x
          /\ b = a + 1 \/ (b = a /\ a = n /\ x = 0)
          /\ ValueAt(f, n, k) = Between(f[a], f[b], x)
    BY <1>1, Zenon
  <2>2. PICK c \in 1..n, d \in 1..n, y \in 0..99 :
          /\ l = 100 * (c - 1) + y
          /\ d = c + 1 \/ (d = c /\ c = n /\ y = 0)
          /\ ValueAt(f, n, l) = Between(f[c], f[d], y)
    BY <1>1, Zenon
  <2>3. f[a] \in Nat /\ f[b] \in Nat /\ f[c] \in Nat /\ f[d] \in Nat
    OBVIOUS
  <2>4. f[a] <= f[b] /\ f[c] <= f[d]
    BY <2>1, <2>2
  <2>5. x \in 0..100 /\ y \in 0..100
    OBVIOUS
  <2>6. CASE a = c
    <3>1. x <= y /\ (b = d \/ x = 0)
      BY <1>2, <2>1, <2>2, <2>6
    <3>2. CASE x = 0
      <4>1. Between(f[a], f[b], 0) = 100 * f[a]
        BY <2>3, <2>4, <2>5, Interpolation, ZenonT(60)
      <4>2. 100 * f[c] <= Between(f[c], f[d], y)
        BY <2>3, <2>4, <2>5, Interpolation
      <4> QED
        BY <2>1, <2>2, <2>6, <3>2, <4>1, <4>2
    <3>3. CASE b = d
      <4>1. Between(f[a], f[b], x) <= Between(f[a], f[b], y)
        BY <2>3, <2>4, <2>5, <3>1, Interpolation
      <4> QED
        BY <2>1, <2>2, <2>6, <3>3, <4>1
    <3> QED
      BY <3>1, <3>2, <3>3
  <2>7. CASE a # c
    <3>1. b <= c
      BY <1>2, <2>1, <2>2, <2>7
    <3>2. f[b] <= f[c]
      BY <3>1
    <3>3. Between(f[a], f[b], x) \in Nat /\ Between(f[a], f[b], x) <= 100 * f[b]
      BY <2>3, <2>4, <2>5, Interpolation, ZenonT(60)
    <3>4. Between(f[c], f[d], y) \in Nat /\ 100 * f[c] <= Between(f[c], f[d], y)
      BY <2>3, <2>4, <2>5, Interpolation, ZenonT(60)
    <3>5. Between(f[a], f[b], x) <= Between(f[c], f[d], y)
      BY <2>3, <3>2, <3>3, <3>4, SMTT(30)
    <3> QED
      BY <2>1, <2>2, <3>5
  <2> QED
    BY <2>6, <2>7
<1>3. 0 \in 0..(100 * (n - 1)) /\ 100 * (n - 1) \in 0..(100 * (n - 1))
  OBVIOUS
<1>4. ValueAt(f, n, 0) = 100 * f[1]
  <2>1. PICK a \in 1..n, b \in 1..n, x \in 0..99 :
          /\ 0 = 100 * (a - 1) + x
          /\ b = a + 1 \/ (b = a /\ a = n /\ x = 0)
          /\ ValueAt(f, n, 0) = Between(f[a], f[b], x)
    BY <1>1, <1>3, Zenon
  <2>2. a = 1 /\ x = 0 /\ f[a] \in Nat /\ f[b] \in Nat /\ f[a] <= f[b] /\ 0 \in 0..100
    BY <2>1
  <2>3. Between(f[a], f[b], 0) = 100 * f[a]
    BY <2>2, Interpolation, ZenonT(60)
  <2> QED
    BY <2>1, <2>2, <2>3
<1>5. ValueAt(f, n, 100 * (n - 1)) = 100 * f[n]
  <2>1. PICK a \in 1..n, b \in 1..n, x \in 0..99 :
          /\ 100 * (n - 1) = 100 * (a - 1) + x
          /\ b = a + 1 \/ (b = a /\ a = n /\ x = 0)
          /\ ValueAt(f, n, 100 * (n - 1)) = Between(f[a], f[b], x)
    BY <1>1, <1>3, Zenon
  <2>2. a = n /\ x = 0 /\ f[a] \in Nat /\ f[b] \in Nat /\ f[a] <= f[b] /\ 0 \in 0..100
    BY <2>1
  <2>3. Between(f[a], f[b], 0) = 100 * f[a]
    BY <2>2, Interpolation, ZenonT(60)
  <2> QED
    BY <2>1, <2>2, <2>3
<1> QED
  BY <1>2, <1>4, <1>5

\* Percentiles of latencies: the least and the greatest at the ends, and a
\* higher percentile is not lower.
LEMMA PercentileProperties ==
  ASSUME NEW s \in Seq(Nat), s # << >>
  PROVE  /\ Percentile(s, 0) = 100 * Min(ToSet(s))
         /\ Percentile(s, 100) = 100 * Max(ToSet(s))
         /\ \A p, q \in 0..100 : p <= q => Percentile(s, p) <= Percentile(s, q)
<1> DEFINE order == Ranking(DOMAIN s, s)
           ranked == [k \in DOMAIN s |-> s[order[k]]]
<1>1. PICK n \in Nat \ {0} : n = Len(s)
  OBVIOUS
<1>2. PICK sorted \in [1..n -> Nat] :
        /\ sorted = ranked
        /\ DOMAIN s = 1..n
        /\ \A k, l \in 1..n : k <= l => sorted[k] <= sorted[l]
        /\ \A k \in 1..n : \E i \in 1..n : sorted[k] = s[i]
        /\ \A i \in 1..n : \E k \in 1..n : sorted[k] = s[i]
  BY <1>1, SortedProperties, ZenonT(60)
<1>3. Len(sorted) = n
  OBVIOUS
<1>4. ASSUME NEW x \in 0..100
      PROVE  Percentile(s, x) = ValueAt(sorted, n, x * (n - 1)) /\ x * (n - 1) \in 0..(100 * (n - 1))
  <2>1. PICK m \in Nat : m = n - 1
    OBVIOUS
  <2>2. x * m \in 0..(100 * m)
    OBVIOUS
  <2>3. Percentile(s, x) = ValueAt(sorted, n, x * (n - 1))
    BY <1>2, <1>3 DEF Percentile, ValueAt, Between
  <2> QED
    BY <2>1, <2>2, <2>3
<1> HIDE DEF ranked
<1>5. /\ \A k, l \in 0..(100 * (n - 1)) : k <= l => ValueAt(sorted, n, k) <= ValueAt(sorted, n, l)
      /\ ValueAt(sorted, n, 0) = 100 * sorted[1]
      /\ ValueAt(sorted, n, 100 * (n - 1)) = 100 * sorted[n]
  BY <1>2, ValueAtRises, ZenonT(60)
<1>6. ASSUME NEW p \in 0..100, NEW q \in 0..100, p <= q PROVE Percentile(s, p) <= Percentile(s, q)
  <2>1. PICK m \in Nat : m = n - 1
    OBVIOUS
  <2>2. p * m <= q * m
    BY <1>6
  <2> QED
    BY <1>4, <1>5, <2>1, <2>2
<1>7. Percentile(s, 0) = 100 * sorted[1] /\ Percentile(s, 100) = 100 * sorted[n]
  <2>1. 0 \in 0..100 /\ 100 \in 0..100 /\ 0 * (n - 1) = 0
    OBVIOUS
  <2>2. Percentile(s, 0) = ValueAt(sorted, n, 0 * (n - 1))
    BY <1>4, <2>1
  <2>3. Percentile(s, 100) = ValueAt(sorted, n, 100 * (n - 1))
    BY <1>4, <2>1
  <2> QED
    BY <1>5, <2>1, <2>2, <2>3
<1>8. Min(ToSet(s)) = sorted[1] /\ Max(ToSet(s)) = sorted[n]
  <2>1. ToSet(s) = {s[i] : i \in 1..n}
    BY <1>2 DEF ToSet
  <2>2. 1 \in 1..n /\ n \in 1..n /\ \A k \in 1..n : 1 <= k /\ k <= n
    OBVIOUS
  <2>3. sorted[1] \in ToSet(s) /\ sorted[n] \in ToSet(s)
    BY <1>2, <2>1, <2>2
  <2>4. \A x \in ToSet(s) : x \in Nat /\ sorted[1] <= x /\ x <= sorted[n]
    <3> SUFFICES ASSUME NEW i \in 1..n PROVE s[i] \in Nat /\ sorted[1] <= s[i] /\ s[i] <= sorted[n]
      BY <2>1
    <3>1. PICK k \in 1..n : sorted[k] = s[i]
      BY <1>2
    <3> QED
      BY <1>2, <2>2, <3>1
  <2>5. \A x \in ToSet(s) : (\A y \in ToSet(s) : x <= y) <=> x = sorted[1]
    BY <2>3, <2>4
  <2>6. \A x \in ToSet(s) : (\A y \in ToSet(s) : x >= y) <=> x = sorted[n]
    BY <2>3, <2>4
  <2> QED
    BY <2>3, <2>5, <2>6 DEF Min, Max
<1> QED
  BY <1>6, <1>7, <1>8

\* Metrics._observe_latency and percentile: for every size of the reservoir and
\* however many answers there are, it is a sample of what was observed, and the
\* percentiles lie in order between its extremes.
THEOREM ReservoirIsASample == Spec => []ReservoirIsSample
<1>1. ReservoirInvariant => ReservoirIsSample
  <2> SUFFICES ASSUME ReservoirInvariant, reservoir # << >>
               PROVE  /\ Percentile(reservoir, 0) = 100 * Min(ToSet(reservoir))
                      /\ Percentile(reservoir, 100) = 100 * Max(ToSet(reservoir))
                      /\ Percentile(reservoir, 0) <= Percentile(reservoir, 50)
                      /\ Percentile(reservoir, 50) <= Percentile(reservoir, 99)
                      /\ Percentile(reservoir, 99) <= Percentile(reservoir, 100)
    BY DEF ReservoirInvariant, ReservoirIsSample
  <2>1. reservoir \in Seq(Nat)
    BY DEF ReservoirInvariant
  <2>2. 0 \in 0..100 /\ 50 \in 0..100 /\ 99 \in 0..100 /\ 100 \in 0..100 /\ 0 <= 50 /\ 50 <= 99 /\ 99 <= 100
    OBVIOUS
  <2> QED
    BY <2>1, <2>2, PercentileProperties, ZenonT(60)
<1>2. Spec => []ReservoirInvariant
  BY ReservoirInvariance
<1> QED
  BY <1>1, <1>2, PTL

-----------------------------------------------------------------------------
(* The best configuration. *)

\* The best was chosen once the sweep was over, and is what is raced.  What had
\* no success has no rates.
BestIsKept ==
  /\ best # None =>
       at = Race /\ Candidates # {} /\ best = Best(summaries, Candidates, metric)
  /\ \A k \in 1..Len(summaries) :
       summaries[k].ok # 0 \/ (summaries[k].tok = 0 /\ summaries[k].req = 0)
  /\ ending = "done" =>
       best # None /\ race.config = best.config /\ race.tok \in Nat /\ race.req \in Nat
         /\ race.instant \in BOOLEAN

\* Which configuration a summary is of, and what its rates are.
LEMMA SummaryShape ==
  ASSUME NEW b, NEW s \in SummariesOf(b)
  PROVE  /\ s.config = ConfigOf(b) /\ s.tok \in Nat /\ s.req \in Nat /\ s.instant \in BOOLEAN
         /\ s.ok # 0 \/ (s.tok = 0 /\ s.req = 0)
<1> DEFINE ok == Cardinality({k \in DOMAIN results[b] : results[b][k].ok})
<1>1. PICK r \in IF ok = 0 THEN {<<0, 0, TRUE>>} ELSE Rates :
        s = [config |-> ConfigOf(b), ok |-> ok, tok |-> r[1], req |-> r[2], instant |-> r[3]]
  BY DEF SummariesOf
<1> HIDE DEF ok
<1>2. r = <<0, 0, TRUE>> \/ r \in Nat \X Nat \X BOOLEAN
  BY RatesAssumption
<1>3. r[1] \in Nat /\ r[2] \in Nat /\ r[3] \in BOOLEAN
  <2>1. CASE r = <<0, 0, TRUE>>
    BY <2>1
  <2>2. CASE r \in Nat \X Nat \X BOOLEAN
    BY <2>2, Z3
  <2> QED
    BY <1>2, <2>1, <2>2
<1>4. ok = 0 => r[1] = 0 /\ r[2] = 0
  BY <1>1
<1> QED
  BY <1>1, <1>3, <1>4

LEMMA BestInit == Init => BestIsKept
<1> SUFFICES ASSUME Init PROVE BestIsKept
  OBVIOUS
<1>1. best = None /\ Len(summaries) = 0 /\ ending # "done"
  BY DEF Init
<1> QED
  BY <1>1 DEF BestIsKept

LEMMA BestKeeps ==
  ASSUME SweepInvariant, BestIsKept, [Next]_vars
  PROVE  BestIsKept'
<1>1. CASE /\ UNCHANGED <<driver, metric, at, summaries, best, race>>
           /\ ending' = "done" => ending = "done"
  <2>1. Candidates' = Candidates
    BY <1>1 DEF Candidates, Valid
  <2>2. Best(summaries, Candidates, metric)' = Best(summaries, Candidates, metric)
    BY <1>1, <2>1 DEF Best, Score
  <2> QED
    BY <1>1, <2>1, <2>2 DEF BestIsKept
<1>2. CASE Point
  <2>1. /\ stage = "batch" /\ at # Race /\ UNCHANGED <<best, race, ending>>
    BY <1>2 DEF Point, Gathered
  <2>2. best = None
    BY <2>1 DEF BestIsKept
  <2>3. /\ Cardinality(Running) \in Nat
        /\ \A k \in 1..Cardinality(Running) : at + k - 1 \in Running
    BY <2>1, RunningBatches DEF SweepInvariant
  <2>4. PICK new : /\ \A b \in Running : new[b] \in SummariesOf(b)
                   /\ summaries' = summaries \o [k \in 1..Cardinality(Running) |-> new[at + k - 1]]
    BY <1>2 DEF Point
  <2> DEFINE points == [k \in 1..Cardinality(Running) |-> new[at + k - 1]]
             m == Cardinality(Running)
             U == Summary \cup {new[at + k - 1] : k \in 1..Cardinality(Running)}
  <2>5. \A k \in 1..m : points[k].ok # 0 \/ (points[k].tok = 0 /\ points[k].req = 0)
    BY <2>3, <2>4, SummaryShape
  <2>6. points \in Seq(U) /\ Len(points) = m
    BY <2>3
  <2>7. summaries' = summaries \o points
    BY <2>4
  <2> HIDE DEF points, m, U
  <2>8. summaries \in Seq(U)
    <3>1. summaries \in Seq(Summary)
      BY DEF SweepInvariant, SweepTypeOK
    <3> QED
      BY <3>1 DEF U
  <2>9. \A k \in 1..Len(summaries') :
          summaries'[k].ok # 0 \/ (summaries'[k].tok = 0 /\ summaries'[k].req = 0)
    <3>1. ASSUME NEW k \in 1..Len(summaries')
          PROVE  \/ k \in 1..Len(summaries) /\ summaries'[k] = summaries[k]
                 \/ \E l \in 1..m : summaries'[k] = points[l]
      <4> DEFINE n == Len(summaries)
      <4>1. n \in Nat /\ m \in Nat
        BY <2>3, <2>8 DEF m
      <4>2. Len(summaries') = n + m
        BY <2>6, <2>7, <2>8, ConcatProperties
      <4>3. k \in 1..n => summaries'[k] = summaries[k]
        BY <2>6, <2>7, <2>8
      <4>4. k \notin 1..n => summaries'[k] = points[k - n]
        BY <2>6, <2>7, <2>8, <4>2
      <4> HIDE DEF n
      <4>5. k \in 1..n \/ k - n \in 1..m
        BY <4>1, <4>2
      <4> QED
        BY <4>3, <4>4, <4>5 DEF n
    <3> QED
      BY <2>5, <3>1 DEF BestIsKept
  <2> QED
    BY <2>1, <2>2, <2>9 DEF BestIsKept
<1>3. CASE Choose
  <2>1. UNCHANGED <<driver, metric, at, summaries, race>> /\ at = Race /\ best = None
    BY <1>3 DEF Choose
  <2>2. ending # "done" /\ ending' # "done"
    BY <1>3, <2>1 DEF Choose, BestIsKept
  <2>3. Candidates' = Candidates
    BY <2>1 DEF Candidates, Valid
  <2>4. best' # None => Candidates # {} /\ best' = Best(summaries, Candidates, metric)
    BY <1>3, <2>1 DEF Choose
  <2>5. Best(summaries, Candidates, metric)' = Best(summaries, Candidates, metric)
    BY <2>1, <2>3 DEF Best, Score
  <2>6. \A k \in 1..Len(summaries') :
          summaries'[k].ok # 0 \/ (summaries'[k].tok = 0 /\ summaries'[k].req = 0)
    BY <2>1 DEF BestIsKept
  <2> QED
    BY <2>1, <2>2, <2>3, <2>4, <2>5, <2>6 DEF BestIsKept
<1>4. CASE Raced /\ ending' = "done"
  <2>1. UNCHANGED <<driver, metric, at, summaries, best>> /\ stage = "batch" /\ at = Race
    BY <1>4 DEF Raced, Gathered
  <2>2. best # None
    BY <2>1 DEF SweepInvariant, RaceIsOn
  <2>3. race' \in SummariesOf(Race) \/ (UNCHANGED race /\ ending = "done")
    BY <1>4, <2>1 DEF Raced
  <2>4. race'.config = best.config /\ race'.tok \in Nat /\ race'.req \in Nat /\ race'.instant \in BOOLEAN
    BY <2>3, SummaryShape DEF BestIsKept, ConfigOf
  <2>5. Candidates' = Candidates
    BY <2>1 DEF Candidates, Valid
  <2>6. Best(summaries, Candidates, metric)' = Best(summaries, Candidates, metric)
    BY <2>1, <2>5 DEF Best, Score
  <2>7. \A k \in 1..Len(summaries') :
          summaries'[k].ok # 0 \/ (summaries'[k].tok = 0 /\ summaries'[k].req = 0)
    BY <2>1 DEF BestIsKept
  <2> QED
    BY <2>1, <2>2, <2>4, <2>5, <2>6, <2>7 DEF BestIsKept
<1>5. ASSUME NEW b \in Batches, NEW i \in Indices, Worker(b, i) PROVE BestIsKept'
  <2>1. /\ UNCHANGED <<driver, metric, at, summaries, best, race>>
        /\ ending' = "done" => ending = "done"
    BY <1>5 DEF Worker, Call, Answer, Fail, Unwind, progress
  <2> QED
    BY <1>1, <2>1
<1>6. ASSUME Preflight \/ Begin \/ Close \/ Stop \/ UNCHANGED vars \/ (Raced /\ ending' # "done")
      PROVE  BestIsKept'
  <2>1. /\ UNCHANGED <<driver, metric, at, summaries, best, race>>
        /\ ending' = "done" => ending = "done"
    BY <1>6 DEF Preflight, Begin, Close, Stop, Raced, vars, progress
  <2> QED
    BY <1>1, <2>1
<1> QED
  BY <1>2, <1>3, <1>4, <1>5, <1>6 DEF Next, Driver

-----------------------------------------------------------------------------
(* The saved file, and what the benchmark memory makes of it. *)

RecordOf(s, phase) ==
  [phase |-> phase, config |-> s.config, tok |-> s.tok, req |-> s.req, instant |-> s.instant]

LEMMA RecordFields ==
  \A s, p : /\ RecordOf(s, p).phase = p /\ RecordOf(s, p).config = s.config
           /\ RecordOf(s, p).tok = s.tok /\ RecordOf(s, p).req = s.req
           /\ RecordOf(s, p).instant = s.instant
BY DEF RecordOf

Records == [phase : {"sweep", "sustained", "best"}, config : Nat, tok : Nat, req : Nat,
            instant : BOOLEAN]

Measured(s) == s.config \in Nat /\ s.tok \in Nat /\ s.req \in Nat /\ s.instant \in BOOLEAN

\* The records of a file in their order: those of the sweep, the race, and
\* perhaps the winner.
LEMMA RecordsLoaded ==
  ASSUME NEW ss \in Seq(Summary), NEW b \in Summary, NEW r, Measured(r), NEW d, NEW m
  PROVE  LET rs == LoadData(SaveFile(d, m, ss, b, r))
             n == Len(ss)
         IN  /\ rs \in Seq(Records) /\ n \in Nat /\ Len(rs) \in {n + 1, n + 2}
             /\ \A i \in 1..n : rs[i] = RecordOf(ss[i], "sweep")
             /\ rs[n + 1] = RecordOf(r, "sustained")
             /\ \A i \in 1..Len(rs) : i \notin 1..(n + 1) => rs[i].phase = "best"
<1> DEFINE n == Len(ss)
           A == [i \in DOMAIN ss |-> RecordOf(ss[i], "sweep")]
           w == IF d = "advanced" THEN <<b>> ELSE << >>
           B == [i \in DOMAIN w |-> RecordOf(w[i], "best")]
           R == RecordOf(r, "sustained")
           rs == LoadData(SaveFile(d, m, ss, b, r))
<1>1. rs = A \o <<R>> \o B
  BY DEF LoadData, SaveFile, RecordOf
<1>2. /\ n \in Nat /\ A \in Seq(Records) /\ Len(A) = n
      /\ \A i \in 1..n : A[i] = RecordOf(ss[i], "sweep")
  <2>1. n \in Nat /\ DOMAIN ss = 1..n /\ \A i \in 1..n : ss[i] \in Summary
    OBVIOUS
  <2>2. \A s \in Summary : RecordOf(s, "sweep") \in Records
    BY DEF Summary, Records, RecordOf
  <2> HIDE DEF n
  <2>3. A = [i \in 1..n |-> RecordOf(ss[i], "sweep")]
    BY <2>1
  <2>4. \A i \in 1..n : RecordOf(ss[i], "sweep") \in Records
    BY <2>1, <2>2
  <2> QED
    BY <2>1, <2>3, <2>4
<1>3. R \in Records /\ R = RecordOf(r, "sustained")
  BY DEF Measured, Records, RecordOf
<1>4. /\ B \in Seq(Records) /\ Len(B) \in {0, 1}
      /\ \A i \in 1..Len(B) : B[i].phase = "best"
  <2>1. CASE d = "advanced"
    <3>1. w = <<b>> /\ DOMAIN w = 1..1 /\ w[1] = b
      BY <2>1
    <3>2. RecordOf(b, "best") \in Records /\ RecordOf(b, "best").phase = "best"
      BY DEF Summary, Records, RecordOf
    <3> HIDE DEF w
    <3>3. B = [i \in 1..1 |-> RecordOf(b, "best")]
      BY <3>1
    <3> QED
      BY <3>2, <3>3
  <2>2. CASE d # "advanced"
    <3>1. DOMAIN w = 1..0
      BY <2>2
    <3> HIDE DEF w
    <3>2. B = [i \in 1..0 |-> RecordOf(w[i], "best")]
      BY <3>1
    <3> QED
      BY <3>2
  <2> QED
    BY <2>1, <2>2
<1> HIDE DEF A, B, R, n
<1>5. /\ A \o <<R>> \in Seq(Records) /\ Len(A \o <<R>>) = n + 1
      /\ \A i \in 1..n : (A \o <<R>>)[i] = A[i]
      /\ (A \o <<R>>)[n + 1] = R
  <2>1. <<R>> \in Seq(Records) /\ Len(<<R>>) = 1 /\ <<R>>[1] = R
    BY <1>3
  <2> QED
    BY <1>2, <2>1, ConcatProperties
<1>6. /\ (A \o <<R>>) \o B \in Seq(Records) /\ Len((A \o <<R>>) \o B) = n + 1 + Len(B)
      /\ \A i \in 1..(n + 1) : ((A \o <<R>>) \o B)[i] = (A \o <<R>>)[i]
      /\ \A i \in 1..(n + 1 + Len(B)) : i \notin 1..(n + 1) => ((A \o <<R>>) \o B)[i] = B[i - (n + 1)]
  <2> DEFINE C == A \o <<R>>
  <2>1. C \in Seq(Records) /\ Len(C) = n + 1
    BY <1>5
  <2> HIDE DEF C
  <2>2. /\ C \o B \in Seq(Records) /\ Len(C \o B) = n + 1 + Len(B)
        /\ \A i \in 1..(n + 1) : (C \o B)[i] = C[i]
        /\ \A i \in 1..(n + 1 + Len(B)) : i \notin 1..(n + 1) => (C \o B)[i] = B[i - (n + 1)]
    <3>1. /\ C \o B \in Seq(Records) /\ Len(C \o B) = Len(C) + Len(B)
          /\ \A i \in 1..(Len(C) + Len(B)) :
               (C \o B)[i] = IF i <= Len(C) THEN C[i] ELSE B[i - Len(C)]
      BY <1>4, <2>1, ConcatProperties
    <3>2. Len(B) \in Nat /\ n \in Nat /\ Len(C) = n + 1
      BY <1>2, <1>4, <2>1
    <3> QED
      BY <3>1, <3>2
  <2> QED
    BY <2>2 DEF C
<1> HIDE DEF rs
<1>7. rs \in Seq(Records) /\ Len(rs) = n + 1 + Len(B)
  BY <1>1, <1>6
<1>8. \A i \in 1..n : rs[i] = RecordOf(ss[i], "sweep")
  BY <1>1, <1>2, <1>5, <1>6
<1>9. rs[n + 1] = RecordOf(r, "sustained")
  BY <1>1, <1>2, <1>3, <1>5, <1>6
<1>10. \A i \in 1..Len(rs) : i \notin 1..(n + 1) => rs[i].phase = "best"
  <2> SUFFICES ASSUME NEW i \in 1..Len(rs), i \notin 1..(n + 1) PROVE rs[i].phase = "best"
    OBVIOUS
  <2>1. i - (n + 1) \in 1..Len(B) /\ rs[i] = B[i - (n + 1)]
    BY <1>1, <1>2, <1>4, <1>6, <1>7
  <2> QED
    BY <1>4, <2>1
<1>11. n \in Nat /\ Len(rs) \in {n + 1, n + 2}
  BY <1>2, <1>4, <1>7
<1> QED
  BY <1>7, <1>8, <1>9, <1>10, <1>11 DEF rs, n

Rate(r, by) == IF by = "tok/s" THEN r.tok ELSE r.req

Chosen(records, phase) ==
  {i \in DOMAIN records : phase \in {records[i].phase, "any"} /\ IsRealistic(records[i])}

\* The first of the top is the first with the highest rate.
LEMMA TopIsFirst ==
  ASSUME NEW rs \in Seq(Records), NEW m, NEW phase
  PROVE  LET top == Top(rs, m, phase)
             S == Chosen(rs, phase)
         IN  /\ \A i \in S :
                  (\A j \in S : \/ Rate(rs[j], m) < Rate(rs[i], m)
                                \/ Rate(rs[j], m) = Rate(rs[i], m) /\ i <= j)
                    => top # << >> /\ top[1] = rs[i] /\ Head(top) = rs[i]
             /\ S # {} => /\ top # << >> /\ Head(top) = top[1]
                          /\ top[1] \in Records
                          /\ \A j \in S : Rate(rs[j], m) <= Rate(top[1], m)
<1> DEFINE top == Top(rs, m, phase)
           S == Chosen(rs, phase)
           key == [i \in S |-> Rate(rs[i], m)]
           order == Descending(S, key)
<1>1. /\ DOMAIN rs = 1..Len(rs) /\ Len(rs) \in Nat
      /\ \A i \in 1..Len(rs) : rs[i] \in Records
  OBVIOUS
<1>2. S \subseteq 1..Len(rs) /\ S \subseteq Int
  BY <1>1 DEF Chosen
<1>3. IsFiniteSet(S)
  <2>1. IsFiniteSet(1..Len(rs))
    BY <1>1, FS_Interval
  <2> QED
    BY <1>2, <2>1, FS_Subset
<1>4. \A i \in S : Rate(rs[i], m) \in Int
  <2>1. \A r \in Records : Rate(r, m) \in Int
    BY DEF Records, Rate
  <2> QED
    BY <1>1, <1>2, <2>1
<1>5. top = [k \in DOMAIN order |-> rs[order[k]]]
  BY DEF Top, Chosen, Rate
<1>6. key \in [S -> Int] /\ \A i \in S : key[i] = Rate(rs[i], m)
  BY <1>4
<1> HIDE DEF S, key
<1>7. /\ Cardinality(S) \in Nat /\ order \in [1..Cardinality(S) -> S]
      /\ \A i \in S :
           (\A j \in S : key[j] < key[i] \/ (key[j] = key[i] /\ i <= j))
             => 1 \in 1..Cardinality(S) /\ order[1] = i
      /\ S # {} => 1 \in 1..Cardinality(S) /\ \A j \in S : key[j] <= key[order[1]]
  BY <1>2, <1>3, <1>6, FirstOfDescending
<1> HIDE DEF order, top
<1>8. /\ DOMAIN top = 1..Cardinality(S)
      /\ \A k \in 1..Cardinality(S) : top[k] = rs[order[k]] /\ order[k] \in S
  BY <1>5, <1>7
<1>9. ASSUME 1 \in 1..Cardinality(S)
      PROVE  top # << >> /\ top[1] = rs[order[1]] /\ Head(top) = top[1] /\ order[1] \in S
  <2>1. top \in Seq(Records)
    <3>1. top = [k \in 1..Cardinality(S) |-> rs[order[k]]]
      BY <1>5, <1>7
    <3>2. \A k \in 1..Cardinality(S) : rs[order[k]] \in Records
      BY <1>1, <1>2, <1>8
    <3> QED
      BY <1>7, <3>1, <3>2
  <2>2. Len(top) = Cardinality(S)
    BY <1>7, <1>8, <2>1
  <2>3. Len(top) # 0
    BY <1>7, <1>9, <2>2
  <2> QED
    BY <1>8, <1>9, <2>1, <2>3
<1>10. ASSUME NEW i \in S,
              \A j \in S : Rate(rs[j], m) < Rate(rs[i], m) \/ (Rate(rs[j], m) = Rate(rs[i], m) /\ i <= j)
       PROVE  top # << >> /\ top[1] = rs[i] /\ Head(top) = rs[i]
  <2>1. \A j \in S : key[j] < key[i] \/ (key[j] = key[i] /\ i <= j)
    BY <1>6, <1>10
  <2>2. 1 \in 1..Cardinality(S) /\ order[1] = i
    BY <1>7, <2>1
  <2> QED
    BY <1>9, <2>2
<1>11. ASSUME S # {}
       PROVE  /\ top # << >> /\ Head(top) = top[1] /\ top[1] \in Records
              /\ \A j \in S : Rate(rs[j], m) <= Rate(top[1], m)
  <2>1. 1 \in 1..Cardinality(S) /\ \A j \in S : key[j] <= key[order[1]]
    BY <1>7, <1>11
  <2>2. top # << >> /\ top[1] = rs[order[1]] /\ Head(top) = top[1] /\ order[1] \in S
    BY <1>9, <2>1
  <2> QED
    BY <1>1, <1>2, <1>6, <2>1, <2>2
<1> QED
  BY <1>10, <1>11 DEF top, S

\* A sum of rates is at most as many times the greatest as there are rates.
LEMMA TokensAtMost ==
  ASSUME NEW rs \in Seq(Records), NEW S \in SUBSET DOMAIN rs, NEW top \in Nat,
         \A i \in S : rs[i].tok <= top
  PROVE  TokensAt(rs, S) \in Nat /\ Cardinality(S) \in Nat /\ TokensAt(rs, S) <= top * Cardinality(S)
<1> DEFINE n == Len(rs)
           upTo(k) == {i \in S : i <= k}
           sum == CHOOSE f : f = [k \in 0..n |-> IF k = 0 THEN 0
                                                ELSE f[k - 1] + (IF k \in S THEN rs[k].tok ELSE 0)]
           step == [k \in 1..n |-> [x \in Nat |-> x + (IF k \in S THEN rs[k].tok ELSE 0)]]
<1>1. n \in Nat /\ S \subseteq 1..n /\ \A k \in 1..n : rs[k].tok \in Nat
  <2>1. \A r \in Records : r.tok \in Nat
    BY DEF Records
  <2>2. n \in Nat /\ DOMAIN rs = 1..n /\ \A k \in 1..n : rs[k] \in Records
    OBVIOUS
  <2> QED
    BY <2>1, <2>2
<1>2. TokensAt(rs, S) = sum[n]
  BY DEF TokensAt
<1> HIDE DEF n
<1>3. step \in [1..n -> [Nat -> Nat]]
  BY <1>1
<1>4. PICK run : IsRun(run, n, Nat, 0, step)
  <2> HIDE DEF step
  <2> QED
    BY <1>1, <1>3, RunExists
<1>5. run = [k \in 0..n |-> IF k = 0 THEN 0
                           ELSE run[k - 1] + (IF k \in S THEN rs[k].tok ELSE 0)]
  <2>1. run \in [0..n -> Nat] /\ run[0] = 0 /\ \A k \in 1..n : run[k] = step[k][run[k - 1]]
    BY <1>4 DEF IsRun
  <2>2. ASSUME NEW k \in 1..n PROVE run[k] = run[k - 1] + (IF k \in S THEN rs[k].tok ELSE 0)
    <3>1. k - 1 \in 0..n
      BY <1>1
    <3>2. run[k - 1] \in Nat
      BY <2>1, <3>1
    <3>3. step[k] = [x \in Nat |-> x + (IF k \in S THEN rs[k].tok ELSE 0)]
      OBVIOUS
    <3> HIDE DEF step
    <3> QED
      BY <2>1, <3>2, <3>3
  <2> QED
    BY <1>1, <2>1, <2>2
<1>6. sum = [k \in 0..n |-> IF k = 0 THEN 0
                           ELSE sum[k - 1] + (IF k \in S THEN rs[k].tok ELSE 0)]
  BY <1>5
<1> HIDE DEF sum, step
<1>7. \A k \in 0..n : IsFiniteSet(upTo(k)) /\ Cardinality(upTo(k)) \in Nat
  <2>1. IsFiniteSet(1..n)
    BY <1>1, FS_Interval
  <2>2. \A k \in 0..n : upTo(k) \subseteq 1..n
    BY <1>1
  <2> HIDE DEF upTo
  <2> QED
    BY <2>1, <2>2, FS_Subset, FS_CardinalityType
<1> DEFINE T == {k \in 0..n : sum[k] \in Nat /\ sum[k] <= top * Cardinality(upTo(k))}
<1>8. 0 \in T
  <2>1. upTo(0) = {}
    BY <1>1
  <2>2. Cardinality(upTo(0)) = 0
    BY <2>1, FS_EmptySet
  <2> HIDE DEF upTo
  <2> QED
    BY <1>1, <1>6, <2>2
<1>9. ASSUME NEW k \in 1..n, k - 1 \in T PROVE k \in T
  <2>1. k - 1 \in 0..n /\ k \in 0..n /\ sum[k - 1] \in Nat
    BY <1>9
  <2>2. PICK c \in Nat : c = Cardinality(upTo(k - 1))
    BY <1>7, <2>1
  <2>3. sum[k - 1] <= top * c
    BY <1>9, <2>2
  <2>4. CASE k \in S
    <3>1. upTo(k) = upTo(k - 1) \cup {k} /\ k \notin upTo(k - 1)
      BY <1>1, <2>4
    <3> HIDE DEF upTo
    <3>2. Cardinality(upTo(k)) = c + 1
      BY <1>7, <2>1, <2>2, <3>1, FS_AddElement
    <3>3. sum[k] = sum[k - 1] + rs[k].tok /\ rs[k].tok \in Nat /\ rs[k].tok <= top
      BY <1>1, <1>6, <2>1, <2>4, SMTT(30)
    <3>4. top * (c + 1) = top * c + top /\ top * c \in Nat
      OBVIOUS
    <3>5. sum[k] \in Nat /\ sum[k] <= top * (c + 1)
      BY <2>1, <2>3, <3>3, <3>4
    <3> QED
      BY <2>1, <3>2, <3>5
  <2>5. CASE k \notin S
    <3>1. upTo(k) = upTo(k - 1)
      BY <1>1, <2>5
    <3>2. sum[k] = sum[k - 1]
      BY <1>6, <2>1, <2>5
    <3> HIDE DEF upTo
    <3> QED
      BY <2>1, <2>2, <2>3, <3>1, <3>2
  <2> QED
    BY <2>4, <2>5
<1>10. upTo(n) = S
  BY <1>1
<1> HIDE DEF T
<1>11. \A k \in 0..n : k \in T
  BY <1>1, <1>8, <1>9, InductionUpTo
<1>12. n \in T /\ n \in 0..n
  BY <1>1, <1>11
<1> HIDE DEF upTo
<1> QED
  BY <1>2, <1>7, <1>10, <1>12 DEF T

\* n times something over n.
LEMMA MeanAtMost ==
  ASSUME NEW t \in Nat, NEW c \in Nat \ {0}, NEW top \in Nat, t <= top * c
  PROVE  t \div c <= top
<1>1. PICK q \in Nat, r \in 0..(c - 1) : q = t \div c /\ t = c * q + r
  BY t \div c \in Nat, t % c \in 0..(c - 1), t = c * (t \div c) + (t % c)
<1>2. ASSUME q > top PROVE FALSE
  <2>1. PICK e \in Nat : q = top + 1 + e
    BY <1>2, q - top - 1 \in Nat
  <2>2. c * q = top * c + c + c * e /\ c * e \in Nat /\ top * c \in Nat
    BY <2>1
  <2> QED
    BY <1>1, <2>2
<1> QED
  BY <1>1, <1>2

\* For all configurations and rates: the race is run with the winner of the
\* report, and the saved file gives the winner back as the leader, with a mean
\* rate that is not above the leader's (_build_race_report, save_results,
\* BenchmarkMemory.top and insights).
THEOREM TheBestIsTop == Spec => []BestIsTop
<1> DEFINE n == Len(summaries)
           records == LoadData(SaveFile(driver, metric, summaries, best, race))
<1>1. ASSUME SweepInvariant, BestIsKept, ending = "done" PROVE BestIsTop
  <2>1. /\ summaries \in Seq(Summary) /\ metric \in Metrics /\ best \in Summary
        /\ race.config = best.config /\ race.tok \in Nat /\ race.req \in Nat
        /\ race.instant \in BOOLEAN
        /\ driver \in {"manager", "advanced", "optimizer"}
    BY <1>1 DEF SweepInvariant, SweepTypeOK, BestIsKept
  <2>2. /\ n \in Nat /\ DOMAIN summaries = 1..n
        /\ \A k \in 1..n : summaries[k] \in Summary
    BY <2>1
  <2>3. \A s \in Summary : Measured(s) /\ Score(s, metric) \in Nat
    BY <2>1 DEF Summary, Measured, Metrics, Score
  <2>4. Candidates \in SUBSET (1..n) /\ Candidates # {} /\ best = Best(summaries, Candidates, metric)
    BY <1>1, <2>2 DEF BestIsKept, Candidates, Valid
  <2>5. PICK i \in Candidates :
          /\ best = summaries[i]
          /\ \A j \in Candidates :
               \/ Score(summaries[j], metric) < Score(summaries[i], metric)
               \/ Score(summaries[j], metric) = Score(summaries[i], metric) /\ i <= j
    BY <2>1, <2>2, <2>4, BestIsFirst
  <2>6. Measured(race)
    BY <2>1, <2>3 DEF Measured
  <2>7. /\ records \in Seq(Records) /\ Len(records) \in {n + 1, n + 2}
        /\ \A k \in 1..n : records[k] = RecordOf(summaries[k], "sweep")
        /\ records[n + 1] = RecordOf(race, "sustained")
        /\ \A k \in 1..Len(records) : k \notin 1..(n + 1) => records[k].phase = "best"
    BY <2>1, <2>6, RecordsLoaded
  <2>8. driver # "optimizer" => RaceReport(summaries, metric).winner = best.config
    <3> SUFFICES ASSUME driver # "optimizer" PROVE RaceReport(summaries, metric).winner = best.config
      OBVIOUS
    <3> DEFINE key == [k \in 1..n |-> Score(summaries[k], metric)]
               order == Descending(1..n, key)
    <3>1. Candidates = 1..n
      BY <2>2 DEF Candidates
    <3>2. key \in [1..n -> Int] /\ \A k \in 1..n : key[k] = Score(summaries[k], metric)
      BY <2>2, <2>3
    <3>3. RaceReport(summaries, metric).winner = [k \in DOMAIN order |-> summaries[order[k]].config][1]
      BY <2>2 DEF RaceReport
    <3>4. 1..n \subseteq Int /\ IsFiniteSet(1..n) /\ i \in 1..n
      BY <2>2, <2>4, FS_Interval
    <3> HIDE DEF key, n
    <3>5. \A j \in 1..n : key[j] < key[i] \/ (key[j] = key[i] /\ i <= j)
      BY <2>5, <3>1, <3>2, <3>4
    <3>6. /\ order \in [1..Cardinality(1..n) -> 1..n]
          /\ \A l \in 1..n :
               (\A j \in 1..n : key[j] < key[l] \/ (key[j] = key[l] /\ l <= j))
                 => 1 \in 1..Cardinality(1..n) /\ order[1] = l
      BY <3>2, <3>4, FirstOfDescending, ZenonT(60)
    <3>7. order \in [1..Cardinality(1..n) -> 1..n] /\ 1 \in 1..Cardinality(1..n) /\ order[1] = i
      BY <3>4, <3>5, <3>6
    <3> QED
      BY <2>5, <3>3, <3>7
  <2> HIDE DEF records, n
  <2>9. DOMAIN records = 1..Len(records) /\ Len(records) \in Nat /\ n + 1 \in 1..Len(records)
    BY <2>2, <2>7
  <2>10. \A k \in 1..n : k \in 1..Len(records) /\ k \in 1..(n + 1) /\ k # n + 1
    BY <2>2, <2>7
  <2>11. /\ \A k \in 1..n :
              /\ records[k].phase = "sweep" /\ records[k].config = summaries[k].config
              /\ records[k].tok = summaries[k].tok /\ records[k].req = summaries[k].req
              /\ records[k].instant = summaries[k].instant
         /\ records[n + 1].phase = "sustained" /\ records[n + 1].config = race.config
         /\ records[n + 1].tok = race.tok /\ records[n + 1].instant = race.instant
    BY <2>7, RecordFields
  <2>12. \A k \in 1..Len(records) : k \in 1..n \/ k = n + 1 \/ records[k].phase = "best"
    BY <2>2, <2>7
  <2>13. ASSUME driver # "manager", metric # "balanced", Score(best, metric) > 0, IsRealistic(best)
         PROVE  Top(records, metric, "sweep")[1].config = best.config
    <3> DEFINE S == Chosen(records, "sweep")
    <3>1. \A k \in 1..Len(records) : records[k].phase = "sweep" <=> k \in 1..n
      BY <2>10, <2>11, <2>12
    <3>2. S = {k \in 1..n : IsRealistic(summaries[k])}
      BY <2>9, <2>10, <2>11, <3>1 DEF Chosen, IsRealistic
    <3>3. i \in S
      BY <2>4, <2>5, <2>13, <3>2
    <3>4. \A k \in 1..n : Rate(records[k], metric) = Score(summaries[k], metric)
      BY <2>1, <2>13, <2>11 DEF Rate, Score, Metrics
    <3>5. ASSUME NEW j \in S
          PROVE  \/ Rate(records[j], metric) < Rate(records[i], metric)
                 \/ Rate(records[j], metric) = Rate(records[i], metric) /\ i <= j
      <4>1. j \in 1..n /\ i \in 1..n
        BY <3>2, <3>3
      <4>2. CASE j \in Candidates
        BY <2>5, <3>4, <4>1, <4>2
      <4>3. CASE j \notin Candidates
        <5>1. summaries[j] \in Summary /\ ~ (summaries[j].ok > 0)
          BY <2>2, <4>1, <4>3 DEF Candidates, Valid
        <5>2. summaries[j].ok = 0
          BY <5>1 DEF Summary
        <5>3. summaries[j].tok = 0 /\ summaries[j].req = 0
          BY <1>1, <4>1, <5>2 DEF BestIsKept, n
        <5>4. Score(summaries[j], metric) = 0
          BY <2>1, <5>3 DEF Score, Metrics
        <5> QED
          BY <2>3, <2>5, <2>13, <3>4, <4>1, <5>4
      <4> QED
        BY <4>2, <4>3
    <3> HIDE DEF S
    <3>6. \A l \in S :
            (\A j \in S : \/ Rate(records[j], metric) < Rate(records[l], metric)
                          \/ Rate(records[j], metric) = Rate(records[l], metric) /\ l <= j)
              => Top(records, metric, "sweep")[1] = records[l]
      BY <2>7, TopIsFirst DEF S
    <3>7. Top(records, metric, "sweep")[1] = records[i]
      BY <3>3, <3>5, <3>6, Zenon
    <3>8. records[i].config = best.config
      BY <2>4, <2>5, <2>11
    <3> QED
      BY <3>7, <3>8
  <2>14. ASSUME IsRealistic(race) PROVE Insights(records).top_sustained[1].config = best.config
    <3> DEFINE S == Chosen(records, "sustained")
               top == Top(records, "tok/s", "sustained")
    <3>1. S = {n + 1}
      <4>1. ASSUME NEW k \in 1..Len(records) PROVE records[k].phase = "sustained" <=> k = n + 1
        BY <2>10, <2>11, <2>12
      <4>2. IsRealistic(records[n + 1])
        BY <2>14, <2>11 DEF IsRealistic
      <4> QED
        BY <2>9, <4>1, <4>2 DEF Chosen
    <3>2. /\ \A j \in S : \/ Rate(records[j], "tok/s") < Rate(records[n + 1], "tok/s")
                          \/ Rate(records[j], "tok/s") = Rate(records[n + 1], "tok/s") /\ n + 1 <= j
          /\ n + 1 \in S
      BY <2>2, <3>1
    <3> HIDE DEF S
    <3>3. \A l \in S :
            (\A j \in S : \/ Rate(records[j], "tok/s") < Rate(records[l], "tok/s")
                          \/ Rate(records[j], "tok/s") = Rate(records[l], "tok/s") /\ l <= j)
              => top # << >> /\ Head(top) = records[l]
      BY <2>7, TopIsFirst DEF S
    <3>4. top # << >> /\ Head(top) = records[n + 1]
      BY <3>2, <3>3, Zenon
    <3>5. Insights(records).top_sustained = IF top = << >> THEN << >> ELSE <<Head(top)>>
      BY DEF Insights
    <3> HIDE DEF top
    <3>6. Insights(records).top_sustained[1] = records[n + 1]
      BY <3>4, <3>5
    <3> QED
      BY <2>1, <2>11, <3>6
  <2>15. ASSUME Insights(records).mean > 0
         PROVE  Insights(records).mean <= Insights(records).top_tok[1].tok
    <3> DEFINE clean == {k \in DOMAIN records : IsRealistic(records[k]) /\ records[k].tok > 0}
               S == Chosen(records, "any")
               top == Top(records, "tok/s", "any")
    <3>1. Insights(records).mean = IF clean = {} THEN 0 ELSE TokensAt(records, clean) \div Cardinality(clean)
      BY DEF Insights
    <3>2. clean \subseteq S /\ clean \in SUBSET DOMAIN records
      BY DEF Chosen
    <3>3. clean # {}
      BY <2>15, <3>1
    <3> HIDE DEF clean
    <3>4. /\ top # << >> /\ Head(top) = top[1] /\ top[1] \in Records
          /\ \A j \in S : Rate(records[j], "tok/s") <= Rate(top[1], "tok/s")
      BY <2>7, <3>2, <3>3, TopIsFirst
    <3>5. Insights(records).top_tok = IF top = << >> THEN << >> ELSE <<Head(top)>>
      BY DEF Insights
    <3> HIDE DEF top, S
    <3>6. Insights(records).top_tok[1] = top[1] /\ top[1].tok \in Nat
      BY <3>4, <3>5 DEF Records
    <3>7. \A j \in clean : records[j].tok <= top[1].tok
      BY <3>2, <3>4 DEF Rate
    <3>8. PICK m \in Nat : m = top[1].tok
      BY <3>6
    <3>9. /\ TokensAt(records, clean) \in Nat /\ Cardinality(clean) \in Nat
          /\ TokensAt(records, clean) <= m * Cardinality(clean)
      BY <2>7, <3>2, <3>7, <3>8, TokensAtMost
    <3>10. Cardinality(clean) # 0
      <4>1. IsFiniteSet(DOMAIN records)
        BY <2>9, FS_Interval
      <4>2. IsFiniteSet(clean)
        BY <3>2, <4>1, FS_Subset
      <4> QED
        BY <3>3, <4>2, FS_EmptySet
    <3>11. TokensAt(records, clean) \div Cardinality(clean) <= m
      BY <3>9, <3>10, MeanAtMost
    <3> QED
      BY <3>1, <3>3, <3>6, <3>8, <3>11
  <2> QED
    BY <2>8, <2>13, <2>14, <2>15 DEF BestIsTop, records
<1>2. SweepInvariant /\ BestIsKept => BestIsTop
  BY <1>1 DEF BestIsTop
<1>3. SweepInvariant /\ BestIsKept /\ [Next]_vars => BestIsKept'
  BY BestKeeps
<1> QED
  BY <1>2, <1>3, BestInit, SweepInvariance, PTL DEF Spec
=============================================================================
