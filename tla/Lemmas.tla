------------------------------- MODULE Lemmas -------------------------------
(***************************************************************************)
(* What several of the proofs need: induction over numbers, by the least   *)
(* element of a set of them, functions defined by recursion over numbers,  *)
(* and what a ranking is.                                                  *)
(***************************************************************************)
EXTENDS Rankings, FiniteSetTheorems, WellFoundedInduction, TLAPS

\* A set of naturals that is not empty has a least element.
LEMMA LeastNatural ==
  ASSUME NEW T, T \subseteq Nat, T # {}
  PROVE  \E n \in T : \A m \in T : n <= m
<1> DEFINE R == OpToRel(<, Nat)
<1>1. IsWellFoundedOn(R, Nat)
  BY NatLessThanWellFounded
<1>2. PICK n \in T : \A m \in T : ~ (<<m, n>> \in R)
  BY <1>1, WFMin, Zenon
<1>3. \A m \in T : ~ (m < n)
  BY <1>2, T \subseteq Nat DEF OpToRel
<1> QED
  BY <1>3

\* A set that holds 0, and with a number the next one, holds every number.
LEMMA InductionInSet ==
  ASSUME NEW T, 0 \in T, \A n \in Nat : n \in T => n + 1 \in T
  PROVE  \A n \in Nat : n \in T
<1> SUFFICES ASSUME Nat \ T # {} PROVE FALSE
  OBVIOUS
<1>1. PICK n \in Nat \ T : \A m \in Nat \ T : n <= m
  BY LeastNatural
<1>2. n - 1 \in Nat /\ n - 1 \in T
  BY <1>1
<1> QED
  BY <1>1, <1>2

\* The same as far as a bound.
LEMMA InductionUpTo ==
  ASSUME NEW n \in Nat, NEW T, 0 \in T, \A k \in 1..n : k - 1 \in T => k \in T
  PROVE  \A k \in 0..n : k \in T
<1> DEFINE U == {k \in Nat : k <= n => k \in T}
<1>1. 0 \in U
  OBVIOUS
<1>2. ASSUME NEW k \in Nat, k \in U PROVE k + 1 \in U
  <2> SUFFICES ASSUME k + 1 <= n PROVE k + 1 \in T
    OBVIOUS
  <2>1. k \in T /\ k + 1 \in 1..n /\ (k + 1) - 1 = k
    BY <1>2
  <2> QED
    BY <2>1
<1> HIDE DEF U
<1>3. \A k \in Nat : k \in U
  BY <1>1, <1>2, InductionInSet
<1> QED
  BY <1>3 DEF U

-----------------------------------------------------------------------------
(* Recursion.  A definition f[k] == IF k = 0 THEN s ELSE .. f[k - 1] ..    *)
(* gives what it says, if there is such a function.                        *)

\* step[i] takes the result of the first i - 1 turns to that of the first i.
IsRun(run, n, S, s, step) ==
  run \in [0..n -> S] /\ run[0] = s /\ \A i \in 1..n : run[i] = step[i][run[i - 1]]

LEMMA RunExists ==
  ASSUME NEW n \in Nat, NEW S, NEW s \in S, NEW step \in [1..n -> [S -> S]]
  PROVE  \E run : IsRun(run, n, S, s, step)
<1> DEFINE T == {k \in 0..n : \E run : IsRun(run, k, S, s, step)}
<1>1. 0 \in T
  <2>1. IsRun([i \in 0..0 |-> s], 0, S, s, step)
    BY DEF IsRun
  <2> QED
    BY <2>1
<1>2. ASSUME NEW k \in 1..n, k - 1 \in T PROVE k \in T
  <2>1. PICK run : IsRun(run, k - 1, S, s, step)
    BY <1>2
  <2> DEFINE next == [i \in 0..k |-> IF i = k THEN step[k][run[k - 1]] ELSE run[i]]
  <2>2. run[k - 1] \in S /\ step[k] \in [S -> S]
    BY <2>1 DEF IsRun
  <2>3. next \in [0..k -> S]
    BY <2>1, <2>2 DEF IsRun
  <2>4. next[0] = s
    BY <2>1 DEF IsRun
  <2>5. ASSUME NEW i \in 1..k PROVE next[i] = step[i][next[i - 1]]
    BY <2>1 DEF IsRun
  <2>6. IsRun(next, k, S, s, step)
    BY <2>3, <2>4, <2>5 DEF IsRun
  <2> QED
    BY <2>6
<1> HIDE DEF T
<1>3. \A k \in 0..n : k \in T
  BY <1>1, <1>2, InductionUpTo
<1>4. n \in T
  BY <1>3
<1> QED
  BY <1>4 DEF T

-----------------------------------------------------------------------------
(* Rankings. *)

\* The places that come before one of them.
Preceding(places, key, i) == {j \in places : ComesBefore(key, j, i)}

Rank(places, key, i) == Cardinality(Preceding(places, key, i))

\* Who comes before another has fewer before him.
LEMMA RankOfEarlier ==
  ASSUME NEW S, S \subseteq Int, IsFiniteSet(S), NEW key \in [S -> Int]
  PROVE  /\ \A i \in S : Rank(S, key, i) \in 0..(Cardinality(S) - 1)
         /\ \A i, j \in S : ComesBefore(key, i, j) => Rank(S, key, i) < Rank(S, key, j)
         /\ \A i, j \in S : i = j \/ ComesBefore(key, i, j) \/ ComesBefore(key, j, i)
<1>1. \A i \in S : key[i] \in Int /\ i \in Int
  OBVIOUS
<1>2. \A i \in S : Preceding(S, key, i) \subseteq S /\ i \notin Preceding(S, key, i)
  BY <1>1 DEF Preceding, ComesBefore
\* One set in another that holds an element more has fewer elements.
<1>3. ASSUME NEW A, NEW B, B \subseteq S, A \subseteq B, NEW x \in B, x \notin A
      PROVE  Cardinality(A) \in Nat /\ Cardinality(B) \in Nat /\ Cardinality(A) < Cardinality(B)
  <2>1. IsFiniteSet(B)
    BY <1>3, FS_Subset
  <2>2. IsFiniteSet(A) /\ Cardinality(A) <= Cardinality(B) /\ Cardinality(A) # Cardinality(B)
    BY <1>3, <2>1, FS_Subset
  <2> QED
    BY <2>1, <2>2, FS_CardinalityType
<1>4. ASSUME NEW i \in S PROVE Rank(S, key, i) \in 0..(Cardinality(S) - 1)
  <2>1. /\ Cardinality(Preceding(S, key, i)) \in Nat /\ Cardinality(S) \in Nat
        /\ Cardinality(Preceding(S, key, i)) < Cardinality(S)
    BY <1>2, <1>3
  <2> QED
    BY <2>1 DEF Rank
<1>5. ASSUME NEW i \in S, NEW j \in S, ComesBefore(key, i, j) PROVE Rank(S, key, i) < Rank(S, key, j)
  <2>1. ASSUME NEW h \in S, ComesBefore(key, h, i) PROVE ComesBefore(key, h, j)
    BY <1>1, <1>5, <2>1 DEF ComesBefore
  <2>2. Preceding(S, key, i) \subseteq Preceding(S, key, j)
    BY <2>1 DEF Preceding
  <2>3. i \in Preceding(S, key, j)
    BY <1>5 DEF Preceding
  <2> QED
    BY <1>2, <1>3, <2>2, <2>3 DEF Rank
<1>6. \A i, j \in S : i = j \/ ComesBefore(key, i, j) \/ ComesBefore(key, j, i)
  BY <1>1 DEF ComesBefore
<1> QED
  BY <1>4, <1>5, <1>6

\* A ranking has each place once, and who comes before another has a place
\* further ahead.
LEMMA RankingProperties ==
  ASSUME NEW S, S \subseteq Int, IsFiniteSet(S), NEW key \in [S -> Int]
  PROVE  /\ Cardinality(S) \in Nat
         /\ Ranking(S, key) \in [1..Cardinality(S) -> S]
         /\ \A i \in S : \E k \in 1..Cardinality(S) : Ranking(S, key)[k] = i
         /\ \A k, l \in 1..Cardinality(S) :
              k < l => ComesBefore(key, Ranking(S, key)[k], Ranking(S, key)[l])
<1> DEFINE n == Cardinality(S)
           rank == [i \in S |-> Rank(S, key, i)]
           r == Ranking(S, key)
<1>1. n \in Nat
  BY FS_CardinalityType
<1>2. /\ \A i \in S : rank[i] \in 0..(n - 1)
      /\ \A i, j \in S : ComesBefore(key, i, j) => rank[i] < rank[j]
      /\ \A i, j \in S : i = j \/ ComesBefore(key, i, j) \/ ComesBefore(key, j, i)
  BY RankOfEarlier
<1>3. r = [k \in 1..n |-> CHOOSE i \in S : Cardinality({j \in S : ComesBefore(key, j, i)}) = k - 1]
  BY DEF Ranking
<1>4. \A i \in S : Cardinality({j \in S : ComesBefore(key, j, i)}) = rank[i]
  BY DEF Rank, Preceding
<1> HIDE DEF n, rank, r
<1>5. rank \in Injection(S, 0..(n - 1))
  <2>1. \A i, j \in S : rank[i] = rank[j] => i = j
    BY <1>1, <1>2
  <2> QED
    BY <1>2, <2>1 DEF Injection, IsInjective, rank
<1>6. rank \in Surjection(S, 0..(n - 1))
  <2>1. IsFiniteSet(0..(n - 1)) /\ Cardinality(0..(n - 1)) = n
    BY <1>1, FS_Interval
  <2>2. Cardinality(S) = Cardinality(0..(n - 1))
    BY <2>1 DEF n
  <2> QED
    BY <1>5, <2>1, <2>2, FS_Injection
<1>7. \A k \in 1..n : r[k] \in S /\ rank[r[k]] = k - 1
  <2> SUFFICES ASSUME NEW k \in 1..n PROVE r[k] \in S /\ rank[r[k]] = k - 1
    OBVIOUS
  <2>1. k - 1 \in 0..(n - 1)
    BY <1>1
  <2>2. PICK i \in S : rank[i] = k - 1
    BY <1>6, <2>1 DEF Surjection
  <2>3. \E h \in S : Cardinality({j \in S : ComesBefore(key, j, h)}) = k - 1
    BY <1>4, <2>2
  <2>4. r[k] = CHOOSE h \in S : Cardinality({j \in S : ComesBefore(key, j, h)}) = k - 1
    BY <1>3
  <2>5. r[k] \in S /\ Cardinality({j \in S : ComesBefore(key, j, r[k])}) = k - 1
    BY <2>3, <2>4
  <2> QED
    BY <1>4, <2>5
<1>8. \A i \in S : \E k \in 1..n : r[k] = i
  <2> SUFFICES ASSUME NEW i \in S PROVE \E k \in 1..n : r[k] = i
    OBVIOUS
  <2>1. rank[i] + 1 \in 1..n /\ (rank[i] + 1) - 1 = rank[i]
    BY <1>1, <1>2
  <2>2. r[rank[i] + 1] \in S /\ rank[r[rank[i] + 1]] = rank[i]
    BY <1>7, <2>1
  <2>3. r[rank[i] + 1] = i
    BY <1>5, <2>2 DEF Injection, IsInjective
  <2> QED
    BY <2>1, <2>3
<1>9. ASSUME NEW k \in 1..n, NEW l \in 1..n, k < l PROVE ComesBefore(key, r[k], r[l])
  <2>1. r[k] \in S /\ r[l] \in S /\ rank[r[k]] = k - 1 /\ rank[r[l]] = l - 1
    BY <1>7
  <2>2. r[k] # r[l] /\ ~ (rank[r[l]] < rank[r[k]])
    BY <1>9, <2>1
  <2> QED
    BY <1>2, <2>1, <2>2
<1>10. r \in [1..n -> S]
  BY <1>3, <1>7
<1> QED
  BY <1>1, <1>8, <1>9, <1>10 DEF n, r

\* sorted(.., reverse=True): by descending key, equals in the order of their places.
LEMMA DescendingProperties ==
  ASSUME NEW S, S \subseteq Int, IsFiniteSet(S), NEW key \in [S -> Int]
  PROVE  /\ Cardinality(S) \in Nat /\ Descending(S, key) \in [1..Cardinality(S) -> S]
         /\ \A i \in S : \E k \in 1..Cardinality(S) : Descending(S, key)[k] = i
         /\ \A k, l \in 1..Cardinality(S) :
              LET i == Descending(S, key)[k]
                  j == Descending(S, key)[l]
              IN  k < l => key[j] < key[i] \/ (key[j] = key[i] /\ i < j)
<1> DEFINE down == [i \in S |-> -key[i]]
           n == Cardinality(S)
           r == Descending(S, key)
<1>1. \A i \in S : key[i] \in Int /\ i \in Int /\ down[i] = -key[i] /\ down[i] \in Int
  OBVIOUS
<1>2. down \in [S -> Int] /\ r = Ranking(S, down)
  BY <1>1 DEF Descending
<1> HIDE DEF down
<1>3. /\ n \in Nat /\ Ranking(S, down) \in [1..n -> S]
      /\ \A i \in S : \E k \in 1..n : Ranking(S, down)[k] = i
      /\ \A k, l \in 1..n : k < l => ComesBefore(down, Ranking(S, down)[k], Ranking(S, down)[l])
  BY <1>2, RankingProperties, ZenonT(60)
<1> HIDE DEF n, r
<1>4. /\ n \in Nat /\ r \in [1..n -> S]
      /\ \A i \in S : \E k \in 1..n : r[k] = i
      /\ \A k, l \in 1..n : k < l => ComesBefore(down, r[k], r[l])
  BY <1>2, <1>3
<1>5. ASSUME NEW k \in 1..n, NEW l \in 1..n, k < l
      PROVE  key[r[l]] < key[r[k]] \/ (key[r[l]] = key[r[k]] /\ r[k] < r[l])
  <2>1. ComesBefore(down, r[k], r[l])
    BY <1>4, <1>5
  <2>2. r[k] \in S /\ r[l] \in S
    BY <1>4
  <2>3. /\ key[r[k]] \in Int /\ key[r[l]] \in Int
        /\ down[r[k]] = -key[r[k]] /\ down[r[l]] = -key[r[l]]
    BY <1>1, <2>2
  <2> QED
    BY <2>1, <2>3 DEF ComesBefore
<1> QED
  BY <1>4, <1>5 DEF n, r

\* It has the first of the greatest at its head, and there is one.
LEMMA FirstOfDescending ==
  ASSUME NEW S, S \subseteq Int, IsFiniteSet(S), NEW key \in [S -> Int]
  PROVE  /\ Cardinality(S) \in Nat /\ Descending(S, key) \in [1..Cardinality(S) -> S]
         /\ \A i \in S :
              (\A j \in S : key[j] < key[i] \/ (key[j] = key[i] /\ i <= j))
                => 1 \in 1..Cardinality(S) /\ Descending(S, key)[1] = i
         /\ S # {} => /\ 1 \in 1..Cardinality(S)
                      /\ \A j \in S : key[j] <= key[Descending(S, key)[1]]
<1> DEFINE n == Cardinality(S)
           r == Descending(S, key)
<1>1. /\ n \in Nat /\ r \in [1..n -> S]
      /\ \A i \in S : \E k \in 1..n : r[k] = i
      /\ \A k, l \in 1..n :
           k < l => key[r[l]] < key[r[k]] \/ (key[r[l]] = key[r[k]] /\ r[k] < r[l])
  BY DescendingProperties
<1>2. \A i \in S : key[i] \in Int /\ i \in Int
  OBVIOUS
<1> HIDE DEF n, r
\* Whoever is not at the head comes after it.
<1>3. ASSUME NEW j \in S
      PROVE  /\ 1 \in 1..n /\ r[1] \in S
             /\ j = r[1] \/ key[j] < key[r[1]] \/ (key[j] = key[r[1]] /\ r[1] < j)
  <2>1. PICK k \in 1..n : r[k] = j
    BY <1>1
  <2>2. 1 \in 1..n /\ r[1] \in S
    BY <1>1, <2>1
  <2> QED
    BY <1>1, <2>1, <2>2
<1>4. ASSUME NEW i \in S, \A j \in S : key[j] < key[i] \/ (key[j] = key[i] /\ i <= j)
      PROVE  1 \in 1..n /\ r[1] = i
  <2>1. /\ 1 \in 1..n /\ r[1] \in S
        /\ i = r[1] \/ key[i] < key[r[1]] \/ (key[i] = key[r[1]] /\ r[1] < i)
    BY <1>3
  <2>2. key[r[1]] < key[i] \/ (key[r[1]] = key[i] /\ i <= r[1])
    BY <1>4, <2>1
  <2>3. key[i] \in Int /\ key[r[1]] \in Int /\ i \in Int /\ r[1] \in Int
    BY <1>2, <2>1
  <2> QED
    BY <2>1, <2>2, <2>3
<1>5. ASSUME S # {} PROVE 1 \in 1..n /\ \A j \in S : key[j] <= key[r[1]]
  <2>1. 1 \in 1..n
    BY <1>3, <1>5
  <2>2. ASSUME NEW j \in S PROVE key[j] <= key[r[1]]
    <3>1. /\ r[1] \in S
          /\ j = r[1] \/ key[j] < key[r[1]] \/ (key[j] = key[r[1]] /\ r[1] < j)
      BY <1>3
    <3>2. key[j] \in Int /\ key[r[1]] \in Int
      BY <1>2, <3>1
    <3> QED
      BY <3>1, <3>2
  <2> QED
    BY <2>1, <2>2
<1> QED
  BY <1>1, <1>4, <1>5 DEF n, r
=============================================================================
