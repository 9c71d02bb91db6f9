---------------------------- MODULE SumTheorems ----------------------------
(***************************************************************************)
(* Sums over finite sets, as the models take them with FoldFunction and    *)
(* MapThenSumSet: what they are for every finite set of indices.           *)
(*                                                                         *)
(* The induction theorems of the library take the formula to prove as a    *)
(* parameter; here the induction is over a set: the smallest number, or    *)
(* set, that is not in it would be in it.                                  *)
(***************************************************************************)
EXTENDS Integers, FiniteSets, Folds, Functions, FiniteSetsExt, FiniteSetTheorems,
        WellFoundedInduction, TLAPS

(* The element that a fold takes next. *)
Pick(s) == CHOOSE x \in s : TRUE

(* A set of numbers that holds 0 and the successor of each of its members   *)
(* holds them all.                                                          *)
LEMMA NumberInduction ==
  ASSUME NEW G, 0 \in G, \A n \in Nat : n \in G => n + 1 \in G
  PROVE  Nat \subseteq G
<1> DEFINE B == Nat \ G
<1> SUFFICES ASSUME B # {} PROVE FALSE
  OBVIOUS
<1>1. PICK m \in B : \A n \in B : ~(<<n, m>> \in OpToRel(<, Nat))
  BY WFMin, NatLessThanWellFounded
<1>2. \A n \in B : ~(n < m)
  BY <1>1 DEF OpToRel
<1>3. m # 0 /\ m - 1 \in Nat /\ m - 1 < m
  OBVIOUS
<1>4. m - 1 \in G
  BY <1>2, <1>3
<1> QED
  BY <1>3, <1>4

(* What a fold takes out of a finite set is a member, and one less is left. *)
LEMMA PickOne ==
  ASSUME NEW s, IsFiniteSet(s), s # {}
  PROVE  /\ Pick(s) \in s
         /\ IsFiniteSet(s \ {Pick(s)})
         /\ Cardinality(s) \in Nat
         /\ Cardinality(s \ {Pick(s)}) \in Nat
         /\ Cardinality(s) = Cardinality(s \ {Pick(s)}) + 1
<1>1. Pick(s) \in s
  BY DEF Pick
<1>2. /\ IsFiniteSet(s \ {Pick(s)})
      /\ Cardinality(s \ {Pick(s)}) = Cardinality(s) - 1
  BY <1>1, FS_RemoveElement
<1>3. Cardinality(s) \in Nat /\ Cardinality(s \ {Pick(s)}) \in Nat
  BY <1>2, FS_CardinalityType
<1> QED
  BY <1>1, <1>2, <1>3

(* A set of subsets of S that holds {} and every set whose rest it holds    *)
(* holds them all.                                                          *)
LEMMA SubsetInduction ==
  ASSUME NEW S, IsFiniteSet(S), NEW G, {} \in G,
         \A s \in SUBSET S : s # {} /\ s \ {Pick(s)} \in G => s \in G
  PROVE  SUBSET S \subseteq G
<1> DEFINE H == {n \in Nat : \A s \in SUBSET S : Cardinality(s) = n => s \in G}
<1>1. \A s \in SUBSET S : IsFiniteSet(s) /\ Cardinality(s) \in Nat
  BY FS_Subset, FS_CardinalityType
<1>2. 0 \in H
  BY <1>1, FS_EmptySet
<1>3. \A n \in Nat : n \in H => n + 1 \in H
  <2> SUFFICES ASSUME NEW n \in Nat, n \in H, NEW s \in SUBSET S, Cardinality(s) = n + 1
               PROVE  s \in G
    OBVIOUS
  <2>1. s # {}
    BY FS_EmptySet
  <2>2. Cardinality(s \ {Pick(s)}) = n /\ s \ {Pick(s)} \in SUBSET S
    BY <1>1, <2>1, PickOne
  <2> QED
    BY <2>1, <2>2
<1> HIDE DEF H
<1>4. Nat \subseteq H
  BY <1>2, <1>3, NumberInduction
<1> QED
  BY <1>1, <1>4 DEF H

(* The sum of the values of f at the indices S.                             *)
SumOf(f, S) == FoldFunctionOnSet(+, 0, f, S)

(* The sum of f over s, one index at a time. *)
SumStep(f, g, s) == IF s = {} THEN 0 ELSE f[Pick(s)] + g[s \ {Pick(s)}]

(* The table that a fold of + over f is defined by. *)
SumTable(f, S) == CHOOSE g : g = [s \in SUBSET S |-> SumStep(f, g, s)]

(* There is such a table: the one for the sets of up to n indices gives the *)
(* one for n + 1.                                                           *)
LEMMA SumTableExists ==
  ASSUME NEW f, NEW S, IsFiniteSet(S)
  PROVE  \A s \in SUBSET S : SumTable(f, S)[s] = SumStep(f, SumTable(f, S), s)
<1> DEFINE Good(n, g) == \A s \in SUBSET S : Cardinality(s) <= n => g[s] = SumStep(f, g, s)
           H == {n \in Nat : \E g : Good(n, g)}
<1>1. \A s \in SUBSET S : IsFiniteSet(s) /\ Cardinality(s) \in Nat
  BY FS_Subset, FS_CardinalityType
<1>2. 0 \in H
  <2> DEFINE g == [s \in SUBSET S |-> 0]
  <2>1. \A s \in SUBSET S : Cardinality(s) <= 0 => s = {}
    BY <1>1, FS_EmptySet
  <2>2. Good(0, g)
    BY <2>1 DEF SumStep
  <2> QED
    BY <2>2
<1>3. \A n \in Nat : n \in H => n + 1 \in H
  <2> SUFFICES ASSUME NEW n \in Nat, n \in H PROVE n + 1 \in H
    OBVIOUS
  <2>0. PICK g : Good(n, g)
    OBVIOUS
  <2> DEFINE h == [s \in SUBSET S |-> IF Cardinality(s) <= n THEN g[s] ELSE SumStep(f, g, s)]
  <2>1. Good(n + 1, h)
    <3> SUFFICES ASSUME NEW s \in SUBSET S, Cardinality(s) <= n + 1
                 PROVE  h[s] = SumStep(f, h, s)
      OBVIOUS
    <3>1. CASE s = {}
      <4>1. Cardinality(s) <= n
        BY <3>1, FS_EmptySet
      <4> QED
        BY <2>0, <3>1, <4>1 DEF SumStep
    <3>2. CASE s # {}
      <4> DEFINE t == s \ {Pick(s)}
      <4>1. t \in SUBSET S /\ Cardinality(t) <= n
        BY <1>1, <3>2, PickOne
      <4>2. h[t] = g[t]
        BY <4>1
      <4>3. h[s] = SumStep(f, g, s)
        BY <2>0
      <4> QED
        BY <3>2, <4>2, <4>3 DEF SumStep
    <3> QED
      BY <3>1, <3>2
  <2> HIDE DEF h
  <2> QED
    BY <2>1
<1>4. Nat \subseteq H
  <2> HIDE DEF H
  <2> QED
    BY <1>2, <1>3, NumberInduction
<1>5. Cardinality(S) \in Nat /\ \A s \in SUBSET S : Cardinality(s) <= Cardinality(S)
  BY FS_Subset, FS_CardinalityType
<1>6. PICK g : Good(Cardinality(S), g)
  BY <1>4, <1>5
<1> DEFINE h == [s \in SUBSET S |-> g[s]]
<1>7. \A s \in SUBSET S : h[s] = SumStep(f, h, s)
  <2> TAKE s \in SUBSET S
  <2>1. g[s] = SumStep(f, g, s)
    BY <1>5, <1>6
  <2>2. s \ {Pick(s)} \in SUBSET S
    OBVIOUS
  <2> QED
    BY <2>1, <2>2 DEF SumStep
<1>8. h = [s \in SUBSET S |-> SumStep(f, h, s)]
  BY <1>7
<1> HIDE DEF h
<1>9. SumTable(f, S) = [s \in SUBSET S |-> SumStep(f, SumTable(f, S), s)]
  BY <1>8 DEF SumTable
<1> DEFINE T == SumTable(f, S)
<1>10. T = [s \in SUBSET S |-> SumStep(f, T, s)]
  BY <1>9
<1> HIDE DEF T
<1>11. \A s \in SUBSET S : T[s] = SumStep(f, T, s)
  BY <1>10
<1> QED
  BY <1>11 DEF T

(* A sum by its equation: nothing sums to 0, and a sum is what the index    *)
(* taken adds to the sum of the rest.                                       *)
LEMMA SumEquation ==
  ASSUME NEW f, NEW S, IsFiniteSet(S)
  PROVE  /\ SumOf(f, S) = SumTable(f, S)[S]
         /\ SumTable(f, S)[{}] = 0
         /\ \A s \in SUBSET S : s # {} =>
              /\ s \ {Pick(s)} \in SUBSET S
              /\ SumTable(f, S)[s] = f[Pick(s)] + SumTable(f, S)[s \ {Pick(s)}]
<1>1. SumOf(f, S) = SumTable(f, S)[S]
  BY DEF SumOf, FoldFunctionOnSet, MapThenFoldSet, SumTable, SumStep, Pick
<1>2. \A s \in SUBSET S : SumTable(f, S)[s] = SumStep(f, SumTable(f, S), s)
  BY SumTableExists
<1> QED
  BY <1>1, <1>2 DEF SumStep

(* The product as a sum. *)
LEMMA OneMoreTimes ==
  ASSUME NEW a \in Int, NEW n \in Int
  PROVE  a * (n + 1) = a * n + a /\ a * n \in Int
OBVIOUS

(* A sum of numbers between lo and hi is between lo and hi times their      *)
(* number.                                                                  *)
THEOREM SumBounds ==
  ASSUME NEW S, IsFiniteSet(S), NEW f, NEW lo \in Int, NEW hi \in Int,
         \A x \in S : f[x] \in Int /\ lo <= f[x] /\ f[x] <= hi
  PROVE  /\ SumOf(f, S) \in Int
         /\ Cardinality(S) \in Nat
         /\ lo * Cardinality(S) <= SumOf(f, S)
         /\ SumOf(f, S) <= hi * Cardinality(S)
<1> DEFINE g == SumTable(f, S)
           G == {s \in SUBSET S : /\ g[s] \in Int
                                  /\ lo * Cardinality(s) <= g[s]
                                  /\ g[s] <= hi * Cardinality(s)}
<1>0. \A s \in SUBSET S : s # {} => g[s] = f[Pick(s)] + g[s \ {Pick(s)}]
  BY SumEquation
<1>1. {} \in G
  BY SumEquation, FS_EmptySet
<1>2. \A s \in SUBSET S : s # {} /\ s \ {Pick(s)} \in G => s \in G
  <2> HIDE DEF G
  <2> SUFFICES ASSUME NEW s \in SUBSET S, s # {}, s \ {Pick(s)} \in G PROVE s \in G
    OBVIOUS
  <2> DEFINE t == s \ {Pick(s)}
  <2>1. g[s] = f[Pick(s)] + g[t]
    BY <1>0
  <2> DEFINE n == Cardinality(t)
             x == f[Pick(s)]
  <2>2. Pick(s) \in s /\ n \in Nat /\ Cardinality(s) = n + 1
    BY FS_Subset, PickOne
  <2>3. x \in Int /\ lo <= x /\ x <= hi
    BY <2>2
  <2>4. g[t] \in Int /\ lo * n <= g[t] /\ g[t] <= hi * n
    BY DEF G
  <2>5. /\ lo * (n + 1) = lo * n + lo /\ hi * (n + 1) = hi * n + hi
        /\ lo * n \in Int /\ hi * n \in Int
    <3>1. n \in Int
      BY <2>2
    <3> HIDE DEF n
    <3> QED
      BY <3>1, OneMoreTimes
  <2>6. g[s] = x + g[t]
    BY <2>1
  <2> HIDE DEF t, n, x, g
  <2>7. g[s] \in Int /\ lo * (n + 1) <= g[s] /\ g[s] <= hi * (n + 1)
    BY <2>3, <2>4, <2>5, <2>6
  <2>8. s \in G <=> g[s] \in Int /\ lo * Cardinality(s) <= g[s] /\ g[s] <= hi * Cardinality(s)
    BY DEF G
  <2> QED
    BY <2>2, <2>7, <2>8
<1> HIDE DEF G
<1>3. S \in G
  BY <1>1, <1>2, SubsetInduction
<1> QED
  BY <1>3, SumEquation, FS_CardinalityType DEF G

(* A sum of zeros. *)
LEMMA SumIsZero ==
  ASSUME NEW S, IsFiniteSet(S), NEW f, \A x \in S : f[x] \in Int /\ 0 <= f[x] /\ f[x] <= 0
  PROVE  SumOf(f, S) = 0
<1>1. /\ SumOf(f, S) \in Int /\ Cardinality(S) \in Nat
      /\ 0 * Cardinality(S) <= SumOf(f, S) /\ SumOf(f, S) <= 0 * Cardinality(S)
  BY SumBounds
<1> QED
  BY <1>1

(* When one index has d more, so has the sum.                               *)
THEOREM SumOfOneMore ==
  ASSUME NEW S, IsFiniteSet(S), NEW f, NEW h, NEW i \in S, NEW d \in Int,
         \A x \in S : f[x] \in Int /\ h[x] = IF x = i THEN f[x] + d ELSE f[x]
  PROVE  SumOf(h, S) = SumOf(f, S) + d
<1> DEFINE F == SumTable(f, S)
           H == SumTable(h, S)
           G == {s \in SUBSET S : F[s] \in Int /\ H[s] = IF i \in s THEN F[s] + d ELSE F[s]}
<1>1. {} \in G
  BY SumEquation
<1>2. \A s \in SUBSET S : s # {} /\ s \ {Pick(s)} \in G => s \in G
  <2> SUFFICES ASSUME NEW s \in SUBSET S, s # {}, s \ {Pick(s)} \in G PROVE s \in G
    OBVIOUS
  <2> DEFINE t == s \ {Pick(s)}
  <2>1. F[s] = f[Pick(s)] + F[t] /\ H[s] = h[Pick(s)] + H[t]
    BY SumEquation
  <2>2. Pick(s) \in s /\ Pick(s) \in S
    BY DEF Pick
  <2>3. F[t] \in Int /\ H[t] = IF i \in t THEN F[t] + d ELSE F[t]
    OBVIOUS
  <2>4. f[Pick(s)] \in Int /\ h[Pick(s)] = IF Pick(s) = i THEN f[Pick(s)] + d ELSE f[Pick(s)]
    BY <2>2
  <2> HIDE DEF F, H
  <2> QED
    BY <2>1, <2>2, <2>3, <2>4
<1> HIDE DEF G
<1>3. S \in G
  BY <1>1, <1>2, SubsetInduction
<1> QED
  BY <1>3, SumEquation DEF G

=============================================================================
