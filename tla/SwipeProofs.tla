---------------------------- MODULE SwipeProofs -----------------------------
(***************************************************************************)
(* Proofs about swipe.rs: the operators of module Swipe, for runs of any   *)
(* length, any contact, correlation and measurements (where contact runs   *)
(* begin and end, the path through the lags, where the lines were taken,   *)
(* which lines a row is mixed from), and the flood fill of Background.     *)
(*                                                                         *)
(* Loops are folds and recursive functions.  That one computes what it     *)
(* should is shown by the least input for which it would not.              *)
(***************************************************************************)
EXTENDS Swipe, Background, TLAPS, FiniteSetTheorems, SequenceTheorems,
        WellFoundedInduction

-----------------------------------------------------------------------------
(* Recursion and sums.                                                     *)

(* A set of natural numbers has a least element.                           *)
LEMMA Least ==
    ASSUME NEW S \in SUBSET Nat, S # {}
    PROVE  \E n \in S : \A m \in S : n <= m
<1> DEFINE R == {ss \in Nat \X Nat : ss[1] < ss[2]}
<1>1. IsWellFoundedOn(R, Nat)
  BY NatLessThanWellFounded DEF OpToRel
<1>2. PICK n \in S : \A m \in S : <<m, n>> \notin R
  BY <1>1, WFMin
<1>3. ASSUME NEW m \in S PROVE n <= m
  <2>1. <<m, n>> \in Nat \X Nat /\ ~(m < n)
    BY <1>2
  <2> QED
    BY <2>1
<1> QED
  BY <1>3

(* What holds of the first number, and of each with the one before it,     *)
(* holds of all.                                                           *)
LEMMA Induct ==
    ASSUME NEW n \in Nat, NEW S,
           0 \in S, \A k \in 1..n : k - 1 \in S => k \in S
    PROVE  0..n \subseteq S
<1> DEFINE Bad == (0..n) \ S
<1>1. Bad = {}
  <2> SUFFICES ASSUME Bad # {} PROVE FALSE
    OBVIOUS
  <2>1. PICK i \in Bad : \A j \in Bad : i <= j
    <3>1. Bad \in SUBSET Nat
      OBVIOUS
    <3> QED
      BY <3>1, Least
  <2>2. i \in 1..n /\ i - 1 \in 0..n /\ ~(i <= i - 1)
    <3>1. i \in 0..n /\ i # 0
      OBVIOUS
    <3> QED
      BY <3>1
  <2>3. i - 1 \in S
    BY <2>1, <2>2
  <2> QED
    BY <2>2, <2>3
<1> QED
  BY <1>1

Ranked(rank, D, n) == \A k \in D : rank[k] \in 0..n
Typed(F, D, S) == \A k \in D : \A g \in [D -> S] : F[k][g] \in S
Local(F, rank, D, S) ==
    \A k \in D : \A g, fold \in [D -> S] :
        (\A j \in D : rank[j] < rank[k] => g[j] = fold[j]) => F[k][g] = F[k][fold]
Solves(g, F, D, S) == g \in [D -> S] /\ \A k \in D : g[k] = F[k][g]

(* A recursive function exists: F[k][g] is the value at k, given the values *)
(* g at what comes before k.                                               *)
LEMMA Recursion ==
    ASSUME NEW n \in Nat, NEW D, NEW rank, NEW S, NEW F, S # {},
           Ranked(rank, D, n), Typed(F, D, S), Local(F, rank, D, S)
    PROVE  \E g : Solves(g, F, D, S)
<1> DEFINE Upto(r) == \E g \in [D -> S] : \A k \in D : rank[k] < r => g[k] = F[k][g]
           T == {r \in 0..n + 1 : Upto(r)}
<1>1. \A k \in D : rank[k] \in 0..n /\ \A g \in [D -> S] : F[k][g] \in S
  BY DEF Ranked, Typed
<1>2. Upto(0)
  <2>1. PICK s \in S : TRUE
    OBVIOUS
  <2>2. [k \in D |-> s] \in [D -> S] /\ \A k \in D : ~(rank[k] < 0)
    BY <1>1
  <2> QED
    BY <2>2
<1>3. ASSUME NEW r \in 1..n + 1, Upto(r - 1) PROVE Upto(r)
  <2>1. PICK g \in [D -> S] : \A k \in D : rank[k] < r - 1 => g[k] = F[k][g]
    BY <1>3
  <2> DEFINE fold == [k \in D |-> IF rank[k] < r - 1 THEN g[k] ELSE F[k][g]]
  <2>2. fold \in [D -> S]
    BY <1>1
  <2>3. \A k \in D : fold[k] = F[k][g]
    BY <2>1
  <2>4. \A k \in D : rank[k] < r - 1 => fold[k] = g[k]
    OBVIOUS
  <2> HIDE DEF fold
  <2>5. ASSUME NEW k \in D, rank[k] < r PROVE F[k][fold] = F[k][g]
    <3>1. \A j \in D : rank[j] < rank[k] => rank[j] < r - 1
      BY <1>1, <2>5
    <3>2. \A j \in D : rank[j] < rank[k] => fold[j] = g[j]
      BY <2>4, <3>1
    <3> QED
      BY <2>2, <3>2 DEF Local
  <2> QED
    BY <2>2, <2>3, <2>5
<1> HIDE DEF Upto
<1>4. 0..n + 1 \subseteq T
  <2>1. 0 \in T
    BY <1>2
  <2>2. \A r \in 1..n + 1 : r - 1 \in T => r \in T
    <3>1. \A r \in 1..n + 1 : r \in 0..n + 1
      OBVIOUS
    <3> QED
      BY <1>3, <3>1
  <2>3. n + 1 \in Nat
    OBVIOUS
  <2> HIDE DEF T
  <2> QED
    BY <2>1, <2>2, <2>3, Induct
<1>5. Upto(n + 1)
  BY <1>4
<1>6. \A k \in D : rank[k] < n + 1
  BY <1>1
<1> QED
  BY <1>5, <1>6 DEF Upto, Solves

(* The same over numbers, each from the one before it.                     *)
Iterates(g, n, S, base, F) ==
    g \in [0..n -> S] /\ g[0] = base /\ \A k \in 1..n : g[k] = F[k][g[k - 1]]
Steps(F, n, S) == \A k \in 1..n : \A x \in S : F[k][x] \in S

(* A recursive function over 0..n is what its recursion says.              *)
LEMMA NatRecursion ==
    ASSUME NEW n \in Nat, NEW S, NEW base \in S, NEW F, Steps(F, n, S)
    PROVE  \E g : Iterates(g, n, S, base, F)
<1> DEFINE D == 0..n
           rank == [k \in D |-> k]
           G == [k \in D |-> [g \in [D -> S] |-> IF k = 0 THEN base ELSE F[k][g[k - 1]]]]
<1>1. S # {} /\ \A k \in D : rank[k] \in 0..n
  OBVIOUS
<1>2. \A k \in D : k # 0 => k \in 1..n /\ k - 1 \in D /\ k - 1 < k
  OBVIOUS
<1>3. ASSUME NEW k \in D, NEW g \in [D -> S]
      PROVE  (IF k = 0 THEN base ELSE F[k][g[k - 1]]) \in S
  BY <1>2 DEF Steps
<1>4. \A k \in D : \A g \in [D -> S] : G[k][g] \in S
  BY <1>3
<1>5. \A k \in D : \A g \in [D -> S] : G[k][g] = IF k = 0 THEN base ELSE F[k][g[k - 1]]
  OBVIOUS
<1>6. \A k \in D : rank[k] = k
  OBVIOUS
<1> HIDE DEF G, rank, D
<1>7. ASSUME NEW k \in D, NEW g \in [D -> S], NEW fold \in [D -> S],
             \A j \in D : rank[j] < rank[k] => g[j] = fold[j]
      PROVE  G[k][g] = G[k][fold]
  <2>1. k # 0 => g[k - 1] = fold[k - 1]
    BY <1>2, <1>6, <1>7
  <2>2. /\ G[k][g] = IF k = 0 THEN base ELSE F[k][g[k - 1]]
        /\ G[k][fold] = IF k = 0 THEN base ELSE F[k][fold[k - 1]]
    BY <1>5
  <2> QED
    BY <2>1, <2>2
<1>8. PICK g : Solves(g, G, D, S)
  <2>1. Ranked(rank, D, n) /\ Typed(G, D, S)
    BY <1>1, <1>4 DEF Ranked, Typed
  <2>2. Local(G, rank, D, S)
    BY <1>7 DEF Local
  <2> QED
    BY <1>1, <2>1, <2>2, Recursion
<1>9. 0 \in D /\ 1..n \subseteq D
  BY DEF D
<1>10. g[0] = base /\ \A k \in 1..n : g[k] = F[k][g[k - 1]]
  <2>1. \A k \in D : g[k] = IF k = 0 THEN base ELSE F[k][g[k - 1]]
    BY <1>5, <1>8 DEF Solves
  <2>2. 0 \notin 1..n
    OBVIOUS
  <2> QED
    BY <1>9, <2>1, <2>2
<1> QED
  BY <1>8, <1>10 DEF D, Solves, Iterates

-----------------------------------------------------------------------------
(* Folds and sums.                                                         *)

(* Max and Min of what lies between 0 and n.                               *)
LEMMA MaxIs ==
    ASSUME NEW n \in Nat, NEW S \in SUBSET (0..n), S # {}
    PROVE  Max(S) \in S /\ \A m \in S : Max(S) >= m
<1> DEFINE T == {n - m : m \in S}
<1>1. T \in SUBSET Nat /\ T # {}
  <2>1. \A m \in S : m \in 0..n /\ n - m \in Nat
    OBVIOUS
  <2> QED
    BY <2>1
<1>2. PICK t \in T : \A u \in T : t <= u
  BY <1>1, Least
<1>3. PICK x \in S : t = n - x
  BY <1>2
<1>4. \A m \in S : x >= m
  BY <1>2, <1>3
<1> QED
  BY <1>4 DEF Max

LEMMA MinIs ==
    ASSUME NEW S \in SUBSET Nat, S # {}
    PROVE  Min(S) \in S /\ \A m \in S : Min(S) <= m
BY Least DEF Min

(* The last of the first k numbers.                                        *)
LEMMA MaxTo ==
    ASSUME NEW k \in Nat \ {0}
    PROVE  Max(1..k) = k /\ (1..k) \ {k} = 1..k - 1
<1>1. 1..k \in SUBSET (0..k) /\ 1..k # {} /\ k \in 1..k
  OBVIOUS
<1>2. Max(1..k) \in 1..k /\ \A m \in 1..k : Max(1..k) >= m
  BY <1>1, MaxIs
<1> QED
  BY <1>1, <1>2

(* A set without one of its elements is smaller.                           *)
LEMMA Smaller ==
    ASSUME NEW D, IsFiniteSet(D), NEW s \in SUBSET D, NEW x \in s
    PROVE  /\ Cardinality(s) \in 0..Cardinality(D) /\ Cardinality(D) \in Nat
           /\ Cardinality(s \ {x}) = Cardinality(s) - 1
           /\ s \ {x} \in SUBSET D
<1>1. IsFiniteSet(s) /\ Cardinality(s) <= Cardinality(D)
  BY FS_Subset
<1>2. Cardinality(s) \in Nat /\ Cardinality(D) \in Nat
  BY <1>1, FS_CardinalityType
<1>3. Cardinality(s \ {x}) = Cardinality(s) - 1
  BY <1>1, FS_RemoveElement
<1> QED
  BY <1>1, <1>2, <1>3

(* A function on the subsets of D that takes off one element after the     *)
(* other, c[s] of s.                                                       *)
Folds(fold, F, base, c, D) ==
    \A s \in SUBSET D : fold[s] = IF s = {} THEN base ELSE F[c[s]][fold[s \ {c[s]}]]

(* A fold over a finite set picks one element after another.               *)
LEMMA FoldRecursion ==
    ASSUME NEW D, IsFiniteSet(D), NEW S, NEW base \in S, NEW F, NEW c,
           \A k \in D : \A a \in S : F[k][a] \in S,
           \A s \in SUBSET D : s # {} => c[s] \in s
    PROVE  \E fold \in [SUBSET D -> S] : Folds(fold, F, base, c, D)
<1> DEFINE n == Cardinality(D)
           X == SUBSET D
           rank == [s \in X |-> Cardinality(s)]
           G == [s \in X |-> [fold \in [X -> S] |->
                    IF s = {} THEN base ELSE F[c[s]][fold[s \ {c[s]}]]]]
<1>1. n \in Nat
  BY FS_CardinalityType
<1>2. ASSUME NEW s \in X PROVE Cardinality(s) \in 0..n
  <2>1. Cardinality(s) <= n /\ IsFiniteSet(s)
    BY FS_Subset
  <2>2. Cardinality(s) \in Nat
    BY <2>1, FS_CardinalityType
  <2> QED
    BY <1>1, <2>1, <2>2
<1>3. Ranked(rank, X, n)
  BY <1>2 DEF Ranked
<1>4. \A s \in X : s # {} => /\ c[s] \in D /\ s \ {c[s]} \in X
                             /\ Cardinality(s \ {c[s]}) < Cardinality(s)
  <2>1. ASSUME NEW s \in X, s # {}
        PROVE  Cardinality(s \ {c[s]}) < Cardinality(s)
    <3>1. c[s] \in s
      BY <2>1
    <3>2. Cardinality(s \ {c[s]}) = Cardinality(s) - 1 /\ Cardinality(s) \in 0..n
      BY <3>1, Smaller
    <3> QED
      BY <1>1, <3>2
  <2> QED
    BY <2>1
<1>5. \A s \in X : \A fold \in [X -> S] :
         G[s][fold] = IF s = {} THEN base ELSE F[c[s]][fold[s \ {c[s]}]]
  OBVIOUS
<1>6. Typed(G, X, S)
  <2> SUFFICES ASSUME NEW s \in X, NEW fold \in [X -> S] PROVE G[s][fold] \in S
    BY Zenon DEF Typed
  <2>1. s # {} => fold[s \ {c[s]}] \in S /\ c[s] \in D
    BY <1>4
  <2> QED
    BY <1>5, <2>1
<1>7. \A s \in X : rank[s] = Cardinality(s)
  OBVIOUS
<1> HIDE DEF G, rank, X
<1>8. Local(G, rank, X, S)
  <2> SUFFICES ASSUME NEW s \in X, NEW g \in [X -> S], NEW fold \in [X -> S],
                      \A j \in X : rank[j] < rank[s] => g[j] = fold[j]
               PROVE  G[s][g] = G[s][fold]
    BY Zenon DEF Local
  <2>1. s # {} => g[s \ {c[s]}] = fold[s \ {c[s]}]
    BY <1>4, <1>7
  <2>2. /\ G[s][g] = IF s = {} THEN base ELSE F[c[s]][g[s \ {c[s]}]]
        /\ G[s][fold] = IF s = {} THEN base ELSE F[c[s]][fold[s \ {c[s]}]]
    BY <1>5
  <2> QED
    BY <2>1, <2>2
<1>9. PICK fold : Solves(fold, G, X, S)
  BY <1>1, <1>3, <1>6, <1>8, Recursion
<1>10. fold \in [SUBSET D -> S] /\ \A s \in X : fold[s] = G[s][fold]
  BY <1>9 DEF Solves, X
<1>11. \A s \in X : fold[s] = IF s = {} THEN base ELSE F[c[s]][fold[s \ {c[s]}]]
  BY <1>5, <1>10 DEF X
<1>12. Folds(fold, F, base, c, D)
  BY <1>11 DEF Folds, X
<1> QED
  BY <1>10, <1>12

(* The fold of a sequence takes off the last element.                      *)
FoldOf(fold, n, S, base, F) ==
    /\ fold \in [SUBSET (1..n) -> S]
    /\ \A T \in SUBSET (1..n) :
          /\ T # {} => /\ Max(T) \in 1..n /\ T \ {Max(T)} \in SUBSET (1..n)
                       /\ fold[T \ {Max(T)}] \in S
          /\ fold[T] = IF T = {} THEN base ELSE F[Max(T)][fold[T \ {Max(T)}]]

(* MapThenFoldSet is such a fold.                                          *)
LEMMA FoldExists ==
    ASSUME NEW n \in Nat, NEW S, NEW base \in S, NEW F,
           \A k \in 1..n : \A a \in S : F[k][a] \in S
    PROVE  \E fold : FoldOf(fold, n, S, base, F)
<1> DEFINE D == 1..n
           c == [T \in SUBSET D |-> Max(T)]
<1>1. IsFiniteSet(D)
  <2>1. 1 \in Int /\ n \in Int
    OBVIOUS
  <2> QED
    BY <2>1, FS_Interval
<1>2. \A T \in SUBSET D : T # {} => Max(T) \in T
  <2>1. \A T \in SUBSET D : T \in SUBSET (0..n)
    OBVIOUS
  <2> QED
    BY <2>1, MaxIs
<1>3. \A T \in SUBSET D : c[T] = Max(T)
  OBVIOUS
<1> HIDE DEF c, D
<1>4. \A T \in SUBSET D : T # {} => c[T] \in T
  BY <1>2, <1>3
<1>5. \A k \in D : \A a \in S : F[k][a] \in S
  BY DEF D
<1>6. PICK fold \in [SUBSET D -> S] : Folds(fold, F, base, c, D)
  BY <1>1, <1>4, <1>5, FoldRecursion
<1>7. ASSUME NEW T \in SUBSET D
      PROVE  /\ T # {} => /\ Max(T) \in D /\ T \ {Max(T)} \in SUBSET D
                          /\ fold[T \ {Max(T)}] \in S
             /\ fold[T] = IF T = {} THEN base ELSE F[Max(T)][fold[T \ {Max(T)}]]
  BY <1>2, <1>3, <1>6 DEF Folds
<1> QED
  BY <1>6, <1>7 DEF D, FoldOf

(* A sum over a finite set, whichever element comes first.                 *)
SumOf(fold, v, D) ==
    fold = [s \in SUBSET D |-> IF s = {} THEN 0
                            ELSE v[CHOOSE x \in s : TRUE] + fold[s \ {CHOOSE x \in s : TRUE}]]

(* And so is a sum over a finite set of numbers.                           *)
LEMMA SumExists ==
    ASSUME NEW D, IsFiniteSet(D), NEW v, \A x \in D : v[x] \in Int
    PROVE  \E fold : SumOf(fold, v, D)
<1> DEFINE F == [x \in D |-> [a \in Int |-> v[x] + a]]
           c == [s \in SUBSET D |-> CHOOSE x \in s : TRUE]
<1>1. \A x \in D : \A a \in Int : F[x][a] = v[x] + a /\ F[x][a] \in Int
  OBVIOUS
<1>2. \A s \in SUBSET D : c[s] = (CHOOSE x \in s : TRUE)
  OBVIOUS
<1>3. \A s \in SUBSET D : s # {} => c[s] \in s
  OBVIOUS
<1> HIDE DEF F, c
<1>4. PICK fold \in [SUBSET D -> Int] : Folds(fold, F, 0, c, D)
  <2>1. \A x \in D : \A a \in Int : F[x][a] \in Int
    BY <1>1
  <2>2. 0 \in Int
    OBVIOUS
  <2> QED
    BY <1>3, <2>1, <2>2, FoldRecursion
<1>5. ASSUME NEW s \in SUBSET D
      PROVE  fold[s] = IF s = {} THEN 0
                    ELSE v[CHOOSE x \in s : TRUE] + fold[s \ {CHOOSE x \in s : TRUE}]
  <2>1. fold[s] = IF s = {} THEN 0 ELSE F[c[s]][fold[s \ {c[s]}]]
    BY <1>4 DEF Folds
  <2>2. s # {} => c[s] \in D /\ fold[s \ {c[s]}] \in Int
    BY <1>3, <1>4
  <2>3. s # {} => F[c[s]][fold[s \ {c[s]}]] = v[c[s]] + fold[s \ {c[s]}]
    BY <1>1, <2>2
  <2> QED
    BY <1>2, <2>1, <2>3
<1>6. DOMAIN fold = SUBSET D
  BY <1>4
<1>7. fold = [s \in SUBSET D |-> fold[s]]
  BY <1>4
<1>8. [s \in SUBSET D |-> fold[s]] =
         [s \in SUBSET D |-> IF s = {} THEN 0
                    ELSE v[CHOOSE x \in s : TRUE] + fold[s \ {CHOOSE x \in s : TRUE}]]
  BY <1>5, Zenon
<1>9. SumOf(fold, v, D)
  BY <1>7, <1>8 DEF SumOf
<1> QED
  BY <1>9

Ints(v, D) == \A x \in D : v[x] \in Int
SumRules(fold, v, D) ==
    /\ fold[{}] = 0
    /\ \A s \in SUBSET D : fold[s] \in Int
    /\ \A s \in SUBSET D : \A x \in s : fold[s] = v[x] + fold[s \ {x}]

(* A sum is the same whichever element is added last.                      *)
LEMMA SumRulesOf ==
    ASSUME NEW D, IsFiniteSet(D), NEW v, Ints(v, D), NEW fold, SumOf(fold, v, D)
    PROVE  SumRules(fold, v, D)
<1> DEFINE N == Cardinality(D)
           Good(s) == fold[s] \in Int /\ \A x \in s : fold[s] = v[x] + fold[s \ {x}]
           T == {k \in 0..N : \A s \in SUBSET D : Cardinality(s) <= k => Good(s)}
<1>0. \A x \in D : v[x] \in Int
  BY DEF Ints
<1>1. \A s \in SUBSET D : fold[s] = IF s = {} THEN 0
                            ELSE v[CHOOSE x \in s : TRUE] + fold[s \ {CHOOSE x \in s : TRUE}]
  BY DEF SumOf
<1>2. fold[{}] = 0
  BY <1>1
<1>3. \A s \in SUBSET D : s # {} => \E c \in s : fold[s] = v[c] + fold[s \ {c}]
  BY <1>1
<1>4. N \in Nat /\ \A s \in SUBSET D : Cardinality(s) \in 0..N /\ (s # {} => Cardinality(s) # 0)
  <2>1. ASSUME NEW s \in SUBSET D PROVE Cardinality(s) \in 0..N /\ (s # {} => Cardinality(s) # 0)
    <3>1. IsFiniteSet(s) /\ Cardinality(s) <= N
      BY FS_Subset
    <3> QED
      BY <3>1, FS_CardinalityType, FS_EmptySet
  <2> QED
    BY <2>1, FS_CardinalityType
<1>5. 0 \in T
  <2>1. \A s \in SUBSET D : Cardinality(s) <= 0 => s = {}
    BY <1>4
  <2>2. Good({})
    BY <1>2
  <2> HIDE DEF Good
  <2> QED
    BY <1>4, <2>1, <2>2
<1>6. ASSUME NEW k \in 1..N, k - 1 \in T PROVE k \in T
  <2>1. \A s \in SUBSET D : Cardinality(s) <= k - 1 => Good(s)
    BY <1>6
  <2>2. ASSUME NEW s \in SUBSET D, Cardinality(s) <= k PROVE Good(s)
    <3>1. CASE s = {}
      BY <1>2, <3>1
    <3>2. CASE s # {}
      <4>1. PICK c \in s : fold[s] = v[c] + fold[s \ {c}]
        BY <1>3, <3>2
      <4>2. ASSUME NEW x \in s PROVE Cardinality(s \ {x}) <= k - 1 /\ s \ {x} \in SUBSET D
        <5>1. Cardinality(s \ {x}) = Cardinality(s) - 1 /\ Cardinality(s) \in Nat
          BY <1>4, Smaller
        <5> QED
          BY <2>2, <5>1
      <4>3. \A x \in s : Good(s \ {x})
        BY <2>1, <4>2
      <4> HIDE DEF T
      <4>4. fold[s \ {c}] \in Int /\ v[c] \in Int /\ fold[s] \in Int
        <5>1. fold[s \ {c}] \in Int /\ v[c] \in Int
          BY <1>0, <4>3
        <5> QED
          BY <4>1, <5>1
      <4>5. ASSUME NEW x \in s PROVE fold[s] = v[x] + fold[s \ {x}]
        <5>1. CASE x = c
          BY <4>1, <5>1
        <5>2. CASE x # c
          <6>1. x \in s \ {c} /\ c \in s \ {x} /\ (s \ {c}) \ {x} = (s \ {x}) \ {c}
            BY <5>2
          <6>2. fold[s \ {c}] = v[x] + fold[(s \ {c}) \ {x}]
            BY <4>3, <6>1
          <6>3. fold[s \ {x}] = v[c] + fold[(s \ {c}) \ {x}]
            BY <4>3, <6>1
          <6>4. (s \ {c}) \ {x} \in SUBSET D /\ Cardinality((s \ {c}) \ {x}) <= k - 1
            <7>1. Cardinality((s \ {c}) \ {x}) = Cardinality(s \ {c}) - 1
              BY <4>2, <6>1, Smaller
            <7>2. Cardinality(s \ {c}) \in Nat /\ Cardinality(s \ {c}) <= k - 1
              BY <1>4, <4>2
            <7> QED
              BY <7>1, <7>2
          <6>5. fold[(s \ {c}) \ {x}] \in Int
            BY <2>1, <6>4
          <6>6. v[x] \in Int /\ v[c] \in Int
            BY <1>0
          <6> QED
            BY <4>1, <6>2, <6>3, <6>5, <6>6
        <5> QED
          BY <5>1, <5>2
      <4> QED
        BY <4>4, <4>5
    <3> QED
      BY <3>1, <3>2
  <2>3. k \in 0..N
    BY <1>4
  <2> HIDE DEF Good
  <2> QED
    BY <2>2, <2>3
<1> HIDE DEF T
<1>7. 0..N \subseteq T
  BY <1>4, <1>5, <1>6, Induct
<1>8. \A s \in SUBSET D : Good(s)
  <2>1. N \in T
    BY <1>4, <1>7
  <2> HIDE DEF Good
  <2> QED
    BY <1>4, <2>1 DEF T
<1> QED
  BY <1>2, <1>8 DEF SumRules

(* The sums of v over the numbers below.                                   *)
SumsBelow(p, v, n) ==
    p \in [0..n -> Int] /\ p[0] = 0 /\ \A k \in 1..n : p[k] = v[k - 1] + p[k - 1]

(* There are such sums.                                                    *)
LEMMA SumsBelowExist ==
    ASSUME NEW n \in Nat, NEW v, \A k \in 0..n - 1 : v[k] \in Int
    PROVE  \E p : SumsBelow(p, v, n)
<1> DEFINE F == [k \in 1..n |-> [x \in Int |-> v[k - 1] + x]]
<1>1. \A k \in 1..n : k - 1 \in 0..n - 1
  OBVIOUS
<1>2. \A k \in 1..n : \A x \in Int : F[k][x] = v[k - 1] + x /\ v[k - 1] + x \in Int
  BY <1>1
<1>3. Steps(F, n, Int)
  BY <1>2 DEF Steps
<1>4. 0 \in Int
  OBVIOUS
<1> HIDE DEF F
<1>5. PICK g : Iterates(g, n, Int, 0, F)
  BY <1>3, <1>4, NatRecursion
<1>6. ASSUME NEW k \in 1..n PROVE g[k] = v[k - 1] + g[k - 1]
  <2>1. k - 1 \in 0..n /\ g[k] = F[k][g[k - 1]] /\ g \in [0..n -> Int]
    BY <1>5, SMTT(20) DEF Iterates
  <2> QED
    BY <1>2, <2>1
<1> QED
  BY <1>5, <1>6 DEF SumsBelow, Iterates

Matches(w, v, D) == \A k \in D : w[k] = v[k] /\ w[k] \in Int

(* They are what MapThenSumSet adds up.                                    *)
LEMMA PrefixSum ==
    ASSUME NEW n \in Nat, NEW v, NEW p, SumsBelow(p, v, n), NEW m \in 0..n,
           NEW D, D = 0..m - 1,
           NEW w, Matches(w, v, D),
           NEW fold, SumOf(fold, w, D)
    PROVE  fold[D] = p[m]
<1> DEFINE A == {k \in 0..m : fold[0..k - 1] = p[k]}
<1>1. IsFiniteSet(D) /\ m \in Nat
  <2>1. 0 \in Int /\ m - 1 \in Int /\ m \in Nat
    OBVIOUS
  <2> QED
    BY <2>1, FS_Interval
<1>2. SumRules(fold, w, D)
  <2>1. Ints(w, D)
    BY DEF Matches, Ints
  <2> QED
    BY <1>1, <2>1, SumRulesOf
<1>3. 0 \in A
  <2>1. 0..0 - 1 = {} /\ 0 \in 0..m /\ p[0] = 0
    BY <1>1 DEF SumsBelow
  <2> QED
    BY <1>2, <2>1 DEF SumRules
<1>4. ASSUME NEW k \in 1..m, k - 1 \in A PROVE k \in A
  <2> DEFINE s == 0..k - 1
  <2>1. s \in SUBSET D /\ k - 1 \in s /\ s \ {k - 1} = 0..(k - 1) - 1 /\ k \in 1..n /\ k \in 0..m
    BY <1>1
  <2>2. fold[s] = w[k - 1] + fold[s \ {k - 1}]
    BY <1>2, <2>1 DEF SumRules
  <2>3. w[k - 1] = v[k - 1]
    BY <2>1 DEF Matches
  <2>4. fold[0..(k - 1) - 1] = p[k - 1]
    BY <1>4
  <2>5. p[k] = v[k - 1] + p[k - 1]
    BY <2>1 DEF SumsBelow
  <2>6. fold[s] = p[k]
    BY <2>1, <2>2, <2>3, <2>4, <2>5
  <2> QED
    BY <2>1, <2>6
<1> HIDE DEF A
<1>5. 0..m \subseteq A
  BY <1>1, <1>3, <1>4, Induct
<1> QED
  BY <1>1, <1>5 DEF A

-----------------------------------------------------------------------------
(* Contact runs.                                                           *)

(* A run is extended by a line, or a run begins.                           *)
Extended(contact_, runs_, n) ==
    LET k == n - 1 IN
    IF ~contact_[n] THEN runs_
    ELSE IF runs_ # <<>> /\ Bridged(k - Last(runs_).to)
      THEN [runs_ EXCEPT ![Len(runs_)].to = k + 1]
      ELSE Append(runs_, [from |-> k, to |-> k + 1])

Span == [from : Nat, to : Nat]

LEMMA ExtendedType ==
    ASSUME NEW c, NEW n \in Nat \ {0}, NEW r \in Seq(Span)
    PROVE  Extended(c, r, n) \in Seq(Span)
<1> DEFINE new == [from |-> n - 1, to |-> n - 1 + 1]
           last == Len(r)
           longer == [r EXCEPT ![last].to = n - 1 + 1]
<1>1. new \in Span
  BY DEF Span
<1>2. Append(r, new) \in Seq(Span)
  BY <1>1
<1>3. r # <<>> => longer \in Seq(Span)
  <2> SUFFICES ASSUME r # <<>> PROVE longer \in Seq(Span)
    OBVIOUS
  <2>1. last \in 1..Len(r) /\ r[last] \in Span
    OBVIOUS
  <2>2. [r[last] EXCEPT !.to = n - 1 + 1] \in Span
    BY <2>1 DEF Span
  <2>3. longer = [r EXCEPT ![last] = [r[last] EXCEPT !.to = n - 1 + 1]]
    BY <2>1
  <2> QED
    BY <2>1, <2>2, <2>3, ExceptSeq
<1> QED
  BY <1>2, <1>3 DEF Extended

(* The runs before the short ones are left out are a fold over the lines.  *)
LEMMA RunsFold ==
    ASSUME NEW n \in Nat, NEW c \in [1..n -> BOOLEAN]
    PROVE  \E g : /\ g[0] = <<>>
                  /\ \A k \in 1..n : g[k] = Extended(c, g[k - 1], k)
                  /\ ContactRuns(c) =
                        FoldLeft(LAMBDA long, r : IF r.to - r.from >= RunMin
                                                  THEN Append(long, r) ELSE long,
                                 <<>>, g[n])
<1> DEFINE D == DOMAIN [i \in DOMAIN c |-> i]
           P(fold) == fold = [T \in SUBSET D |->
                          IF T = {} THEN <<>>
                          ELSE Extended(c, fold[T \ {Max(T)}], [i \in DOMAIN c |-> i][Max(T)])]
           b == CHOOSE fold : P(fold)
           F == [k \in 1..n |-> [r \in Seq(Span) |-> Extended(c, r, k)]]
<1>1. D = 1..n
  OBVIOUS
<1>2. \A k \in 1..n : \A r \in Seq(Span) :
         F[k][r] = Extended(c, r, k) /\ F[k][r] \in Seq(Span)
  BY ExtendedType
<1> HIDE DEF F
<1>3. PICK fold : FoldOf(fold, n, Seq(Span), <<>>, F)
  <2>1. <<>> \in Seq(Span)
    OBVIOUS
  <2>2. \A k \in 1..n : \A r \in Seq(Span) : F[k][r] \in Seq(Span)
    BY <1>2
  <2> QED
    BY <2>1, <2>2, FoldExists
<1>4. \A T \in SUBSET D :
         fold[T] = IF T = {} THEN <<>>
                ELSE Extended(c, fold[T \ {Max(T)}], [i \in DOMAIN c |-> i][Max(T)])
  BY <1>1, <1>2, <1>3 DEF FoldOf
<1>5. P(fold)
  <2>1. fold = [T \in SUBSET D |-> fold[T]]
    BY <1>1, <1>3 DEF FoldOf
  <2>2. [T \in SUBSET D |-> fold[T]] =
          [T \in SUBSET D |-> IF T = {} THEN <<>>
                ELSE Extended(c, fold[T \ {Max(T)}], [i \in DOMAIN c |-> i][Max(T)])]
    BY <1>4, Zenon
  <2> QED
    BY <2>1, <2>2
<1>6. P(b)
  BY <1>5, Zenon
<1>7. ContactRuns(c) =
        FoldLeft(LAMBDA long, r : IF r.to - r.from >= RunMin THEN Append(long, r) ELSE long,
                 <<>>, b[D])
  BY Zenon DEF ContactRuns, FoldLeftDomain, FoldLeft, MapThenFoldSet, Extended
<1>8. \A T \in SUBSET (1..n) :
         b[T] = IF T = {} THEN <<>> ELSE Extended(c, b[T \ {Max(T)}], [i \in DOMAIN c |-> i][Max(T)])
  BY <1>1, <1>6
<1> HIDE DEF b, P
<1> DEFINE g == [k \in 0..n |-> b[1..k]]
<1>9. g[0] = <<>>
  <2>1. 1..0 = {} /\ 0 \in 0..n
    OBVIOUS
  <2> QED
    BY <1>8, <2>1
<1>10. ASSUME NEW k \in 1..n PROVE g[k] = Extended(c, g[k - 1], k)
  <2>1. 1..k \in SUBSET (1..n) /\ 1..k # {} /\ k \in Nat \ {0}
    <3>1. k \in 1..k /\ k \in Nat \ {0}
      OBVIOUS
    <3>2. 1..k \in SUBSET (1..n)
      OBVIOUS
    <3> QED
      BY <3>1, <3>2
  <2>2. Max(1..k) = k /\ (1..k) \ {k} = 1..k - 1
    BY <2>1, MaxTo
  <2>3. [i \in DOMAIN c |-> i][k] = k /\ g[k] = b[1..k] /\ g[k - 1] = b[1..k - 1]
    OBVIOUS
  <2> QED
    BY <1>8, <2>1, <2>2, <2>3
<1>11. g[n] = b[D]
  BY <1>1
<1> HIDE DEF g
<1> QED
  BY <1>7, <1>9, <1>10, <1>11
-----------------------------------------------------------------------------
(* A run of lines with contact, and no gap in it that is not bridged.      *)
Linked(c, r) ==
    /\ r.from < r.to
    /\ c[r.from + 1] /\ c[r.to]
    /\ \A i \in r.from..r.to - 1 - RunBridge : \E z \in i..i + RunBridge : c[z + 1]

(* The runs of the first k lines.                                          *)
RunsUpTo(c, r, k) ==
    /\ r \in Seq(Span)
    /\ \A j \in 1..Len(r) : Linked(c, r[j]) /\ r[j].to <= k
    /\ \A i, j \in 1..Len(r) : i < j => r[i].to + RunBridge < r[j].from
    /\ \A i \in 0..k - 1 : c[i + 1] => \E j \in 1..Len(r) : i \in r[j].from..r[j].to - 1

(* A line without contact leaves the runs as they are.                     *)
LEMMA NoContact ==
    ASSUME NEW c, NEW k \in Nat \ {0}, NEW r, RunsUpTo(c, r, k - 1), ~c[k]
    PROVE  RunsUpTo(c, r, k)
<1>1. \A j \in 1..Len(r) : r[j].to <= k
  <2>1. \A j \in 1..Len(r) : r[j] \in Span /\ r[j].to <= k - 1
    BY DEF RunsUpTo
  <2>2. \A j \in 1..Len(r) : r[j].to \in Nat
    BY <2>1 DEF Span
  <2> QED
    BY <2>1, <2>2
<1>2. ASSUME NEW i \in 0..k - 1, c[i + 1]
      PROVE  i \in 0..(k - 1) - 1
  BY <1>2
<1> QED
  BY <1>1, <1>2 DEF RunsUpTo

(* A run that a line is near enough to reaches to it.                      *)
LEMMA RunLonger ==
    ASSUME NEW c, NEW k \in Nat \ {0}, NEW r \in Span, NEW l \in Span,
           Linked(c, r), r.to <= k - 1, (k - 1) - r.to <= RunBridge, c[k],
           l.from = r.from, l.to = k
    PROVE  Linked(c, l)
<1>1. RunBridge \in Nat /\ r.from \in Nat /\ r.to \in Nat /\ l.to \in Nat
  BY RunsAssumption DEF Span
<1>2. l.from < l.to /\ c[l.from + 1] /\ c[l.to]
  BY <1>1 DEF Linked
<1>3. ASSUME NEW i \in l.from..l.to - 1 - RunBridge
      PROVE  \E z \in i..i + RunBridge : c[z + 1]
  <2>1. CASE i <= r.to - 1 - RunBridge
    <3>1. i \in r.from..r.to - 1 - RunBridge
      BY <1>1, <2>1
    <3> QED
      BY <3>1 DEF Linked
  <2>2. CASE ~(i <= r.to - 1 - RunBridge) /\ i <= r.to - 1
    <3>1. r.to - 1 \in i..i + RunBridge /\ (r.to - 1) + 1 = r.to
      BY <1>1, <2>2
    <3> QED
      BY <3>1 DEF Linked
  <2>3. CASE ~(i <= r.to - 1)
    <3>1. k - 1 \in i..i + RunBridge /\ (k - 1) + 1 = k
      BY <1>1, <2>3
    <3> QED
      BY <3>1
  <2>4. i \in Int /\ r.to - 1 \in Int
    BY <1>1
  <2> QED
    BY <2>1, <2>2, <2>3, <2>4
<1> QED
  BY <1>2, <1>3 DEF Linked

(* The last run goes on.                                                   *)
LEMMA Bridging ==
    ASSUME NEW c, NEW k \in Nat \ {0}, NEW r, RunsUpTo(c, r, k - 1), c[k],
           r # <<>>, (k - 1) - r[Len(r)].to <= RunBridge
    PROVE  RunsUpTo(c, [r EXCEPT ![Len(r)].to = (k - 1) + 1], k)
<1> DEFINE n == Len(r)
           l == [r[n] EXCEPT !.to = k]
           s == [r EXCEPT ![n] = l]
<1>1. r \in Seq(Span) /\ n \in Nat \ {0} /\ \A j \in 1..n : r[j] \in Span
  BY DEF RunsUpTo
<1>2. l \in Span /\ l.from = r[n].from /\ l.to = k
  BY <1>1, SMTT(20) DEF Span
<1>3. [r EXCEPT ![Len(r)].to = (k - 1) + 1] = s
  <2> DEFINE v == (k - 1) + 1
  <2>1. v = k
    OBVIOUS
  <2> HIDE DEF v
  <2>2. [r EXCEPT ![Len(r)].to = v] = s
    BY <1>1, <2>1
  <2> QED
    BY <2>2 DEF v
<1> HIDE DEF l
<1>4. /\ s \in Seq(Span) /\ Len(s) = n /\ s[n] = l
      /\ \A j \in 1..n - 1 : s[j] = r[j]
  BY <1>1, <1>2, ExceptSeq
<1>5. Linked(c, r[n]) /\ r[n].to <= k - 1
  BY <1>1 DEF RunsUpTo
<1>6. Linked(c, l)
  BY <1>1, <1>2, <1>5, RunLonger
<1> HIDE DEF s
<1>7. ASSUME NEW j \in 1..n PROVE Linked(c, s[j]) /\ s[j].to <= k
  <2>1. CASE j = n
    BY <1>2, <1>4, <1>6, <2>1
  <2>2. CASE j # n
    <3>1. j \in 1..n - 1 /\ s[j] = r[j]
      BY <1>1, <1>4, <2>2
    <3>2. Linked(c, r[j]) /\ r[j].to <= k - 1 /\ r[j].to \in Nat
      BY <1>1 DEF RunsUpTo, Span
    <3> QED
      BY <3>1, <3>2
  <2> QED
    BY <2>1, <2>2
<1>8. ASSUME NEW i \in 1..n, NEW j \in 1..n, i < j
      PROVE  s[i].to + RunBridge < s[j].from
  <2>1. i \in 1..n - 1 /\ s[i] = r[i]
    BY <1>1, <1>4, <1>8
  <2>2. s[j].from = r[j].from
    BY <1>2, <1>4
  <2>3. r[i].to + RunBridge < r[j].from
    BY <1>8 DEF RunsUpTo
  <2> QED
    BY <2>1, <2>2, <2>3
<1>9. ASSUME NEW i \in 0..k - 1, c[i + 1]
      PROVE  \E j \in 1..n : i \in s[j].from..s[j].to - 1
  <2>1. CASE i = k - 1
    <3>1. r[n].from \in Nat /\ r[n].from < r[n].to /\ r[n].to \in Nat
      BY <1>1, <1>5, SMTT(20) DEF Span, Linked
    <3>2. i \in s[n].from..s[n].to - 1
      BY <1>2, <1>4, <1>5, <2>1, <3>1
    <3> QED
      BY <1>1, <3>2
  <2>2. CASE i # k - 1
    <3>1. PICK j \in 1..n : i \in r[j].from..r[j].to - 1
      <4>1. i \in 0..(k - 1) - 1
        BY <2>2
      <4> QED
        BY <1>9, <4>1 DEF RunsUpTo
    <3>2. CASE j = n
      <4>1. r[n].from \in Nat /\ r[n].to \in Nat
        BY <1>1, SMTT(20) DEF Span
      <4>2. i \in s[n].from..s[n].to - 1
        BY <1>2, <1>4, <1>5, <3>1, <3>2, <4>1
      <4> QED
        BY <1>1, <4>2
    <3>3. CASE j # n
      BY <1>1, <1>4, <3>1, <3>3
    <3> QED
      BY <3>2, <3>3
  <2> QED
    BY <2>1, <2>2
<1>10. RunsUpTo(c, s, k)
  BY <1>4, <1>7, <1>8, <1>9 DEF RunsUpTo
<1> QED
  BY <1>3, <1>10

(* Or another run begins.                                                  *)
LEMMA Beginning ==
    ASSUME NEW c, NEW k \in Nat \ {0}, NEW r, RunsUpTo(c, r, k - 1), c[k],
           r # <<>> => (k - 1) - r[Len(r)].to > RunBridge
    PROVE  RunsUpTo(c, Append(r, [from |-> k - 1, to |-> (k - 1) + 1]), k)
<1> DEFINE n == Len(r)
           l == [from |-> k - 1, to |-> (k - 1) + 1]
           s == Append(r, l)
<1>1. r \in Seq(Span) /\ n \in Nat /\ \A j \in 1..n : r[j] \in Span
  BY DEF RunsUpTo
<1>2. l \in Span /\ l.from = k - 1 /\ l.to = k
  BY DEF Span
<1> HIDE DEF l
<1>3. /\ s \in Seq(Span) /\ Len(s) = n + 1 /\ s[n + 1] = l
      /\ \A j \in 1..n : s[j] = r[j]
  BY <1>1, <1>2, AppendProperties
<1> HIDE DEF s
<1>4. Linked(c, l)
  <2>1. RunBridge \in Nat
    BY RunsAssumption
  <2>2. \A i \in l.from..l.to - 1 - RunBridge : k - 1 \in i..i + RunBridge /\ (k - 1) + 1 = k
    BY <1>2, <2>1
  <2>3. (k - 1) + 1 = k
    OBVIOUS
  <2>4. \A i \in l.from..l.to - 1 - RunBridge : \E z \in i..i + RunBridge : c[z + 1]
    BY <2>2
  <2>5. l.from < l.to /\ c[l.from + 1] /\ c[l.to]
    BY <1>2, <2>3
  <2> QED
    BY <2>4, <2>5 DEF Linked
<1>5. ASSUME NEW j \in 1..n + 1 PROVE Linked(c, s[j]) /\ s[j].to <= k
  <2>1. CASE j = n + 1
    BY <1>2, <1>3, <1>4, <2>1
  <2>2. CASE j # n + 1
    <3>1. j \in 1..n /\ s[j] = r[j]
      BY <1>1, <1>3, <2>2
    <3>2. Linked(c, r[j]) /\ r[j].to <= k - 1 /\ r[j].to \in Nat
      BY <1>1, <3>1 DEF RunsUpTo, Span
    <3> QED
      BY <3>1, <3>2
  <2> QED
    BY <2>1, <2>2
<1>6. ASSUME NEW i \in 1..n + 1, NEW j \in 1..n + 1, i < j
      PROVE  s[i].to + RunBridge < s[j].from
  <2>1. i \in 1..n /\ s[i] = r[i]
    BY <1>1, <1>3, <1>6
  <2>2. CASE j # n + 1
    <3>1. j \in 1..n /\ s[j] = r[j]
      BY <1>1, <1>3, <2>2
    <3> QED
      BY <1>6, <2>1, <3>1 DEF RunsUpTo
  <2>3. CASE j = n + 1
    <3>1. n \in 1..n /\ r # <<>> /\ RunBridge \in Nat
      BY <1>1, <2>1, RunsAssumption
    <3>2. r[n].to \in Nat /\ r[n].from \in Nat /\ r[i].to \in Nat
      BY <1>1, <2>1, <3>1 DEF Span
    <3>3. r[n].to + RunBridge < k - 1
      BY <3>1, <3>2
    <3>4. CASE i = n
      BY <1>2, <1>3, <2>1, <2>3, <3>3, <3>4
    <3>5. CASE i # n
      <4>1. r[i].to + RunBridge < r[n].from /\ r[n].from < r[n].to
        BY <2>1, <3>1, <3>5 DEF RunsUpTo, Linked
      <4> QED
        BY <1>2, <1>3, <2>1, <2>3, <3>1, <3>2, <3>3, <4>1, SMTT(20)
    <3> QED
      BY <3>4, <3>5
  <2> QED
    BY <2>2, <2>3
<1>7. ASSUME NEW i \in 0..k - 1, c[i + 1]
      PROVE  \E j \in 1..n + 1 : i \in s[j].from..s[j].to - 1
  <2>1. CASE i = k - 1
    <3>1. i \in s[n + 1].from..s[n + 1].to - 1 /\ n + 1 \in 1..n + 1
      BY <1>1, <1>2, <1>3, <2>1
    <3> QED
      BY <3>1
  <2>2. CASE i # k - 1
    <3>1. PICK j \in 1..n : i \in r[j].from..r[j].to - 1
      <4>1. i \in 0..(k - 1) - 1
        BY <2>2
      <4> QED
        BY <1>7, <4>1 DEF RunsUpTo
    <3>2. j \in 1..n + 1 /\ s[j] = r[j]
      BY <1>1, <1>3
    <3> QED
      BY <3>1, <3>2
  <2> QED
    BY <2>1, <2>2
<1>8. RunsUpTo(c, s, k)
  BY <1>3, <1>5, <1>6, <1>7 DEF RunsUpTo
<1> QED
  BY <1>8 DEF s, l

(* So the runs of all lines are found.                                     *)
LEMMA RunsFound ==
    ASSUME NEW n \in Nat, NEW c \in [1..n -> BOOLEAN]
    PROVE  \E r : /\ RunsUpTo(c, r, n)
                  /\ ContactRuns(c) =
                        FoldLeft(LAMBDA long, s : IF s.to - s.from >= RunMin
                                                  THEN Append(long, s) ELSE long,
                                 <<>>, r)
<1>1. PICK g : /\ g[0] = <<>>
               /\ \A k \in 1..n : g[k] = Extended(c, g[k - 1], k)
               /\ ContactRuns(c) =
                        FoldLeft(LAMBDA long, s : IF s.to - s.from >= RunMin
                                                  THEN Append(long, s) ELSE long,
                                 <<>>, g[n])
  BY RunsFold
<1> DEFINE S == {k \in 0..n : RunsUpTo(c, g[k], k)}
<1>2. 0 \in S
  <2>1. /\ <<>> \in Seq(Span) /\ Len(<<>>) = 0 /\ 1..0 = {} /\ 0..(0 - 1) = {}
        /\ 0 \in 0..n
    OBVIOUS
  <2>2. RunsUpTo(c, <<>>, 0)
    BY <2>1 DEF RunsUpTo
  <2> QED
    BY <1>1, <2>1, <2>2
<1>3. ASSUME NEW k \in 1..n, k - 1 \in S PROVE k \in S
  <2>1. RunsUpTo(c, g[k - 1], k - 1) /\ k \in Nat \ {0} /\ k \in 0..n
    BY <1>3
  <2>2. g[k] = Extended(c, g[k - 1], k)
    BY <1>1
  <2> HIDE DEF S
  <2>3. g[k - 1] # <<>> => g[k - 1][Len(g[k - 1])] \in Span
    BY <2>1 DEF RunsUpTo
  <2>4. CASE ~c[k]
    <3>1. g[k] = g[k - 1]
      BY <2>2, <2>4 DEF Extended
    <3> QED
      BY <2>1, <2>4, <3>1, NoContact DEF S
  <2>5. CASE c[k] /\ g[k - 1] # <<>> /\ (k - 1) - g[k - 1][Len(g[k - 1])].to <= RunBridge
    <3>1. g[k] = [g[k - 1] EXCEPT ![Len(g[k - 1])].to = (k - 1) + 1]
      BY <2>2, <2>5 DEF Extended, Bridged, Last
    <3> QED
      BY <2>1, <2>5, <3>1, Bridging DEF S
  <2>6. CASE c[k] /\ (g[k - 1] # <<>> => (k - 1) - g[k - 1][Len(g[k - 1])].to > RunBridge)
    <3>1. g[k - 1] # <<>> => ~((k - 1) - g[k - 1][Len(g[k - 1])].to <= RunBridge)
      BY <2>3, <2>6, RunsAssumption DEF Span
    <3>2. g[k] = Append(g[k - 1], [from |-> k - 1, to |-> (k - 1) + 1])
      BY <2>2, <2>6, <3>1 DEF Extended, Bridged, Last
    <3> QED
      BY <2>1, <2>6, <3>2, Beginning DEF S
  <2>7. g[k - 1] # <<>> => \/ (k - 1) - g[k - 1][Len(g[k - 1])].to <= RunBridge
                           \/ (k - 1) - g[k - 1][Len(g[k - 1])].to > RunBridge
    BY <2>3, RunsAssumption DEF Span
  <2> QED
    BY <2>4, <2>5, <2>6, <2>7
<1> HIDE DEF S
<1>4. n \in S
  BY <1>2, <1>3, Induct
<1> QED
  BY <1>1, <1>4 DEF S

(* q is the first k elements of s without those not in T; f says where in  *)
(* s each of q stands.                                                     *)
Picks(f, q, s, T, k, S) ==
    /\ q \in Seq(S) /\ Len(q) <= k
    /\ \A i \in 1..Len(q) : f[i] \in 1..k /\ q[i] = s[f[i]] /\ s[f[i]] \in T
    /\ \A i, j \in 1..Len(q) : i < j => f[i] < f[j]
    /\ \A m \in 1..k : s[m] \in T => \E i \in 1..Len(q) : f[i] = m

(* FoldLeft that appends what is in T picks it, in order.                  *)
LEMMA Picking ==
    ASSUME NEW n \in Nat, NEW S, NEW s \in Seq(S), Len(s) = n, NEW T,
           NEW k \in 1..n, NEW q, NEW f, Picks(f, q, s, T, k - 1, S), s[k] \in T
    PROVE  \E e : Picks(e, Append(q, s[k]), s, T, k, S)
<1> DEFINE p == Append(q, s[k])
           L == Len(q)
           e == [i \in 1..L + 1 |-> IF i = L + 1 THEN k ELSE f[i]]
<1>1. q \in Seq(S) /\ L \in Nat /\ L <= k - 1 /\ s[k] \in S
  BY DEF Picks
<1>2. p \in Seq(S) /\ Len(p) = L + 1 /\ p[L + 1] = s[k] /\ \A i \in 1..L : p[i] = q[i]
  BY <1>1, AppendProperties
<1>3. e[L + 1] = k /\ \A i \in 1..L : e[i] = f[i] /\ i # L + 1
  BY <1>1
<1> HIDE DEF p, e
<1>4. \A i \in 1..L : f[i] \in 1..k - 1
  BY <1>1 DEF Picks
<1>5. ASSUME NEW i \in 1..Len(p) PROVE e[i] \in 1..k /\ p[i] = s[e[i]] /\ s[e[i]] \in T
  <2>1. CASE i = L + 1
    BY <1>2, <1>3, <2>1
  <2>2. CASE i # L + 1
    <3>1. i \in 1..L
      BY <1>1, <1>2, <2>2
    <3>2. f[i] \in 1..k /\ q[i] = s[f[i]] /\ s[f[i]] \in T
      BY <3>1, <1>4 DEF Picks
    <3> QED
      BY <1>2, <1>3, <3>1, <3>2
  <2> QED
    BY <2>1, <2>2
<1>6. ASSUME NEW i \in 1..Len(p), NEW j \in 1..Len(p), i < j PROVE e[i] < e[j]
  <2>1. i \in 1..L /\ e[i] = f[i] /\ f[i] \in 1..k - 1
    BY <1>1, <1>2, <1>3, <1>4, <1>6
  <2>2. CASE j = L + 1
    BY <1>3, <2>1, <2>2
  <2>3. CASE j # L + 1
    <3>1. j \in 1..L
      BY <1>1, <1>2, <2>3
    <3> QED
      BY <1>3, <1>6, <2>1, <3>1 DEF Picks
  <2> QED
    BY <2>2, <2>3
<1>7. ASSUME NEW m \in 1..k, s[m] \in T PROVE \E i \in 1..Len(p) : e[i] = m
  <2>1. CASE m = k
    <3>1. L + 1 \in 1..Len(p)
      BY <1>1, <1>2
    <3> QED
      BY <1>3, <2>1, <3>1
  <2>2. CASE m # k
    <3>1. m \in 1..k - 1
      BY <2>2
    <3>2. PICK i \in 1..L : f[i] = m
      BY <1>7, <3>1 DEF Picks
    <3>3. i \in 1..Len(p) /\ e[i] = m
      BY <1>1, <1>2, <1>3, <3>2
    <3> QED
      BY <3>3
  <2> QED
    BY <2>1, <2>2
<1>8. Len(p) <= k
  BY <1>1, <1>2
<1>9. Picks(e, p, s, T, k, S)
  BY <1>2, <1>5, <1>6, <1>7, <1>8 DEF Picks
<1> QED
  BY <1>9 DEF p

(* What is picked has not changed places.                                  *)
LEMMA Passing ==
    ASSUME NEW n \in Nat, NEW S, NEW s \in Seq(S), Len(s) = n, NEW T,
           NEW k \in 1..n, NEW q, NEW f, Picks(f, q, s, T, k - 1, S), s[k] \notin T
    PROVE  Picks(f, q, s, T, k, S)
<1>1. q \in Seq(S) /\ Len(q) \in Nat /\ Len(q) <= k - 1
  BY DEF Picks
<1>2. \A i \in 1..Len(q) : f[i] \in 1..k
  <2>1. \A i \in 1..Len(q) : f[i] \in 1..k - 1
    BY DEF Picks
  <2> QED
    BY <2>1
<1>3. ASSUME NEW m \in 1..k, s[m] \in T PROVE \E i \in 1..Len(q) : f[i] = m
  <2>1. m \in 1..k - 1
    <3>1. m # k
      BY <1>3
    <3> QED
      BY <3>1
  <2> QED
    BY <1>3, <2>1 DEF Picks
<1>4. Len(q) <= k
  BY <1>1
<1> QED
  BY <1>1, <1>2, <1>3, <1>4 DEF Picks

(* All of it is picked.                                                    *)
LEMMA Retained ==
    ASSUME NEW n \in Nat, NEW S, NEW s \in Seq(S), Len(s) = n, NEW T, NEW g,
           g[0] = <<>>,
           \A k \in 1..n : g[k] = IF s[k] \in T THEN Append(g[k - 1], s[k]) ELSE g[k - 1]
    PROVE  \E f : Picks(f, g[n], s, T, n, S)
<1> DEFINE A == {k \in 0..n : \E f : Picks(f, g[k], s, T, k, S)}
<1>1. 0 \in A
  <2>1. /\ <<>> \in Seq(S) /\ Len(<<>>) = 0 /\ 1..0 = {} /\ 0 \in 0..n
    OBVIOUS
  <2>2. Picks(<<>>, <<>>, s, T, 0, S)
    BY <2>1 DEF Picks
  <2> QED
    BY <2>1, <2>2
<1>2. ASSUME NEW k \in 1..n, k - 1 \in A PROVE k \in A
  <2>1. PICK f : Picks(f, g[k - 1], s, T, k - 1, S)
    BY <1>2
  <2>2. CASE s[k] \in T
    <3>1. g[k] = Append(g[k - 1], s[k])
      BY <2>2
    <3>2. \E e : Picks(e, g[k], s, T, k, S)
      BY <2>1, <2>2, <3>1, Picking
    <3> QED
      BY <3>2
  <2>3. CASE s[k] \notin T
    <3>1. g[k] = g[k - 1]
      BY <2>3
    <3>2. Picks(f, g[k], s, T, k, S)
      BY <2>1, <2>3, <3>1, Passing
    <3> QED
      BY <3>2
  <2> QED
    BY <2>2, <2>3
<1> HIDE DEF A
<1>3. 0..n \subseteq A
  BY <1>1, <1>2, Induct
<1>4. n \in A
  BY <1>3
<1> QED
  BY <1>4 DEF A

LongOnes(s) ==
    FoldLeft(LAMBDA long, r : IF r.to - r.from >= RunMin THEN Append(long, r) ELSE long,
             <<>>, s)

(* The runs that are left are the long ones.                               *)
LEMMA LongOnesAre ==
    ASSUME NEW s \in Seq(Span)
    PROVE  \E f : Picks(f, LongOnes(s), s, {r \in Span : r.to - r.from >= RunMin}, Len(s), Span)
<1> DEFINE n == Len(s)
           D == DOMAIN s
           T0 == {r \in Span : r.to - r.from >= RunMin}
           P(fold) == fold = [T \in SUBSET D |->
                          IF T = {} THEN <<>>
                          ELSE IF s[Max(T)].to - s[Max(T)].from >= RunMin
                               THEN Append(fold[T \ {Max(T)}], s[Max(T)]) ELSE fold[T \ {Max(T)}]]
           b == CHOOSE fold : P(fold)
           F == [k \in 1..n |-> [q \in Seq(Span) |->
                    IF s[k] \in T0 THEN Append(q, s[k]) ELSE q]]
<1>1. D = 1..n /\ n \in Nat /\ \A k \in 1..n : s[k] \in Span
  OBVIOUS
<1>2. \A k \in 1..n : \A q \in Seq(Span) :
         /\ F[k][q] = IF s[k].to - s[k].from >= RunMin THEN Append(q, s[k]) ELSE q
         /\ F[k][q] \in Seq(Span)
  <2>1. \A k \in 1..n : \A q \in Seq(Span) : Append(q, s[k]) \in Seq(Span)
    BY <1>1
  <2>2. \A k \in 1..n : s[k] \in T0 <=> s[k].to - s[k].from >= RunMin
    BY <1>1
  <2> HIDE DEF T0
  <2> QED
    BY <2>1, <2>2
<1> HIDE DEF F
<1>3. PICK fold : FoldOf(fold, n, Seq(Span), <<>>, F)
  <2>1. <<>> \in Seq(Span)
    OBVIOUS
  <2>2. \A k \in 1..n : \A q \in Seq(Span) : F[k][q] \in Seq(Span)
    BY <1>2
  <2> QED
    BY <1>1, <2>1, <2>2, FoldExists
<1>4. \A T \in SUBSET D :
         fold[T] = IF T = {} THEN <<>>
                ELSE IF s[Max(T)].to - s[Max(T)].from >= RunMin
                     THEN Append(fold[T \ {Max(T)}], s[Max(T)]) ELSE fold[T \ {Max(T)}]
  <2> SUFFICES ASSUME NEW T \in SUBSET D
               PROVE  fold[T] = IF T = {} THEN <<>>
                        ELSE IF s[Max(T)].to - s[Max(T)].from >= RunMin
                             THEN Append(fold[T \ {Max(T)}], s[Max(T)]) ELSE fold[T \ {Max(T)}]
    OBVIOUS
  <2> DEFINE k == Max(T)
             q == fold[T \ {k}]
  <2>1. /\ T # {} => k \in 1..n /\ q \in Seq(Span)
        /\ fold[T] = IF T = {} THEN <<>> ELSE F[k][q]
    BY <1>1, <1>3 DEF FoldOf
  <2> HIDE DEF k, q
  <2>2. T # {} => F[k][q] = IF s[k].to - s[k].from >= RunMin THEN Append(q, s[k]) ELSE q
    BY <1>2, <2>1
  <2>3. fold[T] = IF T = {} THEN <<>>
                  ELSE IF s[k].to - s[k].from >= RunMin THEN Append(q, s[k]) ELSE q
    BY <2>1, <2>2
  <2> QED
    BY <2>3 DEF k, q
<1>5. P(fold)
  <2>1. fold = [T \in SUBSET D |-> fold[T]]
    BY <1>1, <1>3 DEF FoldOf
  <2>2. [T \in SUBSET D |-> fold[T]] =
          [T \in SUBSET D |->
                IF T = {} THEN <<>>
                ELSE IF s[Max(T)].to - s[Max(T)].from >= RunMin
                     THEN Append(fold[T \ {Max(T)}], s[Max(T)]) ELSE fold[T \ {Max(T)}]]
    BY <1>4, Zenon
  <2> QED
    BY <2>1, <2>2
<1>6. P(b)
  BY <1>5, Zenon
<1>7. LongOnes(s) = b[D]
  BY Zenon DEF LongOnes, FoldLeft, MapThenFoldSet
<1>8. \A T \in SUBSET (1..n) :
         b[T] = IF T = {} THEN <<>>
                ELSE IF s[Max(T)].to - s[Max(T)].from >= RunMin
                     THEN Append(b[T \ {Max(T)}], s[Max(T)]) ELSE b[T \ {Max(T)}]
  BY <1>1, <1>6
<1> HIDE DEF b, P
<1> DEFINE g == [k \in 0..n |-> b[1..k]]
<1>9. g[0] = <<>>
  <2>1. 1..0 = {} /\ 0 \in 0..n /\ {} \in SUBSET (1..n)
    BY <1>1
  <2> QED
    BY <1>8, <2>1
<1>10. ASSUME NEW k \in 1..n
       PROVE  g[k] = IF s[k] \in T0 THEN Append(g[k - 1], s[k]) ELSE g[k - 1]
  <2>1. 1..k \in SUBSET (1..n) /\ 1..k # {} /\ k \in Nat \ {0}
    <3>1. k \in 1..k /\ k \in Nat \ {0}
      OBVIOUS
    <3>2. 1..k \in SUBSET (1..n)
      OBVIOUS
    <3> QED
      BY <3>1, <3>2
  <2>2. Max(1..k) = k /\ (1..k) \ {k} = 1..k - 1
    BY <2>1, MaxTo
  <2>3. g[k] = b[1..k] /\ g[k - 1] = b[1..k - 1]
    BY <1>1
  <2>4. s[k] \in T0 <=> s[k].to - s[k].from >= RunMin
    BY <1>1
  <2>5. b[1..k] = IF s[k].to - s[k].from >= RunMin
                  THEN Append(b[1..k - 1], s[k]) ELSE b[1..k - 1]
    BY <1>8, <2>1, <2>2
  <2> HIDE DEF g, T0
  <2> QED
    BY <2>3, <2>4, <2>5
<1>11. g[n] = b[D]
  BY <1>1
<1> HIDE DEF g, T0
<1>12. \E f : Picks(f, g[n], s, T0, n, Span)
  BY <1>1, <1>9, <1>10, Retained
<1> QED
  BY <1>7, <1>11, <1>12 DEF T0

(* No line with contact is near a run without being in it.                 *)
Apart(c, n, r) ==
    \A i \in 0..n - 1 :
        c[i + 1] => \/ i \in r.from..r.to - 1
                    \/ r.from - i > RunBridge + 1 \/ i - r.to > RunBridge

(* A run that no line with contact is near holds every run it meets.       *)
LEMMA Covers ==
    ASSUME NEW n \in Nat, NEW c, NEW A \in Span, NEW B \in Span, B.to <= n,
           Linked(c, B), Apart(c, n, A), A.from < A.to,
           NEW p, p \in A.from..A.to - 1, p \in B.from..B.to - 1
    PROVE  A.from <= B.from /\ B.to <= A.to
<1>1. /\ A.from \in Nat /\ A.to \in Nat /\ B.from \in Nat /\ B.to \in Nat
      /\ RunBridge \in Nat /\ p \in Nat
  BY RunsAssumption DEF Span
<1>2. A.from <= B.from
  <2> SUFFICES ASSUME B.from < A.from PROVE FALSE
    BY <1>1
  <2>1. PICK z \in Nat : c[z + 1] /\ B.from <= z /\ z < A.from /\ A.from - z <= RunBridge + 1
    <3>1. CASE A.from - 1 - RunBridge >= B.from
      <4>1. A.from - 1 - RunBridge \in B.from..B.to - 1 - RunBridge
        BY <1>1, <3>1
      <4>2. PICK z \in A.from - 1 - RunBridge..(A.from - 1 - RunBridge) + RunBridge : c[z + 1]
        BY <4>1 DEF Linked
      <4>3. z \in Nat /\ B.from <= z /\ z < A.from /\ A.from - z <= RunBridge + 1
        BY <1>1, <3>1, <4>2
      <4> QED
        BY <4>2, <4>3
    <3>2. CASE ~(A.from - 1 - RunBridge >= B.from)
      BY <1>1, <3>2 DEF Linked
    <3> QED
      BY <3>1, <3>2
  <2>2. z \in 0..n - 1
    BY <1>1, <2>1
  <2> QED
    BY <1>1, <2>1, <2>2 DEF Apart
<1>3. B.to <= A.to
  <2> SUFFICES ASSUME A.to < B.to PROVE FALSE
    BY <1>1
  <2>1. PICK z \in Nat : c[z + 1] /\ A.to <= z /\ z < B.to /\ z - A.to <= RunBridge
    <3>1. CASE A.to + RunBridge <= B.to - 1
      <4>1. A.to \in B.from..B.to - 1 - RunBridge
        BY <1>1, <3>1
      <4>2. PICK z \in A.to..A.to + RunBridge : c[z + 1]
        BY <4>1 DEF Linked
      <4>3. z \in Nat /\ A.to <= z /\ z < B.to /\ z - A.to <= RunBridge
        BY <1>1, <3>1, <4>2
      <4> QED
        BY <4>2, <4>3
    <3>2. CASE ~(A.to + RunBridge <= B.to - 1)
      <4>1. (B.to - 1) + 1 = B.to /\ B.to - 1 \in Nat
        BY <1>1
      <4>2. c[(B.to - 1) + 1]
        BY <4>1 DEF Linked
      <4> QED
        BY <1>1, <3>2, <4>1, <4>2
    <3> QED
      BY <3>1, <3>2
  <2>2. z \in 0..n - 1
    BY <1>1, <2>1
  <2> QED
    BY <1>1, <2>1, <2>2 DEF Apart
<1> QED
  BY <1>2, <1>3

(* The runs found are apart from the lines of the others.                  *)
LEMMA RunsApart ==
    ASSUME NEW n \in Nat, NEW c, NEW r, RunsUpTo(c, r, n), NEW j \in 1..Len(r)
    PROVE  Apart(c, n, r[j])
<1>1. r \in Seq(Span) /\ RunBridge \in Nat
  BY RunsAssumption DEF RunsUpTo
<1>2. SUFFICES ASSUME NEW i \in 0..n - 1, c[i + 1]
               PROVE  \/ i \in r[j].from..r[j].to - 1
                      \/ r[j].from - i > RunBridge + 1 \/ i - r[j].to > RunBridge
  BY DEF Apart
<1>3. PICK l \in 1..Len(r) : i \in r[l].from..r[l].to - 1
  BY <1>2 DEF RunsUpTo
<1>4. /\ r[j].from \in Nat /\ r[j].to \in Nat
      /\ r[l].from \in Nat /\ r[l].to \in Nat
  <2>1. r[j] \in Span /\ r[l] \in Span
    BY <1>1
  <2> QED
    BY <2>1 DEF Span
<1>5. CASE l < j
  <2>1. r[l].to + RunBridge < r[j].from
    BY <1>5 DEF RunsUpTo
  <2> QED
    BY <1>1, <1>3, <1>4, <2>1, SMTT(20)
<1>6. CASE j < l
  <2>1. r[j].to + RunBridge < r[l].from
    BY <1>6 DEF RunsUpTo
  <2> QED
    BY <1>1, <1>3, <1>4, <2>1
<1>7. l = j \/ l < j \/ j < l
  OBVIOUS
<1> QED
  BY <1>3, <1>5, <1>6, <1>7

(* All runs of enough lines, and no other, in order.                       *)
LEMMA ContactRunsAre ==
    ASSUME NEW n \in Nat, NEW c \in [1..n -> BOOLEAN]
    PROVE  /\ ContactRuns(c) \in Seq(Span)
           /\ \A q \in Span :
                (\E k \in 1..Len(ContactRuns(c)) : ContactRuns(c)[k] = q) <=>
                   /\ q.to <= n /\ Linked(c, q) /\ Apart(c, n, q)
                   /\ q.to - q.from >= RunMin
           /\ \A i, j \in 1..Len(ContactRuns(c)) :
                i < j => ContactRuns(c)[i].to < ContactRuns(c)[j].from
<1> DEFINE s == ContactRuns(c)
<1>1. PICK r : RunsUpTo(c, r, n) /\ s = LongOnes(r)
  BY RunsFound DEF LongOnes
<1>2. r \in Seq(Span) /\ RunBridge \in Nat /\ Len(r) \in Nat
  BY <1>1, RunsAssumption DEF RunsUpTo
<1>3. PICK f : Picks(f, s, r, {q \in Span : q.to - q.from >= RunMin}, Len(r), Span)
  BY <1>1, <1>2, LongOnesAre
<1> HIDE DEF s
<1>4. /\ s \in Seq(Span)
      /\ \A i \in 1..Len(s) : /\ f[i] \in 1..Len(r) /\ s[i] = r[f[i]]
                              /\ s[i].to - s[i].from >= RunMin
      /\ \A i, j \in 1..Len(s) : i < j => f[i] < f[j]
      /\ \A m \in 1..Len(r) : r[m].to - r[m].from >= RunMin => \E i \in 1..Len(s) : f[i] = m
  <2>1. \A m \in 1..Len(r) : r[m] \in Span
    BY <1>2
  <2> QED
    BY <1>3, <2>1 DEF Picks
<1>5. ASSUME NEW k \in 1..Len(s)
      PROVE  /\ s[k].to <= n /\ Linked(c, s[k]) /\ Apart(c, n, s[k])
             /\ s[k].to - s[k].from >= RunMin
  <2>1. r[f[k]].to <= n /\ Linked(c, r[f[k]])
    BY <1>1, <1>4 DEF RunsUpTo
  <2>2. Apart(c, n, r[f[k]])
    BY <1>1, <1>4, RunsApart
  <2> QED
    BY <1>4, <2>1, <2>2
<1>6. ASSUME NEW q \in Span, q.to <= n, Linked(c, q), Apart(c, n, q), q.to - q.from >= RunMin
      PROVE  \E k \in 1..Len(s) : s[k] = q
  <2>1. q.from \in Nat /\ q.to \in Nat /\ q.from < q.to /\ c[q.from + 1]
    BY <1>6 DEF Span, Linked
  <2>2. q.from \in 0..n - 1
    BY <1>6, <2>1
  <2>3. PICK m \in 1..Len(r) : q.from \in r[m].from..r[m].to - 1
    BY <1>1, <2>1, <2>2 DEF RunsUpTo
  <2>4. /\ r[m] \in Span /\ r[m].to <= n /\ Linked(c, r[m]) /\ Apart(c, n, r[m])
    <3>1. r[m] \in Span /\ r[m].to <= n /\ Linked(c, r[m])
      BY <1>1, <1>2 DEF RunsUpTo
    <3>2. Apart(c, n, r[m])
      BY <1>1, RunsApart
    <3> QED
      BY <3>1, <3>2
  <2>5. r[m].from \in Nat /\ r[m].to \in Nat /\ r[m].from < r[m].to
    BY <2>4 DEF Span, Linked
  <2>6. q.from \in q.from..q.to - 1
    BY <2>1
  <2>7. r[m].from <= q.from /\ q.to <= r[m].to
    BY <1>6, <2>3, <2>4, <2>5, <2>6, Covers
  <2>8. q.from <= r[m].from /\ r[m].to <= q.to
    BY <1>6, <2>1, <2>3, <2>4, <2>6, Covers
  <2>9. r[m] = q
    <3>1. r[m].from = q.from /\ r[m].to = q.to
      BY <2>1, <2>5, <2>7, <2>8
    <3> QED
      BY <2>4, <3>1 DEF Span
  <2>10. PICK i \in 1..Len(s) : f[i] = m
    BY <1>4, <1>6, <2>9
  <2> QED
    BY <1>4, <2>9, <2>10
<1>7. ASSUME NEW i \in 1..Len(s), NEW j \in 1..Len(s), i < j
      PROVE  s[i].to < s[j].from
  <2>1. f[i] \in 1..Len(r) /\ f[j] \in 1..Len(r) /\ f[i] < f[j]
    BY <1>4, <1>7
  <2>2. r[f[i]].to + RunBridge < r[f[j]].from
    BY <1>1, <2>1 DEF RunsUpTo
  <2>3. r[f[i]].to \in Nat /\ r[f[j]].from \in Nat
    <3>1. r[f[i]] \in Span /\ r[f[j]] \in Span
      BY <1>2, <2>1
    <3> QED
      BY <3>1 DEF Span
  <2>4. r[f[i]].to < r[f[j]].from
    BY <1>2, <2>2, <2>3, SMTT(20)
  <2> QED
    BY <1>4, <2>4
<1>8. \A q \in Span :
        (\E k \in 1..Len(s) : s[k] = q) <=>
           q.to <= n /\ Linked(c, q) /\ Apart(c, n, q) /\ q.to - q.from >= RunMin
  BY <1>5, <1>6
<1> QED
  BY <1>4, <1>7, <1>8 DEF s

-----------------------------------------------------------------------------
(* The measurement a line looks at, and where on the skin it was taken.    *)

(* Measurements in ascending order.                                        *)
Sorted(g) ==
    /\ g \in Seq(Int) /\ Len(g) \in Nat \ {0}
    /\ \A i, j \in 1..Len(g) : i < j => g[i] < g[j]

(* The next is no farther from the middle between it and this one on.      *)
LEMMA NearerIs ==
    ASSUME NEW a \in Int, NEW b \in Int, NEW t \in Int, a < b
    PROVE  Nearer(b, a, t) <=> a + b <= 2 * t
BY DEF Nearer, Dist

LEMMA DistIs ==
    ASSUME NEW a \in Int, NEW b \in Int, NEW t \in Int, a < b
    PROVE  /\ a + b <= 2 * t => Dist(b, t) <= Dist(a, t)
           /\ a + b > 2 * t => Dist(a, t) <= Dist(b, t)
BY DEF Dist

(* The pointer moves on from k as far as the next is no farther.           *)
MovedOn(good_, g, t) ==
    CHOOSE k \in g..Len(good_) :
        /\ \A j \in g..k - 1 : Nearer(good_[j + 1], good_[j], t)
        /\ k = Len(good_) \/ ~Nearer(good_[k + 1], good_[k], t)

(* The pointer stops at the first whose next is farther.                   *)
LEMMA MovedOnIs ==
    ASSUME NEW s, Sorted(s), NEW g \in 1..Len(s), NEW t
    PROVE  LET k == MovedOn(s, g, t) IN
           /\ k \in g..Len(s) /\ k \in 1..Len(s)
           /\ \A j \in g..k - 1 : Nearer(s[j + 1], s[j], t)
           /\ k = Len(s) \/ ~Nearer(s[k + 1], s[k], t)
<1> DEFINE n == Len(s)
           Stop(k) == k = n \/ ~Nearer(s[k + 1], s[k], t)
           S == {k \in g..n : Stop(k)}
           Q(k) == /\ \A j \in g..k - 1 : Nearer(s[j + 1], s[j], t)
                   /\ k = n \/ ~Nearer(s[k + 1], s[k], t)
<1>1. n \in Nat /\ g \in Nat
  BY DEF Sorted
<1>2. PICK m \in S : \A x \in S : m <= x
  <2>1. n \in S /\ S \in SUBSET Nat
    BY <1>1
  <2> QED
    BY <2>1, Least
<1>3. Q(m)
  <2>1. ASSUME NEW j \in g..m - 1 PROVE Nearer(s[j + 1], s[j], t)
    <3>1. j \in g..n /\ ~(m <= j)
      BY <1>1, <1>2
    <3>2. ~Stop(j)
      BY <1>2, <3>1
    <3> QED
      BY <3>2
  <2> QED
    BY <1>2, <2>1
<1> DEFINE k == MovedOn(s, g, t)
<1>4. k \in g..n /\ Q(k)
  BY <1>2, <1>3 DEF MovedOn
<1>5. k \in 1..n
  <2> HIDE DEF k, n
  <2> QED
    BY <1>1, <1>4
<1> QED
  BY <1>4, <1>5

(* It starts at the first measurement and moves on line by line.           *)
LEMMA PointerIs ==
    ASSUME NEW m \in Nat, NEW s, Sorted(s)
    PROVE  \A t \in 0..m - 1 :
              /\ Pointer(s, m)[t] \in 1..Len(s)
              /\ Pointer(s, m)[t] = MovedOn(s, IF t = 0 THEN 1 ELSE Pointer(s, m)[t - 1], t)
<1> DEFINE D == 0..m - 1
           T == 1..Len(s)
           Body(t, walk) == MovedOn(s, IF t = 0 THEN 1 ELSE walk[t - 1], t)
           F == [t \in D |-> [w \in [D -> T] |-> Body(t, w)]]
           rank == [t \in D |-> t]
           P(walk) == walk = [t \in D |-> MovedOn(s, IF t = 0 THEN 1 ELSE walk[t - 1], t)]
           b == CHOOSE walk : P(walk)
<1>1. \A t \in D : t \in Nat /\ t \in 0..m /\ (t # 0 => t > 0 /\ t - 1 \in D /\ t - 1 < t)
  OBVIOUS
<1>2. \A t \in D : \A w \in [D -> T] : F[t][w] = Body(t, w)
  OBVIOUS
<1>3. \A t \in D : rank[t] = t
  OBVIOUS
<1>4. 1 \in T
  BY DEF Sorted
<1>5. D = 0..m - 1 /\ (m > 0 => 0 \in D)
  OBVIOUS
<1> HIDE DEF F, rank, D, T
<1>6. Ranked(rank, D, m)
  BY <1>1, <1>3 DEF Ranked
<1>7. \A t \in D : \A g \in T : MovedOn(s, g, t) \in T
  BY MovedOnIs DEF T
<1>8. Typed(F, D, T)
  <2> SUFFICES ASSUME NEW t \in D, NEW w \in [D -> T] PROVE F[t][w] \in T
    BY Zenon DEF Typed
  <2>1. (IF t = 0 THEN 1 ELSE w[t - 1]) \in T
    BY <1>1, <1>4
  <2> QED
    BY <1>2, <1>7, <2>1
<1>9. Local(F, rank, D, T)
  <2> SUFFICES ASSUME NEW t \in D, NEW g \in [D -> T], NEW w \in [D -> T],
                      \A k \in D : rank[k] < rank[t] => g[k] = w[k]
               PROVE  F[t][g] = F[t][w]
    BY Zenon DEF Local
  <2>1. t # 0 => g[t - 1] = w[t - 1]
    BY <1>1, <1>3
  <2>2. Body(t, g) = Body(t, w)
    BY <2>1
  <2> QED
    BY <1>2, <2>2
<1>10. PICK w : Solves(w, F, D, T)
  BY <1>4, <1>6, <1>8, <1>9, Recursion
<1>11. P(w)
  <2>1. w \in [D -> T] /\ \A t \in D : w[t] = Body(t, w)
    BY <1>2, <1>10 DEF Solves
  <2>2. w = [t \in D |-> w[t]]
    BY <2>1
  <2>3. [t \in D |-> w[t]] = [t \in D |-> Body(t, w)]
    BY <2>1, Zenon
  <2> QED
    BY <2>2, <2>3
<1>12. P(b)
  BY <1>11, Zenon
<1>13. Pointer(s, m) = b
  BY Zenon DEF Pointer, MovedOn, D
<1> HIDE DEF b
<1>14. \A t \in D : b[t] = Body(t, b)
  BY <1>12
<1> DEFINE A == {t \in 0..m : t < m => b[t] \in T}
<1>15. 0..m \subseteq A
  <2>1. ASSUME NEW t \in 0..m, t # 0 => t - 1 \in A PROVE t \in A
    <3> SUFFICES ASSUME t < m PROVE b[t] \in T
      OBVIOUS
    <3>1. t \in D
      BY <1>5
    <3>2. t # 0 => b[t - 1] \in T
      BY <2>1
    <3>3. (IF t = 0 THEN 1 ELSE b[t - 1]) \in T
      BY <1>4, <3>2
    <3> QED
      BY <1>7, <1>14, <3>1, <3>3
  <2>2. 0 \in A
    BY <2>1
  <2>3. \A t \in 1..m : t - 1 \in A => t \in A
    BY <2>1
  <2> HIDE DEF A
  <2> QED
    BY <2>2, <2>3, Induct
<1>16. \A t \in 0..m - 1 : b[t] \in T
  BY <1>15
<1> QED
  BY <1>5, <1>13, <1>14, <1>16 DEF T

(* Wherever it came from, it points at the nearest.                        *)
LEMMA PointsAtNearest ==
    ASSUME NEW m \in Nat, NEW s, Sorted(s), NEW t \in 0..m - 1, NEW k \in 1..Len(s)
    PROVE  /\ Pointer(s, m)[t] \in 1..Len(s)
           /\ Dist(s[Pointer(s, m)[t]], t) <= Dist(s[k], t)
<1> DEFINE p == Pointer(s, m)
           n == Len(s)
           Past(x) == p[x] > 1 => s[p[x] - 1] + s[p[x]] <= 2 * x
           A == {x \in 0..t : Past(x)}
<1>1. /\ n \in Nat /\ \A i \in 1..n : s[i] \in Int
      /\ \A i, j \in 1..n : i < j => s[i] < s[j]
  BY DEF Sorted
<1>2. \A x \in 0..m - 1 :
         p[x] \in 1..n /\ p[x] = MovedOn(s, IF x = 0 THEN 1 ELSE p[x - 1], x)
  BY PointerIs
<1> HIDE DEF p
<1>3. ASSUME NEW x \in 0..m - 1, NEW g \in 1..n, p[x] = MovedOn(s, g, x),
             g > 1 => s[g - 1] + s[g] <= 2 * x
      PROVE  Past(x)
  <2> DEFINE q == p[x]
  <2>1. /\ q \in g..n /\ q \in 1..n
        /\ \A j \in g..q - 1 : Nearer(s[j + 1], s[j], x)
    BY <1>3, MovedOnIs
  <2> HIDE DEF q
  <2>2. CASE q = g
    BY <1>3, <2>2 DEF q
  <2>3. CASE q # g
    <3>1. q - 1 \in g..q - 1 /\ (q - 1) + 1 = q /\ q - 1 \in 1..n /\ q - 1 < q
      BY <1>1, <2>1, <2>3
    <3>2. Nearer(s[q], s[q - 1], x)
      BY <2>1, <3>1
    <3>3. s[q - 1] < s[q] /\ s[q - 1] \in Int /\ s[q] \in Int /\ x \in Int
      BY <1>1, <2>1, <3>1
    <3>4. s[q - 1] + s[q] <= 2 * x
      BY <3>2, <3>3, NearerIs
    <3> QED
      BY <3>4 DEF q
  <2> QED
    BY <2>2, <2>3
<1>4. 0 \in A
  <2>1. 0 \in 0..m - 1 /\ 1 \in 1..n /\ 0 \in 0..t
    BY <1>1
  <2>2. p[0] = MovedOn(s, 1, 0)
    BY <1>2, <2>1
  <2>3. Past(0)
    <3> HIDE DEF Past
    <3> QED
      BY <1>3, <2>1, <2>2
  <2> QED
    BY <2>1, <2>3
<1>5. ASSUME NEW x \in 1..t, x - 1 \in A PROVE x \in A
  <2>1. x \in 0..m - 1 /\ x - 1 \in 0..m - 1 /\ x # 0 /\ x \in 0..t
    OBVIOUS
  <2>2. p[x] = MovedOn(s, p[x - 1], x) /\ p[x - 1] \in 1..n
    BY <1>2, <2>1
  <2>3. p[x - 1] > 1 => s[p[x - 1] - 1] + s[p[x - 1]] <= 2 * (x - 1)
    BY <1>5
  <2>4. p[x - 1] > 1 => s[p[x - 1] - 1] + s[p[x - 1]] <= 2 * x
    <3> SUFFICES ASSUME p[x - 1] > 1 PROVE s[p[x - 1] - 1] + s[p[x - 1]] <= 2 * x
      OBVIOUS
    <3>1. p[x - 1] - 1 \in 1..n
      BY <1>1, <2>2
    <3>2. s[p[x - 1] - 1] \in Int /\ s[p[x - 1]] \in Int
      BY <1>1, <2>2, <3>1
    <3> QED
      BY <2>3, <3>2
  <2>5. Past(x)
    <3> HIDE DEF Past
    <3> QED
      BY <1>3, <2>1, <2>2, <2>4
  <2> QED
    BY <2>1, <2>5
<1> HIDE DEF A
<1>6. Past(t)
  <2>1. t \in Nat
    OBVIOUS
  <2>2. 0..t \subseteq A
    BY <1>4, <1>5, <2>1, Induct
  <2> QED
    BY <2>1, <2>2 DEF A
<1> DEFINE q == p[t]
<1>7. q \in 1..n /\ (q > 1 => s[q - 1] + s[q] <= 2 * t)
  BY <1>2, <1>6
<1>8. q = n \/ ~Nearer(s[q + 1], s[q], t)
  <2>1. (IF t = 0 THEN 1 ELSE p[t - 1]) \in 1..n
    <3>1. t # 0 => t - 1 \in 0..m - 1
      OBVIOUS
    <3> QED
      BY <1>1, <1>2, <3>1
  <2> QED
    BY <1>2, <2>1, MovedOnIs
<1> HIDE DEF q, Past
<1>9. Dist(s[q], t) <= Dist(s[k], t)
  <2>1. s[q] \in Int /\ s[k] \in Int /\ t \in Int
    BY <1>1, <1>7
  <2>2. CASE k < q
    <3>1. q > 1 /\ q - 1 \in 1..n
      BY <1>1, <1>7, <2>2
    <3>2. s[q - 1] \in Int /\ s[k] <= s[q - 1] /\ s[k] < s[q]
      <4>1. k = q - 1 \/ k < q - 1
        BY <1>7, <2>2
      <4> QED
        BY <1>1, <1>7, <2>1, <2>2, <3>1, <4>1
    <3>3. s[k] + s[q] <= 2 * t
      BY <1>7, <2>1, <3>1, <3>2
    <3> QED
      BY <2>1, <3>2, <3>3, DistIs
  <2>3. CASE k = q
    <3>1. Dist(s[q], t) \in Int
      BY <2>1 DEF Dist
    <3> QED
      BY <2>3, <3>1
  <2>4. CASE q < k
    <3>1. q # n /\ q + 1 \in 1..n /\ q < q + 1
      BY <1>1, <1>7, <2>4
    <3>2. s[q] < s[q + 1] /\ s[q + 1] \in Int /\ s[q + 1] <= s[k] /\ s[q] < s[k]
      <4>1. k = q + 1 \/ q + 1 < k
        BY <1>7, <2>4
      <4> QED
        BY <1>1, <1>7, <2>1, <2>4, <3>1, <4>1
    <3>3. s[q] + s[q + 1] > 2 * t
      <4>1. ~(s[q] + s[q + 1] <= 2 * t)
        BY <1>8, <2>1, <3>1, <3>2, NearerIs
      <4> QED
        BY <2>1, <3>2, <4>1
    <3>4. s[q] + s[k] > 2 * t
      BY <2>1, <3>2, <3>3
    <3> QED
      BY <2>1, <3>2, <3>4, DistIs
  <2> QED
    BY <1>7, <2>2, <2>3, <2>4
<1> QED
  BY <1>7, <1>9 DEF q, p

(* How far the skin moves with line t.                                     *)
Moved(s, w, m, t) == IF Moving(s, w, m)[t] THEN Sep \div Max({w[t], 1}) ELSE 0

LEMMA MaxOfTwo ==
    ASSUME NEW a \in Int, NEW b \in Int
    PROVE  Max({a, b}) = IF a >= b THEN a ELSE b
<1>1. CASE a >= b
  <2> DEFINE P(x) == x \in {a, b} /\ \A z \in {a, b} : x >= z
  <2>1. P(a) /\ \A x : P(x) => x = a
    BY <1>1
  <2>2. (CHOOSE x : P(x)) = a
    <3> HIDE DEF P
    <3> QED
      BY <2>1
  <2>3. Max({a, b}) \in {a, b} /\ \A z \in {a, b} : Max({a, b}) >= z
    BY <2>1 DEF Max
  <2> QED
    BY <1>1, <2>3
<1>2. CASE ~(a >= b)
  <2>1. b >= a /\ b \in {a, b}
    BY <1>2
  <2>2. Max({a, b}) \in {a, b} /\ \A z \in {a, b} : Max({a, b}) >= z
    BY <2>1 DEF Max
  <2> QED
    BY <1>2, <2>2
<1> QED
  BY <1>1, <1>2

LEMMA QuotientIs ==
    ASSUME NEW a \in Nat, NEW d \in Nat \ {0}
    PROVE  a \div d \in Nat /\ (a >= d <=> a \div d > 0)
OBVIOUS

(* A line that moves the skin on moves it by a unit at least, if its lag   *)
(* is small enough.                                                        *)
LEMMA MovedIs ==
    ASSUME NEW m \in Nat, NEW s, NEW w, NEW t \in 0..m - 1, w[t] \in Int
    PROVE  /\ Moved(s, w, m, t) \in Nat
           /\ w[t] <= Sep => (Moved(s, w, m, t) > 0 <=> Moving(s, w, m)[t])
<1> DEFINE d == Max({w[t], 1})
<1>1. d \in Nat \ {0} /\ (w[t] <= Sep => Sep >= d) /\ Sep \in Nat
  <2>1. d = IF w[t] >= 1 THEN w[t] ELSE 1
    BY MaxOfTwo
  <2>2. Sep \in Nat /\ Sep >= 1
    BY RowAssumption
  <2> HIDE DEF d
  <2> QED
    BY <2>1, <2>2
<1>2. Moved(s, w, m, t) = IF Moving(s, w, m)[t] THEN Sep \div d ELSE 0
  BY DEF Moved
<1> HIDE DEF d
<1>3. Sep \div d \in Nat /\ (Sep >= d <=> Sep \div d > 0)
  BY <1>1, QuotientIs
<1> QED
  BY <1>1, <1>2, <1>3

(* The positions begin with 0 and never fall.                              *)
LEMMA PositionsAre ==
    ASSUME NEW m \in Nat \ {0}, NEW s, NEW w, \A t \in 0..m - 1 : w[t] \in Int
    PROVE  /\ Positions(s, w, m) \in [0..m - 1 -> Nat]
           /\ Positions(s, w, m)[0] = 0
           /\ \A t \in 0..m - 2 :
                 Positions(s, w, m)[t + 1] = Positions(s, w, m)[t] + Moved(s, w, m, t)
<1> DEFINE D == 0..m - 1
           n == m - 1
           v == [t \in 0..n - 1 |-> Moved(s, w, m, t)]
           Body(t, f) == IF t = 0 THEN 0 ELSE f[t - 1] + Moved(s, w, m, t - 1)
           P(f) == f = [t \in D |-> Body(t, f)]
           b == CHOOSE f : P(f)
<1>1. n \in Nat /\ D = 0..n
  OBVIOUS
<1>2. \A t \in 0..n - 1 : v[t] = Moved(s, w, m, t) /\ v[t] \in Nat
  <2> SUFFICES ASSUME NEW t \in 0..n - 1 PROVE v[t] = Moved(s, w, m, t) /\ v[t] \in Nat
    OBVIOUS
  <2>1. t \in 0..m - 1 /\ m \in Nat
    BY <1>1
  <2>2. Moved(s, w, m, t) \in Nat
    BY <2>1, MovedIs
  <2> QED
    BY <2>2
<1> HIDE DEF v
<1>3. PICK g : SumsBelow(g, v, n)
  BY <1>1, <1>2, SumsBelowExist
<1>4. P(g)
  <2>1. g \in [D -> Int] /\ \A t \in D : g[t] = Body(t, g)
    <3> SUFFICES ASSUME NEW t \in D PROVE g[t] = Body(t, g)
      BY <1>1, <1>3 DEF SumsBelow
    <3>1. CASE t = 0
      BY <1>3, <3>1 DEF SumsBelow
    <3>2. CASE t # 0
      <4>1. t \in 1..n /\ t - 1 \in 0..n - 1 /\ t - 1 \in D
        BY <1>1, <3>2
      <4>2. g[t] = v[t - 1] + g[t - 1] /\ g[t - 1] \in Int /\ v[t - 1] = Moved(s, w, m, t - 1)
            /\ v[t - 1] \in Nat
        BY <1>1, <1>2, <1>3, <4>1 DEF SumsBelow
      <4> HIDE DEF n, D
      <4> QED
        BY <3>2, <4>2
    <3> QED
      BY <3>1, <3>2
  <2>2. g = [t \in D |-> g[t]]
    BY <2>1
  <2>3. [t \in D |-> g[t]] = [t \in D |-> Body(t, g)]
    BY <2>1, Zenon
  <2> QED
    BY <2>2, <2>3
<1>5. P(b)
  BY <1>4, Zenon
<1>6. Positions(s, w, m) = b
  BY Zenon DEF Positions, Moved, D
<1> HIDE DEF b
<1>7. \A t \in D : b[t] = Body(t, b)
  BY <1>5
<1>8. DOMAIN b = D /\ b = [t \in D |-> b[t]]
  BY <1>5
<1> DEFINE A == {t \in 0..n : b[t] \in Nat}
<1>9. 0..n \subseteq A
  <2>1. 0 \in A
    BY <1>1, <1>7
  <2>2. ASSUME NEW t \in 1..n, t - 1 \in A PROVE t \in A
    <3>1. t \in D /\ t \in 0..n /\ t # 0 /\ t - 1 \in 0..n - 1
      BY <1>1
    <3>2. b[t] = b[t - 1] + Moved(s, w, m, t - 1) /\ b[t - 1] \in Nat
      BY <1>7, <2>2, <3>1
    <3>3. Moved(s, w, m, t - 1) \in Nat
      BY <1>2, <3>1
    <3> HIDE DEF n, D
    <3>4. b[t] \in Nat
      BY <3>2, <3>3
    <3> QED
      BY <3>1, <3>4
  <2> HIDE DEF A
  <2> QED
    BY <1>1, <2>1, <2>2, Induct
<1>10. b \in [D -> Nat]
  <2>1. \A t \in D : b[t] \in Nat
    BY <1>1, <1>9
  <2> QED
    BY <1>8, <2>1
<1>11. ASSUME NEW t \in 0..m - 2 PROVE b[t + 1] = b[t] + Moved(s, w, m, t)
  <2>1. t + 1 \in D /\ t + 1 # 0 /\ (t + 1) - 1 = t
    OBVIOUS
  <2>2. b[t + 1] = Body(t + 1, b)
    BY <1>7, <2>1
  <2> HIDE DEF D
  <2> QED
    BY <2>1, <2>2
<1>12. b[0] = 0
  <2>1. 0 \in D
    BY <1>1
  <2> QED
    BY <1>7, <2>1
<1> QED
  BY <1>6, <1>10, <1>11, <1>12

(* The skin moves where the nearest measurement is near enough, so where   *)
(* any is.                                                                 *)
LEMMA MovesAre ==
    ASSUME NEW m \in Nat \ {0}, NEW s, Sorted(s), NEW w, \A t \in 0..m - 1 : w[t] \in Int,
           NEW t \in 0..m - 2, w[t] <= Sep
    PROVE  Positions(s, w, m)[t + 1] > Positions(s, w, m)[t] <=>
              \E k \in 1..Len(s) : 2 * Dist(s[k], t) <= HalfHold * w[t]
<1> DEFINE p == Pointer(s, m)
           f == Positions(s, w, m)
           c == HalfHold * w[t]
<1>1. m \in Nat /\ t \in 0..m - 1 /\ t + 1 \in 0..m - 1 /\ w[t] \in Int
  OBVIOUS
<1>2. Moving(s, w, m)[t] <=> 2 * Dist(s[p[t]], t) <= c
  BY <1>1 DEF Moving
<1>3. f[t + 1] = f[t] + Moved(s, w, m, t) /\ f[t] \in Nat
  BY <1>1, PositionsAre
<1>4. Moved(s, w, m, t) \in Nat /\ (Moved(s, w, m, t) > 0 <=> Moving(s, w, m)[t])
  BY <1>1, MovedIs
<1>5. p[t] \in 1..Len(s) /\ \A k \in 1..Len(s) : Dist(s[p[t]], t) <= Dist(s[k], t)
  <2>1. 1 \in 1..Len(s)
    BY DEF Sorted
  <2> QED
    BY <1>1, <2>1, PointsAtNearest
<1>6. \A k \in 1..Len(s) : Dist(s[k], t) \in Int
  <2>1. \A k \in 1..Len(s) : s[k] \in Int
    BY DEF Sorted
  <2> QED
    BY <1>1, <2>1 DEF Dist
<1>7. c \in Int
  BY <1>1, RowAssumption
<1> HIDE DEF p, f, c
<1>8. f[t + 1] > f[t] <=> Moving(s, w, m)[t]
  BY <1>3, <1>4
<1>9. (\E k \in 1..Len(s) : 2 * Dist(s[k], t) <= c) => 2 * Dist(s[p[t]], t) <= c
  BY <1>5, <1>6, <1>7
<1>10. f[t + 1] > f[t] <=> \E k \in 1..Len(s) : 2 * Dist(s[k], t) <= c
  BY <1>2, <1>5, <1>8, <1>9
<1> QED
  BY <1>10 DEF f, c

-----------------------------------------------------------------------------
LEMMA RowTimes ==
    ASSUME NEW k \in Nat
    PROVE  k * Row \in Nat /\ (k > 0 => k - 1 \in Nat /\ (k - 1) * Row <= k * Row)
BY RowAssumption

(* No row lies beyond the last line.                                       *)
LEMMA RowsUpTo ==
    ASSUME NEW a \in Nat, NEW k \in 0..(a \div Row)
    PROVE  k * Row <= a
<1> DEFINE q == a \div Row
<1>1. Row \in Nat \ {0}
  BY RowAssumption
<1>2. q \in Nat /\ q * Row <= a /\ k \in Nat /\ k <= q
  BY <1>1
<1> HIDE DEF q
<1>3. k * Row <= q * Row
  BY <1>1, <1>2
<1>4. k * Row \in Nat /\ q * Row \in Nat
  BY <1>1, <1>2
<1> QED
  BY <1>2, <1>3, <1>4

(* Where the search for a row stops that begins at line i.                 *)
FirstFrom(f, m, i, k) ==
    CHOOSE l \in i..m - 1 :
        /\ \A j \in i..l - 1 : j + 2 < m /\ f[j + 1] <= k * Row
        /\ l + 2 >= m \/ f[l + 1] > k * Row

(* From a line before a row the search leads to the two lines it lies      *)
(* between.                                                                *)
LEMMA FirstFromIs ==
    ASSUME NEW m \in Nat, m >= 2, NEW f \in [0..m - 1 -> Nat], NEW i \in 0..m - 2,
           NEW k \in 0..(f[m - 1] \div Row), f[i] <= k * Row
    PROVE  /\ FirstFrom(f, m, i, k) \in 0..m - 2
           /\ f[FirstFrom(f, m, i, k)] <= k * Row
           /\ k * Row <= f[FirstFrom(f, m, i, k) + 1]
<1> DEFINE c == k * Row
           Stop(l) == l + 2 >= m \/ f[l + 1] > c
           S == {l \in i..m - 2 : Stop(l)}
           Q(l) == /\ \A j \in i..l - 1 : j + 2 < m /\ f[j + 1] <= c
                   /\ l + 2 >= m \/ f[l + 1] > c
           q == CHOOSE l \in i..m - 1 : Q(l)
<1>1. c \in Nat /\ c <= f[m - 1] /\ f[m - 1] \in Nat
  <2>1. m - 1 \in 0..m - 1
    OBVIOUS
  <2>2. f[m - 1] \in Nat /\ k \in Nat
    BY <2>1, RowAssumption
  <2> QED
    BY <2>2, RowTimes, RowsUpTo
<1>2. \A j \in 0..m - 2 : f[j + 1] \in Nat /\ f[j] \in Nat
  OBVIOUS
<1>3. f[i] <= c
  OBVIOUS
<1>4. FirstFrom(f, m, i, k) = q
  BY DEF FirstFrom
<1> HIDE DEF c
<1>5. PICK l \in S : \A x \in S : l <= x
  <2>1. m - 2 \in S /\ S \in SUBSET Nat
    OBVIOUS
  <2> QED
    BY <2>1, Least
<1>6. l \in i..m - 1 /\ Q(l)
  <2>1. ASSUME NEW j \in i..l - 1 PROVE j + 2 < m /\ f[j + 1] <= c
    <3>1. j \in i..m - 2 /\ ~(l <= j) /\ j \in 0..m - 2
      BY <1>5
    <3>2. ~Stop(j)
      BY <1>5, <3>1
    <3> QED
      BY <1>1, <1>2, <3>1, <3>2
  <2> QED
    BY <1>5, <2>1
<1>7. q \in i..m - 1 /\ Q(q)
  BY <1>6
<1> HIDE DEF q
<1>8. q \in i..m - 2
  <2> SUFFICES ASSUME q = m - 1 PROVE FALSE
    BY <1>7
  <2>1. m - 2 \in i..q - 1
    OBVIOUS
  <2> QED
    BY <1>7, <2>1
<1>9. f[q] <= c
  <2>1. CASE q = i
    BY <1>3, <2>1
  <2>2. CASE q # i
    <3>1. q - 1 \in i..q - 1 /\ (q - 1) + 1 = q
      BY <1>8, <2>2
    <3> QED
      BY <1>7, <3>1
  <2> QED
    BY <2>1, <2>2
<1>10. c <= f[q + 1]
  <2>1. q \in 0..m - 2
    BY <1>8
  <2>2. CASE q + 2 >= m
    <3>1. q + 1 = m - 1
      BY <2>1, <2>2
    <3> QED
      BY <1>1, <3>1
  <2>3. CASE f[q + 1] > c
    BY <1>1, <1>2, <2>1, <2>3
  <2> QED
    BY <1>7, <2>2, <2>3
<1> QED
  BY <1>4, <1>8, <1>9, <1>10 DEF c

LEMMA FirstFromType ==
    ASSUME NEW m \in Nat \ {0}, NEW f \in [0..m - 1 -> Nat], NEW i \in 0..m - 1, NEW k \in Nat
    PROVE  FirstFrom(f, m, i, k) \in 0..m - 1
<1> DEFINE c == k * Row
           Stop(l) == l + 2 >= m \/ f[l + 1] > c
           S == {l \in i..m - 1 : Stop(l)}
           Q(l) == /\ \A j \in i..l - 1 : j + 2 < m /\ f[j + 1] <= c
                   /\ l + 2 >= m \/ f[l + 1] > c
           q == CHOOSE l \in i..m - 1 : Q(l)
<1>1. c \in Nat
  BY RowTimes
<1>2. \A j \in 0..m - 2 : f[j + 1] \in Nat
  OBVIOUS
<1>3. FirstFrom(f, m, i, k) = q
  BY DEF FirstFrom
<1> HIDE DEF c
<1>4. PICK l \in S : \A x \in S : l <= x
  <2>1. m - 1 \in S /\ S \in SUBSET Nat
    OBVIOUS
  <2> QED
    BY <2>1, Least
<1>5. l \in i..m - 1 /\ Q(l)
  <2>1. ASSUME NEW j \in i..l - 1 PROVE j + 2 < m /\ f[j + 1] <= c
    <3>1. j \in i..m - 1 /\ ~(l <= j) /\ j \in 0..m - 1
      BY <1>4
    <3>2. ~Stop(j)
      BY <1>4, <3>1
    <3>3. ~(j + 2 >= m) /\ j \in 0..m - 2
      BY <3>1, <3>2
    <3> QED
      BY <1>1, <1>2, <3>2, <3>3
  <2> QED
    BY <1>4, <2>1
<1>6. q \in i..m - 1
  BY <1>5
<1> HIDE DEF q
<1> QED
  BY <1>3, <1>6

(* The row k is searched for where the one before it was found.            *)
Searched(f, m, line, k) == FirstFrom(f, m, IF k = 0 THEN 0 ELSE line[k - 1], k)

(* Every row lies between the two lines it is mixed from.                  *)
LEMMA RowsPlaced ==
    ASSUME NEW m \in Nat, m >= 2, NEW f \in [0..m - 1 -> Nat], f[0] = 0
    PROVE  /\ DOMAIN Brackets(f, m) = 0..RowsOut(f, m) - 1
           /\ \A k \in DOMAIN Brackets(f, m) :
                 /\ Brackets(f, m)[k] \in 0..m - 2
                 /\ f[Brackets(f, m)[k]] <= k * Row
                 /\ k * Row <= f[Brackets(f, m)[k] + 1]
<1> DEFINE n == f[m - 1] \div Row
           D == 0..RowsOut(f, m) - 1
           T == 0..m - 1
           base == FirstFrom(f, m, 0, 0)
           F == [k \in 1..n |-> [x \in T |-> FirstFrom(f, m, x, k)]]
           P(line) == line = [k \in D |-> Searched(f, m, line, k)]
           b == CHOOSE line : P(line)
<1>1. n \in Nat /\ D = 0..n /\ m \in Nat \ {0} /\ 0 \in T
  <2>1. f[m - 1] \in Nat
    OBVIOUS
  <2> QED
    BY <2>1, RowAssumption DEF RowsOut
<1>2. Brackets(f, m) = b
  BY Zenon DEF Brackets, Searched, FirstFrom, D
<1>3. \A x \in T : \A k \in Nat : FirstFrom(f, m, x, k) \in T
  BY <1>1, FirstFromType
<1>4. \A k \in 1..n : \A x \in T : F[k][x] = FirstFrom(f, m, x, k)
  OBVIOUS
<1>5. base \in T /\ \A k \in 1..n : k \in Nat
  BY <1>1, <1>3
<1> HIDE DEF F, n, D
<1>6. Steps(F, n, T)
  BY <1>3, <1>4, <1>5 DEF Steps
<1> HIDE DEF T, base
<1>7. PICK g : Iterates(g, n, T, base, F)
  BY <1>1, <1>5, <1>6, NatRecursion
<1>8. P(g)
  <2>1. g \in [D -> T] /\ g[0] = base /\ \A k \in 1..n : g[k] = F[k][g[k - 1]]
    BY <1>1, <1>7 DEF Iterates
  <2>2. ASSUME NEW k \in D PROVE g[k] = Searched(f, m, g, k)
    <3>1. CASE k = 0
      BY <2>1, <3>1 DEF Searched, base
    <3>2. CASE k # 0
      <4>1. k \in 1..n /\ k - 1 \in D
        BY <1>1, <3>2
      <4>2. g[k - 1] \in T
        BY <2>1, <4>1
      <4>3. g[k] = FirstFrom(f, m, g[k - 1], k)
        BY <1>4, <2>1, <4>1, <4>2
      <4> QED
        BY <3>2, <4>3 DEF Searched
    <3> QED
      BY <3>1, <3>2
  <2>3. g = [k \in D |-> g[k]]
    BY <2>1
  <2>4. [k \in D |-> g[k]] = [k \in D |-> Searched(f, m, g, k)]
    BY <2>2, Zenon
  <2> QED
    BY <2>3, <2>4
<1>9. P(b)
  BY <1>8, Zenon
<1> HIDE DEF b
<1>10. DOMAIN b = D /\ \A k \in D : b[k] = Searched(f, m, b, k)
  BY <1>9
<1> DEFINE In(k) == /\ b[k] \in 0..m - 2
                    /\ f[b[k]] <= k * Row
                    /\ k * Row <= f[b[k] + 1]
           A == {k \in 0..n : In(k)}
<1>11. ASSUME NEW k \in 0..n, NEW i \in 0..m - 2, f[i] <= k * Row, b[k] = FirstFrom(f, m, i, k)
       PROVE  k \in A
  <2>1. In(k)
    BY <1>11, FirstFromIs DEF n
  <2> QED
    BY <2>1
<1>12. 0 \in A
  <2>1. 0 \in D /\ 0 \in 0..n /\ 0 \in 0..m - 2 /\ f[0] <= 0 * Row
    BY <1>1, RowAssumption
  <2>2. b[0] = FirstFrom(f, m, 0, 0)
    BY <1>10, <2>1 DEF Searched
  <2> HIDE DEF A
  <2> QED
    BY <1>11, <2>1, <2>2
<1>13. ASSUME NEW k \in 1..n, k - 1 \in A PROVE k \in A
  <2> DEFINE i == b[k - 1]
  <2>1. k \in D /\ k # 0 /\ k \in 0..n
    BY <1>1
  <2>2. i \in 0..m - 2 /\ f[i] <= (k - 1) * Row
    BY <1>13
  <2>3. b[k] = FirstFrom(f, m, i, k)
    BY <1>10, <2>1 DEF Searched
  <2> HIDE DEF A, i
  <2>4. k \in Nat /\ k - 1 \in Nat /\ k > 0 /\ f[i] \in Nat
    BY <2>1, <2>2
  <2>5. (k - 1) * Row <= k * Row /\ k * Row \in Nat /\ (k - 1) * Row \in Nat
    BY <2>4, RowTimes
  <2>6. f[i] <= k * Row
    BY <2>2, <2>4, <2>5
  <2> QED
    BY <1>11, <2>1, <2>2, <2>3, <2>6
<1> HIDE DEF A
<1>14. 0..n \subseteq A
  BY <1>1, <1>12, <1>13, Induct
<1>15. \A k \in D : In(k)
  BY <1>1, <1>14 DEF A
<1> QED
  BY <1>2, <1>10, <1>15 DEF D

-----------------------------------------------------------------------------
(* Interpolation and the median.                                           *)

(* A share of d is no more than d.                                         *)
LEMMA ShareUpTo ==
    ASSUME NEW d \in Int, NEW w \in Nat \ {0}, NEW x \in 0..w
    PROVE  /\ (x * d) \div w \in Int
           /\ (x * d) \div w <= IF d >= 0 THEN d ELSE 0
<1> DEFINE a == x * d
           q == a \div w
<1>1. a \in Int /\ w * d \in Int
  OBVIOUS
<1>2. q \in Int /\ w * q <= a
  <2> HIDE DEF a
  <2> QED
    BY <1>1
<1>3. d >= 0 => a <= w * d
  OBVIOUS
<1>4. d < 0 => a <= 0
  OBVIOUS
<1> HIDE DEF a, q
<1>5. CASE d >= 0
  <2> SUFFICES ASSUME q > d PROVE FALSE
    BY <1>2, <1>5 DEF a, q
  <2>1. w * q >= w * (d + 1)
    BY <1>2
  <2>2. w * (d + 1) = w * d + w
    OBVIOUS
  <2>3. w * q \in Int
    BY <1>2
  <2> QED
    BY <1>1, <1>2, <1>3, <1>5, <2>1, <2>2, <2>3
<1>6. CASE d < 0
  <2> SUFFICES ASSUME q > 0 PROVE FALSE
    BY <1>2, <1>6 DEF a, q
  <2>1. w * q >= w * 1
    BY <1>2
  <2>2. w * q \in Int /\ w * 1 = w
    BY <1>2
  <2> QED
    BY <1>1, <1>2, <1>4, <1>6, <2>1, <2>2
<1> QED
  BY <1>5, <1>6

(* What lies on the line between two measurements is no larger than both.  *)
LEMMA BetweenIs ==
    ASSUME NEW U \in Int, NEW p \in Int, NEW q \in Int, p <= U, q <= U,
           NEW a \in Int, NEW b \in Int, NEW t \in Int, a <= t, t < b
    PROVE  /\ p + (((t - a) * (q - p)) \div (b - a)) \in Int
           /\ p + (((t - a) * (q - p)) \div (b - a)) <= U
<1> DEFINE d == q - p
           w == b - a
           x == t - a
<1>1. d \in Int /\ w \in Nat \ {0} /\ x \in 0..w /\ p + d = q
  OBVIOUS
<1> HIDE DEF d, w, x
<1> DEFINE s == (x * d) \div w
<1>2. s \in Int /\ s <= IF d >= 0 THEN d ELSE 0
  BY <1>1, ShareUpTo
<1> HIDE DEF s
<1>3. p + s \in Int /\ p + s <= U
  BY <1>1, <1>2
<1> QED
  BY <1>3 DEF s, d, w, x

(* On the line through the measurements a lag is no larger than they are.  *)
LEMMA InterpolatedIs ==
    ASSUME NEW s, Sorted(s), NEW m \in Nat, NEW U \in Int,
           NEW v, \A k \in 1..Len(s) : v[s[k]] \in Int /\ v[s[k]] <= U
    PROVE  \A t \in 0..m - 1 :
              Interpolated(s, v, m)[t] \in Int /\ Interpolated(s, v, m)[t] <= U
<1> SUFFICES ASSUME NEW t \in 0..m - 1
             PROVE  Interpolated(s, v, m)[t] \in Int /\ Interpolated(s, v, m)[t] <= U
  OBVIOUS
<1> DEFINE n == Len(s)
           upto == {k \in 1..n : s[k] <= t}
           a == s[Max(upto)]
           b == s[Max(upto) + 1]
           x == IF upto = {} THEN v[s[1]]
                ELSE IF a = Last(s) THEN v[a]
                ELSE v[a] + (((t - a) * (v[b] - v[a])) \div (b - a))
<1>1. n \in Nat \ {0} /\ \A i, j \in 1..n : i < j => s[i] < s[j]
  BY DEF Sorted
<1>2. \A k \in 1..n : s[k] \in Int
  BY DEF Sorted
<1>3. Interpolated(s, v, m)[t] = x
  BY DEF Interpolated
<1>4. Last(s) = s[n]
  BY DEF Last
<1>5. CASE upto = {}
  <2>1. 1 \in 1..n
    BY <1>1
  <2> QED
    BY <1>3, <1>5, <2>1
<1>6. CASE upto # {}
  <2> DEFINE g == Max(upto)
  <2>1. g \in upto /\ \A k \in upto : g >= k
    <3>1. n \in Nat /\ upto \in SUBSET (0..n)
      BY <1>1
    <3> HIDE DEF upto, n
    <3> QED
      BY <1>6, <3>1, MaxIs
  <2>2. g \in 1..n /\ s[g] <= t
    BY <2>1
  <2>3. v[s[g]] \in Int /\ v[s[g]] <= U
    BY <2>2
  <2>4. CASE s[g] = Last(s)
    BY <1>3, <1>6, <2>3, <2>4
  <2>5. CASE s[g] # Last(s)
    <3>1. g # n
      BY <1>4, <2>5
    <3> HIDE DEF g
    <3>2. g + 1 \in 1..n
      BY <1>1, <2>2, <3>1
    <3>3. ~(g >= g + 1)
      BY <2>2
    <3>4. g + 1 \notin upto
      BY <2>1, <3>3
    <3>5. ~(s[g + 1] <= t) /\ s[g + 1] \in Int /\ s[g] \in Int /\ t \in Int
      BY <1>2, <2>2, <3>2, <3>4
    <3>6. v[s[g + 1]] \in Int /\ v[s[g + 1]] <= U
      BY <3>2
    <3>7. s[g] <= t /\ t < s[g + 1]
      BY <2>2, <3>5
    <3>8. x = v[s[g]] + (((t - s[g]) * (v[s[g + 1]] - v[s[g]])) \div (s[g + 1] - s[g]))
      <4> HIDE DEF upto
      <4> QED
        BY <1>6, <2>5, Zenon DEF g
    <3>9. x \in Int /\ x <= U
      <4> HIDE DEF x
      <4> QED
        BY <2>3, <3>5, <3>6, <3>7, <3>8, BetweenIs
    <3> HIDE DEF x
    <3> QED
      BY <1>3, <3>9
  <2> QED
    BY <2>4, <2>5
<1> QED
  BY <1>5, <1>6

-----------------------------------------------------------------------------
(* Five values have a middle one.                                          *)
Larger(w, d) == {e \in -2..2 : w[e] > w[d]}

(* Of five numbers the larger one has fewer that are larger.               *)
LEMMA LargerIs ==
    ASSUME NEW w, \A d \in -2..2 : w[d] \in Int
    PROVE  /\ \A d \in -2..2 : Cardinality(Larger(w, d)) \in 0..5
           /\ \A c, d \in -2..2 :
                 w[c] < w[d] => Cardinality(Larger(w, d)) < Cardinality(Larger(w, c))
<1>1. IsFiniteSet(-2..2) /\ Cardinality(-2..2) = 5
  <2>1. -2 \in Int /\ 2 \in Int /\ ~(-2 > 2) /\ 2 - (-2) + 1 = 5
    OBVIOUS
  <2> QED
    BY <2>1, FS_Interval
<1>2. ASSUME NEW d \in -2..2
      PROVE  IsFiniteSet(Larger(w, d)) /\ Cardinality(Larger(w, d)) \in 0..5
  <2>1. Larger(w, d) \in SUBSET (-2..2)
    BY DEF Larger
  <2>2. IsFiniteSet(Larger(w, d)) /\ Cardinality(Larger(w, d)) <= 5
    BY <1>1, <2>1, FS_Subset
  <2>3. Cardinality(Larger(w, d)) \in Nat
    BY <2>2, FS_CardinalityType
  <2> QED
    BY <2>2, <2>3
<1>3. ASSUME NEW c \in -2..2, NEW d \in -2..2, w[c] < w[d]
      PROVE  Cardinality(Larger(w, d)) < Cardinality(Larger(w, c))
  <2>1. Larger(w, d) \in SUBSET (Larger(w, c) \ {d}) /\ d \in Larger(w, c)
    <3>1. \A e \in -2..2 : w[e] > w[d] => w[e] > w[c] /\ e # d
      BY <1>3
    <3> QED
      BY <1>3, <3>1 DEF Larger
  <2>2. IsFiniteSet(Larger(w, c) \ {d})
        /\ Cardinality(Larger(w, c) \ {d}) = Cardinality(Larger(w, c)) - 1
    BY <1>2, <2>1, FS_RemoveElement
  <2>3. Cardinality(Larger(w, d)) <= Cardinality(Larger(w, c) \ {d})
    BY <2>1, <2>2, FS_Subset
  <2> QED
    BY <1>2, <2>2, <2>3
<1> QED
  BY <1>2, <1>3

(* Of five numbers one is in the middle.                                   *)
LEMMA MiddleExists ==
    ASSUME NEW w, \A d \in -2..2 : w[d] \in Int
    PROVE  \E d \in -2..2 :
              /\ Cardinality({e \in -2..2 : w[e] < w[d]}) <= 2
              /\ Cardinality({e \in -2..2 : w[e] > w[d]}) <= 2
<1> DEFINE D == -2..2
           C(d) == Cardinality(Larger(w, d))
           Few == {C(d) : d \in {e \in D : C(e) <= 2}}
<1>1. /\ \A d \in D : C(d) \in 0..5
      /\ \A c, d \in D : w[c] < w[d] => C(d) < C(c)
  BY LargerIs
<1>2. IsFiniteSet(D) /\ Cardinality(D) = 5 /\ 0 \in D
  <2>1. -2 \in Int /\ 2 \in Int /\ ~(-2 > 2) /\ 2 - (-2) + 1 = 5 /\ 0 \in D
    OBVIOUS
  <2> QED
    BY <2>1, FS_Interval
<1>3. \A d \in D : w[d] \in Int
  OBVIOUS
<1>4. \A d \in D : Larger(w, d) = {e \in D : w[e] > w[d]}
  BY DEF Larger
<1> HIDE DEF D
<1>5. ASSUME NEW B \in SUBSET D, B # {}
      PROVE  \E d \in B : \A e \in B : w[e] <= w[d]
  <2> DEFINE T == {C(d) : d \in B}
  <2>1. T \in SUBSET Nat /\ T # {}
    BY <1>1, <1>5
  <2>2. PICK c \in T : \A x \in T : c <= x
    BY <2>1, Least
  <2>3. PICK d \in B : C(d) = c
    BY <2>2
  <2>4. ASSUME NEW e \in B PROVE w[e] <= w[d]
    <3>1. C(d) <= C(e)
      BY <2>2, <2>3
    <3>2. ~(C(e) < C(d))
      BY <1>1, <3>1
    <3>3. ~(w[d] < w[e])
      BY <1>1, <3>2
    <3> QED
      BY <1>3, <3>3
  <2> QED
    BY <2>4
<1>6. Few \in SUBSET (0..2) /\ Few # {}
  <2>1. PICK d \in D : \A e \in D : w[e] <= w[d]
    BY <1>2, <1>5
  <2>2. Larger(w, d) = {}
    BY <1>3, <1>4, <2>1
  <2>3. C(d) = 0
    BY <2>2, FS_EmptySet
  <2>4. C(d) \in Few
    BY <2>3
  <2>5. ASSUME NEW x \in Few PROVE x \in 0..2
    <3>1. PICK e \in D : C(e) <= 2 /\ x = C(e)
      OBVIOUS
    <3> QED
      BY <1>1, <3>1
  <2> QED
    BY <2>4, <2>5
<1>7. Max(Few) \in Few /\ \A x \in Few : Max(Few) >= x
  <2>1. 2 \in Nat
    OBVIOUS
  <2> HIDE DEF Few
  <2> QED
    BY <1>6, <2>1, MaxIs
<1>8. PICK d \in D : C(d) <= 2 /\ C(d) = Max(Few)
  BY <1>7
<1> DEFINE B == {e \in D : w[e] < w[d]}
<1>9. Cardinality(B) <= 2
  <2>1. IsFiniteSet(B) /\ Cardinality(B) \in Nat
    BY <1>2, FS_Subset, FS_CardinalityType
  <2> SUFFICES ASSUME Cardinality(B) > 2 PROVE FALSE
    BY <2>1
  <2>2. B # {}
    BY <2>1, FS_EmptySet
  <2>3. PICK c \in B : \A e \in B : w[e] <= w[c]
    BY <1>5, <2>2
  <2>4. c \in D /\ w[c] < w[d]
    BY <2>3
  <2>5. Larger(w, c) \in SUBSET (D \ B)
    <3>1. ASSUME NEW e \in B PROVE ~(w[e] > w[c])
      BY <1>3, <2>3, <2>4, <3>1
    <3> QED
      BY <1>4, <2>4, <3>1
  <2>6. IsFiniteSet(D \ B) /\ Cardinality(D \ B) = 5 - Cardinality(B)
    <3>1. D \cap B = B
      OBVIOUS
    <3>2. IsFiniteSet(D \ B) /\ Cardinality(D \ B) = Cardinality(D) - Cardinality(D \cap B)
      <4> HIDE DEF B
      <4> QED
        BY <1>2, FS_Difference
    <3> QED
      BY <1>2, <3>1, <3>2
  <2>7. C(c) <= 5 - Cardinality(B)
    BY <2>5, <2>6, FS_Subset
  <2>8. C(c) <= 2 /\ C(d) < C(c) /\ C(c) \in 0..5 /\ C(d) \in 0..5
    BY <1>1, <2>1, <2>4, <2>7
  <2>9. C(c) \in Few
    BY <2>4, <2>8
  <2>10. C(d) >= C(c)
    BY <1>7, <1>8, <2>9
  <2> QED
    BY <2>8, <2>10
<1>10. Cardinality({e \in D : w[e] > w[d]}) <= 2
  BY <1>4, <1>8
<1> QED
  BY <1>9, <1>10 DEF D

(* A median is one of the values it is the median of.                      *)
LEMMA Median5Is ==
    ASSUME NEW m \in Nat \ {0}, NEW f, NEW U \in Int,
           \A t \in 0..m - 1 : f[t] \in Int /\ f[t] <= U
    PROVE  /\ DOMAIN Median5(f, m) = 0..m - 1
           /\ \A t \in 0..m - 1 : Median5(f, m)[t] \in Int /\ Median5(f, m)[t] <= U
<1>1. DOMAIN Median5(f, m) = 0..m - 1
  BY DEF Median5
<1>2. SUFFICES ASSUME NEW t \in 0..m - 1
               PROVE  Median5(f, m)[t] \in Int /\ Median5(f, m)[t] <= U
  BY <1>1
<1> DEFINE w == [d \in -2..2 |-> f[IF t + d < 0 THEN 0
                                   ELSE IF t + d >= m THEN m - 1 ELSE t + d]]
           Mid(v) == /\ Cardinality({d \in -2..2 : w[d] < v}) <= 2
                     /\ Cardinality({d \in -2..2 : w[d] > v}) <= 2
           V == {w[d] : d \in -2..2}
           x == CHOOSE v \in V : Mid(v)
<1>3. Median5(f, m)[t] = x
  BY DEF Median5
<1>4. \A d \in -2..2 : w[d] \in Int /\ w[d] <= U
  <2> SUFFICES ASSUME NEW d \in -2..2 PROVE w[d] \in Int /\ w[d] <= U
    OBVIOUS
  <2> DEFINE i == IF t + d < 0 THEN 0 ELSE IF t + d >= m THEN m - 1 ELSE t + d
  <2>1. i \in 0..m - 1
    OBVIOUS
  <2>2. w[d] = f[i]
    OBVIOUS
  <2> HIDE DEF i, w
  <2> QED
    BY <2>1, <2>2
<1> HIDE DEF w
<1>5. PICK d \in -2..2 : Mid(w[d])
  BY <1>4, MiddleExists
<1>6. x \in V
  <2>1. w[d] \in V
    OBVIOUS
  <2> HIDE DEF V, Mid
  <2> QED
    BY <1>5, <2>1
<1> QED
  <2> HIDE DEF x
  <2> QED
    BY <1>3, <1>4, <1>6

-----------------------------------------------------------------------------
(* The best path through the lags.                                         *)

(* SumFunction is a sum over its domain.                                   *)
LEMMA SumFunctionIs ==
    ASSUME NEW D, IsFiniteSet(D), NEW w \in [D -> Int]
    PROVE  \E fold : SumOf(fold, w, D) /\ SumFunction(w) = fold[D]
<1> DEFINE P(fold) == fold = [s \in SUBSET D |-> IF s = {} THEN 0
                            ELSE w[CHOOSE x \in s : TRUE] + fold[s \ {CHOOSE x \in s : TRUE}]]
           b == CHOOSE fold : P(fold)
<1>1. PICK fold : SumOf(fold, w, D)
  BY SumExists
<1>2. P(b)
  BY <1>1, Zenon DEF SumOf
<1>3. DOMAIN w = D
  OBVIOUS
<1>4. SumFunction(w) = b[D]
  BY <1>3, Zenon DEF SumFunction, SumFunctionOnSet, FoldFunctionOnSet, MapThenFoldSet
<1> HIDE DEF b
<1> QED
  BY <1>2, <1>4 DEF SumOf

(* It adds up what comes after the first.                                  *)
LEMMA PrefixSumFrom ==
    ASSUME NEW n \in Nat \ {0}, NEW v, NEW p, SumsBelow(p, v, n), p[1] = 0,
           NEW D, D = 1..n - 1,
           NEW w, Matches(w, v, D),
           NEW fold, SumOf(fold, w, D)
    PROVE  fold[D] = p[n]
<1> DEFINE A == {k \in 0..n - 1 : fold[1..k] = p[k + 1]}
<1>1. IsFiniteSet(D) /\ n - 1 \in Nat
  <2>1. 1 \in Int /\ n - 1 \in Int /\ n - 1 \in Nat
    OBVIOUS
  <2> QED
    BY <2>1, FS_Interval
<1>2. SumRules(fold, w, D)
  <2>1. Ints(w, D)
    BY DEF Matches, Ints
  <2> QED
    BY <1>1, <2>1, SumRulesOf
<1>3. 0 \in A
  <2>1. 1..0 = {} /\ 0 \in 0..n - 1 /\ 0 + 1 = 1
    BY <1>1
  <2> QED
    BY <1>2, <2>1 DEF SumRules
<1>4. ASSUME NEW k \in 1..n - 1, k - 1 \in A PROVE k \in A
  <2> DEFINE s == 1..k
  <2>1. s \in SUBSET D /\ k \in s /\ s \ {k} = 1..k - 1 /\ k \in 0..n - 1
        /\ k + 1 \in 1..n /\ (k + 1) - 1 = k /\ (k - 1) + 1 = k
    BY <1>1
  <2>2. fold[s] = w[k] + fold[s \ {k}]
    BY <1>2, <2>1 DEF SumRules
  <2>3. w[k] = v[k]
    BY <2>1 DEF Matches
  <2>4. fold[1..k - 1] = p[k]
    BY <1>4, <2>1
  <2>5. p[k + 1] = v[(k + 1) - 1] + p[(k + 1) - 1]
    BY <2>1 DEF SumsBelow
  <2>6. fold[s] = p[k + 1]
    BY <2>1, <2>2, <2>3, <2>4, <2>5
  <2> QED
    BY <2>1, <2>6
<1> HIDE DEF A
<1>5. 0..n - 1 \subseteq A
  BY <1>1, <1>3, <1>4, Induct
<1>6. n - 1 \in A /\ (n - 1) + 1 = n
  BY <1>1, <1>5
<1> QED
  BY <1>6 DEF A

-----------------------------------------------------------------------------
(* What line t adds to the value of a path.                                *)
Gain(c, p, t) == c[t][p[t]]
Cost(p, t) == IF t = 0 THEN 0 ELSE TrackLambda * Dist(p[t], p[t - 1])
Gains(c, p, m) == [t \in 0..m - 1 |-> Gain(c, p, t) - Cost(p, t)]

ValueOf(c, p) ==
    SumFunction([t \in DOMAIN c |-> c[t][p[t]]])
      - SumFunction([t \in DOMAIN c \ {0} |-> TrackLambda * Dist(p[t], p[t - 1])])

LEMMA CostType ==
    ASSUME NEW m \in Nat, NEW p, \A t \in 0..m - 1 : p[t] \in Int, NEW t \in 0..m - 1
    PROVE  Cost(p, t) \in Int /\ (t # 0 => TrackLambda * Dist(p[t], p[t - 1]) = Cost(p, t))
<1>1. CASE t = 0
  BY <1>1 DEF Cost
<1>2. CASE t # 0
  <2>1. t - 1 \in 0..m - 1
    BY <1>2
  <2>2. Dist(p[t], p[t - 1]) \in Int
    BY <2>1 DEF Dist
  <2> DEFINE d == Dist(p[t], p[t - 1])
  <2> HIDE DEF d
  <2>3. TrackLambda * d \in Int
    BY <2>2, TrackAssumption DEF d
  <2> QED
    BY <1>2, <2>3 DEF Cost, d
<1> QED
  BY <1>1, <1>2

(* The value of a path adds up line by line.                               *)
LEMMA ValueIs ==
    ASSUME NEW m \in Nat \ {0}, NEW c, DOMAIN c = 0..m - 1,
           NEW p, \A t \in 0..m - 1 : p[t] \in Int /\ c[t][p[t]] \in Int
    PROVE  \E g : SumsBelow(g, Gains(c, p, m), m) /\ ValueOf(c, p) = g[m]
<1> DEFINE D == 0..m - 1
           E == 1..m - 1
           v1 == [t \in D |-> c[t][p[t]]]
           v2 == [t \in D |-> Cost(p, t)]
           w2 == [t \in E |-> TrackLambda * Dist(p[t], p[t - 1])]
           v == Gains(c, p, m)
<1>1. /\ m \in Nat /\ D \ {0} = E /\ IsFiniteSet(D) /\ IsFiniteSet(E)
      /\ \A t \in E : t \in D /\ t # 0
  <2>1. 0 \in Int /\ 1 \in Int /\ m - 1 \in Int
    OBVIOUS
  <2>2. IsFiniteSet(D) /\ IsFiniteSet(E)
    BY <2>1, FS_Interval
  <2> QED
    BY <2>2
<1>2. \A t \in D : v1[t] = Gain(c, p, t) /\ v1[t] \in Int /\ v1 \in [D -> Int]
  BY DEF Gain
<1>3. \A t \in D : Cost(p, t) \in Int /\ (t # 0 => TrackLambda * Dist(p[t], p[t - 1]) = Cost(p, t))
  BY CostType
<1>4. \A t \in D : v2[t] = Cost(p, t) /\ v2[t] \in Int
  BY <1>3
<1>5. w2 \in [E -> Int] /\ \A t \in E : w2[t] = v2[t] /\ w2[t] \in Int
  <2>1. \A t \in E : w2[t] = Cost(p, t)
    BY <1>1, <1>3
  <2> HIDE DEF v2, D
  <2>2. \A t \in E : w2[t] = v2[t] /\ w2[t] \in Int
    BY <1>1, <1>4, <2>1
  <2>3. w2 = [t \in E |-> w2[t]]
    OBVIOUS
  <2> HIDE DEF w2, E
  <2> QED
    BY <2>2, <2>3
<1>6. \A t \in D : v[t] = v1[t] - v2[t]
  <2>1. \A t \in D : v[t] = Gain(c, p, t) - Cost(p, t)
    BY DEF Gains
  <2> HIDE DEF v, v1, v2, D
  <2> QED
    BY <1>2, <1>4, <2>1
<1>7. ValueOf(c, p) = SumFunction(v1) - SumFunction(w2)
  <2>1. DOMAIN c = D /\ DOMAIN c \ {0} = E
    BY <1>1
  <2> HIDE DEF D, E
  <2> QED
    BY <2>1 DEF ValueOf
<1>8. D = 0..m - 1 /\ E = 1..m - 1 /\ 0 \in D /\ v1 \in [D -> Int]
  BY <1>2
<1> HIDE DEF v, v1, v2, w2, D, E
<1>9. PICK g1 : SumsBelow(g1, v1, m)
  BY <1>1, <1>2, <1>8, SumsBelowExist
<1>10. PICK g2 : SumsBelow(g2, v2, m)
  BY <1>1, <1>4, <1>8, SumsBelowExist
<1>11. PICK f1 : SumOf(f1, v1, D) /\ SumFunction(v1) = f1[D]
  BY <1>1, <1>8, SumFunctionIs
<1>12. PICK f2 : SumOf(f2, w2, E) /\ SumFunction(w2) = f2[E]
  BY <1>1, <1>5, SumFunctionIs
<1>13. f1[D] = g1[m]
  <2>1. m \in 0..m
    BY <1>1
  <2>2. Matches(v1, v1, D)
    BY <1>2 DEF Matches
  <2> QED
    BY <1>1, <1>8, <1>9, <1>11, <2>1, <2>2, PrefixSum
<1>14. f2[E] = g2[m]
  <2>1. g2[1] = 0
    <3>1. g2[1] = v2[1 - 1] + g2[1 - 1] /\ g2[0] = 0
      <4>1. 1 \in 1..m
        BY <1>1
      <4> QED
        BY <1>10, <4>1 DEF SumsBelow
    <3>2. v2[0] = 0
      BY <1>4, <1>8 DEF Cost
    <3> QED
      BY <3>1, <3>2
  <2>2. Matches(w2, v2, E)
    BY <1>5 DEF Matches
  <2> QED
    BY <1>8, <1>10, <1>12, <2>1, <2>2, PrefixSumFrom
<1> DEFINE g == [k \in 0..m |-> g1[k] - g2[k]]
<1>15. SumsBelow(g, v, m)
  <2>1. /\ g1 \in [0..m -> Int] /\ g1[0] = 0 /\ \A k \in 1..m : g1[k] = v1[k - 1] + g1[k - 1]
        /\ g2 \in [0..m -> Int] /\ g2[0] = 0 /\ \A k \in 1..m : g2[k] = v2[k - 1] + g2[k - 1]
    BY <1>9, <1>10 DEF SumsBelow
  <2>2. g \in [0..m -> Int] /\ g[0] = 0 /\ \A k \in 0..m : g[k] = g1[k] - g2[k]
    <3>1. 0 \in 0..m
      BY <1>1
    <3> QED
      BY <2>1, <3>1
  <2> HIDE DEF g
  <2>3. ASSUME NEW k \in 1..m PROVE g[k] = v[k - 1] + g[k - 1]
    <3>1. k \in 0..m /\ k - 1 \in 0..m /\ k - 1 \in D
      BY <1>8
    <3>2. v[k - 1] = v1[k - 1] - v2[k - 1] /\ v1[k - 1] \in Int /\ v2[k - 1] \in Int
      BY <1>2, <1>4, <1>6, <3>1
    <3>3. g1[k] = v1[k - 1] + g1[k - 1] /\ g2[k] = v2[k - 1] + g2[k - 1]
          /\ g1[k - 1] \in Int /\ g2[k - 1] \in Int
      BY <2>1, <3>1
    <3>4. g[k] = g1[k] - g2[k] /\ g[k - 1] = g1[k - 1] - g2[k - 1]
      BY <2>2, <3>1
    <3> QED
      BY <3>2, <3>3, <3>4
  <2> QED
    BY <2>2, <2>3 DEF SumsBelow
<1>16. g[m] = ValueOf(c, p)
  <2>1. m \in 0..m
    BY <1>1
  <2>2. g[m] = g1[m] - g2[m]
    BY <2>1
  <2> QED
    BY <1>7, <1>11, <1>12, <1>13, <1>14, <2>2
<1> HIDE DEF g
<1>17. SumsBelow(g, v, m) /\ ValueOf(c, p) = g[m]
  BY <1>15, <1>16
<1> QED
  BY <1>17 DEF v

(* Of any numbers there is a best, and of those as good a last.            *)
LEMMA BestExists ==
    ASSUME NEW n \in Nat, NEW S \in SUBSET (0..n), S # {}, NEW v, \A x \in S : v[x] \in Int
    PROVE  \E p \in S : \A q \in S : v[p] > v[q] \/ (v[p] = v[q] /\ p >= q)
<1> DEFINE Better(p, q) == v[p] > v[q] \/ (v[p] = v[q] /\ p >= q)
           Upto(k) == {x \in S : x <= k}
           A == {k \in 0..n : Upto(k) = {} \/ \E p \in Upto(k) : \A q \in Upto(k) : Better(p, q)}
<1>1. \A x \in S : x \in Nat /\ x <= n /\ v[x] \in Int
  <2>1. \A x \in S : x \in 0..n
    OBVIOUS
  <2> QED
    BY <2>1
<1>2. ASSUME NEW k \in 0..n, k # 0 => k - 1 \in A PROVE k \in A
  <2>1. CASE k \notin S
    <3>1. CASE k = 0
      <4>1. \A x \in S : ~(x <= k)
        BY <1>1, <2>1, <3>1
      <4> QED
        BY <4>1
    <3>2. CASE k # 0
      <4>1. Upto(k) = Upto(k - 1)
        <5>1. \A x \in S : x <= k <=> x <= k - 1
          BY <1>1, <2>1
        <5> QED
          BY <5>1
      <4> QED
        BY <1>2, <3>2, <4>1
    <3> QED
      BY <3>1, <3>2
  <2>2. CASE k \in S /\ (k = 0 \/ Upto(k - 1) = {})
    <3>1. Upto(k) = {k}
      <4>1. \A x \in S : x <= k <=> x <= k - 1 \/ x = k
        BY <1>1, <2>2
      <4>2. \A x \in S : k = 0 => ~(x <= k - 1)
        BY <1>1
      <4> QED
        BY <2>2, <4>1, <4>2
    <3>2. Better(k, k)
      BY <1>1, <2>2
    <3> HIDE DEF Better
    <3> QED
      BY <3>1, <3>2
  <2>3. CASE k \in S /\ k # 0 /\ Upto(k - 1) # {}
    <3>1. PICK p \in Upto(k - 1) : \A q \in Upto(k - 1) : Better(p, q)
      BY <1>2, <2>3
    <3>2. /\ Upto(k) = Upto(k - 1) \cup {k} /\ p \in S /\ p < k
          /\ \A q \in Upto(k) : q \in S /\ q <= k
      <4>1. \A x \in S : x <= k <=> x <= k - 1 \/ x = k
        BY <1>1, <2>3
      <4>2. p \in S /\ p < k
        BY <1>1, <2>3
      <4> QED
        BY <2>3, <4>1, <4>2
    <3>3. CASE v[p] > v[k]
      <4>1. \A q \in Upto(k) : Better(p, q)
        BY <3>1, <3>2, <3>3
      <4> HIDE DEF Better, Upto
      <4> QED
        BY <3>2, <4>1
    <3>4. CASE ~(v[p] > v[k])
      <4>1. ASSUME NEW q \in Upto(k - 1) PROVE Better(k, q)
        <5>1. Better(p, q) /\ q \in S /\ q <= k
          BY <3>1, <3>2
        <5>2. v[p] \in Int /\ v[q] \in Int /\ v[k] \in Int /\ p \in Int /\ q \in Int
          BY <1>1, <2>3, <3>2, <5>1
        <5> QED
          BY <3>4, <5>1, <5>2
      <4>2. Better(k, k)
        BY <1>1, <2>3
      <4>3. \A q \in Upto(k) : Better(k, q)
        <5> HIDE DEF Better, Upto
        <5> QED
          BY <3>2, <4>1, <4>2
      <4> HIDE DEF Better, Upto
      <4> QED
        BY <3>2, <4>3
    <3> QED
      BY <3>3, <3>4
  <2> HIDE DEF A
  <2> QED
    BY <2>1, <2>2, <2>3
<1>3. 0 \in A
  BY <1>2
<1>4. \A k \in 1..n : k - 1 \in A => k \in A
  BY <1>2
<1> HIDE DEF A
<1>5. n \in A
  <2>1. 0..n \subseteq A
    BY <1>3, <1>4, Induct
  <2> QED
    BY <2>1
<1>6. Upto(n) = S
  BY <1>1
<1> QED
  BY <1>5, <1>6 DEF A

LEMMA PenaltyIs ==
    ASSUME NEW a \in Int, NEW b \in Int
    PROVE  Penalty(a, b) \in Int /\ Penalty(a, b) = TrackLambda * Dist(b, a)
<1>1. Penalty(a, b) = TrackLambda * Dist(b, a)
  BY DEF Penalty, Dist
<1> DEFINE d == Dist(b, a)
<1>2. d \in Int
  BY DEF Dist
<1> HIDE DEF d
<1>3. TrackLambda * d \in Int
  BY <1>2, TrackAssumption
<1> QED
  BY <1>1, <1>3 DEF d

(* BestBefore is the best of the lags that can be reached.                 *)
LEMMA BestBeforeIs ==
    ASSUME NEW l \in Lags, NEW f, \A q \in Lags : f[q] \in Int
    PROVE  /\ BestBefore(f, l) \in Reachable(l) /\ BestBefore(f, l) \in Lags
           /\ \A q \in Reachable(l) :
                 f[q] - Penalty(q, l) <= f[BestBefore(f, l)] - Penalty(BestBefore(f, l), l)
<1> DEFINE S == Reachable(l)
           v == [q \in S |-> f[q] - Penalty(q, l)]
           Q(p) == \A q \in S : LET vp == f[p] - Penalty(p, l)
                                    vq == f[q] - Penalty(q, l)
                                IN vp > vq \/ (vp = vq /\ p >= q)
           b == CHOOSE p \in S : Q(p)
<1>1. S \in SUBSET (0..LagMax) /\ S \in SUBSET Lags /\ l \in S /\ LagMax \in Nat
  BY LagAssumption, TrackAssumption DEF Reachable, Lags
<1>2. \A q \in S : v[q] = f[q] - Penalty(q, l) /\ v[q] \in Int
  <2>1. \A q \in S : f[q] \in Int /\ q \in Int /\ l \in Int
    BY <1>1, LagAssumption DEF Lags
  <2>2. \A q \in S : Penalty(q, l) \in Int
    BY <2>1, PenaltyIs
  <2> QED
    BY <2>1, <2>2
<1>3. BestBefore(f, l) = b
  BY DEF BestBefore
<1> HIDE DEF S, v
<1>4. PICK p \in S : \A q \in S : v[p] > v[q] \/ (v[p] = v[q] /\ p >= q)
  BY <1>1, <1>2, BestExists
<1>5. Q(p)
  BY <1>2, <1>4
<1>6. b \in S /\ Q(b)
  <2> HIDE DEF Q
  <2> QED
    BY <1>5
<1> HIDE DEF b
<1>7. ASSUME NEW q \in S PROVE f[q] - Penalty(q, l) <= f[b] - Penalty(b, l)
  <2>1. v[b] > v[q] \/ v[b] = v[q]
    BY <1>2, <1>6
  <2>2. v[q] <= v[b]
    BY <1>2, <1>6, <2>1
  <2> QED
    BY <1>2, <1>6, <2>2
<1> QED
  BY <1>1, <1>3, <1>6, <1>7 DEF S

-----------------------------------------------------------------------------
(* The scores of the lines so far, each from the one before it.            *)
Scored(s, c) ==
    /\ s \in Seq([Lags -> Int])
    /\ \A k \in 1..Len(s) : \A l \in Lags :
          s[k][l] = IF k = 1 THEN c[0][l]
                    ELSE LET b == BestBefore(s[k - 1], l)
                         IN s[k - 1][b] - Penalty(b, l) + c[k - 1][l]

Profiles(c, m) == \A t \in 0..m - 1 : c[t] \in [Lags -> Int]

(* LineScore continues the scores.                                         *)
LEMMA LineScored ==
    ASSUME NEW m \in Nat, NEW c, Profiles(c, m), NEW s, Scored(s, c), Len(s) < m
    PROVE  Scored(Append(s, LineScore(s, c[Len(s)])), c)
<1> DEFINE n == Len(s)
           x == LineScore(s, c[n])
           z == Append(s, x)
<1>1. n \in Nat /\ n \in 0..m - 1 /\ s \in Seq([Lags -> Int])
  BY DEF Scored
<1>0. \A k \in 1..n : \A l \in Lags :
         s[k][l] = IF k = 1 THEN c[0][l]
                   ELSE LET b == BestBefore(s[k - 1], l)
                        IN s[k - 1][b] - Penalty(b, l) + c[k - 1][l]
  BY DEF Scored
<1>2. c[n] \in [Lags -> Int]
  BY <1>1 DEF Profiles
<1>3. x \in [Lags -> Int]
      /\ \A l \in Lags : x[l] = IF n + 1 = 1 THEN c[0][l]
                                ELSE LET b == BestBefore(s[n], l)
                                     IN s[n][b] - Penalty(b, l) + c[n][l]
  <2>1. CASE s = <<>>
    <3>1. n = 0 /\ x = c[n]
      BY <2>1 DEF LineScore
    <3> QED
      BY <1>2, <3>1
  <2>2. CASE s # <<>>
    <3>1. n \in 1..n /\ n # 0 /\ Last(s) = s[n]
      BY <1>1, <2>2 DEF Last
    <3>2. s[n] \in [Lags -> Int]
      BY <1>1, <3>1
    <3> DEFINE e(l) == s[n][BestBefore(s[n], l)] - Penalty(BestBefore(s[n], l), l) + c[n][l]
    <3>3. x = [l \in Lags |-> e(l)]
      BY <2>2, <3>1 DEF LineScore
    <3>4. ASSUME NEW l \in Lags PROVE e(l) \in Int
      <4>1. BestBefore(s[n], l) \in Lags
        BY <3>2, BestBeforeIs
      <4>2. Penalty(BestBefore(s[n], l), l) \in Int
        BY <4>1, PenaltyIs, LagAssumption DEF Lags
      <4>3. s[n][BestBefore(s[n], l)] \in Int /\ c[n][l] \in Int
        BY <1>2, <3>2, <4>1
      <4> QED
        BY <4>2, <4>3
    <3>5. n + 1 # 1
      BY <1>1, <3>1
    <3> HIDE DEF x
    <3>6. \A l \in Lags : x[l] = e(l)
      BY <3>3
    <3>7. x \in [Lags -> Int]
      <4> HIDE DEF e
      <4> QED
        BY <3>3, <3>4
    <3> QED
      BY <3>5, <3>6, <3>7
  <2> QED
    BY <2>1, <2>2
<1> HIDE DEF x
<1>4. z \in Seq([Lags -> Int]) /\ Len(z) = n + 1 /\ z[n + 1] = x
      /\ \A k \in 1..n : z[k] = s[k]
  BY <1>1, <1>3
<1> HIDE DEF z
<1>5. \A k \in 1..Len(z) : /\ k <= n => k \in 1..n /\ (k # 1 => k - 1 \in 1..n)
                          /\ ~(k <= n) => k = n + 1 /\ k - 1 = n /\ (k # 1 => k - 1 \in 1..n)
  BY <1>1, <1>4
<1>6. ASSUME NEW k \in 1..Len(z), NEW l \in Lags
      PROVE  z[k][l] = IF k = 1 THEN c[0][l]
                    ELSE LET b == BestBefore(z[k - 1], l)
                         IN z[k - 1][b] - Penalty(b, l) + c[k - 1][l]
  <2>1. CASE k <= n
    <3>1. k \in 1..n /\ z[k] = s[k] /\ (k # 1 => z[k - 1] = s[k - 1])
      <4>1. k \in 1..n /\ (k # 1 => k - 1 \in 1..n)
        BY <1>5, <2>1
      <4>2. \A i \in 1..n : z[i] = s[i]
        BY <1>4
      <4> QED
        BY <4>1, <4>2
    <3>2. s[k][l] = IF k = 1 THEN c[0][l]
                    ELSE LET b == BestBefore(s[k - 1], l)
                         IN s[k - 1][b] - Penalty(b, l) + c[k - 1][l]
      BY <1>0, <3>1
    <3> QED
      BY <3>1, <3>2
  <2>2. CASE ~(k <= n)
    <3>1. k = n + 1 /\ k - 1 = n /\ (k # 1 => z[k - 1] = s[n]) /\ z[k] = x
      BY <1>4, <1>5, <2>2
    <3>2. x[l] = IF n + 1 = 1 THEN c[0][l]
                                ELSE LET b == BestBefore(s[n], l)
                                     IN s[n][b] - Penalty(b, l) + c[n][l]
      BY <1>3
    <3> QED
      BY <3>1, <3>2
  <2> QED
    BY <2>1, <2>2
<1> QED
  BY <1>4, <1>6 DEF Scored, z, x

PathsOf(m) ==
    {p \in [0..m - 1 -> Lags] : \A t \in 1..m - 1 : Dist(p[t], p[t - 1]) <= TrackStep}

LEMMA CloseIs ==
    ASSUME NEW k \in Lags, NEW l \in Lags
    PROVE  k \in Reachable(l) <=> Dist(l, k) <= TrackStep
BY LagAssumption, TrackAssumption DEF Lags, Reachable, Dist

(* What is known of a path and its value up to each line.                  *)
Valued(c, s, p, g, m) ==
    /\ Profiles(c, m) /\ Scored(s, c) /\ Len(s) = m
    /\ p \in [0..m - 1 -> Lags]
    /\ SumsBelow(g, Gains(c, p, m), m)

(* Both go from line to line.                                              *)
Valuing(c, s, p, g, m) ==
    /\ g[1] = s[1][p[0]]
    /\ \A t \in 0..m - 1 : g[t + 1] \in Int /\ p[t] \in Lags /\ s[t + 1] \in [Lags -> Int]
    /\ \A t \in 1..m - 1 :
         /\ g[t + 1] = g[t] - Penalty(p[t - 1], p[t]) + c[t][p[t]]
         /\ s[t + 1][p[t]] = s[t][BestBefore(s[t], p[t])]
                               - Penalty(BestBefore(s[t], p[t]), p[t]) + c[t][p[t]]

LEMMA ValuedIs ==
    ASSUME NEW m \in Nat \ {0}, NEW c, NEW s, NEW p, NEW g, Valued(c, s, p, g, m)
    PROVE  Valuing(c, s, p, g, m)
<1> DEFINE v == Gains(c, p, m)
<1>1. /\ \A t \in 0..m - 1 : p[t] \in Lags /\ p[t] \in Int /\ c[t] \in [Lags -> Int]
      /\ \A t \in 0..m - 1 : t + 1 \in 1..m /\ t + 1 \in 0..m /\ (t + 1) - 1 = t
      /\ \A t \in 1..m - 1 : t \in 0..m - 1 /\ t - 1 \in 0..m - 1 /\ t + 1 # 1 /\ t # 0
      /\ 0 \in 0..m - 1 /\ 0 + 1 = 1 /\ m \in Nat
  <2>1. \A l \in Lags : l \in Int
    BY LagAssumption DEF Lags
  <2>2. \A t \in 0..m - 1 : p[t] \in Lags /\ c[t] \in [Lags -> Int]
    BY DEF Valued, Profiles
  <2>3. /\ \A t \in 0..m - 1 : t + 1 \in 1..m /\ t + 1 \in 0..m /\ (t + 1) - 1 = t
        /\ \A t \in 1..m - 1 : t \in 0..m - 1 /\ t - 1 \in 0..m - 1 /\ t + 1 # 1 /\ t # 0
        /\ 0 \in 0..m - 1 /\ 0 + 1 = 1 /\ m \in Nat
    OBVIOUS
  <2> QED
    BY <2>1, <2>2, <2>3
<1>2. s \in Seq([Lags -> Int]) /\ \A t \in 0..m - 1 : s[t + 1] \in [Lags -> Int]
  <2>1. s \in Seq([Lags -> Int]) /\ Len(s) = m
    BY DEF Valued, Scored
  <2>2. \A t \in 0..m - 1 : t + 1 \in 1..Len(s)
    BY <2>1
  <2> QED
    BY <2>1, <2>2
<1>3. \A t \in 0..m - 1 : v[t] = Gain(c, p, t) - Cost(p, t)
  BY DEF Gains
<1>4. \A t \in 0..m - 1 : Gain(c, p, t) = c[t][p[t]] /\ c[t][p[t]] \in Int
  BY <1>1 DEF Gain
<1>5. \A t \in 0..m - 1 : Cost(p, t) \in Int
  BY <1>1, CostType
<1>6. \A t \in 1..m - 1 : Cost(p, t) = Penalty(p[t - 1], p[t])
  BY <1>1, PenaltyIs DEF Cost
<1>7. /\ g[0] = 0 /\ \A t \in 0..m - 1 : g[t + 1] \in Int /\ g[t + 1] = v[t] + g[t]
  <2>1. g \in [0..m -> Int] /\ g[0] = 0 /\ \A k \in 1..m : g[k] = v[k - 1] + g[k - 1]
    BY DEF Valued, SumsBelow
  <2> HIDE DEF v
  <2> QED
    BY <1>1, <2>1
<1>8. \A t \in 0..m - 1 : \A l \in Lags :
         s[t + 1][l] = IF t + 1 = 1 THEN c[0][l]
                    ELSE LET b == BestBefore(s[t], l)
                         IN s[t][b] - Penalty(b, l) + c[t][l]
  <2> SUFFICES ASSUME NEW t \in 0..m - 1, NEW l \in Lags
               PROVE  s[t + 1][l] = IF t + 1 = 1 THEN c[0][l]
                    ELSE LET b == BestBefore(s[t], l)
                         IN s[t][b] - Penalty(b, l) + c[t][l]
    OBVIOUS
  <2>1. t + 1 \in 1..Len(s) /\ (t + 1) - 1 = t
    BY <1>1 DEF Valued
  <2> QED
    BY <2>1 DEF Valued, Scored
<1> HIDE DEF v
<1>9. g[1] = s[1][p[0]]
  <2>1. s[1][p[0]] = c[0][p[0]] /\ Cost(p, 0) = 0
    BY <1>1, <1>8 DEF Cost
  <2>2. g[1] = v[0] + g[0] /\ v[0] = c[0][p[0]] - Cost(p, 0) /\ c[0][p[0]] \in Int
    BY <1>1, <1>3, <1>4, <1>7
  <2> QED
    BY <1>7, <2>1, <2>2
<1>10. ASSUME NEW t \in 1..m - 1
       PROVE  /\ g[t + 1] = g[t] - Penalty(p[t - 1], p[t]) + c[t][p[t]]
              /\ s[t + 1][p[t]] = s[t][BestBefore(s[t], p[t])]
                                      - Penalty(BestBefore(s[t], p[t]), p[t]) + c[t][p[t]]
  <2>1. t \in 0..m - 1 /\ t - 1 \in 0..m - 1 /\ t + 1 # 1 /\ (t - 1) + 1 = t
    BY <1>1
  <2>2. g[t] \in Int
    <3>1. g[(t - 1) + 1] \in Int
      BY <1>7, <2>1
    <3> QED
      BY <2>1, <3>1
  <2>3. g[t + 1] = v[t] + g[t] /\ v[t] = c[t][p[t]] - Cost(p, t) /\ c[t][p[t]] \in Int
        /\ Cost(p, t) \in Int /\ Cost(p, t) = Penalty(p[t - 1], p[t])
    BY <1>3, <1>4, <1>5, <1>6, <1>7, <2>1
  <2>4. p[t] \in Lags
    BY <1>1, <2>1
  <2>5. s[t + 1][p[t]] = s[t][BestBefore(s[t], p[t])]
                                      - Penalty(BestBefore(s[t], p[t]), p[t]) + c[t][p[t]]
    BY <1>8, <2>1, <2>4
  <2>6. g[t + 1] = g[t] - Penalty(p[t - 1], p[t]) + c[t][p[t]]
    BY <2>2, <2>3
  <2> QED
    BY <2>5, <2>6
<1> QED
  BY <1>1, <1>2, <1>7, <1>9, <1>10 DEF Valuing

(* No path that changes by TrackStep at most is worth more than the score  *)
(* of the lag it has come to.                                              *)
LEMMA PathBelow ==
    ASSUME NEW m \in Nat \ {0}, NEW c, NEW s, NEW p \in PathsOf(m), NEW g,
           Valued(c, s, p, g, m)
    PROVE  g[m] <= s[m][p[m - 1]]
<1> DEFINE A == {t \in 0..m - 1 : g[t + 1] <= s[t + 1][p[t]]}
<1>1. /\ g[1] = s[1][p[0]]
      /\ \A t \in 0..m - 1 : g[t + 1] \in Int /\ p[t] \in Lags /\ s[t + 1] \in [Lags -> Int]
      /\ \A t \in 1..m - 1 :
                /\ g[t + 1] = g[t] - Penalty(p[t - 1], p[t]) + c[t][p[t]]
                /\ s[t + 1][p[t]] = s[t][BestBefore(s[t], p[t])]
                                      - Penalty(BestBefore(s[t], p[t]), p[t]) + c[t][p[t]]
  <2>1. Valuing(c, s, p, g, m)
    BY ValuedIs
  <2> QED
    BY <2>1 DEF Valuing
<1>2. m - 1 \in Nat /\ 0 \in 0..m - 1 /\ 0 + 1 = 1
  OBVIOUS
<1>3. \A t \in 0..m - 1 : s[t + 1][p[t]] \in Int
  BY <1>1
<1>4. 0 \in A
  <2>1. g[0 + 1] <= s[0 + 1][p[0]]
    BY <1>1, <1>2, <1>3
  <2> QED
    BY <1>2, <2>1
<1>5. ASSUME NEW t \in 1..m - 1, t - 1 \in A PROVE t \in A
  <2> DEFINE l == p[t]
             k == p[t - 1]
             b == BestBefore(s[t], l)
  <2>1. t \in 0..m - 1 /\ t - 1 \in 0..m - 1 /\ (t - 1) + 1 = t
    OBVIOUS
  <2>2. g[t] <= s[t][k]
    BY <1>5, <2>1
  <2>3. l \in Lags /\ k \in Lags /\ s[t] \in [Lags -> Int] /\ g[t] \in Int
    <3>1. g[(t - 1) + 1] \in Int /\ p[t - 1] \in Lags /\ s[(t - 1) + 1] \in [Lags -> Int]
      BY <1>1, <2>1
    <3> QED
      BY <1>1, <2>1, <3>1
  <2>4. Dist(l, k) <= TrackStep
    BY DEF PathsOf
  <2>5. g[t + 1] = g[t] - Penalty(k, l) + c[t][l]
        /\ s[t + 1][l] = s[t][b] - Penalty(b, l) + c[t][l]
    BY <1>1
  <2>6. s[t + 1][l] \in Int /\ g[t + 1] \in Int
    BY <1>1, <1>3, <2>1
  <2> HIDE DEF A, l, k
  <2>7. k \in Reachable(l)
    BY <2>3, <2>4, CloseIs
  <2>8. b \in Lags /\ s[t][k] - Penalty(k, l) <= s[t][b] - Penalty(b, l)
    BY <2>3, <2>7, BestBeforeIs
  <2> HIDE DEF b
  <2>9. /\ s[t][k] \in Int /\ s[t][b] \in Int
        /\ Penalty(k, l) \in Int /\ Penalty(b, l) \in Int
    <3>1. k \in Int /\ l \in Int /\ b \in Int
      BY <2>3, <2>8, LagAssumption DEF Lags
    <3> QED
      BY <2>3, <2>8, <3>1, PenaltyIs
  <2>10. c[t][l] \in Int
    <3>1. c[t] \in [Lags -> Int]
      BY <2>1 DEF Valued, Profiles
    <3> QED
      BY <2>3, <3>1
  <2>11. g[t + 1] <= s[t + 1][l]
    BY <2>2, <2>3, <2>5, <2>6, <2>8, <2>9, <2>10
  <2> QED
    BY <2>1, <2>11 DEF A, l
<1> HIDE DEF A
<1>6. m - 1 \in A /\ (m - 1) + 1 = m
  <2>1. 0..m - 1 \subseteq A
    BY <1>2, <1>4, <1>5, Induct
  <2> QED
    BY <1>2, <2>1
<1> QED
  BY <1>6 DEF A

-----------------------------------------------------------------------------
(* The lag the path ends at.                                               *)
EndOf(f) ==
    CHOOSE l \in Lags :
        \A k \in Lags : f[l] > f[k] \/ (f[l] = f[k] /\ l >= k)

(* The best end there is.                                                  *)
LEMMA EndIs ==
    ASSUME NEW f \in [Lags -> Int]
    PROVE  EndOf(f) \in Lags /\ \A k \in Lags : f[k] <= f[EndOf(f)]
<1>1. Lags \in SUBSET (0..LagMax) /\ LagMin \in Lags /\ LagMax \in Nat
  BY LagAssumption DEF Lags
<1>2. \A l \in Lags : f[l] \in Int
  OBVIOUS
<1> DEFINE Q(l) == \A k \in Lags : f[l] > f[k] \/ (f[l] = f[k] /\ l >= k)
<1>3. PICK p \in Lags : Q(p)
  <2>1. Lags # {}
    BY <1>1
  <2> QED
    BY <1>1, <1>2, <2>1, BestExists, Zenon
<1> DEFINE e == CHOOSE l \in Lags : Q(l)
<1>4. e \in Lags /\ Q(e)
  <2> HIDE DEF Q
  <2> QED
    BY <1>3
<1>5. EndOf(f) = e
  BY DEF EndOf
<1> HIDE DEF e
<1>6. \A k \in Lags : f[k] <= f[e]
  BY <1>2, <1>4
<1> QED
  BY <1>4, <1>5, <1>6

(* The path goes back from its end, from lag to best lag before.           *)
LEMMA TrackIs ==
    ASSUME NEW s \in Seq([Lags -> Int]), s # <<>>
    PROVE  /\ Track(s) \in [0..Len(s) - 1 -> Lags]
           /\ Track(s)[Len(s) - 1] = EndOf(s[Len(s)])
           /\ \A t \in 1..Len(s) - 1 : Track(s)[t - 1] = BestBefore(s[t], Track(s)[t])
<1> DEFINE m == Len(s)
           n == m - 1
           base == EndOf(Last(s))
           prev == [t \in 1..m - 1 |-> [l \in Lags |-> BestBefore(s[t], l)]]
           F == [k \in 1..n |-> [l \in Lags |-> BestBefore(s[m - k], l)]]
           P(back) == back = [k \in 0..n |-> IF k = 0 THEN base ELSE prev[m - k][back[k - 1]]]
           b == CHOOSE back : P(back)
<1>0. m \in Nat \ {0}
  OBVIOUS
<1>1. /\ n \in Nat /\ m \in 1..m
      /\ \A k \in 1..n : m - k \in 1..m - 1 /\ m - k \in 1..m /\ k - 1 \in 0..n /\ k # 0
  <2> HIDE DEF m
  <2> QED
    BY <1>0
<1>2. \A t \in 1..m : s[t] \in [Lags -> Int]
  OBVIOUS
<1>3. base \in Lags /\ base = EndOf(s[m])
  <2>1. Last(s) = s[m]
    BY DEF Last
  <2> HIDE DEF m
  <2>2. s[m] \in [Lags -> Int]
    BY <1>1, <1>2
  <2> QED
    BY <2>1, <2>2, EndIs
<1>4. \A t \in 1..m : \A l \in Lags : BestBefore(s[t], l) \in Lags
  BY <1>2, BestBeforeIs
<1>5. \A k \in 1..n : \A l \in Lags :
         /\ F[k][l] = BestBefore(s[m - k], l) /\ F[k][l] \in Lags
         /\ prev[m - k][l] = BestBefore(s[m - k], l) /\ prev[m - k][l] \in Lags
  <2> HIDE DEF m, n
  <2>1. \A k \in 1..n : \A l \in Lags :
           /\ F[k][l] = BestBefore(s[m - k], l)
           /\ prev[m - k][l] = BestBefore(s[m - k], l)
    BY <1>1
  <2>2. \A k \in 1..n : \A l \in Lags : BestBefore(s[m - k], l) \in Lags
    BY <1>1, <1>4
  <2> HIDE DEF F, prev
  <2> QED
    BY <2>1, <2>2
<1>6. Track(s) = [t \in 0..m - 1 |-> b[m - 1 - t]]
  BY Zenon DEF Track, EndOf, base, m
<1> HIDE DEF F, base, prev, m, n
<1>7. Steps(F, n, Lags)
  BY <1>5 DEF Steps
<1>8. PICK g : Iterates(g, n, Lags, base, F)
  BY <1>1, <1>3, <1>7, NatRecursion
<1>9. P(g)
  <2>1. g \in [0..n -> Lags] /\ g[0] = base /\ \A k \in 1..n : g[k] = F[k][g[k - 1]]
    BY <1>8 DEF Iterates
  <2>2. ASSUME NEW k \in 0..n PROVE g[k] = IF k = 0 THEN base ELSE prev[m - k][g[k - 1]]
    <3>1. CASE k = 0
      BY <2>1, <3>1
    <3>2. CASE k # 0
      <4>1. k \in 1..n /\ g[k - 1] \in Lags
        BY <1>1, <2>1, <3>2
      <4> QED
        BY <1>5, <2>1, <3>2, <4>1
    <3> QED
      BY <3>1, <3>2
  <2>3. g = [k \in 0..n |-> g[k]]
    BY <2>1
  <2>4. [k \in 0..n |-> g[k]] = [k \in 0..n |-> IF k = 0 THEN base ELSE prev[m - k][g[k - 1]]]
    BY <2>2, Zenon
  <2> QED
    BY <2>3, <2>4
<1>10. P(b)
  BY <1>9, Zenon
<1> HIDE DEF b
<1>11. \A k \in 0..n : b[k] = IF k = 0 THEN base ELSE prev[m - k][b[k - 1]]
  BY <1>10
<1> DEFINE A == {k \in 0..n : b[k] \in Lags}
<1>12. \A k \in 0..n : b[k] \in Lags
  <2>1. 0 \in A
    BY <1>1, <1>3, <1>11
  <2>2. ASSUME NEW k \in 1..n, k - 1 \in A PROVE k \in A
    <3>1. k \in 0..n /\ k # 0 /\ b[k - 1] \in Lags
      BY <2>2
    <3>2. b[k] = prev[m - k][b[k - 1]]
      BY <1>11, <3>1
    <3>3. b[k] \in Lags
      BY <1>5, <3>1, <3>2
    <3> QED
      BY <3>1, <3>3
  <2> HIDE DEF A
  <2>3. 0..n \subseteq A
    BY <1>1, <2>1, <2>2, Induct
  <2> QED
    BY <2>3 DEF A
<1> DEFINE p == Track(s)
<1>13. \A t \in 0..m - 1 : p[t] = b[m - 1 - t] /\ m - 1 - t \in 0..n
  BY <1>0, <1>6 DEF n
<1>14. p \in [0..m - 1 -> Lags]
  BY <1>6, <1>12, <1>13
<1> HIDE DEF p
<1>15. p[m - 1] = base
  <2>1. m - 1 \in 0..m - 1 /\ m - 1 - (m - 1) = 0 /\ 0 \in 0..n
    BY <1>0, <1>1
  <2> QED
    BY <1>11, <1>13, <2>1
<1>16. ASSUME NEW t \in 1..m - 1 PROVE p[t - 1] = BestBefore(s[t], p[t])
  <2> DEFINE k == m - t
  <2>1. /\ t \in 0..m - 1 /\ t - 1 \in 0..m - 1 /\ k \in 1..n /\ m - k = t /\ k \in 0..n /\ k # 0
        /\ m - 1 - (t - 1) = k /\ m - 1 - t = k - 1 /\ k - 1 \in 0..n
    BY <1>0 DEF n
  <2> HIDE DEF k
  <2>2. p[t - 1] = b[k] /\ p[t] = b[k - 1]
    BY <1>13, <2>1
  <2>3. b[k] = prev[m - k][b[k - 1]] /\ b[k - 1] \in Lags
    BY <1>11, <1>12, <2>1
  <2>4. b[k] = BestBefore(s[t], b[k - 1])
    BY <1>5, <2>1, <2>3
  <2> QED
    BY <2>2, <2>4
<1> QED
  BY <1>3, <1>14, <1>15, <1>16 DEF p, m

(* The path the scores were followed back along is worth what they say.    *)
LEMMA PathReaches ==
    ASSUME NEW m \in Nat \ {0}, NEW c, NEW s, NEW g, Valued(c, s, Track(s), g, m)
    PROVE  /\ Track(s) \in PathsOf(m)
           /\ g[m] = s[m][Track(s)[m - 1]] /\ Track(s)[m - 1] = EndOf(s[m])
<1> DEFINE p == Track(s)
           A == {t \in 0..m - 1 : g[t + 1] = s[t + 1][p[t]]}
<1>1. s \in Seq([Lags -> Int]) /\ Len(s) = m /\ s # <<>>
  <2>1. s \in Seq([Lags -> Int]) /\ Len(s) = m
    BY DEF Valued, Scored
  <2>2. s # <<>>
    BY <2>1
  <2> QED
    BY <2>1, <2>2
<1>2. /\ p \in [0..m - 1 -> Lags] /\ p[m - 1] = EndOf(s[m])
      /\ \A t \in 1..m - 1 : p[t - 1] = BestBefore(s[t], p[t])
  BY <1>1, TrackIs
<1>3. Valued(c, s, p, g, m)
  OBVIOUS
<1> HIDE DEF p
<1>4. /\ g[1] = s[1][p[0]]
      /\ \A t \in 0..m - 1 : g[t + 1] \in Int /\ p[t] \in Lags /\ s[t + 1] \in [Lags -> Int]
      /\ \A t \in 1..m - 1 :
                /\ g[t + 1] = g[t] - Penalty(p[t - 1], p[t]) + c[t][p[t]]
                /\ s[t + 1][p[t]] = s[t][BestBefore(s[t], p[t])]
                                      - Penalty(BestBefore(s[t], p[t]), p[t]) + c[t][p[t]]
  <2>1. Valuing(c, s, p, g, m)
    BY <1>3, ValuedIs
  <2> QED
    BY <2>1 DEF Valuing
<1>5. m - 1 \in Nat /\ 0 \in 0..m - 1 /\ 0 + 1 = 1
      /\ \A t \in 1..m - 1 : t \in 0..m - 1 /\ t - 1 \in 0..m - 1 /\ (t - 1) + 1 = t
  OBVIOUS
<1>6. ASSUME NEW t \in 1..m - 1 PROVE Dist(p[t], p[t - 1]) <= TrackStep
  <2>1. p[t] \in Lags /\ s[t] \in [Lags -> Int]
    <3>1. s[(t - 1) + 1] \in [Lags -> Int]
      BY <1>4, <1>5
    <3> QED
      BY <1>4, <1>5, <3>1
  <2>2. p[t - 1] = BestBefore(s[t], p[t])
    BY <1>2
  <2>3. p[t - 1] \in Reachable(p[t]) /\ p[t - 1] \in Lags
    BY <2>1, <2>2, BestBeforeIs
  <2> QED
    BY <2>1, <2>3, CloseIs
<1>7. p \in PathsOf(m)
  BY <1>2, <1>6 DEF PathsOf
<1>8. 0 \in A
  BY <1>4, <1>5
<1>9. ASSUME NEW t \in 1..m - 1, t - 1 \in A PROVE t \in A
  <2>1. g[t] = s[t][p[t - 1]]
    BY <1>5, <1>9
  <2>2. p[t - 1] = BestBefore(s[t], p[t])
    BY <1>2
  <2>3. g[t + 1] = s[t + 1][p[t]]
    BY <1>4, <2>1, <2>2
  <2> QED
    BY <1>5, <2>3
<1> HIDE DEF A
<1>10. m - 1 \in A /\ (m - 1) + 1 = m
  <2>1. 0..m - 1 \subseteq A
    BY <1>5, <1>8, <1>9, Induct
  <2> QED
    BY <1>5, <2>1
<1> QED
  BY <1>2, <1>7, <1>10 DEF A, p

(* It is worth no less than any other.                                     *)
LEMMA TrackBest ==
    ASSUME NEW m \in Nat \ {0}, NEW c, DOMAIN c = 0..m - 1, Profiles(c, m),
           NEW s, Scored(s, c), Len(s) = m
    PROVE  /\ Track(s) \in PathsOf(m)
           /\ \A p \in PathsOf(m) : ValueOf(c, p) <= ValueOf(c, Track(s))
<1> DEFINE q == Track(s)
<1>1. s \in Seq([Lags -> Int]) /\ s # <<>> /\ m \in 1..m /\ m - 1 \in 0..m - 1 /\ (m - 1) + 1 = m
  <2>1. s \in Seq([Lags -> Int])
    BY DEF Scored
  <2>2. s # <<>>
    BY <2>1
  <2> QED
    BY <2>1, <2>2
<1>2. q \in [0..m - 1 -> Lags] /\ s[m] \in [Lags -> Int]
  <2>1. q \in [0..Len(s) - 1 -> Lags]
    BY <1>1, TrackIs, Zenon
  <2>2. s[m] \in [Lags -> Int]
    BY <1>1
  <2> QED
    BY <2>1, <2>2
<1>3. ASSUME NEW p \in [0..m - 1 -> Lags]
      PROVE  \E g : Valued(c, s, p, g, m) /\ ValueOf(c, p) = g[m]
  <2>1. \A t \in 0..m - 1 : p[t] \in Int /\ c[t][p[t]] \in Int
    <3>1. \A t \in 0..m - 1 : p[t] \in Lags /\ c[t] \in [Lags -> Int]
      BY DEF Profiles
    <3>2. \A l \in Lags : l \in Int
      BY LagAssumption DEF Lags
    <3> QED
      BY <3>1, <3>2
  <2>2. PICK g : SumsBelow(g, Gains(c, p, m), m) /\ ValueOf(c, p) = g[m]
    BY <2>1, ValueIs
  <2>3. Valued(c, s, p, g, m)
    BY <2>2 DEF Valued
  <2> QED
    BY <2>2, <2>3
<1>4. PICK g : Valued(c, s, q, g, m) /\ ValueOf(c, q) = g[m]
  BY <1>2, <1>3
<1>5. q \in PathsOf(m) /\ g[m] = s[m][q[m - 1]] /\ q[m - 1] = EndOf(s[m])
  BY <1>4, PathReaches
<1>6. \A k \in Lags : s[m][k] <= s[m][EndOf(s[m])] /\ s[m][k] \in Int
      /\ s[m][EndOf(s[m])] \in Int
  BY <1>2, EndIs
<1> HIDE DEF q
<1>7. ASSUME NEW p \in PathsOf(m) PROVE ValueOf(c, p) <= ValueOf(c, q)
  <2>1. p \in [0..m - 1 -> Lags]
    BY DEF PathsOf
  <2>2. PICK f : Valued(c, s, p, f, m) /\ ValueOf(c, p) = f[m]
    BY <1>3, <2>1
  <2>3. f[m] <= s[m][p[m - 1]]
    BY <2>2, PathBelow
  <2>4. f[m] \in Int
    <3>1. f[(m - 1) + 1] \in Int
      BY <1>1, <2>2, ValuedIs DEF Valuing
    <3> QED
      BY <1>1, <3>1
  <2>5. p[m - 1] \in Lags
    BY <1>1, <2>1
  <2> QED
    BY <1>4, <1>5, <1>6, <2>2, <2>3, <2>4, <2>5
<1> QED
  BY <1>5, <1>7 DEF q

-----------------------------------------------------------------------------
(* The fill of the background is right for an image of any size with any   *)
(* pattern of open pixels.                                                 *)

(* A pixel is its row times the width plus its column.                     *)
LEMMA Coordinates ==
    ASSUME NEW i \in Nat
    PROVE  /\ i % W \in 0..W - 1
           /\ i \div W \in Nat
           /\ i = (i \div W) * W + (i % W)
  BY WidthAssumption, SMT

(* And there is only one such pair.                                        *)
LEMMA Unique ==
    ASSUME NEW x \in 0..W - 1, NEW y \in Nat
    PROVE  /\ (y * W + x) % W = x
           /\ (y * W + x) \div W = y
           /\ y * W + x \in Nat
  BY WidthAssumption, SMT


-----------------------------------------------------------------------------
(* What is in a sequence.                                                  *)
Members(s) == {s[k] : k \in 1..Len(s)}

LEMMA MembersOfNone ==
    Members(<<>>) = {}
  BY DEF Members

LEMMA MembersOfOne ==
    ASSUME NEW v
    PROVE  Members(<<v>>) = {v}
  BY DEF Members

LEMMA MembersOfConcat ==
    ASSUME NEW S, NEW s \in Seq(S), NEW t \in Seq(S)
    PROVE  Members(s \o t) = Members(s) \cup Members(t)
  <1>1. ASSUME NEW k \in 1..Len(s \o t)
        PROVE  (s \o t)[k] \in Members(s) \cup Members(t)
    <2>1. CASE k <= Len(s)
      BY <2>1 DEF Members
    <2>2. CASE k > Len(s)
      <3>1. k - Len(s) \in 1..Len(t) /\ (s \o t)[k] = t[k - Len(s)]
        BY <2>2
      <3> QED BY <3>1 DEF Members
    <2> QED BY <2>1, <2>2
  <1>2. ASSUME NEW k \in 1..Len(s)
        PROVE  s[k] \in Members(s \o t)
    <2>1. k \in 1..Len(s \o t) /\ (s \o t)[k] = s[k]
      OBVIOUS
    <2> QED BY <2>1 DEF Members
  <1>3. ASSUME NEW k \in 1..Len(t)
        PROVE  t[k] \in Members(s \o t)
    <2>1. k + Len(s) \in 1..Len(s \o t) /\ (s \o t)[k + Len(s)] = t[k]
      OBVIOUS
    <2> QED BY <2>1 DEF Members
  <1> QED BY <1>1, <1>2, <1>3 DEF Members

LEMMA MembersWithoutLast ==
    ASSUME NEW S, NEW s \in Seq(S), s # <<>>
    PROVE  /\ Popped(s) \in Seq(S)
           /\ s[Len(s)] \in Members(s)
           /\ Members(s) = Members(Popped(s)) \cup {s[Len(s)]}
  <1>1. Len(s) \in Nat \ {0}
    OBVIOUS
  <1>2. /\ Popped(s) \in Seq(S) /\ Len(Popped(s)) = Len(s) - 1
        /\ \A k \in 1..Len(s) - 1 : Popped(s)[k] = s[k]
    <2> DEFINE n == Len(s) - 1
    <2>1. n \in Nat /\ 1 \in Int /\ n \in Int /\ Len(s) = n + 1
      BY <1>1
    <2>2. \A k \in 1..n : s[k] \in S
      BY <2>1
    <2> HIDE DEF n
    <2>3. /\ SubSeq(s, 1, n) \in Seq(S)
          /\ Len(SubSeq(s, 1, n)) = IF 1 <= n THEN n - 1 + 1 ELSE 0
          /\ \A k \in 1..n - 1 + 1 : SubSeq(s, 1, n)[k] = s[1 + k - 1]
      BY <2>1, <2>2, SubSeqProperties
    <2>4. Popped(s) = SubSeq(s, 1, n) /\ Len(s) - 1 = n
      BY <2>1 DEF Popped, n
    <2>5. Len(SubSeq(s, 1, n)) = n
      BY <2>1, <2>3
    <2>6. \A k \in 1..n : SubSeq(s, 1, n)[k] = s[k]
      BY <2>1, <2>3
    <2> QED BY <2>3, <2>4, <2>5, <2>6
  <1>3. 1..Len(s) = 1..(Len(s) - 1) \cup {Len(s)}
    BY <1>1
  <1> QED BY <1>1, <1>2, <1>3 DEF Members

-----------------------------------------------------------------------------
(* The neighbours that are pushed are the pixels beside, in rows and       *)
(* columns, and are in the image.                                          *)
LEMMA NeighbourMembers ==
    ASSUME NEW i \in Pixels(h), h \in Nat \ {0}
    PROVE  /\ Neighbours(i) \in Seq(Int)
           /\ Members(Neighbours(i)) =
                  Members(LeftOf(i)) \cup Members(RightOf(i))
                     \cup Members(Above(i)) \cup Members(Below(i))
  <1>1. /\ LeftOf(i) \in Seq(Int) /\ RightOf(i) \in Seq(Int)
        /\ Above(i) \in Seq(Int) /\ Below(i) \in Seq(Int)
    BY WidthAssumption DEF LeftOf, RightOf, Above, Below, Pixels
  <1>2. /\ LeftOf(i) \o RightOf(i) \in Seq(Int)
        /\ LeftOf(i) \o RightOf(i) \o Above(i) \in Seq(Int)
        /\ Neighbours(i) \in Seq(Int)
    BY <1>1 DEF Neighbours
  <1>0. \A s, t \in Seq(Int) : Members(s \o t) = Members(s) \cup Members(t)
    BY MembersOfConcat
  <1>3. Members(Neighbours(i)) =
            Members(LeftOf(i) \o RightOf(i) \o Above(i)) \cup Members(Below(i))
    BY <1>1, <1>2, <1>0 DEF Neighbours
  <1>4. Members(LeftOf(i) \o RightOf(i) \o Above(i)) =
            Members(LeftOf(i) \o RightOf(i)) \cup Members(Above(i))
    BY <1>1, <1>2, <1>0
  <1>5. Members(LeftOf(i) \o RightOf(i)) =
            Members(LeftOf(i)) \cup Members(RightOf(i))
    BY <1>1, <1>0
  <1> QED BY <1>2, <1>3, <1>4, <1>5

LEMMA NeighboursAdjacent ==
    ASSUME NEW i \in Pixels(h), NEW j, h \in Nat \ {0}
    PROVE  j \in Members(Neighbours(i)) <=> j \in Pixels(h) /\ Adjacent(i, j)
  <1> DEFINE x == i % W
             y == i \div W
  <1>1. /\ x \in 0..W - 1 /\ y \in Nat /\ i = y * W + x /\ i \in Nat
    BY Coordinates, WidthAssumption DEF Pixels
  <1>2. y \in 0..h - 1
    BY <1>1, WidthAssumption, SMT DEF Pixels
  <1>3. /\ Members(LeftOf(i)) = IF x > 0 THEN {i - 1} ELSE {}
        /\ Members(RightOf(i)) = IF x + 1 < W THEN {i + 1} ELSE {}
        /\ Members(Above(i)) = IF y > 0 THEN {i - W} ELSE {}
        /\ Members(Below(i)) = IF y + 1 < h THEN {i + W} ELSE {}
    BY MembersOfNone, MembersOfOne DEF LeftOf, RightOf, Above, Below
  <1>4. ASSUME x > 0
        PROVE  i - 1 \in Pixels(h) /\ Adjacent(i, i - 1)
    <2>1. i - 1 = y * W + (x - 1) /\ x - 1 \in 0..W - 1
      BY <1>1, <1>4, WidthAssumption
    <2>2. (i - 1) % W = x - 1 /\ (i - 1) \div W = y
      BY <2>1, <1>1, Unique
    <2>3. i - 1 \in Pixels(h)
      BY <2>1, <1>1, WidthAssumption, Unique DEF Pixels
    <2> QED BY <2>2, <2>3, <1>1, WidthAssumption DEF Adjacent
  <1>5. ASSUME x + 1 < W
        PROVE  i + 1 \in Pixels(h) /\ Adjacent(i, i + 1)
    <2>1. i + 1 = y * W + (x + 1) /\ x + 1 \in 0..W - 1
      BY <1>1, <1>5, WidthAssumption
    <2>2. (i + 1) % W = x + 1 /\ (i + 1) \div W = y
      BY <2>1, <1>1, Unique
    <2>3. y * W + W <= h * W
      BY <1>2, WidthAssumption, SMT
    <2>4. i + 1 \in Pixels(h)
      BY <2>1, <2>3, <1>1, WidthAssumption, SMT DEF Pixels
    <2> QED BY <2>2, <2>4, <1>1, WidthAssumption DEF Adjacent
  <1>6. ASSUME y > 0
        PROVE  i - W \in Pixels(h) /\ Adjacent(i, i - W)
    <2>1. i - W = (y - 1) * W + x /\ y - 1 \in Nat
      BY <1>1, <1>2, <1>6, WidthAssumption, SMT
    <2>2. (i - W) % W = x /\ (i - W) \div W = y - 1 /\ i - W \in Nat
      BY <2>1, <1>1, Unique
    <2>3. i - W \in Pixels(h)
      BY <2>2, <1>1, WidthAssumption, SMT DEF Pixels
    <2> QED BY <2>2, <2>3, <1>1, <1>2, WidthAssumption DEF Adjacent
  <1>7. ASSUME y + 1 < h
        PROVE  i + W \in Pixels(h) /\ Adjacent(i, i + W)
    <2>1. i + W = (y + 1) * W + x /\ y + 1 \in Nat
      BY <1>1, <1>2, WidthAssumption, SMT
    <2>2. (i + W) % W = x /\ (i + W) \div W = y + 1 /\ i + W \in Nat
      BY <2>1, <1>1, Unique
    <2>3. (y + 1) * W + W <= h * W
      BY <1>2, <1>7, WidthAssumption, SMT
    <2>4. i + W \in Pixels(h)
      BY <2>1, <2>2, <2>3, <1>1, WidthAssumption, SMT DEF Pixels
    <2> QED BY <2>2, <2>4, <1>1, <1>2, WidthAssumption DEF Adjacent
  <1>8. ASSUME j \in Pixels(h), Adjacent(i, j)
        PROVE  \/ x > 0 /\ j = i - 1
               \/ x + 1 < W /\ j = i + 1
               \/ y > 0 /\ j = i - W
               \/ y + 1 < h /\ j = i + W
    <2> DEFINE u == j % W
               v == j \div W
    <2>1. /\ u \in 0..W - 1 /\ v \in Nat /\ j = v * W + u /\ j \in Nat
      BY <1>8, Coordinates, WidthAssumption DEF Pixels
    <2>2. v \in 0..h - 1
      BY <1>8, <2>1, WidthAssumption, SMT DEF Pixels
    <2>3. \/ y = v /\ x - u \in {-1, 1}
          \/ x = u /\ y - v \in {-1, 1}
      BY <1>8 DEF Adjacent
    <2> HIDE DEF x, y, u, v
    <2>4. CASE y = v /\ x - u = 1
      BY <2>1, <2>4, <1>1, WidthAssumption
    <2>5. CASE y = v /\ x - u = -1
      BY <2>1, <2>5, <1>1, WidthAssumption
    <2>6. CASE x = u /\ y - v = 1
      <3>1. v = y - 1
        BY <2>1, <2>6, <1>1
      <3>2. j = (y - 1) * W + x
        BY <2>1, <2>6, <3>1
      <3>3. j = i - W
        BY <3>2, <1>1, WidthAssumption, SMT
      <3> QED BY <3>1, <3>3, <2>1, <1>1
    <2>7. CASE x = u /\ y - v = -1
      <3>1. v = y + 1
        BY <2>1, <2>7, <1>1
      <3>2. j = (y + 1) * W + x
        BY <2>1, <2>7, <3>1
      <3>3. j = i + W
        BY <3>2, <1>1, WidthAssumption, SMT
      <3> QED BY <3>1, <3>3, <2>2, <1>1
    <2> QED BY <2>3, <2>4, <2>5, <2>6, <2>7, <2>1, <1>1, WidthAssumption
  <1> HIDE DEF x, y
  <1>9. Members(Neighbours(i)) =
            (IF x > 0 THEN {i - 1} ELSE {}) \cup (IF x + 1 < W THEN {i + 1} ELSE {})
              \cup (IF y > 0 THEN {i - W} ELSE {})
              \cup (IF y + 1 < h THEN {i + W} ELSE {})
    BY <1>3, NeighbourMembers
  <1> QED BY <1>4, <1>5, <1>6, <1>7, <1>8, <1>9

(* The fill starts with the pixels of the border.                          *)
LEMMA BorderMembers ==
    ASSUME NEW j, h \in Nat \ {0}
    PROVE  /\ Border(h) \in Seq(Int)
           /\ j \in Members(Border(h)) <=> j \in Pixels(h) /\ OnBorder(j)
  <1>1. /\ TopAndBottom(h) \in Seq(Int) /\ Len(TopAndBottom(h)) = 2 * W
        /\ Ends(h) \in Seq(Int) /\ Len(Ends(h)) = 2 * h
    BY WidthAssumption DEF TopAndBottom, Ends
  <1>2. /\ Border(h) \in Seq(Int)
        /\ Members(Border(h)) = Members(TopAndBottom(h)) \cup Members(Ends(h))
    BY <1>1, MembersOfConcat DEF Border
  <1>3. Members(TopAndBottom(h)) =
            {x : x \in 0..W - 1} \cup {(h - 1) * W + x : x \in 0..W - 1}
    <2>1. ASSUME NEW k \in 1..2 * W
          PROVE  TopAndBottom(h)[k] \in
                     {x : x \in 0..W - 1} \cup {(h - 1) * W + x : x \in 0..W - 1}
      <3>1. CASE k % 2 = 1
        <4>1. k \div 2 \in 0..W - 1 /\ TopAndBottom(h)[k] = k \div 2
          BY <3>1, WidthAssumption DEF TopAndBottom
        <4> QED BY <4>1
      <3>2. CASE k % 2 # 1
        <4>1. (k \div 2) - 1 \in 0..W - 1
          BY <3>2, WidthAssumption
        <4>2. TopAndBottom(h)[k] = (h - 1) * W + ((k \div 2) - 1)
          BY <3>2, WidthAssumption, SMT DEF TopAndBottom
        <4> QED BY <4>1, <4>2
      <3> QED BY <3>1, <3>2
    <2>2. ASSUME NEW x \in 0..W - 1
          PROVE  x \in Members(TopAndBottom(h))
      <3>1. /\ 2 * x + 1 \in 1..2 * W /\ (2 * x + 1) % 2 = 1
            /\ (2 * x + 1) \div 2 = x
        BY WidthAssumption
      <3>2. TopAndBottom(h)[2 * x + 1] = x
        BY <3>1 DEF TopAndBottom
      <3> QED BY <1>1, <3>1, <3>2 DEF Members
    <2>3. ASSUME NEW x \in 0..W - 1
          PROVE  (h - 1) * W + x \in Members(TopAndBottom(h))
      <3>1. /\ 2 * x + 2 \in 1..2 * W /\ (2 * x + 2) % 2 = 0
            /\ (2 * x + 2) \div 2 = x + 1
        BY WidthAssumption
      <3>2. TopAndBottom(h)[2 * x + 2] = (h - 1) * W + (x + 1) - 1
        BY <3>1 DEF TopAndBottom
      <3>3. (h - 1) * W + (x + 1) - 1 = (h - 1) * W + x
        BY WidthAssumption, SMT
      <3> QED BY <1>1, <3>1, <3>2, <3>3 DEF Members
    <2> QED BY <1>1, <2>1, <2>2, <2>3 DEF Members
  <1>4. Members(Ends(h)) =
            {y * W : y \in 0..h - 1} \cup {y * W + (W - 1) : y \in 0..h - 1}
    <2>1. ASSUME NEW k \in 1..2 * h
          PROVE  Ends(h)[k] \in
                     {y * W : y \in 0..h - 1} \cup {y * W + (W - 1) : y \in 0..h - 1}
      <3>1. CASE k % 2 = 1
        <4>1. k \div 2 \in 0..h - 1 /\ Ends(h)[k] = (k \div 2) * W
          BY <3>1 DEF Ends
        <4> QED BY <4>1
      <3>2. CASE k % 2 # 1
        <4>1. (k \div 2) - 1 \in 0..h - 1
          BY <3>2
        <4>2. Ends(h)[k] = ((k \div 2) - 1) * W + (W - 1)
          BY <3>2, WidthAssumption, SMT DEF Ends
        <4> QED BY <4>1, <4>2
      <3> QED BY <3>1, <3>2
    <2>2. ASSUME NEW y \in 0..h - 1
          PROVE  y * W \in Members(Ends(h))
      <3>1. /\ 2 * y + 1 \in 1..2 * h /\ (2 * y + 1) % 2 = 1
            /\ (2 * y + 1) \div 2 = y
        OBVIOUS
      <3>2. Ends(h)[2 * y + 1] = y * W
        BY <3>1 DEF Ends
      <3> QED BY <1>1, <3>1, <3>2 DEF Members
    <2>3. ASSUME NEW y \in 0..h - 1
          PROVE  y * W + (W - 1) \in Members(Ends(h))
      <3>1. /\ 2 * y + 2 \in 1..2 * h /\ (2 * y + 2) % 2 = 0
            /\ (2 * y + 2) \div 2 = y + 1 /\ (y + 1) - 1 = y
        OBVIOUS
      <3>2. Ends(h)[2 * y + 2] = ((y + 1) - 1) * W + W - 1
        BY <3>1 DEF Ends
      <3>3. y * W + W - 1 = y * W + (W - 1)
        BY WidthAssumption, SMT
      <3> QED BY <1>1, <3>1, <3>2, <3>3 DEF Members
    <2> QED BY <1>1, <2>1, <2>2, <2>3 DEF Members
  <1>5. ASSUME NEW x \in 0..W - 1, NEW y \in 0..h - 1
        PROVE  /\ y * W + x \in Pixels(h)
               /\ (y * W + x) % W = x /\ (y * W + x) \div W = y
    <2>1. y * W + W <= h * W
      BY WidthAssumption, SMT
    <2> QED BY <2>1, Unique, WidthAssumption, SMT DEF Pixels
  <1>6. ASSUME j \in Members(Border(h))
        PROVE  j \in Pixels(h) /\ OnBorder(j)
    <2>1. \E x \in 0..W - 1, y \in 0..h - 1 :
              j = y * W + x /\ (x \in {0, W - 1} \/ y \in {0, h - 1})
      <3>1. CASE j \in 0..W - 1
        <4>1. j = 0 * W + j /\ 0 \in 0..h - 1
          BY <3>1, WidthAssumption
        <4> QED BY <3>1, <4>1
      <3>2. CASE j \in {(h - 1) * W + x : x \in 0..W - 1}
        BY <3>2
      <3>3. CASE j \in {y * W : y \in 0..h - 1}
        <4>1. PICK y \in 0..h - 1 : j = y * W
          BY <3>3
        <4>2. j = y * W + 0 /\ 0 \in 0..W - 1
          BY <4>1, WidthAssumption
        <4> QED BY <4>2
      <3>4. CASE j \in {y * W + (W - 1) : y \in 0..h - 1}
        <4>1. PICK y \in 0..h - 1 : j = y * W + (W - 1)
          BY <3>4
        <4>2. W - 1 \in 0..W - 1
          BY WidthAssumption
        <4> QED BY <4>1, <4>2
      <3> QED BY <1>2, <1>3, <1>4, <1>6, <3>1, <3>2, <3>3, <3>4
    <2>2. PICK x \in 0..W - 1, y \in 0..h - 1 :
              j = y * W + x /\ (x \in {0, W - 1} \/ y \in {0, h - 1})
      BY <2>1
    <2> QED BY <2>2, <1>5 DEF OnBorder
  <1>7. ASSUME j \in Pixels(h), OnBorder(j)
        PROVE  j \in Members(Border(h))
    <2> DEFINE x == j % W
               y == j \div W
    <2>1. /\ x \in 0..W - 1 /\ y \in Nat /\ j = y * W + x
      BY <1>7, Coordinates, WidthAssumption DEF Pixels
    <2>2. y \in 0..h - 1
      BY <1>7, <2>1, WidthAssumption, SMT DEF Pixels
    <2>3. x \in {0, W - 1} \/ y \in {0, h - 1}
      BY <1>7 DEF OnBorder
    <2> HIDE DEF x, y
    <2>4. CASE x = 0
      BY <2>1, <2>2, <2>4, <1>2, <1>4, WidthAssumption
    <2>5. CASE x = W - 1
      BY <2>1, <2>2, <2>5, <1>2, <1>4
    <2>6. CASE y = 0
      BY <2>1, <2>6, <1>2, <1>3, WidthAssumption
    <2>7. CASE y = h - 1
      BY <2>1, <2>7, <1>2, <1>3
    <2> QED BY <2>3, <2>4, <2>5, <2>6, <2>7
  <1> QED BY <1>2, <1>6, <1>7

-----------------------------------------------------------------------------
(* The inductive invariant.  What the fill has reached, and what it will   *)
(* still look at, any closed set holds; and what the border or a reached   *)
(* pixel leads to is reached, or on the stack.                             *)
MaskTypeOK ==
    /\ h \in Nat \ {0}
    /\ open \in SUBSET Pixels(h)
    /\ background \in SUBSET open
    /\ stack \in Seq(Int)

OnlyReachable ==
    \A R \in SUBSET open : Closed(R) =>
        /\ background \subseteq R
        /\ Members(stack) \cap open \subseteq R

Led(j) == OnBorder(j) \/ \E i \in background : Adjacent(i, j)

NoneForgotten ==
    \A j \in open : Led(j) => j \in background \/ j \in Members(stack)

MaskInv == MaskTypeOK /\ OnlyReachable /\ NoneForgotten

LEMMA InvImpliesRight == MaskInv => BackgroundRight
  <1> SUFFICES ASSUME MaskInv, stack = <<>>
               PROVE  /\ Closed(background)
                      /\ \A R \in SUBSET open : Closed(R) => background \subseteq R
    BY DEF BackgroundRight
  <1>1. Closed(background)
    BY MembersOfNone DEF MaskInv, NoneForgotten, Led, Closed
  <1>2. \A R \in SUBSET open : Closed(R) => background \subseteq R
    BY DEF MaskInv, OnlyReachable
  <1> QED BY <1>1, <1>2

LEMMA InitInv == MaskInit => MaskInv
  <1> SUFFICES ASSUME MaskInit PROVE MaskInv
    OBVIOUS
  <1>1. MaskTypeOK
    BY BorderMembers DEF MaskInit, MaskTypeOK
  <1>2. Members(stack) = {j \in Pixels(h) : OnBorder(j)}
    BY BorderMembers DEF MaskInit
  <1>3. OnlyReachable
    BY <1>2 DEF MaskInit, OnlyReachable, Closed
  <1>4. NoneForgotten
    BY <1>1, <1>2 DEF MaskInit, MaskTypeOK, NoneForgotten, Led
  <1> QED BY <1>1, <1>3, <1>4 DEF MaskInv

LEMMA StepInv == MaskInv /\ [MaskStep]_maskVars => MaskInv'
  <1> SUFFICES ASSUME MaskInv, [MaskStep]_maskVars PROVE MaskInv'
    OBVIOUS
  <1> USE DEF MaskInv, MaskTypeOK
  <1>1. CASE UNCHANGED maskVars
    BY <1>1, SMTT(20) DEF maskVars, OnlyReachable, NoneForgotten, Led, Closed,
                OnBorder, Adjacent, Pixels, Members
  <1>2. CASE PassOver
    <2>1. /\ Popped(stack) \in Seq(Int)
          /\ Members(stack) = Members(Popped(stack)) \cup {Top}
      BY <1>2, MembersWithoutLast DEF PassOver, Top
    <2>2. /\ stack' = Popped(stack) /\ Members(stack') = Members(Popped(stack))
          /\ UNCHANGED <<h, open, background>>
          /\ Top \notin open \/ Top \in background
      BY <1>2 DEF PassOver
    <2>3. OnlyReachable'
      BY <2>1, <2>2 DEF OnlyReachable, Closed, OnBorder, Adjacent
    <2>4. NoneForgotten'
      BY <2>1, <2>2 DEF NoneForgotten, Led, OnBorder, Adjacent
    <2> QED BY <2>1, <2>2, <2>3, <2>4
  <1>3. CASE Reach
    <2> DEFINE i == Top
    <2>1. /\ Popped(stack) \in Seq(Int)
          /\ i \in Members(stack)
          /\ Members(stack) = Members(Popped(stack)) \cup {i}
      BY <1>3, MembersWithoutLast DEF Reach, Top
    <2>2. /\ i \in open \ background /\ i \in Pixels(h)
          /\ background' = background \cup {i}
          /\ stack' = Popped(stack) \o Neighbours(i)
          /\ UNCHANGED <<h, open>>
      BY <1>3 DEF Reach
    <2> HIDE DEF i
    <2>3. Neighbours(i) \in Seq(Int)
      BY <2>2, NeighbourMembers
    <2>4. /\ stack' \in Seq(Int)
          /\ Members(stack') = Members(Popped(stack)) \cup Members(Neighbours(i))
      BY <2>1, <2>2, <2>3, MembersOfConcat
    <2>5. \A j : j \in Members(Neighbours(i)) <=> j \in Pixels(h) /\ Adjacent(i, j)
      BY <2>2, NeighboursAdjacent
    <2>6. OnlyReachable'
      <3> SUFFICES ASSUME NEW R \in SUBSET open, Closed(R)
                   PROVE  /\ background \cup {i} \subseteq R
                          /\ Members(stack') \cap open \subseteq R
        BY <2>2 DEF OnlyReachable, Closed, OnBorder, Adjacent
      <3>1. background \subseteq R /\ Members(stack) \cap open \subseteq R
        BY DEF OnlyReachable
      <3>2. i \in R
        BY <2>1, <2>2, <3>1
      <3>3. Members(Neighbours(i)) \cap open \subseteq R
        BY <2>5, <3>2 DEF Closed
      <3> QED BY <2>1, <2>4, <3>1, <3>2, <3>3
    <2>7. NoneForgotten'
      <3> SUFFICES ASSUME NEW j \in open,
                          OnBorder(j) \/ \E k \in background \cup {i} : Adjacent(k, j)
                   PROVE  j \in background \cup {i} \/ j \in Members(stack')
        BY <2>2 DEF NoneForgotten, Led, OnBorder, Adjacent
      <3>1. CASE Led(j)
        BY <3>1, <2>1, <2>4 DEF NoneForgotten
      <3>2. CASE Adjacent(i, j)
        BY <3>2, <2>4, <2>5
      <3> QED BY <3>1, <3>2 DEF Led
    <2> QED BY <2>2, <2>4, <2>6, <2>7
  <1> QED BY <1>1, <1>2, <1>3 DEF MaskStep

(* When the fill has ended the background is the least closed set: every   *)
(* open pixel connected to the border, none behind the finger              *)
(* (swipe.rs:280-303).                                                     *)
THEOREM BackgroundCorrect == MaskSpec => []BackgroundRight
  <1>1. MaskSpec => []MaskInv
    BY InitInv, StepInv, PTL DEF MaskSpec
  <1> QED BY <1>1, InvImpliesRight, PTL
=============================================================================
