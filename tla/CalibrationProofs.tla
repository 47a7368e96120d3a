------------------------- MODULE CalibrationProofs -------------------------
(***************************************************************************)
(* Proofs about Calibration: the loops of the three decision rules pick    *)
(* what is promised of them, for every slice, and what they pick reaches   *)
(* the commands it is meant for.  The induction each loop needs is a least *)
(* counterexample (Least), the recursive functions are unfolded by hand.   *)
(***************************************************************************)
EXTENDS Calibration, TLAPS, FiniteSetTheorems, SequenceTheorems, WellFoundedInduction

RegWrite == [reg : Registers, val : Nat]
GroupSum(f, fld, S) == MapThenSumSet(LAMBDA n : f[n][fld], S)
Sums(n) == [1..n -> [a : Nat, b : Nat]]

-----------------------------------------------------------------------------
(* Naturals and sequences.                                                 *)

LEMMA Least ==
    ASSUME NEW S \in SUBSET Nat, S # {}
    PROVE  \E n \in S : \A m \in S : n <= m
<1> DEFINE R == {ss \in Nat \X Nat : ss[1] < ss[2]}
<1>1. IsWellFoundedOn(R, Nat)
  BY NatLessThanWellFounded DEF OpToRel
<1>2. PICK n \in S : \A m \in S : <<m, n>> \notin R
  BY <1>1, WFMin
<1>3. ASSUME NEW m \in S PROVE n <= m
  <2>1. <<m, n>> \in Nat \X Nat /\ ~(m < n)
    BY <1>2
  <2> QED
    BY <2>1
<1> QED
  BY <1>3

LEMMA MinIs ==
    ASSUME NEW S \in SUBSET Nat, S # {}
    PROVE  Min(S) \in S /\ \A m \in S : Min(S) <= m
BY Least DEF Min

LEMMA MaxIs ==
    ASSUME NEW n \in Nat, NEW S \in SUBSET (1..n), S # {}
    PROVE  Max(S) \in S /\ \A m \in S : Max(S) >= m
<1> DEFINE T == {n - m : m \in S}
<1>1. T \in SUBSET Nat /\ T # {}
  OBVIOUS
<1>2. PICK t \in T : \A u \in T : t <= u
  BY <1>1, Least
<1>3. PICK x \in S : t = n - x
  BY <1>2
<1>4. \A m \in S : x >= m
  BY <1>2, <1>3
<1> QED
  BY <1>4 DEF Max

LEMMA Tuples ==
    ASSUME NEW S, NEW n \in Nat, NEW f \in [1..n -> S]
    PROVE  f \in Seq(S) /\ Len(f) = n /\ DOMAIN f = 1..n
<1>1. f \in Seq(S)
  BY SeqDef
<1> QED
  BY <1>1, LenProperties

-----------------------------------------------------------------------------
(* The sums of a group of one or two lines are numbers.                    *)

LEMMA SumOfOne ==
    ASSUME NEW f, NEW fld, NEW x, f[x][fld] \in Nat
    PROVE  GroupSum(f, fld, {x}) \in Nat
<1> DEFINE S == {x}
           P(g) == g = [s \in SUBSET S |->
                          IF s = {} THEN 0
                          ELSE f[CHOOSE z \in s : TRUE][fld] + g[s \ {CHOOSE z \in s : TRUE}]]
           h == [s \in SUBSET S |-> IF s = {} THEN 0 ELSE f[x][fld]]
           b == CHOOSE g : P(g)
<1>1. P(h)
  <2>1. ASSUME NEW s \in SUBSET S
        PROVE  h[s] = IF s = {} THEN 0
                      ELSE f[CHOOSE z \in s : TRUE][fld] + h[s \ {CHOOSE z \in s : TRUE}]
    <3>1. CASE s = {}
      BY <3>1
    <3>2. CASE s # {}
      <4>1. s = {x} /\ (CHOOSE z \in s : TRUE) = x /\ s \ {x} = {}
        BY <3>2
      <4>2. h[s] = f[x][fld] /\ h[{}] = 0
        BY <3>2
      <4> QED
        BY <3>2, <4>1, <4>2
    <3> QED
      BY <3>1, <3>2
  <2> QED
    BY <2>1, Zenon
<1>2. P(b)
  BY <1>1, Zenon
<1>3. GroupSum(f, fld, {x}) = b[S]
  BY Zenon DEF GroupSum, MapThenSumSet, MapThenFoldSet
<1> HIDE DEF b
<1>4. b[{}] = 0
  BY <1>2
<1>5. b[S] = f[x][fld] + b[{}]
  <2>1. (CHOOSE z \in S : TRUE) = x /\ S \ {x} = {} /\ S # {} /\ S \in SUBSET S
    OBVIOUS
  <2> QED
    BY <1>2, <2>1
<1> QED
  BY <1>3, <1>4, <1>5

LEMMA SumOfTwo ==
    ASSUME NEW f, NEW fld, NEW x, NEW y, x # y, f[x][fld] \in Nat, f[y][fld] \in Nat
    PROVE  GroupSum(f, fld, {x, y}) \in Nat
<1> DEFINE S == {x, y}
           P(g) == g = [s \in SUBSET S |->
                          IF s = {} THEN 0
                          ELSE f[CHOOSE z \in s : TRUE][fld] + g[s \ {CHOOSE z \in s : TRUE}]]
           h == [s \in SUBSET S |-> IF s = {} THEN 0
                                    ELSE IF s = {x} THEN f[x][fld]
                                    ELSE IF s = {y} THEN f[y][fld]
                                    ELSE f[x][fld] + f[y][fld]]
           b == CHOOSE g : P(g)
<1>1. P(h)
  <2>1. ASSUME NEW s \in SUBSET S
        PROVE  h[s] = IF s = {} THEN 0
                      ELSE f[CHOOSE z \in s : TRUE][fld] + h[s \ {CHOOSE z \in s : TRUE}]
    <3> DEFINE c == CHOOSE z \in s : TRUE
    <3>1. CASE s = {}
      BY <3>1
    <3>2. CASE s # {}
      <4>1. c \in s
        BY <3>2
      <4> HIDE DEF c
      <4>2. CASE s = {c}
        <5>1. s \ {c} = {} /\ (c = x \/ c = y)
          BY <4>1, <4>2
        <5>2. h[s] = f[c][fld] /\ h[{}] = 0
          BY <4>2, <5>1
        <5> QED
          BY <3>2, <5>1, <5>2 DEF c
      <4>3. CASE s # {c}
        <5>1. s = {x, y} /\ s # {x} /\ s # {y}
          BY <4>1, <4>3
        <5>2. (c = x /\ s \ {c} = {y}) \/ (c = y /\ s \ {c} = {x})
          BY <4>1, <5>1
        <5>3. h[s] = f[x][fld] + f[y][fld] /\ h[{x}] = f[x][fld] /\ h[{y}] = f[y][fld]
          BY <3>2, <5>1
        <5>4. f[c][fld] + h[s \ {c}] = f[x][fld] + f[y][fld]
          <6>1. CASE c = x /\ s \ {c} = {y}
            BY <5>3, <6>1
          <6>2. CASE c = y /\ s \ {c} = {x}
            <7>1. f[c][fld] + h[s \ {c}] = f[y][fld] + f[x][fld]
              BY <5>3, <6>2
            <7> QED
              BY <7>1
          <6> QED
            BY <5>2, <6>1, <6>2
        <5> QED
          BY <3>2, <5>3, <5>4 DEF c
      <4> QED
        BY <4>2, <4>3
    <3> QED
      BY <3>1, <3>2
  <2> QED
    BY <2>1, Zenon
<1>2. P(b)
  BY <1>1, Zenon
<1>3. GroupSum(f, fld, {x, y}) = b[S]
  BY Zenon DEF GroupSum, MapThenSumSet, MapThenFoldSet
<1> HIDE DEF b
<1>4. b[{}] = 0
  BY <1>2
<1>5. ASSUME NEW z \in S PROVE b[{z}] = f[z][fld] + b[{}]
  <2>1. (CHOOSE u \in {z} : TRUE) = z /\ {z} \ {z} = {} /\ {z} # {} /\ {z} \in SUBSET S
    OBVIOUS
  <2> QED
    BY <1>2, <2>1
<1>6. b[{x}] \in Nat /\ b[{y}] \in Nat
  BY <1>4, <1>5
<1>7. \E c \in S : b[S] = f[c][fld] + b[S \ {c}]
  BY <1>2
<1>8. S \ {x} = {y} /\ S \ {y} = {x}
  OBVIOUS
<1>9. b[S] \in Nat
  <2>1. PICK c \in S : b[S] = f[c][fld] + b[S \ {c}]
    BY <1>7
  <2>2. f[c][fld] \in Nat /\ b[S \ {c}] \in Nat
    BY <1>6, <1>8
  <2> QED
    BY <2>1, <2>2
<1> QED
  BY <1>3, <1>9

(* A slice of the right size has one pair of sums for each value.          *)
LEMMA SumTypes ==
    ASSUME NEW step \in Steps, NEW slice \in Slices,
           Len(slice) = Values[step] * PerVal(step)
    PROVE  /\ SweepSums(step, slice) \in Sums(Values[step])
           /\ Len(SweepSums(step, slice)) = Values[step]
           /\ DOMAIN SweepSums(step, slice) = 1..Values[step]
           /\ Values[step] \in Nat \ {0}
<1> DEFINE per == PerVal(step)
           V == Values[step]
           Group(g) == (g - 1) * per + 1 .. g * per
           sums == SweepSums(step, slice)
<1>1. V \in Nat \ {0} /\ per \in {1, 2}
  BY StepsAssumption DEF PerVal
<1>2. /\ Len(slice) \in Nat
      /\ \A n \in 1..Len(slice) : slice[n]["a"] \in Nat /\ slice[n]["b"] \in Nat
  <2> DEFINE Line == [mark : {"line", "end", "zeros"}, count : Nat, a : Nat, b : Nat]
  <2>1. slice \in Seq(Line)
    BY SlicesAssumption
  <2>2. \A l \in Line : l["a"] \in Nat /\ l["b"] \in Nat
    OBVIOUS
  <2> HIDE DEF Line
  <2>3. Len(slice) \in Nat /\ \A n \in 1..Len(slice) : slice[n] \in Line
    BY <2>1
  <2> QED
    BY <2>2, <2>3
<1> HIDE DEF V, per
<1>3. Len(slice) = V * per
  BY DEF V, per
<1>4. Len(slice) \div per = V
  BY <1>1, <1>3
<1>5. ASSUME NEW g \in 1..V, NEW fld \in {"a", "b"}
      PROVE  GroupSum(slice, fld, Group(g)) \in Nat
  <2>1. CASE per = 1
    <3>1. Group(g) = {g} /\ g \in 1..Len(slice)
      BY <1>1, <1>3, <2>1
    <3>2. slice[g][fld] \in Nat
      BY <1>2, <3>1
    <3>3. GroupSum(slice, fld, {g}) \in Nat
      BY <3>2, SumOfOne
    <3> QED
      BY <3>1, <3>3
  <2>2. CASE per = 2
    <3>1. /\ Group(g) = {2 * g - 1, 2 * g} /\ 2 * g - 1 # 2 * g
          /\ 2 * g - 1 \in 1..Len(slice) /\ 2 * g \in 1..Len(slice)
      BY <1>1, <1>3, <2>2
    <3>2. slice[2 * g - 1][fld] \in Nat /\ slice[2 * g][fld] \in Nat
      BY <1>2, <3>1
    <3>3. GroupSum(slice, fld, {2 * g - 1, 2 * g}) \in Nat
      BY <3>1, <3>2, SumOfTwo
    <3> QED
      BY <3>1, <3>3
  <2> QED
    BY <1>1, <2>1, <2>2
<1>6. sums = [g \in 1..V |-> [a |-> MapThenSumSet(LAMBDA n : slice[n].a, Group(g)),
                              b |-> MapThenSumSet(LAMBDA n : slice[n].b, Group(g))]]
  BY <1>4, Zenon DEF SweepSums, per
<1>7. ASSUME NEW g \in 1..V
      PROVE  /\ MapThenSumSet(LAMBDA n : slice[n].a, Group(g)) \in Nat
             /\ MapThenSumSet(LAMBDA n : slice[n].b, Group(g)) \in Nat
  BY <1>5 DEF GroupSum
<1>8. sums \in Sums(V)
  <2> DEFINE A(g) == MapThenSumSet(LAMBDA n : slice[n].a, Group(g))
             B(g) == MapThenSumSet(LAMBDA n : slice[n].b, Group(g))
  <2>1. \A g \in 1..V : A(g) \in Nat /\ B(g) \in Nat
    BY <1>7
  <2>2. sums = [g \in 1..V |-> [a |-> A(g), b |-> B(g)]]
    BY <1>6
  <2> HIDE DEF A, B
  <2> QED
    BY <2>1, <2>2 DEF Sums
<1> QED
  BY <1>1, <1>8, Tuples DEF Sums, V
-----------------------------------------------------------------------------
(* The loops: the first of the smallest of n numbers.                      *)

IsBest(v, n, k) ==
    /\ k \in 1..n
    /\ \A m \in 1..n : v[k] < v[m] \/ (v[k] = v[m] /\ k <= m)
Best(v, n) == CHOOSE k \in 1..n : IsBest(v, n, k)
BetterOf(v, n, k) == IF v[n] < v[k] THEN n ELSE k

LEMMA OneBest ==
    ASSUME NEW n \in Nat, NEW v \in [1..n -> Int], NEW i, NEW j,
           IsBest(v, n, i), IsBest(v, n, j)
    PROVE  i = j
<1>1. i \in 1..n /\ j \in 1..n /\ v[i] \in Int /\ v[j] \in Int
  BY DEF IsBest
<1>2. v[i] < v[j] \/ (v[i] = v[j] /\ i <= j)
  BY <1>1 DEF IsBest
<1>3. v[j] < v[i] \/ (v[j] = v[i] /\ j <= i)
  BY <1>1 DEF IsBest
<1> QED
  BY <1>1, <1>2, <1>3

LEMMA BetterIsBest ==
    ASSUME NEW L \in Nat, NEW v \in [1..L -> Int], NEW n \in 2..L, NEW k,
           IsBest(v, n - 1, k)
    PROVE  IsBest(v, n, BetterOf(v, n, k))
<1>1. n \in Nat /\ n \in 1..L /\ k \in 1..n - 1 /\ k \in 1..L
  BY DEF IsBest
<1>2. v[n] \in Int /\ v[k] \in Int
  BY <1>1
<1>3. ASSUME NEW m \in 1..n
      PROVE  \/ v[BetterOf(v, n, k)] < v[m]
             \/ v[BetterOf(v, n, k)] = v[m] /\ BetterOf(v, n, k) <= m
  <2>1. v[m] \in Int /\ m \in Nat
    BY <1>1
  <2>2. m # n => v[k] < v[m] \/ (v[k] = v[m] /\ k <= m)
    <3>1. m # n => m \in 1..n - 1
      BY <1>1
    <3> QED
      BY <3>1 DEF IsBest
  <2>3. CASE v[n] < v[k]
    BY <1>1, <1>2, <2>1, <2>2, <2>3 DEF BetterOf
  <2>4. CASE ~(v[n] < v[k])
    BY <1>1, <1>2, <2>1, <2>2, <2>4 DEF BetterOf
  <2> QED
    BY <2>3, <2>4
<1>4. BetterOf(v, n, k) \in 1..n
  BY <1>1 DEF BetterOf
<1> QED
  BY <1>3, <1>4 DEF IsBest

(* The induction, by a least counterexample.                               *)
LEMMA BestExists ==
    ASSUME NEW L \in Nat, NEW v \in [1..L -> Int], NEW n \in 1..L
    PROVE  IsBest(v, n, Best(v, n))
<1> DEFINE Bad == {i \in 1..L : \A k \in 1..i : ~IsBest(v, i, k)}
<1>1. Bad = {}
  <2> SUFFICES ASSUME Bad # {} PROVE FALSE
    OBVIOUS
  <2>1. PICK i \in Bad : \A j \in Bad : i <= j
    <3>1. Bad \in SUBSET Nat
      OBVIOUS
    <3> QED
      BY <3>1, Least
  <2>2. i \in 1..L
    OBVIOUS
  <2>3. CASE i = 1
    <3>1. IsBest(v, 1, 1)
      BY <2>2, <2>3 DEF IsBest
    <3> QED
      BY <2>1, <2>3, <3>1
  <2>4. CASE i # 1
    <3>1. i \in 2..L /\ i - 1 \in 1..L /\ ~(i <= i - 1)
      BY <2>2, <2>4
    <3>2. i - 1 \notin Bad
      BY <2>1, <3>1
    <3>3. PICK k \in 1..i - 1 : IsBest(v, i - 1, k)
      BY <3>1, <3>2
    <3>4. IsBest(v, i, BetterOf(v, i, k))
      BY <3>1, <3>3, BetterIsBest
    <3>5. BetterOf(v, i, k) \in 1..i
      BY <3>4 DEF IsBest
    <3> QED
      BY <2>1, <3>4, <3>5
  <2> QED
    BY <2>3, <2>4
<1>2. \E k \in 1..n : IsBest(v, n, k)
  BY <1>1
<1> QED
  BY <1>2 DEF Best

LEMMA NextBest ==
    ASSUME NEW L \in Nat, NEW v \in [1..L -> Int], NEW n \in 1..L
    PROVE  Best(v, n) = IF n = 1 THEN 1 ELSE BetterOf(v, n, Best(v, n - 1))
<1>1. v \in [1..L -> Int] /\ IsBest(v, n, Best(v, n)) /\ n \in Nat
  BY BestExists
<1>2. CASE n = 1
  BY <1>1, <1>2 DEF IsBest
<1>3. CASE n # 1
  <2>1. n \in 2..L /\ n - 1 \in 1..L
    BY <1>3
  <2>2. IsBest(v, n, BetterOf(v, n, Best(v, n - 1)))
    BY <2>1, BestExists, BetterIsBest
  <2> DEFINE w == [m \in 1..n |-> v[m]]
  <2>3. w \in [1..n -> Int] /\ \A m \in 1..n : w[m] = v[m]
    BY <1>1
  <2>4. \A k : IsBest(v, n, k) => IsBest(w, n, k)
    BY <2>3 DEF IsBest
  <2>5. IsBest(w, n, Best(v, n)) /\ IsBest(w, n, BetterOf(v, n, Best(v, n - 1)))
    BY <1>1, <2>2, <2>4
  <2> HIDE DEF w
  <2> QED
    BY <1>1, <1>3, <2>3, <2>5, OneBest
<1> QED
  BY <1>2, <1>3

(* A loop that keeps the better of what it has and the next number.        *)
LEMMA LoopFindsBest ==
    ASSUME NEW L \in Nat \ {0}, NEW v \in [1..L -> Int], NEW g,
           g[1] = 1,
           \A n \in 2..L : g[n - 1] \in 1..L => g[n] = BetterOf(v, n, g[n - 1])
    PROVE  g[L] = Best(v, L)
<1> DEFINE Bad == {i \in 1..L : g[i] # Best(v, i)}
<1>1. Bad = {}
  <2> SUFFICES ASSUME Bad # {} PROVE FALSE
    OBVIOUS
  <2>1. PICK i \in Bad : \A j \in Bad : i <= j
    <3>1. Bad \in SUBSET Nat
      OBVIOUS
    <3> QED
      BY <3>1, Least
  <2>2. i \in 1..L /\ g[i] # Best(v, i)
    OBVIOUS
  <2>3. Best(v, i) = IF i = 1 THEN 1 ELSE BetterOf(v, i, Best(v, i - 1))
    BY <2>2, NextBest
  <2>4. CASE i = 1
    BY <2>2, <2>3, <2>4
  <2>5. CASE i # 1
    <3>1. i \in 2..L /\ i - 1 \in 1..L /\ ~(i <= i - 1)
      BY <2>2, <2>5
    <3>2. g[i - 1] = Best(v, i - 1)
      BY <2>1, <3>1
    <3>3. Best(v, i - 1) \in 1..L
      BY <3>1, BestExists DEF IsBest
    <3> QED
      BY <2>2, <2>3, <2>5, <3>1, <3>2, <3>3
  <2> QED
    BY <2>4, <2>5
<1> QED
  BY <1>1

-----------------------------------------------------------------------------
(* Each rule picks what is promised of it.                                 *)

LEMMA FirstIs ==
    ASSUME NEW S, NEW k \in S, S \in SUBSET Nat, \A m \in S : k <= m
    PROVE  First(S) = k
<1>1. ASSUME NEW j \in S, \A m \in S : j <= m PROVE j = k
  <2>1. j <= k /\ k <= j /\ j \in Nat /\ k \in Nat
    BY <1>1
  <2> QED
    BY <2>1
<1> QED
  BY <1>1 DEF First

LEMMA PgaOffsetPicks ==
    ASSUME NEW L \in Nat \ {0}, NEW sums \in Sums(L), Len(sums) = L
    PROVE  /\ ComputePgaOffset(sums) \in 1..L
           /\ ComputePgaOffset(sums) =
                First({n \in 1..L : \A m \in 1..L : Distance(sums[n]) <= Distance(sums[m])})
<1> DEFINE v == [n \in 1..L |-> Distance(sums[n])]
           P(g) == g = [n \in 1..Len(sums) |->
                          IF n = 1 THEN 1
                          ELSE IF Distance(sums[n]) < Distance(sums[g[n - 1]])
                               THEN n ELSE g[n - 1]]
           h == [n \in 1..L |-> Best(v, n)]
           b == CHOOSE g : P(g)
           S == {n \in 1..L : \A m \in 1..L : Distance(sums[n]) <= Distance(sums[m])}
<1>1. \A n \in 1..L : Distance(sums[n]) \in Int
  BY StepsAssumption DEF Distance, Sums
<1>2. v \in [1..L -> Int] /\ \A n \in 1..L : v[n] = Distance(sums[n])
  BY <1>1
<1> HIDE DEF v
<1>3. P(h)
  <2>1. ASSUME NEW n \in 1..Len(sums)
        PROVE  h[n] = IF n = 1 THEN 1
                      ELSE IF Distance(sums[n]) < Distance(sums[h[n - 1]])
                           THEN n ELSE h[n - 1]
    <3>1. h[n] = Best(v, n)
      OBVIOUS
    <3>2. Best(v, n) = IF n = 1 THEN 1 ELSE BetterOf(v, n, Best(v, n - 1))
      BY <1>2, NextBest
    <3>3. CASE n = 1
      BY <3>1, <3>2, <3>3
    <3>4. CASE n # 1
      <4>1. n - 1 \in 1..L /\ h[n - 1] = Best(v, n - 1)
        BY <3>4
      <4>2. Best(v, n - 1) \in 1..L
        BY <1>2, <4>1, BestExists DEF IsBest
      <4>3. v[Best(v, n - 1)] = Distance(sums[h[n - 1]]) /\ v[n] = Distance(sums[n])
        BY <1>2, <4>1, <4>2
      <4> QED
        BY <3>1, <3>2, <3>4, <4>1, <4>3 DEF BetterOf
    <3> QED
      BY <3>3, <3>4
  <2> QED
    BY <2>1, Zenon
<1>4. P(b)
  BY <1>3, Zenon
<1>5. ComputePgaOffset(sums) = b[L]
  BY Zenon DEF ComputePgaOffset
<1> HIDE DEF b
<1>6. b[L] = Best(v, L)
  <2>1. b[1] = 1
    BY <1>4
  <2>2. ASSUME NEW n \in 2..L, b[n - 1] \in 1..L
        PROVE  b[n] = BetterOf(v, n, b[n - 1])
    <3>1. n \in 1..L /\ n # 1
      OBVIOUS
    <3>2. b[n] = IF Distance(sums[n]) < Distance(sums[b[n - 1]]) THEN n ELSE b[n - 1]
      BY <1>4, <3>1
    <3> QED
      BY <1>2, <2>2, <3>1, <3>2 DEF BetterOf
  <2> QED
    BY <1>2, <2>1, <2>2, LoopFindsBest
<1>7. IsBest(v, L, b[L])
  BY <1>2, <1>6, BestExists
<1>8. b[L] \in 1..L /\ \A m \in 1..L : v[b[L]] < v[m] \/ (v[b[L]] = v[m] /\ b[L] <= m)
  BY <1>7 DEF IsBest
<1>9. b[L] \in S
  BY <1>2, <1>8
<1>10. \A m \in S : b[L] <= m
  BY <1>2, <1>8
<1>11. S \in SUBSET Nat
  OBVIOUS
<1> HIDE DEF S
<1>12. First(S) = b[L]
  BY <1>9, <1>10, <1>11, FirstIs
<1> QED
  BY <1>5, <1>8, <1>12 DEF S

LEMMA AdcPicks ==
    ASSUME NEW L \in Nat \ {0}, NEW sums \in Sums(L), Len(sums) = L
    PROVE  /\ ComputeAdc(sums) \in 1..L
           /\ ComputeAdc(sums) =
                First({n \in 1..L : \E l \in {sums[n].a, sums[n].b} :
                           \A k \in 1..L : l >= sums[k].a /\ l >= sums[k].b})
<1> DEFINE v == [n \in 1..L |-> -Peak(sums[n])]
           P(g) == g = [n \in 1..Len(sums) |->
                          IF n = 1 THEN 1
                          ELSE IF Peak(sums[n]) > Peak(sums[g[n - 1]])
                               THEN n ELSE g[n - 1]]
           h == [n \in 1..L |-> Best(v, n)]
           b == CHOOSE g : P(g)
           S == {n \in 1..L : \E l \in {sums[n].a, sums[n].b} :
                   \A k \in 1..L : l >= sums[k].a /\ l >= sums[k].b}
<1>1. \A n \in 1..L : Peak(sums[n]) \in Nat /\ sums[n].a \in Nat /\ sums[n].b \in Nat
  BY DEF Peak, Sums
<1>2. v \in [1..L -> Int] /\ \A n \in 1..L : v[n] = -Peak(sums[n])
  BY <1>1
<1> HIDE DEF v
<1>3. P(h)
  <2>1. ASSUME NEW n \in 1..Len(sums)
        PROVE  h[n] = IF n = 1 THEN 1
                      ELSE IF Peak(sums[n]) > Peak(sums[h[n - 1]])
                           THEN n ELSE h[n - 1]
    <3>1. h[n] = Best(v, n)
      OBVIOUS
    <3>2. Best(v, n) = IF n = 1 THEN 1 ELSE BetterOf(v, n, Best(v, n - 1))
      BY <1>2, NextBest
    <3>3. CASE n = 1
      BY <3>1, <3>2, <3>3
    <3>4. CASE n # 1
      <4>1. n - 1 \in 1..L /\ h[n - 1] = Best(v, n - 1)
        BY <3>4
      <4>2. Best(v, n - 1) \in 1..L
        BY <1>2, <4>1, BestExists DEF IsBest
      <4>3. v[Best(v, n - 1)] = -Peak(sums[h[n - 1]]) /\ v[n] = -Peak(sums[n])
        BY <1>2, <4>1, <4>2
      <4>4. Peak(sums[h[n - 1]]) \in Nat /\ Peak(sums[n]) \in Nat
        BY <1>1, <4>1, <4>2
      <4> HIDE DEF h
      <4> QED
        BY <3>1, <3>2, <3>4, <4>1, <4>3, <4>4 DEF BetterOf
    <3> QED
      BY <3>3, <3>4
  <2> QED
    BY <2>1, Zenon
<1>4. P(b)
  BY <1>3, Zenon
<1>5. ComputeAdc(sums) = b[L]
  BY Zenon DEF ComputeAdc
<1> HIDE DEF b
<1>6. b[L] = Best(v, L)
  <2>1. b[1] = 1
    BY <1>4
  <2>2. ASSUME NEW n \in 2..L, b[n - 1] \in 1..L
        PROVE  b[n] = BetterOf(v, n, b[n - 1])
    <3>1. n \in 1..L /\ n # 1
      OBVIOUS
    <3>2. b[n] = IF Peak(sums[n]) > Peak(sums[b[n - 1]]) THEN n ELSE b[n - 1]
      BY <1>4, <3>1
    <3>3. Peak(sums[b[n - 1]]) \in Nat /\ Peak(sums[n]) \in Nat
      BY <1>1, <2>2, <3>1
    <3>4. v[b[n - 1]] = -Peak(sums[b[n - 1]]) /\ v[n] = -Peak(sums[n])
      BY <1>2, <2>2, <3>1
    <3> QED
      BY <3>2, <3>3, <3>4 DEF BetterOf
  <2> QED
    BY <1>2, <2>1, <2>2, LoopFindsBest
<1>7. IsBest(v, L, b[L])
  BY <1>2, <1>6, BestExists
<1>8. b[L] \in 1..L /\ \A m \in 1..L : v[b[L]] < v[m] \/ (v[b[L]] = v[m] /\ b[L] <= m)
  BY <1>7 DEF IsBest
<1>9. \A n \in 1..L :
         /\ Peak(sums[n]) \in {sums[n].a, sums[n].b}
         /\ Peak(sums[n]) >= sums[n].a /\ Peak(sums[n]) >= sums[n].b
  BY <1>1 DEF Peak
<1>10. ASSUME NEW n \in 1..L
       PROVE  n \in S <=> \A k \in 1..L : Peak(sums[n]) >= Peak(sums[k])
  <2>1. ASSUME n \in S, NEW k \in 1..L PROVE Peak(sums[n]) >= Peak(sums[k])
    <3>1. PICK l \in {sums[n].a, sums[n].b} : \A j \in 1..L : l >= sums[j].a /\ l >= sums[j].b
      BY <2>1
    <3>2. l >= sums[k].a /\ l >= sums[k].b /\ Peak(sums[n]) >= l
      BY <1>9, <3>1
    <3>3. l >= Peak(sums[k])
      BY <1>9, <3>2
    <3> QED
      BY <1>1, <3>2, <3>3
  <2>2. ASSUME \A k \in 1..L : Peak(sums[n]) >= Peak(sums[k]) PROVE n \in S
    <3>1. \A k \in 1..L : Peak(sums[n]) >= sums[k].a /\ Peak(sums[n]) >= sums[k].b
      BY <1>1, <1>9, <2>2
    <3> QED
      BY <1>9, <3>1
  <2> QED
    BY <2>1, <2>2
<1>11. S \in SUBSET Nat
  OBVIOUS
<1> HIDE DEF S
<1>12. S \subseteq 1..L
  BY DEF S
<1>13. \A m \in 1..L : v[m] = -Peak(sums[m]) /\ Peak(sums[m]) \in Nat
  BY <1>1, <1>2
<1>14. b[L] \in S
  <2>1. ASSUME NEW k \in 1..L PROVE Peak(sums[b[L]]) >= Peak(sums[k])
    <3>1. v[b[L]] <= v[k] /\ b[L] \in 1..L
      BY <1>8, <1>13
    <3>2. /\ v[b[L]] = -Peak(sums[b[L]]) /\ v[k] = -Peak(sums[k])
          /\ Peak(sums[b[L]]) \in Nat /\ Peak(sums[k]) \in Nat
      BY <1>13, <3>1
    <3> QED
      BY <3>1, <3>2
  <2> QED
    BY <1>8, <1>10, <2>1
<1>15. ASSUME NEW m \in S PROVE b[L] <= m
  <2>1. Peak(sums[m]) >= Peak(sums[b[L]]) /\ m \in 1..L
    BY <1>8, <1>10, <1>12
  <2> QED
    BY <1>8, <1>13, <2>1
<1>16. First(S) = b[L]
  BY <1>11, <1>14, <1>15, FirstIs
<1> QED
  BY <1>5, <1>8, <1>16 DEF S
LEMMA PgaGainPicks ==
    ASSUME NEW L \in Nat \ {0}, NEW sums \in Sums(L), Len(sums) = L, DOMAIN sums = 1..L,
           NEW clear, clear = {n \in 1..L : \A m \in 1..n : ~NearA(sums[m], sums[L])}
    PROVE  /\ ComputePgaGain(sums) \in 1..L \cup {None}
           /\ ComputePgaGain(sums) =
                IF sums[L].a = sums[L].b THEN None
                ELSE IF clear = {} THEN 1 ELSE Cardinality(clear)
           /\ Cardinality(clear) \in Nat
<1> DEFINE last == sums[L]
           near == {n \in DOMAIN sums : NearA(sums[n], last)}
<1>1. L \in 1..L /\ last.a \in Nat /\ last.b \in Nat /\ D \in Nat
  BY StepsAssumption DEF Sums
<1>2. NearA(sums[L], last) /\ NearB(sums[L], last)
  BY <1>1 DEF NearA, NearB
<1>3. near \in SUBSET Nat /\ near # {} /\ near \subseteq 1..L
  BY <1>1, <1>2
<1>4. /\ ~(\A n \in DOMAIN sums : ~NearB(sums[n], last))
      /\ \A n \in 1..L : n \in near <=> NearA(sums[n], last)
  BY <1>1, <1>2
<1>5. ComputePgaGain(sums) = IF last.a = last.b THEN None ELSE Before(Min(near))
  BY <1>3, <1>4, Zenon DEF ComputePgaGain
<1> HIDE DEF near, last
<1>6. PICK m \in near : m = Min(near) /\ \A n \in near : m <= n
  BY <1>3, MinIs
<1>7. m \in 1..L /\ m \in Nat
  BY <1>3
<1>8. clear = 1..m - 1
  <2>1. ASSUME NEW n \in clear PROVE n \in 1..m - 1
    <3>1. n \in 1..L /\ \A k \in 1..n : ~NearA(sums[k], last)
      BY DEF last
    <3>2. m \notin 1..n
      BY <1>4, <1>7, <3>1
    <3> QED
      BY <1>7, <3>1, <3>2
  <2>2. ASSUME NEW n \in 1..m - 1 PROVE n \in clear
    <3>1. n \in 1..L
      BY <1>7
    <3>2. ASSUME NEW k \in 1..n PROVE ~NearA(sums[k], last)
      <4>1. k \in 1..L /\ ~(m <= k)
        BY <1>7, <3>1
      <4> QED
        BY <1>4, <1>6, <4>1
    <3> QED
      BY <3>1, <3>2 DEF last
  <2> QED
    BY <2>1, <2>2
<1>9. (clear = {} <=> m = 1) /\ Cardinality(clear) = m - 1
  <2>1. 1 \in Int /\ m - 1 \in Int
    BY <1>7
  <2>2. Cardinality(1..m - 1) = IF 1 > m - 1 THEN 0 ELSE (m - 1) - 1 + 1
    BY <2>1, FS_Interval
  <2>3. Cardinality(1..m - 1) = m - 1
    BY <1>7, <2>2
  <2>4. 1..m - 1 = {} <=> m = 1
    <3>1. m # 1 => 1 \in 1..m - 1
      BY <1>7
    <3> QED
      BY <1>7, <3>1
  <2> QED
    BY <1>8, <2>3, <2>4
<1>10. Before(m) = IF clear = {} THEN 1 ELSE Cardinality(clear)
  BY <1>9 DEF Before
<1>11. Before(m) \in 1..L
  BY <1>7 DEF Before
<1>12. Cardinality(clear) \in Nat
  BY <1>7, <1>9
<1> QED
  BY <1>5, <1>6, <1>10, <1>11, <1>12 DEF last

LEMMA ValidAsPromised ==
    ASSUME NEW step \in Steps, NEW slice \in Slices
    PROVE  Validate(step, slice) <=>
             /\ Len(slice) = Values[step] * PerVal(step)
             /\ \A n \in DOMAIN slice :
                  IF n = Len(slice) THEN slice[n].mark = "end"
                  ELSE <<slice[n].mark, slice[n].count>> = <<"line", n>>
<1>1. DOMAIN slice = 1..Len(slice) /\ Len(slice) \in Nat
  <2> DEFINE Line == [mark : {"line", "end", "zeros"}, count : Nat, a : Nat, b : Nat]
  <2>1. slice \in Seq(Line)
    BY SlicesAssumption
  <2> HIDE DEF Line
  <2> QED
    BY <2>1
<1>2. Len(slice) = Values[step] * PerVal(step) => Len(slice) \in 1..Len(slice)
  <2>1. Values[step] \in Nat \ {0} /\ PerVal(step) \in {1, 2}
    BY StepsAssumption DEF PerVal
  <2> QED
    BY <1>1, <2>1
<1> DEFINE lines == \A n \in 1..Len(slice) - 1 : slice[n].mark = "line" /\ slice[n].count = n
           all == \A n \in 1..Len(slice) :
                    IF n = Len(slice) THEN slice[n].mark = "end"
                    ELSE <<slice[n].mark, slice[n].count>> = <<"line", n>>
<1>3. ASSUME Len(slice) \in 1..Len(slice)
      PROVE  all <=> lines /\ slice[Len(slice)].mark = "end"
  <2>1. \A n : n \in 1..Len(slice) - 1 <=> n \in 1..Len(slice) /\ n # Len(slice)
    BY <1>1
  <2> QED
    BY <1>3, <2>1
<1> QED
  BY <1>1, <1>2, <1>3 DEF Validate

(* What the code computes of a slice is what is promised of the step: the  *)
(* first value nearest to mid-scale, the first of the largest sum, or the  *)
(* value before the first that is near saturation.                         *)
THEOREM PicksAsPromised ==
    ASSUME NEW step \in Steps, NEW slice \in Slices
    PROVE  /\ Compute(step, slice) = Promised(step, slice)
           /\ Compute(step, slice) \in Nat \cup {None}
<1>1. CASE ~Validate(step, slice)
  BY <1>1, ValidAsPromised, Zenon DEF Compute, Promised
<1>2. CASE Validate(step, slice)
  <2> DEFINE L == Values[step]
             sums == SweepSums(step, slice)
             last == sums[Len(sums)]
             all == DOMAIN sums
             closest == {n \in all : \A m \in all : Distance(sums[n]) <= Distance(sums[m])}
             largest == {n \in all : \E l \in {sums[n].a, sums[n].b} :
                            \A k \in all : l >= sums[k].a /\ l >= sums[k].b}
             clear == {n \in all : \A m \in 1..n : ~NearA(sums[m], last)}
             at == CASE step = "PgaOffset" -> ComputePgaOffset(sums)
                     [] step = "Adc" -> ComputeAdc(sums)
                     [] step = "PgaGain" -> ComputePgaGain(sums)
  <2>1. Len(slice) = L * PerVal(step)
    BY <1>2 DEF Validate
  <2>2. sums \in Sums(L) /\ Len(sums) = L /\ all = 1..L /\ L \in Nat \ {0}
    BY <2>1, SumTypes
  <2>3. Compute(step, slice) = IF at = None THEN None ELSE FirstValue(step) + at - 1
    BY <1>2, Zenon DEF Compute
  <2>4. Promised(step, slice) =
          CASE step = "PgaOffset" -> FirstValue(step) + First(closest) - 1
            [] step = "Adc" -> FirstValue(step) + First(largest) - 1
            [] step = "PgaGain" ->
                 IF last.a = last.b THEN None
                 ELSE FirstValue(step) + (IF clear = {} THEN 1 ELSE Cardinality(clear)) - 1
    BY <1>2, ValidAsPromised, Zenon DEF Promised
  <2>5. FirstValue(step) \in Nat /\ None \notin Nat
    BY NoneAssumption DEF FirstValue
  <2> HIDE DEF sums, L
  <2>6. CASE step = "PgaOffset"
    <3>1. ComputePgaOffset(sums) = First(closest) /\ First(closest) \in 1..L
      BY <2>2, PgaOffsetPicks
    <3> QED
      BY <2>2, <2>3, <2>4, <2>5, <2>6, <3>1
  <2>7. CASE step = "Adc"
    <3>1. ComputeAdc(sums) = First(largest) /\ First(largest) \in 1..L
      BY <2>2, AdcPicks
    <3> QED
      BY <2>2, <2>3, <2>4, <2>5, <2>7, <3>1
  <2>8. CASE step = "PgaGain"
    <3>1. /\ ComputePgaGain(sums) \in 1..L \cup {None}
          /\ ComputePgaGain(sums) = IF last.a = last.b THEN None
                                    ELSE IF clear = {} THEN 1 ELSE Cardinality(clear)
          /\ Cardinality(clear) \in Nat
      BY <2>2, PgaGainPicks
    <3>2. at = ComputePgaGain(sums)
      BY <2>8
    <3>3. Promised(step, slice) =
            IF last.a = last.b THEN None
            ELSE FirstValue(step) + (IF clear = {} THEN 1 ELSE Cardinality(clear)) - 1
      BY <2>4, <2>8
    <3> HIDE DEF at, clear
    <3>4. CASE last.a = last.b
      BY <2>3, <3>1, <3>2, <3>3, <3>4
    <3>5. CASE last.a # last.b
      <4>1. /\ at = IF clear = {} THEN 1 ELSE Cardinality(clear)
            /\ Promised(step, slice) = FirstValue(step) + at - 1
        BY <3>1, <3>2, <3>3, <3>5
      <4>2. at = None \/ (at \in Nat /\ at > 0)
        BY <2>2, <3>1, <3>2
      <4>3. at \in Nat
        BY <3>1, <4>1
      <4> QED
        BY <2>3, <2>5, <4>1, <4>2, <4>3
    <3> QED
      BY <3>4, <3>5
  <2> QED
    BY <2>6, <2>7, <2>8 DEF Steps
<1> QED
  BY <1>1, <1>2
-----------------------------------------------------------------------------
(* The patches.                                                            *)

(* A command with val in the overrides that are step's.                    *)
Overridden(step, cmd, val) ==
    [p \in DOMAIN cmd |-> IF IsOverride(cmd, p) /\ StepOf(cmd[p].reg) = step
                          THEN [cmd[p] EXCEPT !.val = val] ELSE cmd[p]]

LEMMA CommandParts ==
    ASSUME NEW cmd \in Command
    PROVE  /\ Len(cmd) \in Nat /\ DOMAIN cmd = 1..Len(cmd)
           /\ \A p \in DOMAIN cmd : cmd[p] \in RegWrite /\ cmd[p].reg \in Registers
<1>1. cmd \in Seq(RegWrite)
  BY DEF Command, RegWrite
<1>2. \A w \in RegWrite : w.reg \in Registers
  BY DEF RegWrite
<1> HIDE DEF RegWrite
<1> QED
  BY <1>1, <1>2

(* patch_reg writes to the override of the register, if it has one.        *)
LEMMA RegPatched ==
    ASSUME NEW cmd \in Command, NEW reg \in {"offset", "gain1", "gain2"}, NEW val
    PROVE  PatchReg(cmd, reg, val) =
             [p \in DOMAIN cmd |-> IF IsOverride(cmd, p) /\ cmd[p].reg = reg
                                   THEN [cmd[p] EXCEPT !.val = val] ELSE cmd[p]]
<1> DEFINE W == Writes(cmd, reg)
           L == Len(cmd)
<1>1. /\ L \in Nat /\ DOMAIN cmd = 1..L /\ W \subseteq 1..L
      /\ \A p \in 1..L : p \in W <=> cmd[p].reg = reg
  BY CommandParts DEF Writes
<1>2. IsFiniteSet(W) /\ Cardinality(W) \in Nat
  <2>1. IsFiniteSet(1..L)
    BY <1>1, FS_Interval
  <2>2. IsFiniteSet(W)
    BY <1>1, <2>1, FS_Subset
  <2> QED
    BY <2>2, FS_CardinalityType
<1>3. ASSUME NEW p \in 1..L, cmd[p].reg = reg
      PROVE  IsOverride(cmd, p) <=> (\E q \in W : q < p) /\ (\A q \in W : q <= p)
  <2>1. IsOverride(cmd, p) <=> /\ \E q \in 1..p - 1 : cmd[q].reg = reg
                               /\ \A q \in p + 1..L : cmd[q].reg # reg
    BY <1>3 DEF IsOverride
  <2>2. (\E q \in 1..p - 1 : cmd[q].reg = reg) <=> (\E q \in W : q < p)
    BY <1>1
  <2>3. (\A q \in p + 1..L : cmd[q].reg # reg) <=> (\A q \in W : q <= p)
    BY <1>1
  <2> QED
    BY <2>1, <2>2, <2>3
<1> HIDE DEF W, L
<1>4. CASE Cardinality(W) < 2
  <2>1. ASSUME NEW p \in W, NEW q \in W PROVE p = q
    <3> SUFFICES ASSUME p # q PROVE FALSE
      OBVIOUS
    <3>1. {p, q} \subseteq W /\ Cardinality({p, q}) = 2
      <4>1. IsFiniteSet({p}) /\ Cardinality({p}) = 1
        BY FS_Singleton
      <4>2. q \notin {p} /\ {p} \cup {q} = {p, q}
        OBVIOUS
      <4>3. Cardinality({p} \cup {q}) = Cardinality({p}) + 1
        BY <4>1, <4>2, FS_AddElement
      <4> QED
        BY <4>1, <4>2, <4>3
    <3>2. Cardinality({p, q}) <= Cardinality(W)
      BY <1>2, <3>1, FS_Subset
    <3> QED
      BY <1>2, <1>4, <3>1, <3>2
  <2>2. \A p \in 1..L : ~(IsOverride(cmd, p) /\ cmd[p].reg = reg)
    <3> SUFFICES ASSUME NEW p \in 1..L, cmd[p].reg = reg, IsOverride(cmd, p)
                 PROVE  FALSE
      OBVIOUS
    <3>1. p \in W /\ p \in Nat
      BY <1>1
    <3>2. PICK q \in W : q < p
      BY <1>3
    <3>3. q = p
      BY <2>1, <3>1
    <3> QED
      BY <3>1, <3>2, <3>3
  <2>3. PatchReg(cmd, reg, val) = cmd
    BY <1>4 DEF PatchReg, W
  <2>4. cmd = [p \in DOMAIN cmd |-> cmd[p]]
    BY <1>1 DEF Command
  <2> QED
    BY <1>1, <2>2, <2>3, <2>4
<1>5. CASE ~(Cardinality(W) < 2)
  <2>1. W # {}
    BY <1>5, FS_EmptySet
  <2>2. PICK m \in W : m = Max(W) /\ \A q \in W : m >= q
    BY <1>1, <2>1, MaxIs
  <2>3. \E q \in W : q # m
    <3> SUFFICES ASSUME \A q \in W : q = m PROVE FALSE
      OBVIOUS
    <3>1. W = {m}
      OBVIOUS
    <3> QED
      BY <1>5, <3>1, FS_Singleton
  <2>4. PatchReg(cmd, reg, val) = [cmd EXCEPT ![m].val = val]
    BY <1>5, <2>2 DEF PatchReg, W
  <2>5. ASSUME NEW p \in 1..L PROVE (IsOverride(cmd, p) /\ cmd[p].reg = reg) <=> p = m
    <3>1. m \in 1..L /\ \A q \in W : q \in Nat
      BY <1>1
    <3>2. CASE p = m
      <4>1. \E q \in W : q < m
        BY <2>2, <2>3, <3>1
      <4> QED
        BY <1>1, <1>3, <2>2, <3>1, <3>2, <4>1
    <3>3. CASE p # m /\ cmd[p].reg = reg
      <4>1. p \in W /\ m >= p
        BY <1>1, <2>2, <3>3
      <4>2. ~(m <= p)
        BY <3>1, <3>3, <4>1
      <4> QED
        BY <1>3, <3>3, <4>2
    <3> QED
      BY <3>2, <3>3
  <2>6. [cmd EXCEPT ![m].val = val] =
          [p \in DOMAIN cmd |-> IF p = m THEN [cmd[p] EXCEPT !.val = val] ELSE cmd[p]]
    BY <1>1, CommandParts, Zenon DEF Command
  <2> QED
    BY <1>1, <2>4, <2>5, <2>6
<1> QED
  BY <1>4, <1>5

(* Whether a write is an override depends on the registers only.           *)
LEMMA SameOverrides ==
    ASSUME NEW c, NEW d, Len(c) = Len(d), Len(c) \in Nat,
           \A p \in 1..Len(c) : c[p].reg = d[p].reg,
           NEW p \in 1..Len(c)
    PROVE  IsOverride(c, p) <=> IsOverride(d, p)
<1>1. (\E q \in 1..p - 1 : c[q].reg = c[p].reg) <=> (\E q \in 1..p - 1 : d[q].reg = d[p].reg)
  <2>1. \A q \in 1..p - 1 : c[q].reg = d[q].reg
    OBVIOUS
  <2> QED
    BY <2>1
<1>2. (\A q \in p + 1..Len(c) : c[q].reg # c[p].reg)
        <=> (\A q \in p + 1..Len(d) : d[q].reg # d[p].reg)
  <2>1. \A q \in p + 1..Len(c) : c[q].reg = d[q].reg
    OBVIOUS
  <2> QED
    BY <2>1
<1> QED
  BY <1>1, <1>2 DEF IsOverride

(* Commands with other values in some of the writes.                       *)
Reval(w, v) == v = w \/ \E val \in Nat : v = [w EXCEPT !.val = val]

LEMMA Revalued ==
    ASSUME NEW cmd \in Command, NEW d,
           d = [p \in DOMAIN cmd |-> d[p]],
           \A p \in DOMAIN cmd : Reval(cmd[p], d[p])
    PROVE  /\ d \in Command /\ Len(d) = Len(cmd) /\ DOMAIN d = DOMAIN cmd
           /\ \A p \in DOMAIN cmd : d[p].reg = cmd[p].reg
           /\ \A p \in DOMAIN cmd : IsOverride(d, p) <=> IsOverride(cmd, p)
<1>1. Len(cmd) \in Nat /\ DOMAIN cmd = 1..Len(cmd) /\ \A p \in DOMAIN cmd : cmd[p] \in RegWrite
  BY CommandParts
<1>2. ASSUME NEW p \in DOMAIN cmd PROVE d[p] \in RegWrite /\ d[p].reg = cmd[p].reg
  <2>1. d[p] = cmd[p] \/ \E val \in Nat : d[p] = [cmd[p] EXCEPT !.val = val]
    BY DEF Reval
  <2> QED
    BY <1>1, <2>1 DEF RegWrite
<1>3. d \in [1..Len(cmd) -> RegWrite]
  BY <1>1, <1>2
<1>4. d \in Seq(RegWrite) /\ Len(d) = Len(cmd) /\ DOMAIN d = 1..Len(cmd)
  BY <1>1, <1>3, Tuples
<1>5. \A p \in DOMAIN cmd : IsOverride(d, p) <=> IsOverride(cmd, p)
  BY <1>1, <1>2, <1>4, SameOverrides
<1> QED
  BY <1>1, <1>2, <1>4, <1>5 DEF Command, RegWrite

LEMMA OverrideStep ==
    ASSUME NEW cmd \in Command, NEW p \in DOMAIN cmd, IsOverride(cmd, p)
    PROVE  /\ StepOf(cmd[p].reg) \in Steps
           /\ StepOf(cmd[p].reg) = "PgaOffset" <=> cmd[p].reg = "offset"
           /\ StepOf(cmd[p].reg) = "Adc" <=> cmd[p].reg = "adc"
           /\ StepOf(cmd[p].reg) = "PgaGain" <=> cmd[p].reg \in {"gain1", "gain2"}
<1>1. cmd[p].reg \in {"offset", "adc", "gain1", "gain2"}
  BY CommandParts DEF IsOverride, Registers
<1> QED
  BY <1>1 DEF StepOf, Steps

(* The patches of a step write to its overrides, all of them.              *)
LEMMA Patched ==
    ASSUME NEW step \in Steps, NEW cmd \in Command, NEW val \in Nat
    PROVE  Patch(step, cmd, val) = Overridden(step, cmd, val)
<1>1. CASE step = "PgaOffset"
  <2>1. Patch(step, cmd, val) = PatchReg(cmd, "offset", val)
    BY <1>1 DEF Patch
  <2>2. \A p \in DOMAIN cmd : (IsOverride(cmd, p) /\ cmd[p].reg = "offset")
                              <=> (IsOverride(cmd, p) /\ StepOf(cmd[p].reg) = step)
    BY <1>1, OverrideStep
  <2> QED
    BY <2>1, <2>2, RegPatched DEF Overridden
<1>2. CASE step = "Adc"
  <2>1. Patch(step, cmd, val) = PatchAdc(cmd, val)
    BY <1>2 DEF Patch
  <2>2. \A p \in DOMAIN cmd : cmd[p].reg = "adc"
                              <=> (IsOverride(cmd, p) /\ StepOf(cmd[p].reg) = step)
    BY <1>2, OverrideStep DEF IsOverride
  <2> QED
    BY <2>1, <2>2 DEF PatchAdc, Overridden
<1>3. CASE step = "PgaGain"
  <2> DEFINE d == PatchReg(cmd, "gain1", val)
             f == [p \in DOMAIN cmd |-> IF IsOverride(cmd, p) /\ cmd[p].reg = "gain1"
                                        THEN [cmd[p] EXCEPT !.val = val] ELSE cmd[p]]
  <2>1. Patch(step, cmd, val) = PatchReg(d, "gain2", val)
    BY <1>3 DEF Patch
  <2>2. d = f
    BY RegPatched
  <2>3. /\ d \in Command /\ Len(d) = Len(cmd) /\ DOMAIN d = DOMAIN cmd
        /\ \A p \in DOMAIN cmd : d[p].reg = cmd[p].reg
        /\ \A p \in DOMAIN cmd : IsOverride(d, p) <=> IsOverride(cmd, p)
    <3>1. \A p \in DOMAIN cmd : Reval(cmd[p], d[p])
      BY <2>2 DEF Reval
    <3>2. d = [p \in DOMAIN cmd |-> d[p]]
      BY <2>2
    <3> HIDE DEF d, f
    <3> QED
      BY <3>1, <3>2, Revalued
  <2>4. \A p \in DOMAIN cmd : d[p] = IF IsOverride(cmd, p) /\ cmd[p].reg = "gain1"
                                     THEN [cmd[p] EXCEPT !.val = val] ELSE cmd[p]
    BY <2>2
  <2> HIDE DEF d, f
  <2>5. PatchReg(d, "gain2", val) =
          [p \in DOMAIN d |-> IF IsOverride(d, p) /\ d[p].reg = "gain2"
                              THEN [d[p] EXCEPT !.val = val] ELSE d[p]]
    BY <2>3, RegPatched
  <2>6. ASSUME NEW p \in DOMAIN cmd
        PROVE  (IF IsOverride(d, p) /\ d[p].reg = "gain2"
                THEN [d[p] EXCEPT !.val = val] ELSE d[p])
               = IF IsOverride(cmd, p) /\ StepOf(cmd[p].reg) = step
                 THEN [cmd[p] EXCEPT !.val = val] ELSE cmd[p]
    <3>1. IsOverride(cmd, p) => (StepOf(cmd[p].reg) = step <=> cmd[p].reg \in {"gain1", "gain2"})
      BY <1>3, OverrideStep
    <3> QED
      BY <2>3, <2>4, <3>1
  <2> QED
    BY <2>1, <2>3, <2>5, <2>6 DEF Overridden
<1> QED
  BY <1>1, <1>2, <1>3 DEF Steps

-----------------------------------------------------------------------------
(* The invariant.                                                          *)

(* The j-th command as recorded, but for the overrides of the steps before *)
(* it, which hold what those chose.                                        *)
Chose(j, ch, p) == /\ IsOverride(Recorded[j], p)
                   /\ StepAt[StepOf(Recorded[j][p].reg)] < j
                   /\ ch[StepOf(Recorded[j][p].reg)] # None
AsChosen(j, ch) ==
    [p \in DOMAIN Recorded[j] |->
       IF Chose(j, ch, p)
       THEN [Recorded[j][p] EXCEPT !.val = ch[StepOf(Recorded[j][p].reg)]]
       ELSE Recorded[j][p]]

CarriedInv ==
    /\ TypeOK
    /\ \A j \in DOMAIN Recorded : seq[j] = AsChosen(j, chosen)
    /\ unit = "prepare" => \A s \in Steps : chosen[s] # None => StepAt[s] < idx
    /\ SentAsChosen

LEMMA AsChosenParts ==
    ASSUME NEW j \in DOMAIN Recorded, NEW ch \in [Steps -> Nat \cup {None}]
    PROVE  /\ Recorded[j] \in Command
           /\ AsChosen(j, ch) \in Command
           /\ DOMAIN AsChosen(j, ch) = DOMAIN Recorded[j]
           /\ \A p \in DOMAIN Recorded[j] :
                 /\ AsChosen(j, ch)[p].reg = Recorded[j][p].reg
                 /\ IsOverride(AsChosen(j, ch), p) <=> IsOverride(Recorded[j], p)
                 /\ Chose(j, ch, p) => ch[StepOf(Recorded[j][p].reg)] \in Nat
<1> DEFINE was == Recorded[j]
           d == AsChosen(j, ch)
<1>1. was \in Command
  BY RecordedAssumption
<1>2. ASSUME NEW p \in DOMAIN was, Chose(j, ch, p)
      PROVE  ch[StepOf(was[p].reg)] \in Nat
  BY <1>1, <1>2, OverrideStep DEF Chose
<1>3. ASSUME NEW p \in DOMAIN was
      PROVE  Reval(was[p], d[p])
  BY <1>2 DEF AsChosen, Reval
<1>4. DOMAIN d = DOMAIN was /\ d = [p \in DOMAIN was |-> d[p]]
  BY DEF AsChosen
<1> HIDE DEF d, was
<1>5. /\ d \in Command
      /\ \A p \in DOMAIN was : d[p].reg = was[p].reg
      /\ \A p \in DOMAIN was : IsOverride(d, p) <=> IsOverride(was, p)
  BY <1>1, <1>3, <1>4, Revalued
<1> QED
  BY <1>1, <1>2, <1>4, <1>5 DEF d, was

(* A patch of the commands behind a sweep is what its step chose.          *)
LEMMA PatchChooses ==
    ASSUME NEW j \in DOMAIN Recorded, NEW ch \in [Steps -> Nat \cup {None}],
           NEW step \in Steps, ch[step] = None, StepAt[step] < j,
           NEW new, new[step] \in Nat, \A s \in Steps : s # step => new[s] = ch[s]
    PROVE  Patch(step, AsChosen(j, ch), new[step]) = AsChosen(j, new)
<1> DEFINE was == Recorded[j]
           d == AsChosen(j, ch)
           val == new[step]
<1>1. /\ d \in Command /\ DOMAIN d = DOMAIN was /\ was \in Command
      /\ \A p \in DOMAIN was : /\ d[p].reg = was[p].reg
                               /\ IsOverride(d, p) <=> IsOverride(was, p)
  BY AsChosenParts
<1>2. Patch(step, d, val) =
        [p \in DOMAIN was |-> IF IsOverride(d, p) /\ StepOf(d[p].reg) = step
                              THEN [d[p] EXCEPT !.val = val] ELSE d[p]]
  BY <1>1, Patched DEF Overridden
<1>3. \A p \in DOMAIN was : d[p] = IF Chose(j, ch, p)
                                   THEN [was[p] EXCEPT !.val = ch[StepOf(was[p].reg)]]
                                   ELSE was[p]
  BY DEF AsChosen
<1> HIDE DEF d
<1>4. ASSUME NEW p \in DOMAIN was
      PROVE  (IF IsOverride(d, p) /\ StepOf(d[p].reg) = step
              THEN [d[p] EXCEPT !.val = val] ELSE d[p])
             = IF Chose(j, new, p) THEN [was[p] EXCEPT !.val = new[StepOf(was[p].reg)]]
               ELSE was[p]
  <2>1. IsOverride(was, p) => StepOf(was[p].reg) \in Steps
    BY <1>1, OverrideStep
  <2>2. val # None /\ new[step] = val /\ \A s \in Steps : s # step => new[s] = ch[s]
    BY NoneAssumption
  <2>3. CASE IsOverride(was, p) /\ StepOf(was[p].reg) = step
    <3>1. ~Chose(j, ch, p) /\ Chose(j, new, p)
      BY <2>2, <2>3 DEF Chose
    <3>2. d[p] = was[p] /\ IsOverride(d, p) /\ StepOf(d[p].reg) = step
      BY <1>1, <1>3, <2>3, <3>1
    <3> QED
      BY <2>2, <2>3, <3>1, <3>2
  <2>4. CASE ~(IsOverride(was, p) /\ StepOf(was[p].reg) = step)
    <3>1. Chose(j, new, p) <=> Chose(j, ch, p)
      BY <2>1, <2>2, <2>4 DEF Chose
    <3>2. Chose(j, ch, p) => new[StepOf(was[p].reg)] = ch[StepOf(was[p].reg)]
      BY <2>1, <2>2, <2>4 DEF Chose
    <3>3. ~(IsOverride(d, p) /\ StepOf(d[p].reg) = step)
      BY <1>1, <2>4
    <3> QED
      BY <1>3, <3>1, <3>2, <3>3
  <2> QED
    BY <2>3, <2>4
<1>5. AsChosen(j, new) =
        [p \in DOMAIN was |-> IF Chose(j, new, p)
                              THEN [was[p] EXCEPT !.val = new[StepOf(was[p].reg)]]
                              ELSE was[p]]
  BY DEF AsChosen
<1>6. Patch(step, d, val) = AsChosen(j, new)
  BY <1>2, <1>4, <1>5, Zenon
<1> QED
  BY <1>6 DEF d

(* The commands up to a sweep do not hold what its step chose.             *)
LEMMA ChoosesLater ==
    ASSUME NEW j \in DOMAIN Recorded, NEW ch, NEW new, NEW step \in Steps,
           ~(StepAt[step] < j), \A s \in Steps : s # step => new[s] = ch[s]
    PROVE  AsChosen(j, new) = AsChosen(j, ch)
<1>1. ASSUME NEW p \in DOMAIN Recorded[j]
      PROVE  /\ Chose(j, new, p) <=> Chose(j, ch, p)
             /\ Chose(j, ch, p) =>
                  new[StepOf(Recorded[j][p].reg)] = ch[StepOf(Recorded[j][p].reg)]
  <2>1. Recorded[j] \in Command
    BY RecordedAssumption
  <2>2. IsOverride(Recorded[j], p) => StepOf(Recorded[j][p].reg) \in Steps
    BY <2>1, OverrideStep
  <2> QED
    BY <2>2 DEF Chose
<1> QED
  BY <1>1 DEF AsChosen

LEMMA IndicesIn ==
    ASSUME NEW u \in Units
    PROVE  /\ Indices(u) \subseteq DOMAIN Recorded
           /\ Min(Indices(u)) \in Nat
           /\ DOMAIN Recorded = 1..Len(Recorded) /\ Len(Recorded) \in Nat
<1>1. DOMAIN Recorded = 1..Len(Recorded) /\ Len(Recorded) \in Nat
  BY RecordedAssumption
<1>2. Indices(u) \in {Prepare, Window, Finish}
  BY DEF Indices, Units
<1>3. PICK i \in 1..Len(Recorded), j \in 1..Len(Recorded) : Indices(u) = i..j
  BY <1>1, <1>2, UnitsAssumption
<1>4. Indices(u) \subseteq 1..Len(Recorded) /\ Indices(u) # {}
  <2>1. Indices(u) # {}
    BY <1>2, UnitsAssumption
  <2> QED
    BY <1>1, <1>3, <2>1
<1>5. Min(Indices(u)) \in Nat
  BY <1>4, MinIs
<1> QED
  BY <1>1, <1>4, <1>5

(* The sequence that is loaded holds no choice.                            *)
LEMMA Loaded ==
    /\ Min(Prepare) \in Nat
    /\ \A j \in DOMAIN Recorded : Recorded[j] = AsChosen(j, [s \in Steps |-> None])
<1>1. Min(Prepare) \in Nat
  BY IndicesIn DEF Units, Indices
<1>2. ASSUME NEW j \in DOMAIN Recorded
      PROVE  Recorded[j] = AsChosen(j, [s \in Steps |-> None])
  <2>1. Recorded[j] \in Command
    BY RecordedAssumption
  <2>2. Recorded[j] = [p \in DOMAIN Recorded[j] |-> Recorded[j][p]]
    BY <2>1 DEF Command
  <2>3. \A p \in DOMAIN Recorded[j] : ~Chose(j, [s \in Steps |-> None], p)
    BY <2>1, OverrideStep DEF Chose
  <2> QED
    BY <2>2, <2>3 DEF AsChosen
<1> QED
  BY <1>1, <1>2

LEMMA InitCarried == Init => CarriedInv
BY Loaded, RecordedAssumption DEF Init, CarriedInv, TypeOK, Units, SentAsChosen

LEMMA NewCarried == New => CarriedInv'
BY Loaded, RecordedAssumption DEF New, CarriedInv, TypeOK, Units, SentAsChosen

LEMMA SendCarried ==
    ASSUME CarriedInv, Send
    PROVE  CarriedInv'
<1>1. /\ idx \in DOMAIN Recorded /\ idx \in Nat /\ idx \in Indices(unit)
      /\ chosen \in [Steps -> Nat \cup {None}]
      /\ seq \in Seq(Command) /\ Len(seq) = Len(Recorded)
      /\ DOMAIN Recorded = 1..Len(Recorded) /\ Len(Recorded) \in Nat
      /\ DOMAIN seq = DOMAIN Recorded
  BY IndicesIn DEF Send, CarriedInv, TypeOK
<1>2. /\ sent' = [idx |-> idx, cmd |-> seq[idx]] /\ idx' = idx + 1 /\ unit' = unit
  BY DEF Send
<1>3. \A j \in DOMAIN Recorded : seq[j] = AsChosen(j, chosen)
  BY DEF CarriedInv
<1>4. PICK slice \in Slices :
         /\ seq' = CarryForward(idx, slice, seq)
         /\ chosen' = [s \in Steps |-> IF StepAt[s] = idx
                                       THEN Promised(s, slice) ELSE chosen[s]]
  BY DEF Send
<1>5. chosen' \in [Steps -> Nat \cup {None}]
  BY <1>1, <1>4, PicksAsPromised
<1>6. seq' \in Seq(Command) /\ Len(seq') = Len(Recorded)
      /\ \A j \in DOMAIN Recorded : seq'[j] = AsChosen(j, chosen')
  <2>1. CASE \A step \in Steps : StepAt[step] # idx
    <3>1. seq' = seq
      BY <1>4, <2>1 DEF CarryForward
    <3>2. chosen' = chosen
      BY <1>1, <1>4, <2>1
    <3> QED
      BY <1>1, <1>3, <3>1, <3>2
  <2>2. CASE \E step \in Steps : StepAt[step] = idx
    <3>1. PICK step \in Steps : StepAt[step] = idx
      BY <2>2
    <3> DEFINE val == Compute(step, slice)
    <3>2. \A s \in Steps : StepAt[s] = idx => s = step
      BY <3>1, StepsAssumption
    <3>3. (CHOOSE s \in Steps : StepAt[s] = idx) = step
      BY <3>1, <3>2
    <3>4. CarryForward(idx, slice, seq) =
            IF val = None THEN seq
            ELSE [j \in DOMAIN seq |-> IF j > idx THEN Patch(step, seq[j], val) ELSE seq[j]]
      BY <3>1, <3>3, Zenon DEF CarryForward
    <3>5. val = Promised(step, slice) /\ val \in Nat \cup {None}
      BY PicksAsPromised
    <3> HIDE DEF val
    <3>6. chosen'[step] = val /\ \A s \in Steps : s # step => chosen'[s] = chosen[s]
      BY <1>4, <3>1, <3>2, <3>5
    <3>7. chosen[step] = None
      <4>1. unit = "prepare"
        BY <1>1, <3>1, SweepsAssumption DEF CarriedInv, TypeOK, Units, Indices
      <4>2. ~(StepAt[step] < idx)
        BY <1>1, <3>1
      <4> QED
        BY <4>1, <4>2 DEF CarriedInv
    <3>8. CASE val = None
      <4>1. seq' = seq
        BY <1>4, <3>4, <3>8
      <4>2. \A s \in Steps : chosen'[s] = chosen[s]
        BY <3>6, <3>7, <3>8
      <4>3. chosen' = chosen
        BY <1>1, <1>5, <4>2
      <4> QED
        BY <1>1, <1>3, <4>1, <4>3
    <3>9. CASE val # None
      <4>1. val \in Nat
        BY <3>5, <3>9
      <4>2. seq' = [j \in 1..Len(Recorded) |-> IF j > idx THEN Patch(step, seq[j], val)
                                               ELSE seq[j]]
        BY <1>1, <1>4, <3>4, <3>9
      <4>3. ASSUME NEW j \in 1..Len(Recorded)
            PROVE  seq'[j] = AsChosen(j, chosen') /\ seq'[j] \in Command
        <5>1. AsChosen(j, chosen') \in Command
          BY <1>1, <1>5, AsChosenParts
        <5>2. seq[j] = AsChosen(j, chosen) /\ j \in DOMAIN Recorded
          BY <1>1, <1>3
        <5>3. CASE j > idx
          <6>1. seq'[j] = Patch(step, AsChosen(j, chosen), val)
            BY <4>2, <5>2, <5>3
          <6>2. StepAt[step] < j
            BY <1>1, <3>1, <5>3
          <6>3. Patch(step, AsChosen(j, chosen), chosen'[step]) = AsChosen(j, chosen')
            BY <1>1, <3>6, <3>7, <4>1, <5>2, <6>2, PatchChooses
          <6> QED
            BY <3>6, <5>1, <6>1, <6>3
        <5>4. CASE ~(j > idx)
          <6>1. seq'[j] = seq[j]
            BY <4>2, <5>4
          <6>2. ~(StepAt[step] < j)
            BY <1>1, <3>1, <5>4
          <6>3. AsChosen(j, chosen') = AsChosen(j, chosen)
            BY <3>6, <5>2, <6>2, ChoosesLater
          <6> QED
            BY <5>1, <5>2, <6>1, <6>3
        <5> QED
          BY <5>3, <5>4
      <4>4. seq' \in [1..Len(Recorded) -> Command]
        BY <4>2, <4>3
      <4> QED
        BY <1>1, <4>3, <4>4, Tuples
    <3> QED
      BY <3>8, <3>9
  <2> QED
    BY <2>1, <2>2
<1>7. TypeOK'
  <2>1. seq[idx] \in Command
    BY <1>1
  <2> QED
    BY <1>1, <1>2, <1>5, <1>6, <2>1 DEF TypeOK, CarriedInv
<1>8. unit' = "prepare" => \A s \in Steps : chosen'[s] # None => StepAt[s] < idx'
  <2> SUFFICES ASSUME unit' = "prepare", NEW s \in Steps, chosen'[s] # None
               PROVE  StepAt[s] < idx'
    OBVIOUS
  <2>1. StepAt[s] = idx \/ (chosen[s] # None /\ unit = "prepare")
    BY <1>2, <1>4
  <2>2. StepAt[s] = idx \/ StepAt[s] < idx
    BY <2>1 DEF CarriedInv
  <2>3. StepAt[s] \in Nat
    BY <1>1, StepsAssumption
  <2> QED
    BY <1>1, <1>2, <2>2, <2>3
<1>9. SentAsChosen'
  <2>1. sent'.idx = idx /\ sent'.cmd = AsChosen(idx, chosen)
    BY <1>1, <1>2, <1>3
  <2>2. AsChosen(idx, chosen') = AsChosen(idx, chosen)
    <3>1. CASE \A s \in Steps : StepAt[s] # idx
      <4>1. chosen' = chosen
        BY <1>1, <1>4, <3>1
      <4> QED
        BY <4>1
    <3>2. CASE \E s \in Steps : StepAt[s] = idx
      <4>1. PICK step \in Steps : StepAt[step] = idx
        BY <3>2
      <4>2. \A s \in Steps : s # step => chosen'[s] = chosen[s]
        BY <1>4, <4>1, StepsAssumption
      <4>3. ~(StepAt[step] < idx)
        BY <1>1, <4>1
      <4> QED
        BY <1>1, <4>2, <4>3, ChoosesLater
    <3> QED
      BY <3>1, <3>2
  <2>3. sent'.cmd = AsChosen(sent'.idx, chosen')
    BY <2>1, <2>2
  <2> QED
    BY <2>3, Zenon DEF SentAsChosen, AsChosen, Chose
<1> QED
  BY <1>6, <1>7, <1>8, <1>9 DEF CarriedInv

LEMMA BeginCarried ==
    ASSUME CarriedInv, NEW u \in {"window", "finish"}, Begin(u)
    PROVE  CarriedInv'
<1>1. unit' = u /\ idx' = Min(Indices(u)) /\ UNCHANGED <<seq, sent, chosen>> /\ u \in Units
  BY DEF Begin, Units
<1>2. TypeOK'
  BY <1>1, IndicesIn DEF CarriedInv, TypeOK
<1>3. SentAsChosen'
  BY <1>1 DEF CarriedInv, SentAsChosen
<1>4. \A j \in DOMAIN Recorded : seq'[j] = AsChosen(j, chosen')
  BY <1>1 DEF CarriedInv
<1> QED
  BY <1>1, <1>2, <1>3, <1>4 DEF CarriedInv

LEMMA CarriedNext == CarriedInv /\ [Next]_vars => CarriedInv'
<1> SUFFICES ASSUME CarriedInv, [Next]_vars PROVE CarriedInv'
  OBVIOUS
<1>1. CASE New
  BY <1>1, NewCarried
<1>2. CASE UNCHANGED vars
  BY <1>2 DEF vars, CarriedInv, TypeOK, SentAsChosen, AsChosen, Chose
<1> QED
  BY <1>1, <1>2, SendCarried, BeginCarried DEF Next

LEMMA CarriedHolds == Spec => []CarriedInv
BY InitCarried, CarriedNext, PTL DEF Spec

(* Every state of a capture is well-typed, for any recorded sequence, any  *)
(* sweeps and whatever EP2 delivers (calib.rs:214-247).                    *)
THEOREM CalibrationTypes == Spec => []TypeOK
BY CarriedHolds, PTL DEF CarriedInv

(* Each command goes out as recorded but for its overrides, which carry    *)
(* what the steps before it were promised to choose from the sweeps of     *)
(* this capture (calib.rs:214-247, capture.rs:513-590).                    *)
THEOREM CalibrationCarried == Spec => []SentAsChosen
BY CarriedHolds, PTL DEF CarriedInv
=============================================================================
