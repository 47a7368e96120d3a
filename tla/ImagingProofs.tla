--------------------------- MODULE ImagingProofs ----------------------------
(***************************************************************************)
(* Proofs about Imaging, for streams and pictures of any size and          *)
(* DliConfigs of any width: what each of its steps computes is right.      *)
(*                                                                         *)
(* First the operators of module Frames, then an invariant of the steps.   *)
(***************************************************************************)
EXTENDS Imaging, SwipeProofs

-----------------------------------------------------------------------------
(* The raw band.                                                           *)

(* Where the search for the end of a gap stops.                            *)
LEMMA GapEndIs ==
    ASSUME NEW n \in Nat, NEW a, NEW j \in 0..n - 1
    PROVE  LET k == GapEnd(a, n, j) IN
           /\ k \in j..n /\ k - j <= Bridge
           /\ \A g \in j..k - 1 : ~a[g]
           /\ k = n \/ a[k] \/ k - j = Bridge
           /\ ~a[j] => k > j
<1> DEFINE Stop(k) == k = n \/ a[k] \/ k - j = Bridge
           S == {k \in j..n : Stop(k)}
           Q(k) == /\ \A g \in j..k - 1 : ~a[g] /\ g - j < Bridge
                   /\ k = n \/ a[k] \/ k - j = Bridge
<1>1. Bridge \in Nat \ {0} /\ j \in Nat
  BY BridgeAssumption
<1>2. PICK m \in S : \A x \in S : m <= x
  <2>1. n \in S /\ S \in SUBSET Nat
    BY <1>1
  <2> QED
    BY <2>1, Least
<1>3. Q(m)
  <2>1. ASSUME NEW g \in j..m - 1 PROVE ~a[g] /\ g - j < Bridge
    <3>1. g \in j..n /\ ~(m <= g)
      BY <1>1, <1>2
    <3>2. ~Stop(g)
      BY <1>2, <3>1
    <3>3. ~a[g] /\ g - j # Bridge
      BY <3>2
    <3>4. CASE g - j > Bridge
      <4>1. j + Bridge \in j..n /\ j + Bridge < m /\ (j + Bridge) - j = Bridge
        BY <1>1, <3>1, <3>4
      <4>2. Stop(j + Bridge)
        BY <4>1
      <4>3. j + Bridge \in S
        BY <4>1, <4>2
      <4> QED
        BY <1>1, <1>2, <4>1, <4>3
    <3> QED
      BY <1>1, <3>3, <3>4
  <2> QED
    BY <1>2, <2>1
<1> DEFINE k == GapEnd(a, n, j)
<1>4. k \in j..n /\ Q(k)
  BY <1>2, <1>3 DEF GapEnd
<1> HIDE DEF k
<1>5. k - j <= Bridge
  <2> SUFFICES ASSUME k - j > Bridge PROVE FALSE
    BY <1>1, <1>4
  <2>1. j + Bridge \in j..k - 1 /\ ~((j + Bridge) - j < Bridge)
    BY <1>1, <1>4
  <2> QED
    BY <1>4, <2>1
<1>6. ~a[j] => k > j
  BY <1>1, <1>4
<1>7. (\A g \in j..k - 1 : ~a[g]) /\ (k = n \/ a[k] \/ k - j = Bridge)
  BY <1>4
<1> QED
  BY <1>4, <1>5, <1>6, <1>7 DEF k

(* The end of a band, one row at a time.                                   *)
EndsAt(e, a, n, i) ==
    \A j \in i..n :
        e[j] = IF j = n THEN n
               ELSE IF a[j] THEN e[j + 1]
               ELSE LET k == GapEnd(a, n, j)
                    IN IF k < n /\ a[k] THEN e[k] ELSE j

(* The end of a band is what its recursion says.                           *)
LEMMA BandEndIs ==
    ASSUME NEW n \in Nat, NEW a, NEW i \in 0..n
    PROVE  \E e : EndsAt(e, a, n, i) /\ BandEnd(a, n, i) = e[i]
<1> DEFINE D == i..n
           Body(j, e) == IF j = n THEN n
                         ELSE IF a[j] THEN e[j + 1]
                         ELSE LET k == GapEnd(a, n, j)
                              IN IF k < n /\ a[k] THEN e[k] ELSE j
           F == [j \in D |-> [e \in [D -> Nat] |-> Body(j, e)]]
           rank == [j \in D |-> n - j]
           P(e) == e = [j \in D |-> IF j = n THEN n
                         ELSE IF a[j] THEN e[j + 1]
                         ELSE LET k == GapEnd(a, n, j)
                              IN IF k < n /\ a[k] THEN e[k] ELSE j]
           b == CHOOSE e : P(e)
<1>1. \A j \in D : /\ j \in Nat /\ n - j \in 0..n
                   /\ j # n => /\ j + 1 \in D /\ n - (j + 1) < n - j
                               /\ GapEnd(a, n, j) \in D
                               /\ ~a[j] => n - GapEnd(a, n, j) < n - j
  <2> SUFFICES ASSUME NEW j \in D
               PROVE  /\ j \in Nat /\ n - j \in 0..n
                      /\ j # n => /\ j + 1 \in D /\ n - (j + 1) < n - j
                                  /\ GapEnd(a, n, j) \in D
                                  /\ ~a[j] => n - GapEnd(a, n, j) < n - j
    OBVIOUS
  <2>1. j \in Nat /\ n - j \in 0..n
    OBVIOUS
  <2>2. ASSUME j # n
        PROVE  /\ j + 1 \in D /\ n - (j + 1) < n - j
               /\ GapEnd(a, n, j) \in D
               /\ ~a[j] => n - GapEnd(a, n, j) < n - j
    <3>1. j \in 0..n - 1
      BY <2>2
    <3>2. GapEnd(a, n, j) \in j..n /\ (~a[j] => GapEnd(a, n, j) > j)
      BY <3>1, GapEndIs
    <3> QED
      BY <2>2, <3>2
  <2> QED
    BY <2>1, <2>2
<1>2. \A j \in D : \A e \in [D -> Nat] : F[j][e] = Body(j, e)
  OBVIOUS
<1>3. \A j \in D : \A e \in [D -> Nat] : Body(j, e) \in Nat
  BY <1>1
<1>4. \A j \in D : rank[j] = n - j
  OBVIOUS
<1> HIDE DEF F, rank, D
<1>5. Ranked(rank, D, n) /\ Typed(F, D, Nat)
  BY <1>1, <1>2, <1>3, <1>4 DEF Ranked, Typed
<1>6. Local(F, rank, D, Nat)
  <2> SUFFICES ASSUME NEW j \in D, NEW g \in [D -> Nat], NEW fold \in [D -> Nat],
                      \A k \in D : rank[k] < rank[j] => g[k] = fold[k]
               PROVE  F[j][g] = F[j][fold]
    BY Zenon DEF Local
  <2>1. j # n => /\ g[j + 1] = fold[j + 1]
                 /\ ~a[j] => g[GapEnd(a, n, j)] = fold[GapEnd(a, n, j)]
    BY <1>1, <1>4
  <2>2. Body(j, g) = Body(j, fold)
    BY <2>1
  <2> QED
    BY <1>2, <2>2
<1>7. PICK fold : Solves(fold, F, D, Nat)
  BY <1>5, <1>6, Recursion
<1>8. P(fold)
  <2>1. fold \in [D -> Nat] /\ \A j \in D : fold[j] = Body(j, fold)
    BY <1>2, <1>7 DEF Solves
  <2>2. fold = [j \in D |-> fold[j]]
    BY <2>1
  <2>3. [j \in D |-> fold[j]] = [j \in D |-> Body(j, fold)]
    BY <2>1, Zenon
  <2> QED
    BY <2>2, <2>3
<1>9. P(b)
  BY <1>8, Zenon
<1>10. BandEnd(a, n, i) = b[i]
  BY Zenon DEF BandEnd, D
<1> HIDE DEF b
<1>11. EndsAt(b, a, n, i)
  BY <1>9 DEF EndsAt, D
<1> QED
  BY <1>10, <1>11

(* Rows from..to - 1 reach from high energy to high energy over bridged    *)
(* gaps.                                                                   *)
Band(a, from, to) ==
    /\ a[from] /\ a[to - 1]
    /\ \A x \in from..to - 1 - Bridge : \E z \in x..x + Bridge : a[z]

(* Of the rows from i on, seen from row j: there is a band behind or under *)
(* it, and the band reaches to e.                                          *)
Reaches(a, n, i, j, e) ==
    /\ e \in j..n
    /\ \A z \in e..e + Bridge : z < n => ~a[z]
    /\ (j > i /\ a[j - 1]) \/ (j < n /\ a[j]) =>
          /\ a[e - 1]
          /\ \A x \in j - 1..e - 1 - Bridge : \E z \in x..x + Bridge : a[z]

(* From row j on the band is followed to its end, from the last row back.  *)
LEMMA EndReached ==
    ASSUME NEW n \in Nat, NEW a, NEW i \in 0..n, NEW e, EndsAt(e, a, n, i), NEW j \in i..n,
           \A k \in i..n : k > j => Reaches(a, n, i, k, e[k])
    PROVE  Reaches(a, n, i, j, e[j])
<1>1. i \in Nat /\ j \in Nat /\ Bridge \in Nat \ {0}
  BY BridgeAssumption
<1>2. CASE j = n
  <2>1. e[j] = n
    BY <1>2 DEF EndsAt
  <2>2. \A x \in j - 1..n - 1 - Bridge : FALSE
    BY <1>1, <1>2
  <2>3. \A z \in n..n + Bridge : ~(z < n)
    BY <1>1
  <2> QED
    BY <1>1, <1>2, <2>1, <2>2, <2>3 DEF Reaches
<1>3. CASE j # n /\ a[j]
  <2>1. j + 1 \in i..n /\ j + 1 > j /\ (j + 1) - 1 = j /\ j + 1 > i
    BY <1>1, <1>3
  <2>2. e[j] = e[j + 1]
    BY <1>3 DEF EndsAt
  <2>3. Reaches(a, n, i, j + 1, e[j])
    BY <2>1, <2>2
  <2>4. /\ e[j] \in j + 1..n /\ a[e[j] - 1]
        /\ \A z \in e[j]..e[j] + Bridge : z < n => ~a[z]
        /\ \A x \in j..e[j] - 1 - Bridge : \E z \in x..x + Bridge : a[z]
    BY <1>3, <2>1, <2>3 DEF Reaches
  <2>5. ASSUME NEW x \in j - 1..e[j] - 1 - Bridge PROVE \E z \in x..x + Bridge : a[z]
    <3>1. CASE x = j - 1
      <4>1. j \in x..x + Bridge
        BY <1>1, <3>1
      <4> QED
        BY <1>3, <4>1
    <3>2. CASE x # j - 1
      <4>1. x \in j..e[j] - 1 - Bridge
        BY <1>1, <2>4, <3>2
      <4> QED
        BY <2>4, <4>1
    <3> QED
      BY <3>1, <3>2
  <2>6. e[j] \in j..n
    BY <1>1, <2>4
  <2> QED
    BY <2>4, <2>5, <2>6 DEF Reaches
<1>4. CASE j # n /\ ~a[j]
  <2> DEFINE k == GapEnd(a, n, j)
  <2>1. j \in 0..n - 1
    BY <1>1, <1>4
  <2>2. /\ k \in j..n /\ k - j <= Bridge
        /\ \A g \in j..k - 1 : ~a[g]
        /\ k = n \/ a[k] \/ k - j = Bridge
        /\ k > j
    BY <1>4, <2>1, GapEndIs
  <2>3. e[j] = IF k < n /\ a[k] THEN e[k] ELSE j
    BY <1>4 DEF EndsAt
  <2> HIDE DEF k
  <2>4. CASE k < n /\ a[k]
    <3>1. k \in i..n /\ k > j /\ k \in Nat
      BY <1>1, <2>2
    <3>2. Reaches(a, n, i, k, e[j])
      BY <2>3, <2>4, <3>1
    <3>3. /\ e[j] \in k..n /\ a[e[j] - 1]
          /\ \A z \in e[j]..e[j] + Bridge : z < n => ~a[z]
          /\ \A x \in k - 1..e[j] - 1 - Bridge : \E z \in x..x + Bridge : a[z]
      BY <2>4, <3>2 DEF Reaches
    <3>4. ASSUME j > i /\ a[j - 1], NEW x \in j - 1..e[j] - 1 - Bridge
          PROVE  \E z \in x..x + Bridge : a[z]
      <4>1. CASE x = j - 1
        <5>1. x \in x..x + Bridge
          BY <1>1, <4>1
        <5> QED
          BY <3>4, <4>1, <5>1
      <4>2. CASE x # j - 1 /\ x < k
        <5>1. k \in x..x + Bridge
          BY <1>1, <2>2, <3>1, <4>2
        <5> QED
          BY <2>4, <5>1
      <4>3. CASE ~(x < k)
        <5>1. x \in k - 1..e[j] - 1 - Bridge
          BY <1>1, <3>1, <3>3, <4>3
        <5> QED
          BY <3>3, <5>1
      <4> QED
        BY <4>1, <4>2, <4>3
    <3>5. e[j] \in j..n
      BY <1>1, <3>1, <3>3
    <3> QED
      BY <1>4, <3>3, <3>4, <3>5 DEF Reaches
  <2>5. CASE ~(k < n /\ a[k])
    <3>1. e[j] = j
      BY <2>3, <2>5
    <3>2. ASSUME NEW z \in j..j + Bridge, z < n PROVE ~a[z]
      <4>1. CASE z < k
        <5>1. z \in j..k - 1
          BY <1>1, <2>2, <4>1
        <5> QED
          BY <2>2, <5>1
      <4>2. CASE ~(z < k)
        <5>1. k # n
          BY <1>1, <2>2, <3>2, <4>2
        <5>2. k < n
          BY <1>1, <2>2, <5>1
        <5>3. k - j = Bridge /\ ~a[k]
          BY <2>2, <2>5, <5>1, <5>2
        <5>4. z = k
          BY <1>1, <2>2, <4>2, <5>3
        <5> QED
          BY <5>3, <5>4
      <4> QED
        BY <4>1, <4>2
    <3>3. ASSUME NEW x \in j - 1..j - 1 - Bridge PROVE FALSE
      BY <1>1
    <3>4. j \in j..n
      BY <1>1
    <3> QED
      BY <1>4, <3>1, <3>2, <3>3, <3>4 DEF Reaches
  <2> QED
    BY <2>4, <2>5
<1> QED
  BY <1>2, <1>3, <1>4

(* From a row of high energy: the whole band, and nothing of the next.     *)
LEMMA BandEnds ==
    ASSUME NEW n \in Nat, NEW a, NEW i \in 0..n - 1, a[i]
    PROVE  LET e == BandEnd(a, n, i) IN
           /\ e \in i + 1..n /\ Band(a, i, e)
           /\ \A z \in e..e + Bridge : z < n => ~a[z]
<1>1. i \in 0..n /\ i \in Nat /\ Bridge \in Nat \ {0}
  BY BridgeAssumption
<1>2. PICK e : EndsAt(e, a, n, i) /\ BandEnd(a, n, i) = e[i]
  BY <1>1, BandEndIs
<1> DEFINE S == {m \in 0..n - i : \A j \in i..n : j >= n - m => Reaches(a, n, i, j, e[j])}
<1>3. 0 \in S
  <2>1. ASSUME NEW j \in i..n, j >= n - 0 PROVE Reaches(a, n, i, j, e[j])
    <3>1. \A k \in i..n : k > j => Reaches(a, n, i, k, e[k])
      BY <1>1, <2>1
    <3> QED
      BY <1>1, <1>2, <3>1, EndReached
  <2>2. 0 \in 0..n - i
    BY <1>1
  <2> QED
    BY <2>1, <2>2
<1>4. ASSUME NEW m \in 1..n - i, m - 1 \in S PROVE m \in S
  <2>1. \A k \in i..n : k >= n - (m - 1) => Reaches(a, n, i, k, e[k])
    BY <1>4
  <2>2. ASSUME NEW j \in i..n, j >= n - m PROVE Reaches(a, n, i, j, e[j])
    <3>1. \A k \in i..n : k > j => k >= n - (m - 1)
      BY <1>1, <2>2
    <3>2. \A k \in i..n : k > j => Reaches(a, n, i, k, e[k])
      BY <2>1, <3>1
    <3> QED
      BY <1>1, <1>2, <3>2, EndReached
  <2>3. m \in 0..n - i
    OBVIOUS
  <2> QED
    BY <2>2, <2>3
<1> HIDE DEF S
<1>5. n - i \in S
  <2>1. n - i \in Nat
    BY <1>1
  <2>2. 0..n - i \subseteq S
    BY <1>3, <1>4, <2>1, Induct
  <2> QED
    BY <2>1, <2>2
<1>6. Reaches(a, n, i, i, e[i])
  <2>1. i \in i..n /\ i >= n - (n - i)
    BY <1>1
  <2> QED
    BY <1>5, <2>1 DEF S
<1>7. i < n
  BY <1>1
<1>8. /\ e[i] \in i..n /\ a[e[i] - 1]
      /\ \A z \in e[i]..e[i] + Bridge : z < n => ~a[z]
      /\ \A x \in i - 1..e[i] - 1 - Bridge : \E z \in x..x + Bridge : a[z]
  BY <1>6, <1>7 DEF Reaches
<1>9. e[i] \in i + 1..n
  <2>1. e[i] # i
    <3>1. i \in i..i + Bridge
      BY <1>1
    <3> QED
      BY <1>7, <1>8, <3>1
  <2> QED
    BY <1>1, <1>8, <2>1
<1>10. \A x \in i..e[i] - 1 - Bridge : x \in i - 1..e[i] - 1 - Bridge
  BY <1>1, <1>8
<1>11. Band(a, i, e[i])
  BY <1>8, <1>10 DEF Band
<1> QED
  BY <1>2, <1>8, <1>9, <1>11

(* The longest band of the rows from i on.                                 *)
NoBand == [from |-> 0, to |-> 0]
LongestBand(a, n, i, r) ==
    /\ r \in [from : Nat, to : Nat]
    /\ r = NoBand \/ (r.from \in i..n - 1 /\ r.to \in r.from + 1..n /\ Band(a, r.from, r.to))
    /\ \A f \in i..n - 1 : \A t \in f + 1..n : Band(a, f, t) => t - f <= r.to - r.from

BestBand(a, n, longest, i) ==
    IF i >= n THEN [from |-> 0, to |-> 0]
    ELSE IF ~a[i] THEN longest[i + 1]
    ELSE LET j == BandEnd(a, n, i)
             later == longest[j + 1]
         IN IF later.to - later.from > j - i THEN later
            ELSE [from |-> i, to |-> j]

(* finger_segment is the recursion over the rows from the last one back.   *)
LEMMA FingerSegmentIs ==
    ASSUME NEW n \in Nat, NEW a
    PROVE  \E longest : /\ \A i \in 0..n + 1 : longest[i] = BestBand(a, n, longest, i)
                     /\ FingerSegment(a, n) = longest[0]
<1> DEFINE D == 0..n + 1
           S == [from : Nat, to : Nat]
           F == [i \in D |-> [g \in [D -> S] |-> BestBand(a, n, g, i)]]
           rank == [i \in D |-> n + 1 - i]
           P(longest) == longest = [i \in D |->
            IF i >= n THEN [from |-> 0, to |-> 0]
            ELSE IF ~a[i] THEN longest[i + 1]
            ELSE LET j == BandEnd(a, n, i)
                     later == longest[j + 1]
                 IN IF later.to - later.from > j - i THEN later
                    ELSE [from |-> i, to |-> j]]
           b == CHOOSE longest : P(longest)
<1>1. \A i \in D : /\ i \in Nat /\ n + 1 - i \in 0..n + 1
                   /\ i < n => i + 1 \in D /\ n + 1 - (i + 1) < n + 1 - i
                   /\ i < n /\ a[i] => /\ BandEnd(a, n, i) \in Nat
                                       /\ BandEnd(a, n, i) + 1 \in D
                                       /\ n + 1 - (BandEnd(a, n, i) + 1) < n + 1 - i
  <2> SUFFICES ASSUME NEW i \in D
               PROVE  /\ i \in Nat /\ n + 1 - i \in 0..n + 1
                      /\ i < n => i + 1 \in D /\ n + 1 - (i + 1) < n + 1 - i
                      /\ i < n /\ a[i] => /\ BandEnd(a, n, i) \in Nat
                                          /\ BandEnd(a, n, i) + 1 \in D
                                          /\ n + 1 - (BandEnd(a, n, i) + 1) < n + 1 - i
    OBVIOUS
  <2>1. /\ i \in Nat /\ n + 1 - i \in 0..n + 1
        /\ i < n => i + 1 \in D /\ n + 1 - (i + 1) < n + 1 - i
    OBVIOUS
  <2>2. ASSUME i < n, a[i]
        PROVE  /\ BandEnd(a, n, i) \in Nat
               /\ BandEnd(a, n, i) + 1 \in D
               /\ n + 1 - (BandEnd(a, n, i) + 1) < n + 1 - i
    <3>1. i \in 0..n - 1
      BY <2>1, <2>2
    <3>2. BandEnd(a, n, i) \in i + 1..n
      BY <2>2, <3>1, BandEnds
    <3> QED
      BY <2>1, <3>2
  <2> QED
    BY <2>1, <2>2
<1>2. \A i \in D : \A g \in [D -> S] : F[i][g] = BestBand(a, n, g, i)
  OBVIOUS
<1>3. \A i \in D : \A g \in [D -> S] : BestBand(a, n, g, i) \in S
  <2> SUFFICES ASSUME NEW i \in D, NEW g \in [D -> S] PROVE BestBand(a, n, g, i) \in S
    OBVIOUS
  <2>1. CASE i >= n
    BY <2>1 DEF BestBand
  <2>2. CASE ~(i >= n) /\ ~a[i]
    <3>1. i + 1 \in D
      BY <1>1, <2>2
    <3>2. BestBand(a, n, g, i) = g[i + 1]
      BY <2>2 DEF BestBand
    <3> QED
      BY <3>1, <3>2
  <2>3. CASE ~(i >= n) /\ a[i]
    <3> DEFINE j == BandEnd(a, n, i)
    <3>1. j \in Nat /\ j + 1 \in D /\ i \in Nat
      BY <1>1, <2>3
    <3>2. g[j + 1] \in S /\ [from |-> i, to |-> j] \in S
      BY <3>1
    <3>3. BestBand(a, n, g, i) \in {g[j + 1], [from |-> i, to |-> j]}
      BY <2>3 DEF BestBand
    <3> QED
      BY <3>2, <3>3
  <2> QED
    BY <2>1, <2>2, <2>3
<1>4. \A i \in D : rank[i] = n + 1 - i
  OBVIOUS
<1>5. S # {}
  <2>1. [from |-> 0, to |-> 0] \in S
    OBVIOUS
  <2> QED
    BY <2>1
<1>6. n + 1 \in Nat
  OBVIOUS
<1> HIDE DEF F, rank, D, S
<1>7. Ranked(rank, D, n + 1) /\ Typed(F, D, S)
  BY <1>1, <1>2, <1>3, <1>4 DEF Ranked, Typed
<1>8. Local(F, rank, D, S)
  <2> SUFFICES ASSUME NEW i \in D, NEW g \in [D -> S], NEW fold \in [D -> S],
                      \A k \in D : rank[k] < rank[i] => g[k] = fold[k]
               PROVE  F[i][g] = F[i][fold]
    BY Zenon DEF Local
  <2>1. i < n => /\ g[i + 1] = fold[i + 1]
                 /\ a[i] => g[BandEnd(a, n, i) + 1] = fold[BandEnd(a, n, i) + 1]
    BY <1>1, <1>4
  <2>2. n <= i \/ i < n
    BY <1>1
  <2>3. BestBand(a, n, g, i) = BestBand(a, n, fold, i)
    BY <1>1, <2>1, <2>2 DEF BestBand
  <2> QED
    BY <1>2, <2>3
<1>9. PICK fold : Solves(fold, F, D, S)
  BY <1>5, <1>6, <1>7, <1>8, Recursion
<1>10. P(fold)
  <2>1. fold \in [D -> S] /\ \A i \in D : fold[i] = BestBand(a, n, fold, i)
    BY <1>2, <1>9 DEF Solves
  <2>2. fold = [i \in D |-> fold[i]]
    BY <2>1
  <2>3. [i \in D |-> fold[i]] = [i \in D |-> BestBand(a, n, fold, i)]
    BY <2>1, Zenon
  <2> QED
    BY <2>2, <2>3, Zenon DEF BestBand
<1>11. P(b)
  BY <1>10, Zenon
<1>12. FingerSegment(a, n) = b[0]
  BY Zenon DEF FingerSegment, D
<1> HIDE DEF b
<1>13. \A i \in D : b[i] = BestBand(a, n, b, i)
  BY <1>11, Zenon DEF BestBand
<1> QED
  BY <1>12, <1>13 DEF D

(* Each of its steps keeps the longer band.                                *)
LEMMA BandLonger ==
    ASSUME NEW n \in Nat, NEW a, NEW longest, NEW i \in 0..n + 1,
           longest[i] = BestBand(a, n, longest, i),
           \A k \in 0..n + 1 : k > i => LongestBand(a, n, k, longest[k])
    PROVE  LongestBand(a, n, i, longest[i])
<1>1. i \in Nat /\ Bridge \in Nat \ {0}
  BY BridgeAssumption
<1>2. CASE i >= n
  <2>1. longest[i] = NoBand
    BY <1>2 DEF BestBand, NoBand
  <2>2. NoBand \in [from : Nat, to : Nat]
    BY DEF NoBand
  <2>3. \A f \in i..n - 1 : FALSE
    BY <1>1, <1>2
  <2> QED
    BY <2>1, <2>2, <2>3 DEF LongestBand
<1>3. CASE ~(i >= n) /\ ~a[i]
  <2>1. longest[i] = longest[i + 1]
    BY <1>3 DEF BestBand
  <2>2. LongestBand(a, n, i + 1, longest[i])
    <3>1. i + 1 \in 0..n + 1 /\ i + 1 > i
      BY <1>1, <1>3
    <3> QED
      BY <2>1, <3>1
  <2>3. \A f \in i..n - 1 : \A t \in f + 1..n : Band(a, f, t) => f \in i + 1..n - 1
    <3>1. \A f \in i..n - 1 : f = i \/ f \in i + 1..n - 1
      BY <1>1
    <3> QED
      BY <1>3, <3>1 DEF Band
  <2>4. \A f \in i + 1..n - 1 : f \in i..n - 1
    BY <1>1
  <2> QED
    BY <2>2, <2>3, <2>4 DEF LongestBand
<1>4. CASE ~(i >= n) /\ a[i]
  <2> DEFINE e == BandEnd(a, n, i)
             later == longest[e + 1]
  <2>1. i \in 0..n - 1
    BY <1>1, <1>4
  <2>2. /\ e \in i + 1..n /\ Band(a, i, e)
        /\ \A z \in e..e + Bridge : z < n => ~a[z]
    BY <1>4, <2>1, BandEnds
  <2>3. longest[i] = IF later.to - later.from > e - i THEN later ELSE [from |-> i, to |-> e]
    BY <1>4 DEF BestBand
  <2>4. LongestBand(a, n, e + 1, later)
    <3>1. e + 1 \in 0..n + 1 /\ e + 1 > i
      BY <1>1, <2>2
    <3> HIDE DEF e
    <3> QED
      BY <3>1
  <2> HIDE DEF e, later
  <2>5. ASSUME NEW f \in i..n - 1, NEW t \in f + 1..n, Band(a, f, t)
        PROVE  f \in e + 1..n - 1 \/ t - f <= e - i
    <3>1. f \in Nat /\ t \in Nat /\ e \in Nat
      BY <1>1, <2>2
    <3>2. CASE f > e
      BY <3>1, <3>2
    <3>3. CASE f = e
      <4>1. e \in e..e + Bridge /\ e < n
        BY <1>1, <3>1, <3>3
      <4> QED
        BY <2>2, <2>5, <3>3, <4>1 DEF Band
    <3>4. CASE f < e /\ t <= e
      BY <1>1, <3>1, <3>4
    <3>5. CASE f < e /\ t > e
      <4>1. t - 1 > e + Bridge
        <5> SUFFICES ASSUME ~(t - 1 > e + Bridge) PROVE FALSE
          OBVIOUS
        <5>1. t - 1 \in e..e + Bridge /\ t - 1 < n
          BY <1>1, <3>1, <3>5
        <5> QED
          BY <2>2, <2>5, <5>1 DEF Band
      <4>2. e \in f..t - 1 - Bridge
        BY <1>1, <3>1, <3>5, <4>1
      <4>3. PICK z \in e..e + Bridge : a[z]
        BY <2>5, <4>2 DEF Band
      <4>4. z < n
        BY <1>1, <3>1, <4>1
      <4> QED
        BY <2>2, <4>3, <4>4
    <3> QED
      BY <3>1, <3>2, <3>3, <3>4, <3>5
  <2>6. /\ later \in [from : Nat, to : Nat]
        /\ \A f \in e + 1..n - 1 : \A t \in f + 1..n :
              Band(a, f, t) => t - f <= later.to - later.from
    BY <2>4 DEF LongestBand
  <2>7. CASE later.to - later.from > e - i
    <3>1. longest[i] = later
      BY <2>3, <2>7
    <3>2. later = NoBand \/ (later.from \in i..n - 1 /\ later.to \in later.from + 1..n
                               /\ Band(a, later.from, later.to))
      <4>1. \A f \in e + 1..n - 1 : f \in i..n - 1
        BY <1>1, <2>2
      <4> QED
        BY <2>4, <4>1 DEF LongestBand
    <3>3. ASSUME NEW f \in i..n - 1, NEW t \in f + 1..n, Band(a, f, t)
          PROVE  t - f <= later.to - later.from
      <4>1. t - f \in Int /\ e - i \in Int /\ later.to - later.from \in Int
        BY <1>1, <2>2, <2>6
      <4> QED
        BY <2>5, <2>6, <2>7, <3>3, <4>1
    <3> QED
      BY <2>6, <3>1, <3>2, <3>3 DEF LongestBand
  <2>8. CASE ~(later.to - later.from > e - i)
    <3>1. longest[i] = [from |-> i, to |-> e]
      BY <2>3, <2>8
    <3>2. longest[i] \in [from : Nat, to : Nat] /\ longest[i].from = i /\ longest[i].to = e
      BY <1>1, <2>2, <3>1
    <3>3. longest[i].from \in i..n - 1 /\ longest[i].to \in longest[i].from + 1..n
            /\ Band(a, longest[i].from, longest[i].to)
      BY <1>1, <2>1, <2>2, <3>2
    <3>4. ASSUME NEW f \in i..n - 1, NEW t \in f + 1..n, Band(a, f, t)
          PROVE  t - f <= longest[i].to - longest[i].from
      <4>1. t - f \in Int /\ e - i \in Int /\ later.to - later.from \in Int
        BY <1>1, <2>2, <2>6
      <4> QED
        BY <2>5, <2>6, <2>8, <3>2, <3>4, <4>1
    <3> QED
      BY <3>2, <3>3, <3>4 DEF LongestBand
  <2> QED
    BY <2>7, <2>8
<1> QED
  BY <1>2, <1>3, <1>4

(* So it finds the longest.                                                *)
LEMMA LongestFound ==
    ASSUME NEW n \in Nat, NEW a
    PROVE  LongestBand(a, n, 0, FingerSegment(a, n))
<1>1. PICK longest : /\ \A i \in 0..n + 1 : longest[i] = BestBand(a, n, longest, i)
                  /\ FingerSegment(a, n) = longest[0]
  BY FingerSegmentIs
<1> DEFINE S == {m \in 0..n + 1 : \A i \in 0..n + 1 : i >= n + 1 - m => LongestBand(a, n, i, longest[i])}
<1>2. 0 \in S
  <2>1. ASSUME NEW i \in 0..n + 1, i >= n + 1 - 0 PROVE LongestBand(a, n, i, longest[i])
    <3>1. \A k \in 0..n + 1 : ~(k > i)
      BY <2>1
    <3>2. longest[i] = BestBand(a, n, longest, i)
      BY <1>1
    <3> QED
      BY <3>1, <3>2, BandLonger
  <2> QED
    BY <2>1
<1>3. ASSUME NEW m \in 1..n + 1, m - 1 \in S PROVE m \in S
  <2>1. \A k \in 0..n + 1 : k >= n + 1 - (m - 1) => LongestBand(a, n, k, longest[k])
    BY <1>3
  <2>2. ASSUME NEW i \in 0..n + 1, i >= n + 1 - m PROVE LongestBand(a, n, i, longest[i])
    <3>1. \A k \in 0..n + 1 : k > i => k >= n + 1 - (m - 1)
      BY <2>2
    <3>2. \A k \in 0..n + 1 : k > i => LongestBand(a, n, k, longest[k])
      BY <2>1, <3>1
    <3>3. longest[i] = BestBand(a, n, longest, i)
      BY <1>1
    <3> QED
      BY <3>2, <3>3, BandLonger
  <2>3. m \in 0..n + 1
    OBVIOUS
  <2> QED
    BY <2>2, <2>3
<1> HIDE DEF S
<1>4. n + 1 \in S
  <2>1. n + 1 \in Nat
    OBVIOUS
  <2>2. 0..n + 1 \subseteq S
    BY <1>2, <1>3, <2>1, Induct
  <2> QED
    BY <2>1, <2>2
<1>5. LongestBand(a, n, 0, longest[0])
  <2>1. 0 \in 0..n + 1 /\ 0 >= n + 1 - (n + 1)
    OBVIOUS
  <2> QED
    BY <1>4, <2>1 DEF S
<1> QED
  BY <1>1, <1>5

-----------------------------------------------------------------------------
(* The rows of a stream.                                                   *)

(* The elements of T in ascending order.                                   *)
Ascends(s, T) ==
    /\ s \in Seq(T) /\ Len(s) = Cardinality(T)
    /\ \A i, j \in 1..Len(s) : i < j => s[i] < s[j]
    /\ \A x \in T : \E i \in 1..Len(s) : s[i] = x

(* Ascending sorts a set.                                                  *)
LEMMA AscendingIs ==
    ASSUME NEW n \in Nat, NEW S \in SUBSET (0..n)
    PROVE  Ascends(Ascending(S), S)
<1> DEFINE P(fold) == fold = [T \in SUBSET S |-> IF T = {} THEN <<>>
                                           ELSE Append(fold[T \ {Max(T)}], Max(T))]
           b == CHOOSE fold : P(fold)
           F == [x \in S |-> [a \in Seq(S) |-> Append(a, x)]]
           c == [T \in SUBSET S |-> Max(T)]
           N == Cardinality(S)
<1>1. IsFiniteSet(S) /\ N \in Nat
  <2>1. IsFiniteSet(0..n)
    BY FS_Interval
  <2>2. IsFiniteSet(S)
    BY <2>1, FS_Subset
  <2> QED
    BY <2>2, FS_CardinalityType
<1>2. \A T \in SUBSET S : T # {} => Max(T) \in T /\ \A m \in T : Max(T) >= m
  BY MaxIs
<1>3. \A x \in S : \A a \in Seq(S) : F[x][a] = Append(a, x) /\ F[x][a] \in Seq(S)
  BY AppendProperties
<1>4. \A T \in SUBSET S : c[T] = Max(T)
  OBVIOUS
<1> HIDE DEF F, c
<1>5. \A T \in SUBSET S : T # {} => c[T] \in T
  BY <1>2, <1>4
<1>6. PICK fold \in [SUBSET S -> Seq(S)] : Folds(fold, F, <<>>, c, S)
  <2>1. \A x \in S : \A a \in Seq(S) : F[x][a] \in Seq(S)
    BY <1>3
  <2>2. <<>> \in Seq(S)
    OBVIOUS
  <2> QED
    BY <1>1, <1>5, <2>1, <2>2, FoldRecursion
<1>7. ASSUME NEW T \in SUBSET S
      PROVE  fold[T] = IF T = {} THEN <<>> ELSE Append(fold[T \ {Max(T)}], Max(T))
  <2>1. fold[T] = IF T = {} THEN <<>> ELSE F[c[T]][fold[T \ {c[T]}]]
    BY <1>6 DEF Folds
  <2>2. T # {} => c[T] \in S /\ fold[T \ {c[T]}] \in Seq(S)
    BY <1>5, <1>6
  <2>3. T # {} => F[c[T]][fold[T \ {c[T]}]] = Append(fold[T \ {c[T]}], c[T])
    BY <1>3, <2>2
  <2> QED
    BY <1>4, <2>1, <2>3
<1>8. P(fold)
  <2>1. fold = [T \in SUBSET S |-> fold[T]]
    BY <1>6
  <2>2. [T \in SUBSET S |-> fold[T]] =
          [T \in SUBSET S |-> IF T = {} THEN <<>> ELSE Append(fold[T \ {Max(T)}], Max(T))]
    BY <1>7, Zenon
  <2> QED
    BY <2>1, <2>2
<1>9. P(b)
  BY <1>8, Zenon
<1>10. Ascending(S) = b[S]
  BY Zenon DEF Ascending, MapThenFoldSet
<1>11. \A T \in SUBSET S : b[T] = IF T = {} THEN <<>> ELSE Append(b[T \ {Max(T)}], Max(T))
  BY <1>9
<1> HIDE DEF b, P
<1> DEFINE A == {k \in 0..N : \A T \in SUBSET S : Cardinality(T) = k => Ascends(b[T], T)}
<1>12. 0 \in A
  <2>1. \A T \in SUBSET S : Cardinality(T) = 0 => T = {}
    BY <1>1, FS_Subset, FS_EmptySet
  <2>2. Ascends(b[{}], {})
    <3>1. b[{}] = <<>>
      BY <1>11
    <3> QED
      BY <3>1, FS_EmptySet DEF Ascends
  <2>3. \A T \in SUBSET S : Cardinality(T) = 0 => Ascends(b[T], T)
    BY <2>1, <2>2
  <2>4. 0 \in 0..N
    BY <1>1
  <2> QED
    BY <2>3, <2>4
<1>13. ASSUME NEW k \in 1..N, k - 1 \in A PROVE k \in A
  <2>1. ASSUME NEW T \in SUBSET S, Cardinality(T) = k PROVE Ascends(b[T], T)
    <3> DEFINE m == Max(T)
               U == T \ {m}
               s == b[U]
    <3>1. IsFiniteSet(T) /\ T # {}
      <4>1. IsFiniteSet(T)
        BY <1>1, FS_Subset
      <4>2. Cardinality(T) # 0
        BY <1>1, <2>1
      <4> QED
        BY <4>1, <4>2, FS_EmptySet
    <3>2. m \in T /\ \A x \in T : m >= x
      BY <1>2, <3>1
    <3>3. b[T] = Append(s, m)
      BY <1>11, <3>1
    <3> HIDE DEF m
    <3>4. Cardinality(U) = k - 1 /\ U \in SUBSET S
      BY <2>1, <3>1, <3>2, FS_RemoveElement
    <3>5. Ascends(s, U)
      BY <1>13, <3>4
    <3> HIDE DEF U, s
    <3>6. s \in Seq(T)
      BY <3>5 DEF Ascends, U
    <3>7. /\ b[T] \in Seq(T) /\ Len(b[T]) = k /\ Len(s) = k - 1
          /\ \A i \in 1..Len(s) : b[T][i] = s[i]
          /\ b[T][k] = m
      <4>1. Len(s) = k - 1
        BY <3>4, <3>5 DEF Ascends
      <4>2. k = Len(s) + 1
        BY <4>1
      <4> QED
        BY <3>2, <3>3, <3>6, <4>1, <4>2, AppendProperties
    <3>8. ASSUME NEW i \in 1..k, NEW j \in 1..k, i < j PROVE b[T][i] < b[T][j]
      <4>1. i \in 1..Len(s) /\ b[T][i] = s[i] /\ s[i] \in U
        BY <3>5, <3>7, <3>8 DEF Ascends
      <4>2. s[i] < m
        <5>1. s[i] \in T /\ s[i] # m
          BY <4>1 DEF U
        <5>2. T \subseteq Nat
          OBVIOUS
        <5>3. s[i] \in Nat /\ m \in Nat
          BY <3>2, <5>1, <5>2
        <5> QED
          BY <3>2, <5>1, <5>3
      <4>3. CASE j = k
        BY <3>7, <4>1, <4>2, <4>3
      <4>4. CASE j # k
        <5>1. j \in 1..Len(s)
          BY <3>7, <4>4
        <5> QED
          BY <3>5, <3>7, <3>8, <4>1, <5>1 DEF Ascends
      <4> QED
        BY <4>3, <4>4
    <3>9. ASSUME NEW x \in T PROVE \E i \in 1..k : b[T][i] = x
      <4>1. CASE x = m
        BY <3>7, <4>1
      <4>2. CASE x # m
        <5>1. PICK i \in 1..Len(s) : s[i] = x
          BY <3>5, <4>2 DEF Ascends, U
        <5> QED
          BY <3>7, <5>1
      <4> QED
        BY <4>1, <4>2
    <3> QED
      BY <2>1, <3>7, <3>8, <3>9 DEF Ascends
  <2> QED
    BY <1>1, <2>1
<1> HIDE DEF A
<1>14. 0..N \subseteq A
  BY <1>1, <1>12, <1>13, Induct
<1>15. N \in A
  BY <1>1, <1>14
<1>16. Ascends(b[S], S)
  BY <1>15 DEF A
<1> QED
  BY <1>10, <1>16

Lengths(q) == FoldLeft(LAMBDA sum, p : sum + p.len, 0, q)

(* The lengths of the lines add up line by line.                           *)
LEMMA LengthsAre ==
    ASSUME NEW q \in Seq(Piece)
    PROVE  \E g \in [0..Len(q) -> Nat] :
              /\ g[0] = 0 /\ \A k \in 1..Len(q) : g[k] = g[k - 1] + q[k].len
              /\ Lengths(q) = g[Len(q)]
<1> DEFINE n == Len(q)
           D == DOMAIN q
           P(fold) == fold = [T \in SUBSET D |->
                          IF T = {} THEN 0 ELSE fold[T \ {Max(T)}] + q[Max(T)].len]
           b == CHOOSE fold : P(fold)
           F == [k \in 1..n |-> [x \in Nat |-> x + q[k].len]]
<1>1. D = 1..n /\ n \in Nat /\ \A k \in 1..n : q[k].len \in Nat
  <2>1. \A k \in 1..n : q[k] \in Piece
    OBVIOUS
  <2>2. Stride \in Nat
    BY StrideAssumption
  <2> QED
    BY <2>1, <2>2 DEF Piece
<1>2. \A k \in 1..n : \A x \in Nat : F[k][x] = x + q[k].len /\ F[k][x] \in Nat
  BY <1>1
<1> HIDE DEF F
<1>3. PICK fold : FoldOf(fold, n, Nat, 0, F)
  <2>1. \A k \in 1..n : \A x \in Nat : F[k][x] \in Nat
    BY <1>2
  <2>2. 0 \in Nat
    OBVIOUS
  <2> QED
    BY <1>1, <2>1, <2>2, FoldExists
<1>4. \A T \in SUBSET D : fold[T] = IF T = {} THEN 0 ELSE fold[T \ {Max(T)}] + q[Max(T)].len
  BY <1>1, <1>2, <1>3 DEF FoldOf
<1>5. P(fold)
  <2>1. fold = [T \in SUBSET D |-> fold[T]]
    BY <1>1, <1>3 DEF FoldOf
  <2>2. [T \in SUBSET D |-> fold[T]] =
          [T \in SUBSET D |-> IF T = {} THEN 0 ELSE fold[T \ {Max(T)}] + q[Max(T)].len]
    BY <1>4, Zenon
  <2> QED
    BY <2>1, <2>2
<1>6. P(b)
  BY <1>5, Zenon
<1>7. Lengths(q) = b[D]
  BY Zenon DEF Lengths, FoldLeft, MapThenFoldSet
<1>8. \A T \in SUBSET (1..n) : b[T] = IF T = {} THEN 0 ELSE b[T \ {Max(T)}] + q[Max(T)].len
  BY <1>1, <1>6
<1> HIDE DEF b, P
<1> DEFINE g == [k \in 0..n |-> b[1..k]]
           A == {k \in 0..n : g[k] \in Nat}
<1>9. g[0] = 0
  <2>1. 1..0 = {} /\ 0 \in 0..n /\ {} \in SUBSET (1..n)
    BY <1>1
  <2> QED
    BY <1>8, <2>1
<1>10. ASSUME NEW k \in 1..n PROVE g[k] = g[k - 1] + q[k].len
  <2>1. 1..k \in SUBSET (1..n) /\ 1..k # {} /\ k \in Nat \ {0}
    <3>1. k \in 1..k /\ k \in Nat \ {0}
      OBVIOUS
    <3>2. 1..k \in SUBSET (1..n)
      OBVIOUS
    <3> QED
      BY <3>1, <3>2
  <2>2. Max(1..k) = k /\ (1..k) \ {k} = 1..k - 1
    BY <2>1, MaxTo
  <2>3. g[k] = b[1..k] /\ g[k - 1] = b[1..k - 1]
    BY <1>1
  <2>4. b[1..k] = b[1..k - 1] + q[k].len
    BY <1>8, <2>1, <2>2
  <2> HIDE DEF g
  <2> QED
    BY <2>3, <2>4
<1>11. g[n] = b[D] /\ DOMAIN g = 0..n /\ g = [k \in 0..n |-> g[k]]
  BY <1>1
<1> HIDE DEF g
<1>12. 0..n \subseteq A
  <2>1. 0 \in A
    BY <1>1, <1>9
  <2>2. \A k \in 1..n : k - 1 \in A => k \in A
    <3>1. \A k \in 1..n : k \in 0..n
      OBVIOUS
    <3> QED
      BY <1>1, <1>10, <3>1
  <2> HIDE DEF A
  <2> QED
    BY <1>1, <2>1, <2>2, Induct
<1>13. g \in [0..n -> Nat]
  BY <1>11, <1>12
<1> QED
  BY <1>7, <1>9, <1>10, <1>11, <1>13

(* Where a line starts is where the one before it ends.                    *)
LEMMA AtIs ==
    ASSUME NEW s \in Seq(Piece)
    PROVE  /\ At(s, 1) = 0
           /\ \A k \in 1..Len(s) + 1 : At(s, k) \in Nat
           /\ \A k \in 1..Len(s) : At(s, k + 1) = At(s, k) + s[k].len
<1> DEFINE n == Len(s)
<1>1. n \in Nat /\ \A k \in 1..n : s[k].len \in Nat
  <2>1. \A k \in 1..n : s[k] \in Piece
    OBVIOUS
  <2>2. Stride \in Nat
    BY StrideAssumption
  <2> QED
    BY <2>1, <2>2 DEF Piece
<1>2. PICK g \in [0..n -> Nat] : g[0] = 0 /\ \A k \in 1..n : g[k] = g[k - 1] + s[k].len
  BY LengthsAre
<1>3. ASSUME NEW k \in 1..n + 1 PROVE At(s, k) = g[k - 1]
  <2> DEFINE q == SubSeq(s, 1, k - 1)
  <2>1. q \in Seq(Piece) /\ Len(q) = k - 1 /\ \A i \in 1..k - 1 : q[i] = s[i]
    <3>1. 1 \in 1..n + 1 /\ k - 1 \in 0..n /\ k - 1 \in 1 - 1..n
      BY <1>1
    <3> QED
      BY <3>1, SubSeqProperties
  <2>2. At(s, k) = Lengths(q)
    BY Zenon DEF At, Lengths
  <2> HIDE DEF q
  <2>3. PICK f \in [0..k - 1 -> Nat] :
           /\ f[0] = 0 /\ \A i \in 1..k - 1 : f[i] = f[i - 1] + q[i].len
           /\ Lengths(q) = f[k - 1]
    BY <2>1, LengthsAre
  <2> DEFINE A == {i \in 0..k - 1 : f[i] = g[i]}
  <2>4. 0 \in A
    BY <1>1, <1>2, <2>3
  <2>5. ASSUME NEW i \in 1..k - 1, i - 1 \in A PROVE i \in A
    <3>1. i \in 1..n /\ i \in 0..k - 1
      BY <1>1
    <3>2. f[i] = f[i - 1] + s[i].len /\ g[i] = g[i - 1] + s[i].len
      BY <1>2, <2>1, <2>3, <3>1
    <3> QED
      BY <2>5, <3>1, <3>2
  <2>6. k - 1 \in Nat
    BY <1>1
  <2> HIDE DEF A
  <2>7. 0..k - 1 \subseteq A
    BY <2>4, <2>5, <2>6, Induct
  <2>8. k - 1 \in A
    BY <2>6, <2>7
  <2> QED
    BY <2>2, <2>3, <2>8 DEF A
<1>4. At(s, 1) = 0
  <2>1. 1 \in 1..n + 1 /\ 1 - 1 = 0
    BY <1>1
  <2> QED
    BY <1>2, <1>3, <2>1
<1>5. ASSUME NEW k \in 1..n + 1 PROVE At(s, k) \in Nat
  BY <1>1, <1>2, <1>3, SMTT(20)
<1>6. ASSUME NEW k \in 1..n PROVE At(s, k + 1) = At(s, k) + s[k].len
  <2>1. k \in 1..n + 1 /\ k + 1 \in 1..n + 1 /\ (k + 1) - 1 = k
    BY <1>1
  <2>2. At(s, k) = g[k - 1] /\ At(s, k + 1) = g[k]
    BY <1>3, <2>1
  <2> QED
    BY <1>2, <2>2
<1> QED
  BY <1>4, <1>5, <1>6

RowsOf(q, end) ==
    FoldLeft(LAMBDA rows_, m : IF m + Header <= end THEN Append(rows_, m) ELSE rows_, <<>>, q)

(* What is left of the marks is those with a row behind them, in order.    *)
LEMMA RowsOfAre ==
    ASSUME NEW s \in Seq(Nat), NEW end
    PROVE  \E f : Picks(f, RowsOf(s, end), s, {m \in Nat : m + Header <= end}, Len(s), Nat)
<1> DEFINE n == Len(s)
           D == DOMAIN s
           T0 == {m \in Nat : m + Header <= end}
           P(fold) == fold = [T \in SUBSET D |->
                          IF T = {} THEN <<>>
                          ELSE IF s[Max(T)] + Header <= end
                               THEN Append(fold[T \ {Max(T)}], s[Max(T)]) ELSE fold[T \ {Max(T)}]]
           b == CHOOSE fold : P(fold)
           F == [k \in 1..n |-> [q \in Seq(Nat) |->
                    IF s[k] \in T0 THEN Append(q, s[k]) ELSE q]]
<1>1. D = 1..n /\ n \in Nat /\ \A k \in 1..n : s[k] \in Nat
  OBVIOUS
<1>2. \A k \in 1..n : \A q \in Seq(Nat) :
         /\ F[k][q] = IF s[k] + Header <= end THEN Append(q, s[k]) ELSE q
         /\ F[k][q] \in Seq(Nat)
  <2>1. \A k \in 1..n : \A q \in Seq(Nat) : Append(q, s[k]) \in Seq(Nat)
    BY <1>1
  <2>2. \A k \in 1..n : s[k] \in T0 <=> s[k] + Header <= end
    BY <1>1
  <2> HIDE DEF T0
  <2> QED
    BY <2>1, <2>2
<1> HIDE DEF F
<1>3. PICK fold : FoldOf(fold, n, Seq(Nat), <<>>, F)
  <2>1. <<>> \in Seq(Nat)
    OBVIOUS
  <2>2. \A k \in 1..n : \A q \in Seq(Nat) : F[k][q] \in Seq(Nat)
    BY <1>2
  <2> QED
    BY <1>1, <2>1, <2>2, FoldExists
<1>4. \A T \in SUBSET D :
         fold[T] = IF T = {} THEN <<>>
                ELSE IF s[Max(T)] + Header <= end
                     THEN Append(fold[T \ {Max(T)}], s[Max(T)]) ELSE fold[T \ {Max(T)}]
  <2> SUFFICES ASSUME NEW T \in SUBSET D
               PROVE  fold[T] = IF T = {} THEN <<>>
                        ELSE IF s[Max(T)] + Header <= end
                             THEN Append(fold[T \ {Max(T)}], s[Max(T)]) ELSE fold[T \ {Max(T)}]
    OBVIOUS
  <2> DEFINE k == Max(T)
             q == fold[T \ {k}]
  <2>1. /\ T # {} => k \in 1..n /\ q \in Seq(Nat)
        /\ fold[T] = IF T = {} THEN <<>> ELSE F[k][q]
    BY <1>1, <1>3 DEF FoldOf
  <2> HIDE DEF k, q
  <2>2. T # {} => F[k][q] = IF s[k] + Header <= end THEN Append(q, s[k]) ELSE q
    BY <1>2, <2>1
  <2>3. fold[T] = IF T = {} THEN <<>>
                  ELSE IF s[k] + Header <= end THEN Append(q, s[k]) ELSE q
    BY <2>1, <2>2
  <2> QED
    BY <2>3 DEF k, q
<1>5. P(fold)
  <2>1. fold = [T \in SUBSET D |-> fold[T]]
    BY <1>1, <1>3 DEF FoldOf
  <2>2. [T \in SUBSET D |-> fold[T]] =
          [T \in SUBSET D |->
                IF T = {} THEN <<>>
                ELSE IF s[Max(T)] + Header <= end
                     THEN Append(fold[T \ {Max(T)}], s[Max(T)]) ELSE fold[T \ {Max(T)}]]
    BY <1>4, Zenon
  <2> QED
    BY <2>1, <2>2
<1>6. P(b)
  BY <1>5, Zenon
<1>7. RowsOf(s, end) = b[D]
  BY Zenon DEF RowsOf, FoldLeft, MapThenFoldSet
<1>8. \A T \in SUBSET (1..n) :
         b[T] = IF T = {} THEN <<>>
                ELSE IF s[Max(T)] + Header <= end
                     THEN Append(b[T \ {Max(T)}], s[Max(T)]) ELSE b[T \ {Max(T)}]
  BY <1>1, <1>6
<1> HIDE DEF b, P
<1> DEFINE g == [k \in 0..n |-> b[1..k]]
<1>9. g[0] = <<>>
  <2>1. 1..0 = {} /\ 0 \in 0..n /\ {} \in SUBSET (1..n)
    BY <1>1
  <2> QED
    BY <1>8, <2>1
<1>10. ASSUME NEW k \in 1..n
       PROVE  g[k] = IF s[k] \in T0 THEN Append(g[k - 1], s[k]) ELSE g[k - 1]
  <2>1. 1..k \in SUBSET (1..n) /\ 1..k # {} /\ k \in Nat \ {0}
    <3>1. k \in 1..k /\ k \in Nat \ {0}
      OBVIOUS
    <3>2. 1..k \in SUBSET (1..n)
      OBVIOUS
    <3> QED
      BY <3>1, <3>2
  <2>2. Max(1..k) = k /\ (1..k) \ {k} = 1..k - 1
    BY <2>1, MaxTo
  <2>3. g[k] = b[1..k] /\ g[k - 1] = b[1..k - 1]
    BY <1>1
  <2>4. s[k] \in T0 <=> s[k] + Header <= end
    BY <1>1
  <2>5. b[1..k] = IF s[k] + Header <= end
                  THEN Append(b[1..k - 1], s[k]) ELSE b[1..k - 1]
    BY <1>8, <2>1, <2>2
  <2> HIDE DEF g, T0
  <2> QED
    BY <2>3, <2>4, <2>5
<1>11. g[n] = b[D]
  BY <1>1
<1> HIDE DEF g, T0
<1>12. \E f : Picks(f, g[n], s, T0, n, Nat)
  BY <1>1, <1>9, <1>10, Retained
<1> QED
  BY <1>7, <1>11, <1>12 DEF T0
-----------------------------------------------------------------------------
(* Later lines start further on.                                           *)
LEMMA AtGrows ==
    ASSUME NEW s \in Seq(Piece), NEW a \in 1..Len(s), NEW b \in 1..Len(s) + 1, a < b
    PROVE  At(s, a + 1) <= At(s, b) /\ At(s, a) < At(s, b)
<1> DEFINE n == Len(s)
           A == {d \in 0..b - a - 1 : At(s, a + 1) <= At(s, a + 1 + d)}
<1>1. n \in Nat /\ \A k \in 1..n : s[k].len \in Nat \ {0}
  <2>1. \A k \in 1..n : s[k] \in Piece
    OBVIOUS
  <2>2. Stride \in Nat
    BY StrideAssumption
  <2> QED
    BY <2>1, <2>2 DEF Piece
<1>2. /\ \A k \in 1..n + 1 : At(s, k) \in Nat
      /\ \A k \in 1..n : At(s, k + 1) = At(s, k) + s[k].len
  BY AtIs
<1>3. 0 \in A
  <2>1. a + 1 \in 1..n + 1 /\ a + 1 + 0 = a + 1 /\ 0 \in 0..b - a - 1
    BY <1>1
  <2> QED
    BY <1>2, <2>1
<1>4. ASSUME NEW d \in 1..b - a - 1, d - 1 \in A PROVE d \in A
  <2> DEFINE k == a + 1 + (d - 1)
  <2>1. k \in 1..n /\ k + 1 = a + 1 + d /\ k \in 1..n + 1 /\ k + 1 \in 1..n + 1
        /\ a + 1 \in 1..n + 1 /\ d \in 0..b - a - 1
    BY <1>1
  <2>2. At(s, k + 1) = At(s, k) + s[k].len
    BY <1>2, <2>1
  <2>3. At(s, a + 1) <= At(s, k)
    BY <1>4
  <2>4. At(s, a + 1) \in Nat /\ At(s, k) \in Nat /\ At(s, k + 1) \in Nat /\ s[k].len \in Nat
    BY <1>1, <1>2, <2>1
  <2> HIDE DEF k
  <2>5. At(s, a + 1) <= At(s, k + 1)
    BY <2>2, <2>3, <2>4, SMTT(20)
  <2> QED
    BY <2>1, <2>5
<1>5. b - a - 1 \in Nat
  BY <1>1
<1> HIDE DEF A
<1>6. 0..b - a - 1 \subseteq A
  BY <1>3, <1>4, <1>5, Induct
<1>7. At(s, a + 1) <= At(s, b)
  <2>1. b - a - 1 \in A
    BY <1>5, <1>6
  <2>2. a + 1 + (b - a - 1) = b
    BY <1>1
  <2> QED
    BY <2>1, <2>2 DEF A
<1>8. At(s, a) < At(s, b)
  <2>1. a + 1 \in 1..n + 1 /\ a \in 1..n + 1
    BY <1>1
  <2>2. At(s, a) \in Nat /\ At(s, a + 1) \in Nat /\ At(s, b) \in Nat /\ s[a].len \in Nat \ {0}
    BY <1>1, <1>2, <2>1
  <2>3. At(s, a + 1) = At(s, a) + s[a].len
    BY <1>2
  <2> QED
    BY <1>7, <2>2, <2>3
<1> QED
  BY <1>7, <1>8

MarkSet(s) == UNION {{At(s, n) + o : o \in s[n].marks} : n \in DOMAIN s}

(* The marks are found, in order.                                          *)
LEMMA MarksAre ==
    ASSUME NEW s \in Seq(Piece)
    PROVE  /\ BufLen(s) \in Nat
           /\ MarkSet(s) \in SUBSET Nat /\ \A m \in MarkSet(s) : m < BufLen(s)
           /\ Ascends(Marks(s), MarkSet(s))
<1> DEFINE n == Len(s)
<1>1. n \in Nat /\ \A k \in 1..n : s[k] \in Piece
  OBVIOUS
<1>2. /\ \A k \in 1..n + 1 : At(s, k) \in Nat
      /\ \A k \in 1..n : At(s, k + 1) = At(s, k) + s[k].len
  BY AtIs
<1>3. BufLen(s) = At(s, n + 1) /\ BufLen(s) \in Nat
  <2>1. n + 1 \in 1..n + 1
    BY <1>1
  <2> QED
    BY <1>2, <2>1 DEF BufLen
<1>4. ASSUME NEW m \in MarkSet(s) PROVE m \in Nat /\ m < BufLen(s)
  <2>1. PICK k \in 1..n : \E o \in s[k].marks : m = At(s, k) + o
    BY <1>4 DEF MarkSet
  <2>2. PICK o \in s[k].marks : m = At(s, k) + o
    BY <2>1
  <2>3. o \in Nat /\ o < s[k].len /\ s[k].len \in Nat
    <3>1. s[k] \in Piece /\ Stride \in Nat
      BY <1>1, StrideAssumption
    <3>2. s[k].marks \subseteq 0..Stride - 1 /\ s[k].len \in 1..Stride /\ o < s[k].len
      BY <3>1 DEF Piece
    <3> QED
      BY <3>1, <3>2
  <2>4. k \in 1..n + 1 /\ k + 1 \in 1..n + 1 /\ n + 1 \in 1..n + 1 /\ k < n + 1
    BY <1>1
  <2>5. At(s, k + 1) <= At(s, n + 1)
    BY <2>4, AtGrows
  <2>6. At(s, k) \in Nat /\ At(s, k + 1) \in Nat /\ At(s, k + 1) = At(s, k) + s[k].len
    BY <1>2, <2>4
  <2> QED
    BY <1>3, <2>2, <2>3, <2>5, <2>6
<1>5. MarkSet(s) \in SUBSET (0..BufLen(s))
  <2>1. \A m \in MarkSet(s) : m \in 0..BufLen(s)
    BY <1>3, <1>4
  <2> QED
    BY <2>1
<1>6. Marks(s) = Ascending(MarkSet(s))
  BY Zenon DEF Marks, MarkSet
<1>7. Ascends(Marks(s), MarkSet(s))
  BY <1>3, <1>5, <1>6, AscendingIs
<1> QED
  BY <1>3, <1>4, <1>7

RunOfMarks == [start : Nat, len : Nat]
Found == [run : RunOfMarks, best : RunOfMarks]

Taking(marks, acc, k) ==
    LET next == IF Follows(marks, k)
                  THEN [acc.run EXCEPT !.len = @ + 1]
                  ELSE [start |-> k, len |-> 1]
    IN [run |-> next,
        best |-> IF next.len > acc.best.len THEN next ELSE acc.best]

NoRun == [start |-> 1, len |-> 0]

LEMMA TakingType ==
    ASSUME NEW marks, NEW k \in Nat, NEW acc \in Found
    PROVE  Taking(marks, acc, k) \in Found
<1>1. acc.run \in RunOfMarks /\ acc.best \in RunOfMarks
  BY DEF Found
<1>2. [acc.run EXCEPT !.len = @ + 1] \in RunOfMarks
  BY <1>1 DEF RunOfMarks
<1>3. [start |-> k, len |-> 1] \in RunOfMarks
  BY DEF RunOfMarks
<1> QED
  BY <1>1, <1>2, <1>3 DEF Taking, Found

(* BestRun is a fold over the marks.                                       *)
LEMMA BestRunFold ==
    ASSUME NEW n \in Nat, NEW marks \in Seq(Nat), Len(marks) = n
    PROVE  \E g : /\ g[0] = [run |-> NoRun, best |-> NoRun]
                  /\ \A k \in 1..n : g[k] = Taking(marks, g[k - 1], k)
                  /\ BestRun(marks) = g[n].best
<1> DEFINE none == [run |-> NoRun, best |-> NoRun]
           D == DOMAIN [i \in DOMAIN marks |-> i]
           P(fold) == fold = [T \in SUBSET D |->
                          IF T = {} THEN none
                          ELSE Taking(marks, fold[T \ {Max(T)}], [i \in DOMAIN marks |-> i][Max(T)])]
           b == CHOOSE fold : P(fold)
           F == [k \in 1..n |-> [r \in Found |-> Taking(marks, r, k)]]
<1>1. D = 1..n /\ \A k \in 1..n : [i \in DOMAIN marks |-> i][k] = k
  OBVIOUS
<1>2. \A k \in 1..n : \A r \in Found :
         F[k][r] = Taking(marks, r, k) /\ F[k][r] \in Found
  BY TakingType
<1> HIDE DEF F
<1>3. PICK fold : FoldOf(fold, n, Found, none, F)
  <2>1. none \in Found
    BY DEF Found, RunOfMarks, NoRun
  <2>2. \A k \in 1..n : \A r \in Found : F[k][r] \in Found
    BY <1>2
  <2> HIDE DEF none
  <2> QED
    BY <2>1, <2>2, FoldExists
<1> HIDE DEF none
<1>4. ASSUME NEW T \in SUBSET D
      PROVE  fold[T] = IF T = {} THEN none
                    ELSE Taking(marks, fold[T \ {Max(T)}], [i \in DOMAIN marks |-> i][Max(T)])
  <2>1. T # {} => Max(T) \in 1..n /\ fold[T \ {Max(T)}] \in Found
    BY <1>1, <1>3 DEF FoldOf
  <2>2. fold[T] = IF T = {} THEN none ELSE F[Max(T)][fold[T \ {Max(T)}]]
    BY <1>1, <1>3 DEF FoldOf
  <2>3. T # {} => F[Max(T)][fold[T \ {Max(T)}]] = Taking(marks, fold[T \ {Max(T)}], Max(T))
    BY <1>2, <2>1
  <2>4. T # {} => [i \in DOMAIN marks |-> i][Max(T)] = Max(T)
    BY <1>1, <2>1
  <2> QED
    BY <2>2, <2>3, <2>4
<1>5. P(fold)
  <2>1. fold = [T \in SUBSET D |-> fold[T]]
    BY <1>1, <1>3 DEF FoldOf
  <2>2. [T \in SUBSET D |-> fold[T]] =
          [T \in SUBSET D |-> IF T = {} THEN none
                ELSE Taking(marks, fold[T \ {Max(T)}], [i \in DOMAIN marks |-> i][Max(T)])]
    BY <1>4, Zenon
  <2> QED
    BY <2>1, <2>2
<1>6. P(b)
  BY <1>5, Zenon
<1>7. BestRun(marks) = b[D].best
  BY Zenon DEF BestRun, FoldLeftDomain, FoldLeft, MapThenFoldSet, Taking, NoRun, none
<1>8. \A T \in SUBSET (1..n) :
         b[T] = IF T = {} THEN none
                ELSE Taking(marks, b[T \ {Max(T)}], [i \in DOMAIN marks |-> i][Max(T)])
  BY <1>1, <1>6
<1> HIDE DEF b, P
<1> DEFINE g == [k \in 0..n |-> b[1..k]]
<1>9. g[0] = none
  <2>1. 1..0 = {} /\ 0 \in 0..n
    OBVIOUS
  <2> QED
    BY <1>8, <2>1
<1>10. ASSUME NEW k \in 1..n PROVE g[k] = Taking(marks, g[k - 1], k)
  <2>1. 1..k \in SUBSET (1..n) /\ 1..k # {} /\ k \in Nat \ {0}
    <3>1. k \in 1..k /\ k \in Nat \ {0}
      OBVIOUS
    <3>2. 1..k \in SUBSET (1..n)
      OBVIOUS
    <3> QED
      BY <3>1, <3>2
  <2>2. Max(1..k) = k /\ (1..k) \ {k} = 1..k - 1
    BY <2>1, MaxTo
  <2>3. g[k] = b[1..k] /\ g[k - 1] = b[1..k - 1]
    OBVIOUS
  <2>4. b[1..k] = Taking(marks, b[1..k - 1], [i \in DOMAIN marks |-> i][k])
    BY <1>8, <2>1, <2>2
  <2>5. [i \in DOMAIN marks |-> i][k] = k
    BY <1>1
  <2> HIDE DEF g
  <2> QED
    BY <2>3, <2>4, <2>5
<1>11. g[n] = b[D]
  BY <1>1
<1> HIDE DEF g
<1> QED
  BY <1>7, <1>9, <1>10, <1>11 DEF none

-----------------------------------------------------------------------------
(* Marks one stride apart.                                                 *)
Chain(marks, a, b) == \A k \in a + 1..b : marks[k] - marks[k - 1] = Stride

(* After k marks: the chain that ends there, and the longest so far.       *)
Holds(marks, k, acc) ==
    /\ acc \in Found
    /\ k > 0 => /\ acc.run.start \in 1..k /\ acc.run.len = k - acc.run.start + 1
                /\ Chain(marks, acc.run.start, k)
                /\ ~Follows(marks, acc.run.start)
    /\ acc.best.start >= 1 /\ acc.best.start + acc.best.len - 1 <= k
    /\ Chain(marks, acc.best.start, acc.best.start + acc.best.len - 1)
    /\ \A a, b \in 1..k : a <= b /\ Chain(marks, a, b) => b - a + 1 <= acc.best.len

(* Each mark keeps what is known of the chain it is in and of the          *)
(* longest.                                                                *)
LEMMA TakingHolds ==
    ASSUME NEW n \in Nat, NEW marks \in Seq(Nat), Len(marks) = n,
           NEW k \in 1..n, NEW acc, Holds(marks, k - 1, acc)
    PROVE  Holds(marks, k, Taking(marks, acc, k))
<1> DEFINE new == Taking(marks, acc, k)
<1>1. acc \in Found /\ new \in Found /\ k \in Nat
  BY TakingType DEF Holds
<1>2. /\ acc.run.start \in Nat /\ acc.run.len \in Nat
      /\ acc.best.start \in Nat /\ acc.best.len \in Nat
      /\ new.run.start \in Nat /\ new.run.len \in Nat
      /\ new.best.start \in Nat /\ new.best.len \in Nat
  BY <1>1 DEF Found, RunOfMarks
<1>3. /\ new.run = IF Follows(marks, k) THEN [acc.run EXCEPT !.len = @ + 1]
                                         ELSE [start |-> k, len |-> 1]
      /\ new.best = IF new.run.len > acc.best.len THEN new.run ELSE acc.best
  BY DEF Taking
<1> HIDE DEF new
<1>4. /\ new.run.start \in 1..k /\ new.run.len = k - new.run.start + 1
      /\ Chain(marks, new.run.start, k)
      /\ ~Follows(marks, new.run.start)
  <2>1. CASE Follows(marks, k)
    <3>1. k - 1 > 0 /\ marks[k] - marks[k - 1] = Stride
      BY <2>1 DEF Follows
    <3>2. /\ acc.run.start \in 1..k - 1 /\ acc.run.len = (k - 1) - acc.run.start + 1
          /\ Chain(marks, acc.run.start, k - 1)
          /\ ~Follows(marks, acc.run.start)
      BY <3>1 DEF Holds
    <3>3. new.run.start = acc.run.start /\ new.run.len = acc.run.len + 1
      BY <1>1, <1>3, <2>1 DEF Found, RunOfMarks
    <3>4. Chain(marks, acc.run.start, k)
      <4>1. \A i \in acc.run.start + 1..k : i = k \/ i \in acc.run.start + 1..k - 1
        BY <1>2
      <4> QED
        BY <3>1, <3>2, <4>1 DEF Chain
    <3>5. acc.run.start \in 1..k /\ acc.run.len + 1 = k - acc.run.start + 1
      BY <1>2, <3>2, SMTT(20)
    <3> QED
      BY <3>2, <3>3, <3>4, <3>5
  <2>2. CASE ~Follows(marks, k)
    <3>1. new.run.start = k /\ new.run.len = 1
      BY <1>3, <2>2
    <3>2. k + 1..k = {}
      OBVIOUS
    <3> QED
      BY <2>2, <3>1, <3>2 DEF Chain
  <2> QED
    BY <2>1, <2>2
<1>5. new.best.len >= new.run.len /\ new.best.len >= acc.best.len
  <2>1. CASE new.run.len > acc.best.len
    <3>1. new.best = new.run
      BY <1>3, <2>1
    <3> QED
      BY <1>2, <2>1, <3>1
  <2>2. CASE ~(new.run.len > acc.best.len)
    <3>1. new.best = acc.best
      BY <1>3, <2>2
    <3> QED
      BY <1>2, <2>2, <3>1
  <2> QED
    BY <2>1, <2>2
<1>6. /\ new.best.start >= 1 /\ new.best.start + new.best.len - 1 <= k
      /\ Chain(marks, new.best.start, new.best.start + new.best.len - 1)
  <2>1. CASE new.best = new.run
    <3>1. new.run.start + new.run.len - 1 = k
      BY <1>2, <1>4
    <3> QED
      BY <1>4, <2>1, <3>1
  <2>2. CASE new.best = acc.best
    <3>1. /\ acc.best.start >= 1 /\ acc.best.start + acc.best.len - 1 <= k - 1
          /\ Chain(marks, acc.best.start, acc.best.start + acc.best.len - 1)
      BY DEF Holds
    <3> QED
      BY <1>2, <2>2, <3>1, SMTT(20)
  <2> QED
    BY <1>3, <2>1, <2>2
<1>7. ASSUME NEW a \in 1..k, NEW b \in 1..k, a <= b, Chain(marks, a, b)
      PROVE  b - a + 1 <= new.best.len
  <2>1. CASE b = k
    <3>1. a >= new.run.start
      <4>0. a \in Int /\ new.run.start \in Int
        BY <1>2
      <4> SUFFICES ASSUME a < new.run.start PROVE FALSE
        BY <4>0
      <4>1. new.run.start \in a + 1..b /\ new.run.start > 1
        BY <1>4, <2>1
      <4>2. Follows(marks, new.run.start)
        BY <1>7, <4>1 DEF Chain, Follows
      <4> QED
        BY <1>4, <4>2
    <3>2. b - a + 1 <= new.run.len
      BY <1>2, <1>4, <2>1, <3>1
    <3> QED
      BY <1>2, <1>5, <3>2
  <2>2. CASE b # k
    <3>1. a \in 1..k - 1 /\ b \in 1..k - 1
      BY <1>7, <2>2
    <3>2. b - a + 1 <= acc.best.len
      BY <1>7, <3>1 DEF Holds
    <3> QED
      BY <1>2, <1>5, <3>2
  <2> QED
    BY <2>1, <2>2
<1>8. Holds(marks, k, new)
  BY <1>1, <1>4, <1>6, <1>7 DEF Holds, new
<1> QED
  BY <1>8 DEF new

(* The longest chain of marks.                                             *)
LEMMA BestRunIs ==
    ASSUME NEW marks \in Seq(Nat)
    PROVE  LET r == BestRun(marks) IN
           /\ r.start \in Nat \ {0} /\ r.len \in Nat /\ r.start + r.len - 1 <= Len(marks)
           /\ Chain(marks, r.start, r.start + r.len - 1)
           /\ \A a, b \in 1..Len(marks) : a <= b /\ Chain(marks, a, b) => b - a + 1 <= r.len
<1> DEFINE n == Len(marks)
<1>1. n \in Nat
  OBVIOUS
<1>2. PICK g : /\ g[0] = [run |-> NoRun, best |-> NoRun]
               /\ \A k \in 1..n : g[k] = Taking(marks, g[k - 1], k)
               /\ BestRun(marks) = g[n].best
  BY <1>1, BestRunFold
<1> DEFINE A == {k \in 0..n : Holds(marks, k, g[k])}
<1>3. 0 \in A
  <2>1. g[0] \in Found /\ g[0].best.start = 1 /\ g[0].best.len = 0
    BY <1>2 DEF Found, RunOfMarks, NoRun
  <2>2. 1..0 = {} /\ 0 \in 0..n /\ 1 + 1..1 + 0 - 1 = {} /\ 1 + 0 - 1 <= 0
    BY <1>1
  <2>3. Holds(marks, 0, g[0])
    BY <2>1, <2>2 DEF Holds, Chain
  <2> QED
    BY <2>2, <2>3
<1>4. ASSUME NEW k \in 1..n, k - 1 \in A PROVE k \in A
  <2>1. Holds(marks, k - 1, g[k - 1]) /\ k \in 0..n
    BY <1>1, <1>4
  <2>2. g[k] = Taking(marks, g[k - 1], k)
    BY <1>2
  <2>3. Holds(marks, k, g[k])
    BY <1>1, <2>1, <2>2, TakingHolds
  <2> QED
    BY <2>1, <2>3
<1> HIDE DEF A
<1>5. 0..n \subseteq A
  BY <1>1, <1>3, <1>4, Induct
<1>6. Holds(marks, n, g[n])
  BY <1>1, <1>5 DEF A
<1>7. g[n].best \in RunOfMarks
  BY <1>6 DEF Holds, Found
<1>8. g[n].best.start \in Nat /\ g[n].best.len \in Nat
  BY <1>7 DEF RunOfMarks
<1> QED
  BY <1>2, <1>6, <1>8 DEF Holds

FrontOf(s, T, n) == [k \in {k \in 1..n : s[k] \in T} |-> s[k]]

(* What is picked from the front of a sequence, and from nowhere else, is  *)
(* that front.                                                             *)
LEMMA FrontPicked ==
    ASSUME NEW n \in Nat, NEW S, NEW s \in Seq(S), Len(s) = n, NEW T, NEW q, NEW f,
           Picks(f, q, s, T, n, S),
           \A i, j \in 1..n : i < j /\ s[j] \in T => s[i] \in T
    PROVE  /\ q \in Seq(S) /\ Len(q) <= n
           /\ q = FrontOf(s, T, n)
<1> DEFINE m == Len(q)
           A == {i \in 0..m : \A j \in 1..i : f[j] = j}
<1>1. q \in Seq(S) /\ m \in Nat /\ m <= n
  BY DEF Picks
<1>2. 0 \in A
  BY <1>1
<1>3. ASSUME NEW i \in 1..m, i - 1 \in A PROVE i \in A
  <2>1. \A j \in 1..i - 1 : f[j] = j
    BY <1>3
  <2>2. f[i] \in 1..n /\ s[f[i]] \in T
    BY DEF Picks
  <2>3. ~(f[i] < i)
    <3> SUFFICES ASSUME f[i] < i PROVE FALSE
      OBVIOUS
    <3>1. f[i] \in 1..i - 1 /\ f[i] \in 1..m /\ f[i] < i
      BY <1>1, <2>2
    <3>2. f[f[i]] = f[i]
      BY <2>1, <3>1
    <3>3. f[f[i]] < f[i]
      BY <3>1 DEF Picks
    <3> QED
      BY <2>2, <3>2, <3>3
  <2>4. ~(f[i] > i)
    <3> SUFFICES ASSUME f[i] > i PROVE FALSE
      OBVIOUS
    <3>1. i \in 1..n /\ i < f[i]
      BY <1>1, <2>2
    <3>2. s[i] \in T
      BY <2>2, <3>1
    <3>3. PICK j \in 1..m : f[j] = i
      BY <3>1, <3>2 DEF Picks
    <3>4. CASE j < i
      <4>1. j \in 1..i - 1
        BY <3>4
      <4> QED
        BY <2>1, <3>3, <3>4, <4>1
    <3>5. CASE j = i
      BY <3>1, <3>3, <3>5
    <3>6. CASE i < j
      <4>1. f[i] < f[j]
        BY <3>6 DEF Picks
      <4> QED
        BY <2>2, <3>1, <3>3, <4>1
    <3> QED
      BY <3>4, <3>5, <3>6
  <2>5. f[i] = i
    BY <2>2, <2>3, <2>4
  <2>6. \A j \in 1..i : j = i \/ j \in 1..i - 1
    OBVIOUS
  <2> QED
    BY <2>1, <2>5, <2>6
<1> HIDE DEF A
<1>4. \A j \in 1..m : f[j] = j
  <2>1. 0..m \subseteq A
    BY <1>1, <1>2, <1>3, Induct
  <2>2. m \in A
    BY <1>1, <2>1
  <2> QED
    BY <2>2 DEF A
<1>5. {k \in 1..n : s[k] \in T} = 1..m
  <2>1. ASSUME NEW k \in 1..m PROVE k \in 1..n /\ s[k] \in T
    BY <1>1, <1>4 DEF Picks
  <2>2. ASSUME NEW k \in 1..n, s[k] \in T PROVE k \in 1..m
    <3>1. PICK i \in 1..m : f[i] = k
      BY <2>2 DEF Picks
    <3> QED
      BY <1>4, <3>1
  <2> QED
    BY <2>1, <2>2
<1>6. \A k \in 1..m : q[k] = s[k]
  BY <1>4 DEF Picks
<1>7. q = [k \in 1..m |-> q[k]]
  BY <1>1
<1>8. [k \in 1..m |-> q[k]] = [k \in 1..m |-> s[k]]
  BY <1>6, Zenon
<1> QED
  BY <1>1, <1>5, <1>7, <1>8 DEF FrontOf

-----------------------------------------------------------------------------
(* A mark, its chain and its rows.                                         *)
MarksOfRun(s) ==
    SubSeq(Marks(s), BestRun(Marks(s)).start,
           BestRun(Marks(s)).start + BestRun(Marks(s)).len - 1)

Frontal(s) == {k \in 1..Len(MarksOfRun(s)) : MarksOfRun(s)[k] + Header <= BufLen(s)}

(* DecodeEp2 is the front of the longest chain of marks.                   *)
LEMMA Rows ==
    ASSUME NEW s \in Seq(Piece)
    PROVE  LET marks == Marks(s)
               r == BestRun(marks)
               q == MarksOfRun(s)
           IN
           /\ marks \in Seq(Nat) /\ BufLen(s) \in Nat
           /\ \A i \in 1..Len(marks) : marks[i] \in MarkSet(s) /\ marks[i] < BufLen(s)
           /\ \A i, j \in 1..Len(marks) : i < j => marks[i] < marks[j]
           /\ \A x \in MarkSet(s) : \E i \in 1..Len(marks) : marks[i] = x
           /\ q \in Seq(Nat) /\ Len(q) = r.len
           /\ \A k \in 1..r.len : r.start + k - 1 \in 1..Len(marks)
                                    /\ q[k] = marks[r.start + k - 1]
           /\ DecodeEp2(s) \in Seq(Nat) /\ Len(DecodeEp2(s)) <= r.len
           /\ DecodeEp2(s) = [k \in Frontal(s) |-> q[k]]
<1> DEFINE marks == Marks(s)
           r == BestRun(marks)
           q == MarksOfRun(s)
           end == BufLen(s)
           T == {m \in Nat : m + Header <= end}
<1>1. /\ end \in Nat /\ MarkSet(s) \subseteq Nat /\ \A m \in MarkSet(s) : m < end
      /\ Ascends(marks, MarkSet(s))
  BY MarksAre
<1>2. /\ marks \in Seq(Nat) /\ Len(marks) \in Nat
      /\ \A i \in 1..Len(marks) : marks[i] \in MarkSet(s) /\ marks[i] < end
      /\ \A i, j \in 1..Len(marks) : i < j => marks[i] < marks[j]
      /\ \A x \in MarkSet(s) : \E i \in 1..Len(marks) : marks[i] = x
  <2>1. marks \in Seq(MarkSet(s))
    BY <1>1 DEF Ascends
  <2>2. marks \in Seq(Nat) /\ Len(marks) \in Nat /\ \A i \in 1..Len(marks) : marks[i] \in MarkSet(s)
    BY <1>1, <2>1
  <2> HIDE DEF marks, end
  <2> QED
    BY <1>1, <2>2 DEF Ascends
<1> HIDE DEF marks
<1>3. r.start \in Nat \ {0} /\ r.len \in Nat /\ r.start + r.len - 1 <= Len(marks)
  BY <1>2, BestRunIs
<1> HIDE DEF r
<1>4. q = SubSeq(marks, r.start, r.start + r.len - 1)
  BY Zenon DEF MarksOfRun, r, marks
<1> HIDE DEF q
<1>5. /\ q \in Seq(Nat) /\ Len(q) = r.len
      /\ \A k \in 1..r.len : r.start + k - 1 \in 1..Len(marks) /\ q[k] = marks[r.start + k - 1]
  <2> DEFINE e == r.start + r.len - 1
  <2>0. e \in Int /\ \A i \in r.start..e : i \in 1..Len(marks)
    BY <1>2, <1>3
  <2>1. r.start \in Int /\ e \in Int /\ \A i \in r.start..e : marks[i] \in Nat
    <3>1. \A i \in 1..Len(marks) : marks[i] \in Nat
      BY <1>2
    <3> QED
      BY <1>3, <2>0, <3>1
  <2>2. /\ q \in Seq(Nat)
        /\ Len(q) = IF r.start <= r.start + r.len - 1
                    THEN (r.start + r.len - 1) - r.start + 1 ELSE 0
        /\ \A k \in 1..(r.start + r.len - 1) - r.start + 1 : q[k] = marks[r.start + k - 1]
    <3> HIDE DEF e
    <3>1. /\ SubSeq(marks, r.start, e) \in Seq(Nat)
          /\ Len(SubSeq(marks, r.start, e)) = IF r.start <= e THEN e - r.start + 1 ELSE 0
          /\ \A k \in 1..e - r.start + 1 :
                SubSeq(marks, r.start, e)[k] = marks[r.start + k - 1]
      BY <2>1, SubSeqProperties
    <3>2. q = SubSeq(marks, r.start, e)
      BY <1>4 DEF e
    <3> QED
      BY <3>1, <3>2 DEF e
  <2>3. (r.start + r.len - 1) - r.start + 1 = r.len
    BY <1>3
  <2>4. Len(q) = r.len
    BY <1>3, <2>2
  <2>5. \A k \in 1..r.len : r.start + k - 1 \in 1..Len(marks)
    BY <1>2, <1>3
  <2> QED
    BY <2>2, <2>3, <2>4, <2>5
<1>6. DecodeEp2(s) = RowsOf(q, end)
  BY <1>4, Zenon DEF DecodeEp2, RowsOf, r, marks
<1>7. PICK f : Picks(f, DecodeEp2(s), q, T, r.len, Nat)
  BY <1>5, <1>6, RowsOfAre
<1>8. \A i, j \in 1..r.len : i < j /\ q[j] \in T => q[i] \in T
  <2> SUFFICES ASSUME NEW i \in 1..r.len, NEW j \in 1..r.len, i < j, q[j] \in T
               PROVE  q[i] \in T
    OBVIOUS
  <2>1. q[i] \in Nat /\ q[j] \in Nat
    <3>1. i \in 1..Len(q) /\ j \in 1..Len(q)
      BY <1>5
    <3>2. q \in Seq(Nat)
      BY <1>5
    <3> QED
      BY <3>1, <3>2, ElementOfSeq
  <2>2. q[i] < q[j]
    <3>1. r.start + i - 1 < r.start + j - 1
      BY <1>3
    <3> QED
      BY <1>2, <1>5, <3>1
  <2>3. Header \in Nat
    BY StrideAssumption
  <2> QED
    BY <1>1, <2>1, <2>2, <2>3
<1> HIDE DEF T
<1>9. /\ DecodeEp2(s) \in Seq(Nat) /\ Len(DecodeEp2(s)) <= r.len
      /\ DecodeEp2(s) = [k \in {k \in 1..r.len : q[k] \in T} |-> q[k]]
  <2> DEFINE d == DecodeEp2(s)
             L == r.len
  <2>1. L \in Nat /\ q \in Seq(Nat) /\ Len(q) = L
    BY <1>3, <1>5
  <2>2. Picks(f, d, q, T, L, Nat)
    BY <1>7
  <2>3. \A i, j \in 1..L : i < j /\ q[j] \in T => q[i] \in T
    BY <1>8
  <2> HIDE DEF d, L
  <2>4. d \in Seq(Nat) /\ Len(d) <= L /\ d = FrontOf(q, T, L)
    BY <2>1, <2>2, <2>3, FrontPicked
  <2> QED
    BY <2>4 DEF d, L, FrontOf
<1>10. {k \in 1..r.len : q[k] \in T} = Frontal(s)
  <2>1. \A k \in 1..r.len : q[k] \in T <=> q[k] + Header <= end
    BY <1>5 DEF T
  <2> QED
    BY <1>5, <2>1 DEF Frontal, q
<1> QED
  BY <1>1, <1>2, <1>5, <1>9, <1>10 DEF marks, r, q

(* No line is longer than Stride.                                          *)
LEMMA BufLenBound ==
    ASSUME NEW s \in Seq(Piece)
    PROVE  BufLen(s) <= Len(s) * Stride
<1> DEFINE n == Len(s)
           A == {k \in 0..n : At(s, k + 1) <= k * Stride}
<1>1. Stride \in Nat /\ n \in Nat /\ \A k \in 1..n : s[k].len \in 1..Stride
  <2>1. \A k \in 1..n : s[k] \in Piece
    OBVIOUS
  <2> QED
    BY <2>1, StrideAssumption DEF Piece
<1>2. /\ At(s, 1) = 0
      /\ \A k \in 1..n + 1 : At(s, k) \in Nat
      /\ \A k \in 1..n : At(s, k + 1) = At(s, k) + s[k].len
  BY AtIs
<1>3. 0 \in A
  BY <1>1, <1>2
<1>4. ASSUME NEW k \in 1..n, k - 1 \in A PROVE k \in A
  <2>1. At(s, k) <= (k - 1) * Stride
    <3>1. (k - 1) + 1 = k
      OBVIOUS
    <3> QED
      BY <1>4, <3>1
  <2>2. (k - 1) * Stride + Stride = k * Stride /\ (k - 1) * Stride \in Nat
    BY <1>1
  <2>3. At(s, k + 1) = At(s, k) + s[k].len /\ s[k].len \in 1..Stride
    BY <1>1, <1>2
  <2>4. At(s, k) \in Nat /\ k \in 0..n
    BY <1>1, <1>2
  <2>5. At(s, k + 1) <= k * Stride
    BY <1>1, <2>1, <2>2, <2>3, <2>4
  <2> QED
    BY <2>4, <2>5
<1> HIDE DEF A
<1>5. 0..n \subseteq A
  BY <1>1, <1>3, <1>4, Induct
<1>6. At(s, n + 1) <= n * Stride
  <2>1. n \in A
    BY <1>1, <1>5
  <2> QED
    BY <2>1 DEF A
<1> QED
  BY <1>6 DEF BufLen

(* No more rows than lines.                                                *)
LEMMA RowsFew ==
    ASSUME NEW s \in Seq(Piece)
    PROVE  DecodeEp2(s) \in Seq(Nat) /\ Len(DecodeEp2(s)) <= Len(s)
<1> DEFINE marks == Marks(s)
           r == BestRun(marks)
           n == Len(s)
           A == {i \in 0..r.len : i > 0 => marks[r.start + i - 1] >= (i - 1) * Stride}
<1>1. /\ marks \in Seq(Nat) /\ BufLen(s) \in Nat
      /\ \A i \in 1..Len(marks) : marks[i] < BufLen(s)
      /\ \A k \in 1..r.len : r.start + k - 1 \in 1..Len(marks)
      /\ DecodeEp2(s) \in Seq(Nat) /\ Len(DecodeEp2(s)) <= r.len
  BY Rows
<1> HIDE DEF marks
<1>2. /\ r.start \in Nat \ {0} /\ r.len \in Nat
      /\ Chain(marks, r.start, r.start + r.len - 1)
  BY <1>1, BestRunIs
<1> HIDE DEF r
<1>3. Stride \in Nat \ {0} /\ n \in Nat /\ BufLen(s) <= n * Stride
  BY StrideAssumption, BufLenBound
<1>4. 0 \in A
  BY <1>2
<1>5. ASSUME NEW i \in 1..r.len, i - 1 \in A PROVE i \in A
  <2>1. r.start + i - 1 \in 1..Len(marks) /\ marks[r.start + i - 1] \in Nat
    BY <1>1
  <2>2. CASE i = 1
    BY <1>2, <1>3, <2>1, <2>2
  <2>3. CASE i > 1
    <3>1. marks[r.start + (i - 1) - 1] >= ((i - 1) - 1) * Stride
      BY <1>5, <2>3
    <3>2. r.start + i - 1 \in r.start + 1..r.start + r.len - 1
      BY <1>2, <2>3
    <3>3. marks[r.start + i - 1] - marks[(r.start + i - 1) - 1] = Stride
      BY <1>2, <3>2 DEF Chain
    <3>4. (r.start + i - 1) - 1 = r.start + (i - 1) - 1
      BY <1>2, SMTT(20)
    <3>5. i - 1 \in 1..r.len
      BY <1>2, <2>3
    <3>6. marks[r.start + (i - 1) - 1] \in Nat
      BY <1>1, <3>5, SMTT(20)
    <3>7. ((i - 1) - 1) * Stride + Stride = (i - 1) * Stride /\ ((i - 1) - 1) * Stride \in Nat
      BY <1>3, <2>3
    <3>8. marks[r.start + i - 1] >= (i - 1) * Stride
      BY <1>3, <2>1, <3>1, <3>3, <3>4, <3>6, <3>7
    <3> QED
      BY <3>8
  <2> QED
    BY <2>2, <2>3
<1> HIDE DEF A
<1>6. 0..r.len \subseteq A
  BY <1>2, <1>4, <1>5, Induct
<1>7. r.len <= n
  <2> SUFFICES ASSUME r.len > n PROVE FALSE
    BY <1>2, <1>3
  <2>1. r.len \in A /\ r.len > 0
    BY <1>2, <1>3, <1>6
  <2>2. marks[r.start + r.len - 1] >= (r.len - 1) * Stride
    BY <2>1 DEF A
  <2>3. r.len \in 1..r.len
    BY <1>2, <2>1
  <2>4. r.start + r.len - 1 \in 1..Len(marks)
    BY <1>1, <2>3
  <2>5. marks[r.start + r.len - 1] \in Nat /\ marks[r.start + r.len - 1] < n * Stride
    <3>1. marks[r.start + r.len - 1] \in Nat /\ n * Stride \in Nat
      BY <1>1, <1>3, <2>4
    <3>2. marks[r.start + r.len - 1] < BufLen(s)
      BY <1>1, <2>4
    <3> QED
      BY <1>1, <1>3, <3>1, <3>2
  <2> DEFINE d == r.len - 1 - n
  <2>6. d \in Nat /\ r.len - 1 = n + d
    BY <1>2, <1>3
  <2> HIDE DEF d
  <2>7. (n + d) * Stride = n * Stride + d * Stride /\ d * Stride \in Nat /\ n * Stride \in Nat
    BY <1>3, <2>6
  <2> QED
    BY <2>2, <2>5, <2>6, <2>7
<1> QED
  BY <1>1, <1>2, <1>3, <1>7

(* Lines received one behind the other.                                    *)
Behind(s, a, b) ==
    /\ \A n \in a..b : 0 \in s[n].marks
    /\ \A n \in a..b - 1 : s[n].len = Stride

(* 01 fe stands in headers only, and broken lines do not happen to fit.    *)
NoChance(s) ==
    /\ \A n \in 1..Len(s) : s[n].marks \subseteq {0}
    /\ \A a, b \in 1..Len(s) : a + 1 < b => At(s, b) - At(s, a) # Stride

(* Where 01 fe stands nowhere but in headers, each mark begins a line.     *)
LEMMA MarkLines ==
    ASSUME NEW s \in Seq(Piece), NoChance(s)
    PROVE  /\ \A x \in MarkSet(s) : \E n \in 1..Len(s) : 0 \in s[n].marks /\ x = At(s, n)
           /\ \A n \in 1..Len(s) : 0 \in s[n].marks => At(s, n) \in MarkSet(s)
           /\ \A i, j \in 1..Len(s) : At(s, i) < At(s, j) => i < j
           /\ \A i \in 1..Len(s) : At(s, i) \in Nat /\ s[i].len \in Nat
                /\ At(s, i + 1) = At(s, i) + s[i].len
<1>1. DOMAIN s = 1..Len(s) /\ Len(s) \in Nat
  OBVIOUS
<1>2. /\ \A k \in 1..Len(s) + 1 : At(s, k) \in Nat
      /\ \A k \in 1..Len(s) : At(s, k + 1) = At(s, k) + s[k].len
  BY AtIs
<1>3. \A i \in 1..Len(s) : At(s, i) \in Nat /\ s[i].len \in Nat
  <2>1. \A k \in 1..Len(s) : s[k] \in Piece
    OBVIOUS
  <2>2. \A k \in 1..Len(s) : s[k].len \in Nat
    BY <2>1, StrideAssumption DEF Piece
  <2>3. \A k \in 1..Len(s) : k \in 1..Len(s) + 1
    BY <1>1
  <2> QED
    BY <1>2, <2>2, <2>3
<1>4. ASSUME NEW x \in MarkSet(s)
      PROVE  \E n \in 1..Len(s) : 0 \in s[n].marks /\ x = At(s, n)
  <2>1. PICK n \in 1..Len(s) : x \in {At(s, n) + o : o \in s[n].marks}
    BY <1>1 DEF MarkSet
  <2>2. PICK o \in s[n].marks : x = At(s, n) + o
    BY <2>1
  <2>3. o = 0
    BY <2>2 DEF NoChance
  <2>4. x = At(s, n)
    BY <1>3, <2>2, <2>3
  <2> QED
    BY <2>2, <2>3, <2>4
<1>5. ASSUME NEW n \in 1..Len(s), 0 \in s[n].marks PROVE At(s, n) \in MarkSet(s)
  <2>1. At(s, n) + 0 = At(s, n)
    BY <1>3
  <2>2. At(s, n) \in {At(s, n) + o : o \in s[n].marks}
    BY <1>5, <2>1
  <2> QED
    BY <1>1, <2>2 DEF MarkSet
<1>6. ASSUME NEW i \in 1..Len(s), NEW j \in 1..Len(s), At(s, i) < At(s, j) PROVE i < j
  <2> SUFFICES ASSUME ~(i < j) PROVE FALSE
    OBVIOUS
  <2>1. CASE i = j
    BY <1>3, <1>6, <2>1
  <2>2. CASE j < i
    <3>1. i \in 1..Len(s) + 1
      BY <1>1
    <3>2. At(s, j) < At(s, i)
      BY <2>2, <3>1, AtGrows
    <3> QED
      BY <1>3, <1>6, <3>2
  <2> QED
    BY <2>1, <2>2
<1> QED
  BY <1>2, <1>3, <1>4, <1>5, <1>6

(* A chain of marks is one of lines.                                       *)
LEMMA ChainLines ==
    ASSUME NEW s \in Seq(Piece), NoChance(s),
           NEW i \in 1..Len(Marks(s)), NEW j \in 1..Len(Marks(s)), i <= j,
           Chain(Marks(s), i, j)
    PROVE  \E n \in 1..Len(s) :
              /\ n + (j - i) <= Len(s) /\ Behind(s, n, n + (j - i))
              /\ \A d \in 0..j - i : Marks(s)[i + d] = At(s, n + d)
<1> DEFINE marks == Marks(s)
           N == Len(s)
<1>1. /\ marks \in Seq(Nat) /\ N \in Nat
      /\ \A k \in 1..Len(marks) : marks[k] \in MarkSet(s)
      /\ \A a, b \in 1..Len(marks) : a < b => marks[a] < marks[b]
  BY Rows
<1> HIDE DEF marks, N
<1>2. /\ \A x \in MarkSet(s) : \E n \in 1..N : 0 \in s[n].marks /\ x = At(s, n)
      /\ \A a, b \in 1..N : At(s, a) < At(s, b) => a < b
      /\ \A a \in 1..N : At(s, a) \in Nat /\ s[a].len \in Nat
            /\ At(s, a + 1) = At(s, a) + s[a].len
  BY MarkLines DEF N
<1>3. PICK n \in 1..N : 0 \in s[n].marks /\ marks[i] = At(s, n)
  BY <1>1, <1>2 DEF marks
<1>4. Chain(marks, i, j) /\ j \in 1..Len(marks) /\ i \in 1..Len(marks)
  BY DEF marks
<1> DEFINE Good(d) == /\ n + d \in 1..N /\ marks[i + d] = At(s, n + d)
                      /\ 0 \in s[n + d].marks /\ (d > 0 => s[n + d - 1].len = Stride)
           A == {d \in 0..j - i : Good(d)}
<1>5. 0 \in A
  <2>1. n + 0 = n /\ i + 0 = i /\ ~(0 > 0) /\ 0 \in 0..j - i
    BY <1>4
  <2>2. Good(0)
    BY <1>3, <2>1
  <2> HIDE DEF Good
  <2> QED
    BY <2>1, <2>2
<1>6. ASSUME NEW d \in 1..j - i, d - 1 \in A PROVE d \in A
  <2> DEFINE k == n + (d - 1)
  <2>1. k \in 1..N /\ marks[i + (d - 1)] = At(s, k)
    BY <1>6
  <2>2. /\ i + d \in i + 1..j /\ i + d \in 1..Len(marks) /\ i + (d - 1) \in 1..Len(marks)
        /\ (i + d) - 1 = i + (d - 1) /\ k + 1 = n + d /\ d \in 0..j - i
        /\ n + d - 1 = k
    BY <1>4
  <2> HIDE DEF k
  <2>3. marks[i + d] - marks[i + (d - 1)] = Stride
    BY <1>4, <2>2 DEF Chain
  <2>4. PICK l \in 1..N : 0 \in s[l].marks /\ marks[i + d] = At(s, l)
    BY <1>1, <1>2, <2>2
  <2>5. At(s, l) - At(s, k) = Stride /\ At(s, l) \in Nat /\ At(s, k) \in Nat
    BY <1>2, <2>1, <2>3, <2>4
  <2>6. k < l
    <3>1. At(s, k) < At(s, l)
      BY <2>5, StrideAssumption
    <3> QED
      BY <1>2, <2>1, <3>1
  <2>7. l = k + 1
    <3>1. ~(k + 1 < l)
      BY <2>1, <2>5 DEF NoChance, N
    <3> QED
      BY <2>1, <2>6, <3>1
  <2>8. s[k].len = Stride
    <3>1. At(s, k + 1) = At(s, k) + s[k].len /\ s[k].len \in Nat
      BY <1>2, <2>1
    <3> QED
      BY <2>5, <2>7, <3>1, SMTT(20)
  <2>9. Good(d)
    BY <2>2, <2>4, <2>7, <2>8
  <2> HIDE DEF Good
  <2> QED
    BY <2>2, <2>9
<1> HIDE DEF Good, A
<1>7. j - i \in Nat
  BY <1>4
<1>8. 0..j - i \subseteq A
  BY <1>5, <1>6, <1>7, Induct
<1>9. \A d \in 0..j - i : Good(d)
  BY <1>8 DEF A
<1>10. n + (j - i) <= N
  <2>1. Good(j - i)
    BY <1>7, <1>9
  <2> QED
    BY <2>1 DEF Good
<1>11. Behind(s, n, n + (j - i))
  <2>1. ASSUME NEW m \in n..n + (j - i) PROVE 0 \in s[m].marks
    <3>1. m - n \in 0..j - i /\ n + (m - n) = m
      BY <1>7
    <3>2. Good(m - n)
      BY <1>9, <3>1
    <3> QED
      BY <3>1, <3>2 DEF Good
  <2>2. ASSUME NEW m \in n..n + (j - i) - 1 PROVE s[m].len = Stride
    <3> DEFINE d == m + 1 - n
    <3>1. d \in 0..j - i /\ d > 0 /\ n + d - 1 = m
      BY <1>7
    <3> HIDE DEF d
    <3>2. Good(d)
      BY <1>9, <3>1
    <3> QED
      BY <3>1, <3>2 DEF Good
  <2> QED
    BY <2>1, <2>2 DEF Behind
<1>12. \A d \in 0..j - i : marks[i + d] = At(s, n + d)
  BY <1>9 DEF Good
<1> QED
  BY <1>10, <1>11, <1>12 DEF marks, N

(* And the other way around.                                               *)
LEMMA LinesChain ==
    ASSUME NEW s \in Seq(Piece), NoChance(s),
           NEW a \in 1..Len(s), NEW b \in 1..Len(s), a <= b, Behind(s, a, b)
    PROVE  \E i \in 1..Len(Marks(s)) :
              i + (b - a) <= Len(Marks(s)) /\ Chain(Marks(s), i, i + (b - a))
<1> DEFINE marks == Marks(s)
           N == Len(s)
           m == Len(marks)
<1>1. /\ marks \in Seq(Nat) /\ N \in Nat /\ m \in Nat
      /\ \A k \in 1..m : marks[k] \in MarkSet(s) /\ marks[k] \in Nat
      /\ \A x, y1 \in 1..m : x < y1 => marks[x] < marks[y1]
      /\ \A x \in MarkSet(s) : \E i \in 1..m : marks[i] = x
  <2>1. marks \in Seq(Nat)
    BY Rows
  <2>2. /\ \A k \in 1..m : marks[k] \in MarkSet(s)
        /\ \A x, y1 \in 1..m : x < y1 => marks[x] < marks[y1]
        /\ \A x \in MarkSet(s) : \E i \in 1..m : marks[i] = x
    BY Rows
  <2> HIDE DEF marks
  <2> QED
    BY <2>1, <2>2
<1> HIDE DEF marks, N, m
<1>2. /\ \A x \in MarkSet(s) : \E n \in 1..N : 0 \in s[n].marks /\ x = At(s, n)
      /\ \A n \in 1..N : 0 \in s[n].marks => At(s, n) \in MarkSet(s)
      /\ \A x, z \in 1..N : At(s, x) < At(s, z) => x < z
      /\ \A x \in 1..N : At(s, x) \in Nat /\ s[x].len \in Nat
            /\ At(s, x + 1) = At(s, x) + s[x].len
  BY MarkLines DEF N
<1>3. /\ a \in 1..N /\ b \in 1..N
      /\ \A n \in a..b : 0 \in s[n].marks
      /\ \A n \in a..b - 1 : s[n].len = Stride
  BY DEF N, Behind
<1>4. \A n \in a..b : n \in 1..N /\ At(s, n) \in MarkSet(s)
  BY <1>1, <1>2, <1>3
<1>5. PICK i \in 1..m : marks[i] = At(s, a)
  BY <1>1, <1>3, <1>4
<1> DEFINE Good(d) == i + d \in 1..m /\ marks[i + d] = At(s, a + d)
                        /\ (d > 0 => marks[i + d] - marks[i + (d - 1)] = Stride)
           A == {d \in 0..b - a : Good(d)}
<1>6. 0 \in A
  <2>1. i + 0 = i /\ a + 0 = a /\ 0 \in 0..b - a /\ ~(0 > 0)
    BY <1>3
  <2> QED
    BY <1>5, <2>1
<1>7. ASSUME NEW d \in 1..b - a, d - 1 \in A PROVE d \in A
  <2> DEFINE k == i + (d - 1)
             n == a + (d - 1)
  <2>1. k \in 1..m /\ marks[k] = At(s, n)
    BY <1>7
  <2>2. /\ n \in a..b - 1 /\ n \in 1..N /\ n + 1 \in a..b /\ n + 1 = a + d /\ k + 1 = i + d
        /\ d \in 0..b - a
    BY <1>1, <1>3
  <2> HIDE DEF k, n
  <2>3. At(s, n + 1) = At(s, n) + Stride /\ At(s, n + 1) \in Nat /\ At(s, n) \in Nat
        /\ n + 1 \in 1..N
    BY <1>2, <1>3, <1>4, <2>2
  <2>4. PICK l \in 1..m : marks[l] = At(s, n + 1)
    BY <1>1, <1>4, <2>2
  <2>5. At(s, n) < At(s, n + 1)
    BY <2>3, StrideAssumption
  <2>6. k < l
    <3> SUFFICES ASSUME ~(k < l) PROVE FALSE
      OBVIOUS
    <3>1. k = l \/ l < k
      BY <1>1, <2>1
    <3>2. marks[k] = marks[l] \/ marks[l] < marks[k]
      BY <1>1, <2>1, <3>1
    <3> QED
      BY <2>1, <2>3, <2>4, <2>5, <3>2
  <2>7. l = k + 1
    <3> SUFFICES ASSUME l # k + 1 PROVE FALSE
      OBVIOUS
    <3>1. k + 1 \in 1..m /\ k < k + 1 /\ k + 1 < l
      BY <1>1, <2>1, <2>6
    <3>2. marks[k] < marks[k + 1] /\ marks[k + 1] < marks[l]
      BY <1>1, <2>1, <3>1
    <3>3. PICK x \in 1..N : marks[k + 1] = At(s, x)
      BY <1>1, <1>2, <3>1
    <3>4. n < x /\ x < n + 1
      BY <1>2, <2>1, <2>2, <2>3, <2>4, <3>2, <3>3
    <3> QED
      BY <2>2, <3>4
  <2>8. Good(d)
    <3>1. i + d \in 1..m /\ marks[i + d] = At(s, a + d)
      BY <2>2, <2>4, <2>7
    <3>2. marks[i + d] - marks[i + (d - 1)] = Stride
      <4>1. marks[i + (d - 1)] = At(s, n)
        BY <2>1 DEF k
      <4>2. marks[i + d] = At(s, n + 1)
        BY <2>2, <3>1
      <4> QED
        BY <2>3, <4>1, <4>2, StrideAssumption
    <3> QED
      BY <3>1, <3>2
  <2> HIDE DEF Good
  <2> QED
    BY <2>2, <2>8
<1> HIDE DEF Good, A
<1>8. b - a \in Nat
  BY <1>1, <1>3
<1>9. 0..b - a \subseteq A
  BY <1>6, <1>7, <1>8, Induct
<1>10. \A d \in 0..b - a : Good(d)
  BY <1>9 DEF A
<1>11. i + (b - a) <= m
  <2>1. Good(b - a)
    BY <1>8, <1>10
  <2> QED
    BY <2>1 DEF Good
<1>12. Chain(marks, i, i + (b - a))
  <2> SUFFICES ASSUME NEW k \in i + 1..i + (b - a) PROVE marks[k] - marks[k - 1] = Stride
    BY DEF Chain
  <2>1. k - i \in 0..b - a /\ k - i > 0 /\ i + (k - i) = k /\ i + ((k - i) - 1) = k - 1
    BY <1>8
  <2>2. Good(k - i)
    BY <1>10, <2>1
  <2> QED
    BY <2>1, <2>2 DEF Good
<1> QED
  BY <1>11, <1>12 DEF marks, m

(* The longest chain of marks is the longest stretch of lines.             *)
LEMMA LongestIs ==
    ASSUME stream \in Seq(Piece), NoChance(stream)
    PROVE  Longest = BestRun(Marks(stream)).len
<1> DEFINE s == stream
           marks == Marks(s)
           r == BestRun(marks)
           N == Len(s)
           Z == {n \in 0..N : \E a \in 1..N + 1 - n : BackToBack(a, a + n - 1)}
<1>1. marks \in Seq(Nat) /\ N \in Nat /\ Len(marks) \in Nat
  <2>1. marks \in Seq(Nat)
    BY Rows
  <2> HIDE DEF marks
  <2> QED
    BY <2>1
<1>2. /\ r.start \in Nat \ {0} /\ r.len \in Nat /\ r.start + r.len - 1 <= Len(marks)
      /\ Chain(marks, r.start, r.start + r.len - 1)
      /\ \A a, b \in 1..Len(marks) : a <= b /\ Chain(marks, a, b) => b - a + 1 <= r.len
  <2> HIDE DEF marks
  <2> QED
    BY <1>1, BestRunIs
<1>3. \A a, b : BackToBack(a, b) <=> Behind(s, a, b)
  BY DEF BackToBack, Behind
<1>4. Longest = Max(Z)
  BY Zenon DEF Longest
<1> HIDE DEF s, marks, r, N
<1>5. r.len \in Z
  <2>1. CASE r.len = 0
    <3>1. 1 \in 1..N + 1 - 0 /\ 1 + 0 - 1 = 0 /\ 1..0 = {} /\ 1..0 - 1 = {}
      BY <1>1
    <3>2. Behind(s, 1, 1 + 0 - 1)
      BY <3>1 DEF Behind
    <3>3. 0 \in 0..N
      BY <1>1
    <3> QED
      BY <1>3, <2>1, <3>1, <3>2, <3>3
  <2>2. CASE r.len # 0
    <3> DEFINE j == r.start + r.len - 1
    <3>1. r.start \in 1..Len(marks) /\ j \in 1..Len(marks) /\ r.start <= j
          /\ j - r.start = r.len - 1
      BY <1>1, <1>2, <2>2, SMTT(20)
    <3>2. PICK n \in 1..N : n + (j - r.start) <= N /\ Behind(s, n, n + (j - r.start))
      <4> HIDE DEF j
      <4>1. Chain(marks, r.start, j)
        BY <1>2 DEF j
      <4> QED
        BY <3>1, <4>1, ChainLines DEF s, N, marks
    <3>3. n + (j - r.start) = n + r.len - 1 /\ n \in 1..N + 1 - r.len /\ r.len \in 0..N
      <4>1. r.len \in Nat /\ N \in Nat /\ n \in 1..N
        BY <1>1, <1>2
      <4> DEFINE d == j - r.start
      <4>2. d = r.len - 1 /\ n + d <= N
        BY <3>1, <3>2
      <4> HIDE DEF d
      <4>3. n + d = n + r.len - 1 /\ n \in 1..N + 1 - r.len /\ r.len \in 0..N
        BY <2>2, <4>1, <4>2
      <4> QED
        BY <4>3 DEF d
    <3> QED
      BY <1>3, <3>2, <3>3
  <2> QED
    BY <2>1, <2>2
<1>6. ASSUME NEW z \in Z PROVE z <= r.len
  <2>1. PICK a \in 1..N + 1 - z : Behind(s, a, a + z - 1)
    BY <1>3
  <2>2. CASE z = 0
    BY <1>2, <2>2
  <2>3. CASE z # 0
    <3> DEFINE b == a + z - 1
    <3>1. z \in Nat /\ a \in 1..N /\ b \in 1..N /\ a <= b /\ b - a = z - 1
      BY <1>1, <2>3
    <3>2. Behind(s, a, b)
      BY <2>1
    <3> HIDE DEF b
    <3>3. PICK i \in 1..Len(marks) :
             i + (b - a) <= Len(marks) /\ Chain(marks, i, i + (b - a))
      BY <3>1, <3>2, LinesChain DEF s, N, marks
    <3>4. i + (b - a) \in 1..Len(marks) /\ i <= i + (b - a)
      BY <1>1, <3>1, <3>3
    <3>5. (i + (b - a)) - i + 1 <= r.len
      BY <1>2, <3>3, <3>4
    <3> QED
      BY <1>2, <3>1, <3>5
  <2> QED
    BY <2>2, <2>3
<1>7. Z \in SUBSET (0..N)
  OBVIOUS
<1> HIDE DEF Z
<1>8. Max(Z) \in Z /\ \A z \in Z : Max(Z) >= z
  BY <1>1, <1>5, <1>7, MaxIs
<1>9. Max(Z) = r.len
  <2>1. Max(Z) \in Nat
    <3>1. Max(Z) \in 0..N
      BY <1>7, <1>8
    <3> QED
      BY <3>1
  <2> QED
    BY <1>2, <1>5, <1>6, <1>8, <2>1
<1> QED
  BY <1>4, <1>9 DEF r, marks, s

(* The rows are those of the longest stretch of whole lines.               *)
LEMMA FramesAre ==
    ASSUME stream \in Seq(Piece), rows = DecodeEp2(stream), ~ChanceMark, ~ChanceFit,
           stream # None
    PROVE  \E a \in 1..Len(stream) :
              LET b == a + Longest - 1 IN
              /\ b <= Len(stream) /\ (Longest > 0 => BackToBack(a, b))
              /\ rows = [k \in {k \in 1..Longest :
                                    At(stream, a + k - 1) + Header <= BufLen(stream)}
                            |-> At(stream, a + k - 1)]
<1> DEFINE marks == Marks(stream)
           r == BestRun(marks)
           q == MarksOfRun(stream)
           N == Len(stream)
           L == Longest
           Fit(a) == {k \in 1..L : At(stream, a + k - 1) + Header <= BufLen(stream)}
<1>1. NoChance(stream)
  <2>1. \A n \in 1..N : stream[n].marks \subseteq {0}
    BY DEF ChanceMark
  <2> QED
    BY <2>1 DEF NoChance, ChanceFit
<1>2. L = r.len
  BY <1>1, LongestIs
<1>3. /\ marks \in Seq(Nat) /\ Len(q) = r.len
      /\ \A k \in 1..r.len : r.start + k - 1 \in 1..Len(marks) /\ q[k] = marks[r.start + k - 1]
      /\ rows = [k \in Frontal(stream) |-> q[k]]
  BY Rows
<1>4. N \in Nat \ {0}
  BY DEF None
<1> HIDE DEF marks, N
<1>5. /\ r.start \in Nat \ {0} /\ r.len \in Nat /\ r.start + r.len - 1 <= Len(marks)
      /\ Chain(marks, r.start, r.start + r.len - 1)
  BY <1>3, BestRunIs
<1> HIDE DEF r, L, q
<1>7. \E a \in 1..N :
         /\ a + L - 1 <= N /\ (L > 0 => BackToBack(a, a + L - 1))
         /\ \A k \in 1..L : q[k] = At(stream, a + k - 1)
  <2>1. CASE r.len = 0
    <3>1. 1 \in 1..N /\ 1 + L - 1 <= N /\ ~(L > 0) /\ 1..L = {}
      BY <1>2, <1>4, <2>1
    <3> QED
      BY <3>1
  <2>2. CASE r.len # 0
    <3> DEFINE j == r.start + r.len - 1
    <3>1. r.start \in 1..Len(marks) /\ j \in 1..Len(marks) /\ r.start <= j
          /\ j - r.start = r.len - 1
      <4>1. Len(marks) \in Nat
        BY <1>3
      <4> QED
        BY <1>5, <2>2, <4>1
    <3>2. Chain(marks, r.start, j)
      BY <1>5
    <3> HIDE DEF j
    <3>3. PICK n \in 1..N :
             /\ n + (j - r.start) <= N /\ Behind(stream, n, n + (j - r.start))
             /\ \A d \in 0..j - r.start : marks[r.start + d] = At(stream, n + d)
      BY <1>1, <3>1, <3>2, ChainLines DEF marks, N
    <3>4. n + (j - r.start) = n + L - 1
      BY <1>2, <1>4, <1>5, <3>1
    <3>5. ASSUME NEW k \in 1..L PROVE q[k] = At(stream, n + k - 1)
      <4>1. k - 1 \in 0..j - r.start /\ r.start + (k - 1) = r.start + k - 1
            /\ n + (k - 1) = n + k - 1
        BY <1>2, <1>4, <1>5, <3>1
      <4>2. marks[r.start + (k - 1)] = At(stream, n + (k - 1))
        BY <3>3, <4>1
      <4>3. q[k] = marks[r.start + k - 1]
        BY <1>2, <1>3
      <4> QED
        BY <4>1, <4>2, <4>3
    <3>6. BackToBack(n, n + L - 1)
      BY <3>3, <3>4 DEF BackToBack, Behind
    <3> QED
      BY <3>3, <3>4, <3>5, <3>6
  <2> QED
    BY <2>1, <2>2
<1>8. PICK a \in 1..N :
         /\ a + L - 1 <= N /\ (L > 0 => BackToBack(a, a + L - 1))
         /\ \A k \in 1..L : q[k] = At(stream, a + k - 1)
  BY <1>7
<1>9. Frontal(stream) = Fit(a)
  <2>1. Frontal(stream) = {k \in 1..L : q[k] + Header <= BufLen(stream)}
    BY <1>2, <1>3 DEF Frontal, q
  <2> QED
    BY <1>8, <2>1
<1>10. rows = [k \in Fit(a) |-> At(stream, a + k - 1)]
  <2>1. \A k \in Fit(a) : q[k] = At(stream, a + k - 1)
    BY <1>8
  <2>2. [k \in Fit(a) |-> q[k]] = [k \in Fit(a) |-> At(stream, a + k - 1)]
    BY <2>1, Zenon
  <2> HIDE DEF Fit
  <2> QED
    BY <1>3, <1>9, <2>2
<1> QED
  BY <1>8, <1>10 DEF L, N

-----------------------------------------------------------------------------
(* The pixels of a row.                                                    *)

TakenBy(d, i) ==
    CASE d.mode = 8 -> 8
      [] d.mode = 4 -> 4
      [] OTHER -> IF Used(d, i) THEN Bits(d, i) ELSE 0

(* A sample takes up a byte at most.                                       *)
LEMMA TakenType ==
    ASSUME NEW d, NEW i
    PROVE  TakenBy(d, i) \in 0..8 /\ (Used(d, i) => Bits(d, i) \in 1..8)
<1>1. Used(d, i) => Bits(d, i) \in 1..8
  BY DEF Used
<1>2. CASE d.mode = 8
  BY <1>1, <1>2 DEF TakenBy
<1>3. CASE d.mode # 8 /\ d.mode = 4
  BY <1>1, <1>3 DEF TakenBy
<1>4. CASE d.mode # 8 /\ d.mode # 4
  <2>1. TakenBy(d, i) = IF Used(d, i) THEN Bits(d, i) ELSE 0
    BY <1>4 DEF TakenBy
  <2> QED
    BY <1>1, <2>1
<1> QED
  BY <1>2, <1>3, <1>4

-----------------------------------------------------------------------------
(* The cursor in front of a sample.                                        *)
Place8 == [byte : Nat, bit : 0..7]
Stepped(d, cursor, i) ==
    IF i = 0 THEN [byte |-> 0, bit |-> 0]
    ELSE IF ~Used(d, i - 1) THEN cursor[i - 1]
    ELSE LET c == cursor[i - 1]
             nb == c.bit + Bits(d, i - 1)
         IN IF nb > 7 THEN [byte |-> c.byte + 1, bit |-> Carried(nb)]
                      ELSE [byte |-> c.byte, bit |-> nb]

(* The cursor stays within a byte.                                         *)
LEMMA SteppedType ==
    ASSUME NEW d, NEW g, NEW i \in Nat, i > 0 => g[i - 1] \in Place8
    PROVE  /\ Stepped(d, g, i) \in Place8
           /\ i > 0 /\ Used(d, i - 1) =>
                8 * Stepped(d, g, i).byte + Stepped(d, g, i).bit
                  = Bits(d, i - 1) + (8 * g[i - 1].byte + g[i - 1].bit)
           /\ i > 0 /\ ~Used(d, i - 1) => Stepped(d, g, i) = g[i - 1]
<1>1. CASE i = 0
  BY <1>1 DEF Stepped, Place8
<1>2. CASE i # 0 /\ ~Used(d, i - 1)
  <2>1. i > 0
    BY <1>2
  <2> QED
    BY <1>2, <2>1 DEF Stepped
<1>3. CASE i # 0 /\ Used(d, i - 1)
  <2> DEFINE c == g[i - 1]
             w == Bits(d, i - 1)
             nb == c.bit + w
             new == Stepped(d, g, i)
  <2>1. c \in Place8 /\ i > 0 /\ w \in 1..8
    BY <1>3, TakenType
  <2>2. c.byte \in Nat /\ c.bit \in 0..7
    BY <2>1 DEF Place8
  <2>3. nb \in Nat /\ nb < 16
    BY <2>1, <2>2
  <2>4. new = IF nb > 7 THEN [byte |-> c.byte + 1, bit |-> nb - 8]
                        ELSE [byte |-> c.byte, bit |-> nb]
    BY <1>3 DEF Stepped, Carried
  <2> HIDE DEF new, c, w
  <2>5. CASE nb > 7
    <3>1. new = [byte |-> c.byte + 1, bit |-> nb - 8]
      BY <2>4, <2>5
    <3>2. new.byte = c.byte + 1 /\ new.bit = nb - 8
      BY <3>1
    <3>3. 8 * new.byte + new.bit = w + (8 * c.byte + c.bit)
      BY <2>1, <2>2, <3>2
    <3>4. new \in Place8
      BY <2>2, <2>3, <2>5, <3>1 DEF Place8
    <3> QED
      BY <1>3, <3>3, <3>4 DEF new, c, w
  <2>6. CASE ~(nb > 7)
    <3>1. new = [byte |-> c.byte, bit |-> nb]
      BY <2>4, <2>6
    <3>2. new.byte = c.byte /\ new.bit = nb
      BY <3>1
    <3>3. 8 * new.byte + new.bit = w + (8 * c.byte + c.bit)
      BY <2>1, <2>2, <3>2
    <3>4. new \in Place8
      BY <2>2, <2>3, <2>6, <3>1 DEF Place8
    <3> QED
      BY <1>3, <3>3, <3>4 DEF new, c, w
  <2> QED
    BY <2>5, <2>6
<1> QED
  BY <1>1, <1>2, <1>3

(* The cursor is moved by one sample after the other.                      *)
LEMMA CursorIs ==
    ASSUME NEW d, d.width \in Nat
    PROVE  \A i \in 0..d.width : Cursor(d)[i] \in Place8 /\ Cursor(d)[i] = Stepped(d, Cursor(d), i)
<1> DEFINE n == d.width
           D == 0..n
           F == [i \in D |-> [g \in [D -> Place8] |-> Stepped(d, g, i)]]
           rank == [i \in D |-> i]
           P(cursor) == cursor = [i \in D |->
            IF i = 0 THEN [byte |-> 0, bit |-> 0]
            ELSE IF ~Used(d, i - 1) THEN cursor[i - 1]
            ELSE LET c == cursor[i - 1]
                     nb == c.bit + Bits(d, i - 1)
                 IN IF nb > 7 THEN [byte |-> c.byte + 1, bit |-> Carried(nb)]
                              ELSE [byte |-> c.byte, bit |-> nb]]
           b == CHOOSE cursor : P(cursor)
<1>1. \A i \in D : i \in Nat /\ (i # 0 => i > 0 /\ i - 1 \in D /\ i - 1 < i)
  OBVIOUS
<1>2. \A i \in D : \A g \in [D -> Place8] : F[i][g] = Stepped(d, g, i)
  OBVIOUS
<1>3. \A i \in D : rank[i] = i
  OBVIOUS
<1>4. Place8 # {}
  <2>1. [byte |-> 0, bit |-> 0] \in Place8
    BY DEF Place8
  <2> QED
    BY <2>1
<1>5. n \in Nat /\ \A i \in D : i \in 0..n
  OBVIOUS
<1> HIDE DEF F, rank, D, n
<1>6. Ranked(rank, D, n)
  BY <1>3, <1>5 DEF Ranked
<1>7. Typed(F, D, Place8)
  <2> SUFFICES ASSUME NEW i \in D, NEW g \in [D -> Place8] PROVE F[i][g] \in Place8
    BY Zenon DEF Typed
  <2>1. i > 0 => g[i - 1] \in Place8
    BY <1>1
  <2>2. Stepped(d, g, i) \in Place8
    BY <1>1, <2>1, SteppedType
  <2> QED
    BY <1>2, <2>2
<1>8. Local(F, rank, D, Place8)
  <2> SUFFICES ASSUME NEW i \in D, NEW g \in [D -> Place8], NEW h1 \in [D -> Place8],
                      \A k \in D : rank[k] < rank[i] => g[k] = h1[k]
               PROVE  F[i][g] = F[i][h1]
    BY Zenon DEF Local
  <2>1. i # 0 => g[i - 1] = h1[i - 1]
    BY <1>1, <1>3
  <2>2. Stepped(d, g, i) = Stepped(d, h1, i)
    BY <2>1 DEF Stepped
  <2> QED
    BY <1>2, <2>2
<1>9. PICK g : Solves(g, F, D, Place8)
  BY <1>4, <1>5, <1>6, <1>7, <1>8, Recursion
<1>10. P(g)
  <2>1. g \in [D -> Place8] /\ \A i \in D : g[i] = Stepped(d, g, i)
    BY <1>2, <1>9 DEF Solves
  <2>2. g = [i \in D |-> g[i]]
    BY <2>1
  <2>3. [i \in D |-> g[i]] = [i \in D |-> Stepped(d, g, i)]
    BY <2>1, Zenon
  <2> QED
    BY <2>2, <2>3, Zenon DEF Stepped
<1>11. P(b)
  BY <1>10, Zenon
<1>12. Cursor(d) = b
  BY Zenon DEF Cursor, D, n
<1> HIDE DEF b
<1>13. \A i \in D : b[i] = Stepped(d, b, i)
  BY <1>11, Zenon DEF Stepped
<1> DEFINE A == {i \in 0..n : b[i] \in Place8}
<1>14. 0..n \subseteq A
  <2>1. \A i \in D : (i # 0 => b[i - 1] \in Place8) => b[i] \in Place8
    <3> SUFFICES ASSUME NEW i \in D, i # 0 => b[i - 1] \in Place8 PROVE b[i] \in Place8
      OBVIOUS
    <3>1. i > 0 => b[i - 1] \in Place8
      BY <1>1
    <3>2. Stepped(d, b, i) \in Place8
      BY <1>1, <3>1, SteppedType
    <3> QED
      BY <1>13, <3>2
  <2>2. D = 0..n
    BY DEF D, n
  <2>3. 0 \in A
    BY <1>5, <2>1, <2>2
  <2>4. \A k \in 1..n : k - 1 \in A => k \in A
    <3>1. \A k \in 1..n : k \in 0..n
      OBVIOUS
    <3> QED
      BY <2>1, <2>2, <3>1
  <2> HIDE DEF A
  <2> QED
    BY <1>5, <2>3, <2>4, Induct
<1> QED
  BY <1>12, <1>13, <1>14 DEF D, n

(* A sample is made of as many bits as the mode takes, from where those of *)
(* the samples before it end.                                              *)
InPlace(d, p, s, i) == s.bits = TakenBy(d, i) /\ s.first = p[i]

(* Samples of the same size are one size apart.                            *)
LEMMA FirstOfFixed ==
    ASSUME NEW n \in Nat, NEW v, NEW p, SumsBelow(p, v, n), NEW w \in Nat,
           \A k \in 0..n - 1 : v[k] = w, NEW i \in 0..n
    PROVE  p[i] = w * i
<1> DEFINE A == {k \in 0..n : p[k] = w * k}
<1>1. 0 \in A
  <2>1. p[0] = 0 /\ w * 0 = 0
    BY DEF SumsBelow
  <2> QED
    BY <2>1
<1>2. ASSUME NEW k \in 1..n, k - 1 \in A PROVE k \in A
  <2>1. p[k] = v[k - 1] + p[k - 1] /\ v[k - 1] = w /\ p[k - 1] = w * (k - 1)
    <3>1. k - 1 \in 0..n - 1
      OBVIOUS
    <3> QED
      BY <1>2, <3>1 DEF SumsBelow
  <2>2. w + w * (k - 1) = w * k /\ k \in 0..n
    OBVIOUS
  <2> QED
    BY <2>1, <2>2
<1> HIDE DEF A
<1>3. 0..n \subseteq A
  BY <1>1, <1>2, Induct
<1> QED
  BY <1>3 DEF A

(* The cursor stands where the samples before it end.                      *)
LEMMA CursorFirst ==
    ASSUME NEW d, d.width \in Nat, d.mode # 8, d.mode # 4,
           NEW v, \A k \in 0..d.width - 1 : v[k] = TakenBy(d, k),
           NEW p, SumsBelow(p, v, d.width), NEW i \in 0..d.width
    PROVE  8 * Cursor(d)[i].byte + Cursor(d)[i].bit = p[i]
<1> DEFINE n == d.width
           c == Cursor(d)
           At8(k) == 8 * c[k].byte + c[k].bit
           A == {k \in 0..n : At8(k) = p[k]}
<1>1. \A k \in 0..n : c[k] \in Place8 /\ c[k] = Stepped(d, c, k)
  BY CursorIs
<1> HIDE DEF c
<1>2. 0 \in A
  <2>1. c[0] = [byte |-> 0, bit |-> 0]
    <3>1. 0 \in 0..n
      OBVIOUS
    <3>2. c[0] = Stepped(d, c, 0)
      BY <1>1, <3>1
    <3> QED
      BY <3>2 DEF Stepped
  <2>2. At8(0) = 0
    BY <2>1
  <2>3. p[0] = 0 /\ 0 \in 0..n
    BY DEF SumsBelow
  <2> HIDE DEF At8
  <2> QED
    BY <2>2, <2>3
<1>3. ASSUME NEW k \in 1..n, k - 1 \in A PROVE k \in A
  <2>1. /\ k - 1 \in 0..n - 1 /\ k - 1 \in 0..n /\ k \in 0..n /\ k > 0 /\ k \in Nat
        /\ At8(k - 1) = p[k - 1]
    BY <1>3
  <2>2. p[k] = TakenBy(d, k - 1) + p[k - 1] /\ p[k - 1] \in Int
    BY <2>1 DEF SumsBelow
  <2>3. TakenBy(d, k - 1) = IF Used(d, k - 1) THEN Bits(d, k - 1) ELSE 0
    BY DEF TakenBy
  <2>4. c[k - 1] \in Place8 /\ c[k] = Stepped(d, c, k)
    BY <1>1, <2>1
  <2>5. CASE Used(d, k - 1)
    <3>1. 8 * c[k].byte + c[k].bit = Bits(d, k - 1) + (8 * c[k - 1].byte + c[k - 1].bit)
      BY <2>1, <2>4, <2>5, SteppedType
    <3> QED
      BY <2>1, <2>2, <2>3, <2>5, <3>1
  <2>6. CASE ~Used(d, k - 1)
    <3>1. c[k] = c[k - 1]
      BY <2>1, <2>4, <2>6, SteppedType
    <3>2. At8(k) = At8(k - 1)
      BY <3>1
    <3> HIDE DEF At8
    <3> QED
      BY <2>1, <2>2, <2>3, <2>6, <3>2
  <2> QED
    BY <2>5, <2>6
<1> HIDE DEF A
<1>4. 0..n \subseteq A
  BY <1>2, <1>3, Induct
<1>5. i \in A
  BY <1>4
<1> QED
  BY <1>5 DEF A, c

(* So does every sample, in all three modes.                               *)
LEMMA SamplesInPlace ==
    ASSUME NEW d, d.width \in Nat, NEW len,
           NEW v, \A k \in 0..d.width - 1 : v[k] = TakenBy(d, k),
           NEW p, SumsBelow(p, v, d.width)
    PROVE  \A i \in DOMAIN Samples(d, len) :
              i \in 0..d.width - 1 /\ InPlace(d, p, Samples(d, len)[i], i)
<1> DEFINE n == d.width
           s == Samples(d, len)
<1>1. \A k \in 0..n - 1 : k \in 0..n
  OBVIOUS
<1>2. CASE d.mode = 8
  <2>1. s = [i \in {i \in 0..n - 1 : i < len} |-> [first |-> 8 * i, bits |-> 8]]
    BY <1>2 DEF Samples
  <2>2. \A k \in 0..n - 1 : v[k] = 8
    BY <1>2 DEF TakenBy
  <2>3. \A i \in 0..n - 1 : p[i] = 8 * i
    <3>1. 8 \in Nat
      OBVIOUS
    <3> QED
      BY <1>1, <2>2, <3>1, FirstOfFixed
  <2>4. \A i \in 0..n - 1 : TakenBy(d, i) = 8
    BY <1>2 DEF TakenBy
  <2> HIDE DEF s, n
  <2>5. \A i \in DOMAIN s : i \in 0..n - 1 /\ s[i].first = 8 * i /\ s[i].bits = 8
    BY <2>1
  <2> QED
    BY <2>3, <2>4, <2>5 DEF InPlace, s, n
<1>3. CASE d.mode # 8 /\ d.mode = 4
  <2>1. s = [i \in {i \in 0..2 * (n \div 2) - 1 : i \div 2 < len} |->
                [first |-> 8 * (i \div 2) + 4 * (i % 2), bits |-> 4]]
    BY <1>3 DEF Samples
  <2>2. \A k \in 0..n - 1 : v[k] = 4
    BY <1>3 DEF TakenBy
  <2>3. \A i \in 0..n - 1 : p[i] = 4 * i
    <3>1. 4 \in Nat
      OBVIOUS
    <3> QED
      BY <1>1, <2>2, <3>1, FirstOfFixed
  <2>4. \A i \in 0..n - 1 : TakenBy(d, i) = 4
    BY <1>3 DEF TakenBy
  <2>5. n \in Nat
    OBVIOUS
  <2> HIDE DEF s, n
  <2>6. \A i \in DOMAIN s : i \in 0..2 * (n \div 2) - 1
           /\ s[i].first = 8 * (i \div 2) + 4 * (i % 2) /\ s[i].bits = 4
    BY <2>1
  <2>7. \A i \in 0..2 * (n \div 2) - 1 :
           i \in 0..n - 1 /\ 8 * (i \div 2) + 4 * (i % 2) = 4 * i
    BY <2>5
  <2> QED
    BY <2>3, <2>4, <2>6, <2>7 DEF InPlace, s, n
<1>4. CASE d.mode # 8 /\ d.mode # 4
  <2> DEFINE c == Cursor(d)
  <2>1. s = [i \in {i \in 0..n - 1 : Used(d, i)} |->
                    [first |-> 8 * c[i].byte + c[i].bit, bits |-> Bits(d, i)]]
    BY <1>4 DEF Samples
  <2>2. \A i \in 0..n - 1 : 8 * c[i].byte + c[i].bit = p[i]
    BY <1>1, <1>4, CursorFirst
  <2>3. \A i \in 0..n - 1 : TakenBy(d, i) = IF Used(d, i) THEN Bits(d, i) ELSE 0
    BY <1>4 DEF TakenBy
  <2> HIDE DEF s, n, c
  <2>4. \A i \in DOMAIN s : i \in 0..n - 1 /\ Used(d, i)
           /\ s[i].first = 8 * c[i].byte + c[i].bit /\ s[i].bits = Bits(d, i)
    BY <2>1
  <2> QED
    BY <2>2, <2>3, <2>4 DEF InPlace, s, n
<1> QED
  BY <1>2, <1>3, <1>4

(* Every pixel that is not blank is a sample the permutation sends there.  *)
LEMMA Unpacked ==
    ASSUME NEW d, d.width \in Nat, NEW len, NEW pix \in DOMAIN UnpackLine(d, len),
           UnpackLine(d, len)[pix] # Blank
    PROVE  \E i \in DOMAIN Samples(d, len) :
              d.perm[i] = pix /\ UnpackLine(d, len)[pix] = Samples(d, len)[i]
<1> DEFINE s == Samples(d, len)
           To == {i \in DOMAIN s : d.perm[i] = pix}
<1>1. UnpackLine(d, len)[pix] = IF To = {} THEN Blank ELSE s[Max(To)]
  BY DEF UnpackLine
<1>2. To # {}
  BY <1>1
<1>3. To \in SUBSET (0..d.width)
  <2> DEFINE v == [k \in 0..d.width - 1 |-> TakenBy(d, k)]
  <2>1. \A k \in 0..d.width - 1 : v[k] = TakenBy(d, k) /\ v[k] \in Int
    <3>1. \A k \in 0..d.width - 1 : TakenBy(d, k) \in Int
      BY TakenType
    <3> QED
      BY <3>1
  <2> HIDE DEF v
  <2>2. PICK p : SumsBelow(p, v, d.width)
    BY <2>1, SumsBelowExist
  <2>3. \A i \in DOMAIN s : i \in 0..d.width - 1
    BY <2>1, <2>2, SamplesInPlace
  <2> QED
    BY <2>3
<1> HIDE DEF To
<1>4. Max(To) \in To
  BY <1>2, <1>3, MaxIs
<1> QED
  BY <1>1, <1>2, <1>4 DEF To

(* What the samples before i take up adds up to where i begins.            *)
LEMMA SumTaken ==
    ASSUME NEW v, NEW n \in Nat, \A k \in 0..n - 1 : v[k] = TakenBy(dli, k),
           NEW p, SumsBelow(p, v, n), NEW i \in 0..n
    PROVE  MapThenSumSet(Taken, 0..i - 1) = p[i]
<1> DEFINE D == 0..i - 1
           w == [k \in D |-> Taken(k)]
           P(folded) == folded = [s \in SUBSET D |-> IF s = {} THEN 0
                            ELSE Taken(CHOOSE x \in s : TRUE) + folded[s \ {CHOOSE x \in s : TRUE}]]
           b == CHOOSE folded : P(folded)
<1>1. \A k : Taken(k) = TakenBy(dli, k)
  BY DEF Taken, TakenBy
<1>2. \A k \in D : w[k] = Taken(k) /\ w[k] \in Int
  BY <1>1, TakenType
<1>3. \A k \in D : k \in 0..n - 1
  OBVIOUS
<1>4. IsFiniteSet(D)
  <2>1. 0 \in Int /\ i - 1 \in Int
    OBVIOUS
  <2> QED
    BY <2>1, FS_Interval
<1>5. D = 0..i - 1
  OBVIOUS
<1> HIDE DEF w, D
<1>6. PICK folded : SumOf(folded, w, D)
  BY <1>2, <1>4, SumExists
<1>7. \A s \in SUBSET D : s # {} => (CHOOSE x \in s : TRUE) \in D
  OBVIOUS
<1>8. P(folded)
  <2>1. folded = [s \in SUBSET D |-> IF s = {} THEN 0
                  ELSE w[CHOOSE x \in s : TRUE] + folded[s \ {CHOOSE x \in s : TRUE}]]
    BY <1>6 DEF SumOf
  <2>2. \A s \in SUBSET D :
           (IF s = {} THEN 0
            ELSE w[CHOOSE x \in s : TRUE] + folded[s \ {CHOOSE x \in s : TRUE}])
           = IF s = {} THEN 0
             ELSE Taken(CHOOSE x \in s : TRUE) + folded[s \ {CHOOSE x \in s : TRUE}]
    <3> SUFFICES ASSUME NEW s \in SUBSET D
                 PROVE  (IF s = {} THEN 0
                         ELSE w[CHOOSE x \in s : TRUE] + folded[s \ {CHOOSE x \in s : TRUE}])
                        = IF s = {} THEN 0
                          ELSE Taken(CHOOSE x \in s : TRUE) + folded[s \ {CHOOSE x \in s : TRUE}]
      BY Zenon
    <3> DEFINE x == CHOOSE c \in s : TRUE
    <3>1. s # {} => w[x] = Taken(x)
      BY <1>2, <1>7
    <3> HIDE DEF x
    <3>2. (IF s = {} THEN 0 ELSE w[x] + folded[s \ {x}])
            = IF s = {} THEN 0 ELSE Taken(x) + folded[s \ {x}]
      BY <3>1, Zenon
    <3> QED
      BY <3>2, Zenon DEF x
  <2>3. [s \in SUBSET D |-> IF s = {} THEN 0
                  ELSE w[CHOOSE x \in s : TRUE] + folded[s \ {CHOOSE x \in s : TRUE}]]
        = [s \in SUBSET D |-> IF s = {} THEN 0
                  ELSE Taken(CHOOSE x \in s : TRUE) + folded[s \ {CHOOSE x \in s : TRUE}]]
    BY <2>2, Zenon
  <2> QED
    BY <2>1, <2>3, Zenon
<1>9. P(b)
  BY <1>8, ZenonT(30)
<1>10. MapThenSumSet(Taken, D) = b[D]
  BY Zenon DEF MapThenSumSet, MapThenFoldSet
<1>11. SumOf(b, w, D)
  <2>2. \A s \in SUBSET D :
           (IF s = {} THEN 0
            ELSE w[CHOOSE x \in s : TRUE] + b[s \ {CHOOSE x \in s : TRUE}])
           = IF s = {} THEN 0
             ELSE Taken(CHOOSE x \in s : TRUE) + b[s \ {CHOOSE x \in s : TRUE}]
    <3> HIDE DEF b
    <3> SUFFICES ASSUME NEW s \in SUBSET D
                 PROVE  (IF s = {} THEN 0
                         ELSE w[CHOOSE x \in s : TRUE] + b[s \ {CHOOSE x \in s : TRUE}])
                        = IF s = {} THEN 0
                          ELSE Taken(CHOOSE x \in s : TRUE) + b[s \ {CHOOSE x \in s : TRUE}]
      BY Zenon
    <3> DEFINE x == CHOOSE c \in s : TRUE
    <3>1. s # {} => w[x] = Taken(x)
      BY <1>2, <1>7
    <3> HIDE DEF x
    <3>2. (IF s = {} THEN 0 ELSE w[x] + b[s \ {x}])
            = IF s = {} THEN 0 ELSE Taken(x) + b[s \ {x}]
      BY <3>1, Zenon
    <3> QED
      BY <3>2, Zenon DEF x
  <2>3. [s \in SUBSET D |-> IF s = {} THEN 0
                  ELSE w[CHOOSE x \in s : TRUE] + b[s \ {CHOOSE x \in s : TRUE}]]
        = [s \in SUBSET D |-> IF s = {} THEN 0
                  ELSE Taken(CHOOSE x \in s : TRUE) + b[s \ {CHOOSE x \in s : TRUE}]]
    <3> HIDE DEF b
    <3> QED
      BY <2>2, Zenon
  <2> HIDE DEF b
  <2> QED
    BY <1>9, <2>3, Zenon DEF SumOf
<1> HIDE DEF b
<1>12. b[D] = p[i]
  <2>1. Matches(w, v, D)
    BY <1>1, <1>2, <1>3 DEF Matches
  <2>3. SumsBelow(p, v, n) /\ i \in 0..n /\ n \in Nat
    OBVIOUS
  <2> QED
    BY <1>5, <1>11, <2>1, <2>3, PrefixSum
<1> QED
  BY <1>5, <1>10, <1>12

(* Every pixel is made of the bits of its sample.                          *)
LEMMA PixelsAre ==
    ASSUME dli.width \in Nat, NEW len, row = UnpackLine(dli, len)
    PROVE  \A p \in DOMAIN row :
            row[p] # Blank =>
                \E i \in 0..dli.width - 1 :
                    /\ dli.perm[i] = p
                    /\ row[p].bits = Taken(i)
                    /\ row[p].first = MapThenSumSet(Taken, 0..i - 1)
<1> DEFINE n == dli.width
           v == [k \in 0..n - 1 |-> TakenBy(dli, k)]
<1>1. \A k \in 0..n - 1 : v[k] = TakenBy(dli, k) /\ v[k] \in Int
  <2>1. \A k \in 0..n - 1 : TakenBy(dli, k) \in Int
    BY TakenType
  <2> QED
    BY <2>1
<1> HIDE DEF v
<1>2. PICK p : SumsBelow(p, v, n)
  BY <1>1, SumsBelowExist
<1>3. SUFFICES ASSUME NEW pix \in DOMAIN row, row[pix] # Blank
               PROVE  \E i \in 0..n - 1 :
                    /\ dli.perm[i] = pix
                    /\ row[pix].bits = Taken(i)
                    /\ row[pix].first = MapThenSumSet(Taken, 0..i - 1)
  BY Zenon
<1>4. PICK i \in DOMAIN Samples(dli, len) : dli.perm[i] = pix /\ row[pix] = Samples(dli, len)[i]
  BY <1>3, Unpacked
<1>5. i \in 0..n - 1 /\ InPlace(dli, p, Samples(dli, len)[i], i)
  BY <1>1, <1>2, SamplesInPlace
<1>6. Taken(i) = TakenBy(dli, i)
  BY DEF Taken, TakenBy
<1>7. MapThenSumSet(Taken, 0..i - 1) = p[i]
  <2>1. i \in 0..n
    BY <1>5
  <2> QED
    BY <1>1, <1>2, <2>1, SumTaken
<1>8. row[pix].bits = Taken(i) /\ row[pix].first = MapThenSumSet(Taken, 0..i - 1)
  BY <1>4, <1>5, <1>6, <1>7 DEF InPlace
<1> QED
  BY <1>4, <1>5, <1>8

-----------------------------------------------------------------------------
(* What is known between the steps.                                        *)

(* Of the stream, its rows and what one of them shows.                     *)
DecodeInv ==
    /\ stream \in Seq(Pieces) /\ rows \in Seq(Nat)
    /\ total \in 0..MaxPieces /\ contact \in Seq(BOOLEAN)
    /\ stage = "unpack" => rows = DecodeEp2(stream)
    /\ stage = "gate" =>
          row = None \/ (dli \in Dlis /\ \E len : row = UnpackLine(dli, len))
    /\ stage # "gate" => row = None
    /\ stage \in {"unpack", "gate", "runs"} => Len(contact) = total

(* Of the contact runs.                                                    *)
RunsInv ==
    /\ runs \in Seq(Span)
    /\ \A k \in 1..Len(runs) : runs[k].to <= MaxPieces /\ runs[k].to - runs[k].from >= RunMin
    /\ stage = "found" => runs = ContactRuns(contact)

(* Of the path through the lags of a run.                                  *)
TrackInv ==
    /\ stage \in {"track", "measure"} =>
          /\ Kept(corr) \in MinCulled..MaxKept
          /\ DOMAIN corr = 0..Kept(corr) - 1
          /\ \A t \in DOMAIN corr : corr[t] \in CorrRows
    /\ stage = "track" => Scored(score, corr) /\ Len(score) <= Kept(corr)
    /\ stage # "track" => score = None
    /\ stage = "measure" =>
          /\ path \in PathsOf(Kept(corr))
          /\ \A p \in PathsOf(Kept(corr)) : ValueOf(corr, p) <= ValueOf(corr, path)

(* Of the measurements and where the lines were taken.                     *)
PlaceInv ==
    /\ stage \in {"place", "resample"} =>
          /\ Sorted(good) /\ Len(good) <= MaxKept
          /\ Kept(lag) \in MinCulled..MaxKept
          /\ \A t \in 0..Kept(lag) - 1 : lag[t] \in Int /\ lag[t] <= Sep
    /\ stage \notin {"place", "resample"} => good = None
    /\ stage = "resample" => y = Positions(good, lag, Kept(lag))
    /\ best \in Nat

(* The band that is right for rows of high energy among n.                 *)
BandOf(b, A, n) ==
    b.to > 0 =>
        LET bands == {r \in [from : 0..n - 1, to : 1..n] :
                         /\ r.from < r.to
                         /\ r.from \in A /\ r.to - 1 \in A
                         /\ \A i \in r.from..r.to - 1 - Bridge : \E z \in i..i + Bridge : z \in A}
            longest == Max({r.to - r.from : r \in bands} \cup {0})
        IN IF longest >= MinBand
             THEN b \in bands /\ b.to - b.from = longest
             ELSE b = [from |-> 0, to |-> n]

(* Of the raw band.                                                        *)
BandInv ==
    /\ above \subseteq 0..total - 1
    /\ stage \notin {"band", "done"} => above = {}
    /\ band \in [from : 0..MaxPieces, to : 0..MaxPieces] /\ band.from <= band.to
    /\ stage # "done" => band = NoBand
    /\ BandOf(band, above, total)

(* Of the mask.                                                            *)
NoMask == h = 0 /\ open = {} /\ background = {} /\ stack = <<>>
Masked == MaskInv /\ Members(stack) \subseteq Pixels(h)
FillInv ==
    /\ NoMask \/ Masked
    /\ stage \notin {"mask", "done"} => NoMask
    /\ stage = "mask" => Masked

(* Of what is handed over.                                                 *)
FedInv == fed \in Fed /\ fed.rows <= MaxFeedRows

StageInv ==
    /\ stage \in {"record", "unpack", "gate", "runs", "found", "cull", "track", "measure",
                  "place", "resample", "mask", "band", "done"}
    /\ daemon \in BOOLEAN

ImagingInv ==
    StageInv /\ DecodeInv /\ RunsInv /\ TrackInv /\ PlaceInv /\ BandInv /\ FillInv /\ FedInv

-----------------------------------------------------------------------------
(* One lemma for each part of the invariant.                               *)
LEMMA StageStep == StageInv /\ [Next]_vars => StageInv'
<1> SUFFICES ASSUME StageInv, [Next]_vars PROVE StageInv'
  OBVIOUS
<1> USE DEF StageInv
<1>1. CASE Decode
  BY <1>1 DEF Decode
<1>2. CASE Unpack
  BY <1>2 DEF Unpack
<1>3. CASE Gate
  BY <1>3 DEF Gate
<1>4. CASE FindRuns
  BY <1>4 DEF FindRuns
<1>5. CASE Cull
  BY <1>5 DEF Cull
<1>6. CASE ScoreLine
  BY <1>6 DEF ScoreLine
<1>7. CASE FollowLag
  BY <1>7 DEF FollowLag
<1>8. CASE Measure
  BY <1>8 DEF Measure
<1>9. CASE Place
  BY <1>9 DEF Place
<1>10. CASE Resample
  BY <1>10 DEF Resample
<1>11. CASE Pick
  BY <1>11 DEF Pick
<1>12. CASE Mask
  BY <1>12 DEF Mask
<1>13. CASE Feed
  BY <1>13 DEF Feed
<1>14. CASE RawBand
  BY <1>14 DEF RawBand
<1>15. CASE Again
  BY <1>15 DEF Again
<1>16. CASE UNCHANGED vars
  BY <1>16 DEF vars
<1> QED
  BY <1>1, <1>2, <1>3, <1>4, <1>5, <1>6, <1>7, <1>8, <1>9, <1>10, <1>11, <1>12, <1>13,
     <1>14, <1>15, <1>16 DEF Next

LEMMA FunctionIsSequence ==
    ASSUME NEW n \in Nat, NEW X, NEW s \in [1..n -> X]
    PROVE  s \in Seq(X) /\ Len(s) = n
OBVIOUS

LEMMA DecodeStep == DecodeInv /\ [Next]_vars => DecodeInv'
<1> SUFFICES ASSUME DecodeInv, [Next]_vars PROVE DecodeInv'
  OBVIOUS
<1> USE DEF DecodeInv
<1>1. CASE Decode
  <2>1. PICK n \in 0..MaxPieces : stream' \in [1..n -> Pieces]
    BY <1>1 DEF Decode
  <2>0. n \in Nat /\ n <= MaxPieces
    BY GateAssumption
  <2>2. stream' \in Seq(Pieces) /\ stream' \in Seq(Piece) /\ Len(stream') = n
    <3>1. stream' \in [1..n -> Piece]
      BY <2>1, PiecesAssumption
    <3> QED
      BY <2>0, <2>1, <3>1, FunctionIsSequence
  <2>3. rows' = DecodeEp2(stream')
    BY <1>1 DEF Decode
  <2>4. rows' \in Seq(Nat) /\ Len(rows') <= n
    BY <2>2, <2>3, RowsFew
  <2>5. total' = Len(rows') /\ contact' \in [1..Len(rows') -> BOOLEAN]
        /\ stage' = "unpack" /\ UNCHANGED row
    BY <1>1 DEF Decode
  <2>6. contact' \in Seq(BOOLEAN) /\ Len(contact') = total' /\ total' \in 0..MaxPieces
    <3> DEFINE r == Len(rows')
    <3>1. r \in Nat /\ r \in 0..MaxPieces
      BY <2>0, <2>4, GateAssumption
    <3>2. total' = r /\ contact' \in [1..r -> BOOLEAN]
      BY <2>5
    <3> HIDE DEF r
    <3> QED
      BY <3>1, <3>2, FunctionIsSequence
  <2>7. row' = None
    BY <1>1, <2>5 DEF Decode
  <2> QED
    BY <2>2, <2>3, <2>4, <2>5, <2>6, <2>7
<1>2. CASE Unpack
  <2>1. /\ stage' = "gate" /\ stream' = None /\ rows' = None /\ UNCHANGED <<contact, total>>
        /\ stage = "unpack"
    BY <1>2 DEF Unpack
  <2>2. None \in Seq(Pieces) /\ None \in Seq(Nat)
    BY DEF None
  <2>3. row' = None \/ (dli' \in Dlis /\ \E len : row' = UnpackLine(dli', len))
    <3>1. CASE rows = None
      BY <1>2, <2>1, <3>1 DEF Unpack
    <3>2. CASE rows # None
      <4>1. PICK d \in Dlis :
               dli' = d /\ row' = UnpackLine(d, BufLen(stream) - Last(rows) - Header)
        BY <1>2, <3>2 DEF Unpack
      <4> QED
        BY <4>1
    <3> QED
      BY <3>1, <3>2
  <2>4. Len(contact') = total'
    BY <2>1
  <2> QED
    BY <2>1, <2>2, <2>3, <2>4
<1>3. CASE Gate
  BY <1>3 DEF Gate, decoding, run, mask
<1>4. CASE FindRuns
  BY <1>4 DEF FindRuns, decoding, run, mask
<1>5. CASE Cull
  BY <1>5 DEF Cull, decoding, run, mask, None
<1>6. CASE ScoreLine
  BY <1>6 DEF ScoreLine, decoding, run, mask
<1>7. CASE FollowLag
  BY <1>7 DEF FollowLag, decoding, run, mask
<1>8. CASE Measure
  BY <1>8 DEF Measure, decoding, run, mask
<1>9. CASE Place
  BY <1>9 DEF Place, decoding, run, mask
<1>10. CASE Resample
  BY <1>10 DEF Resample, decoding, run, mask
<1>11. CASE Pick
  BY <1>11 DEF Pick, decoding, run, mask, None
<1>12. CASE Mask
  BY <1>12 DEF Mask, decoding, run, mask
<1>13. CASE Feed
  BY <1>13 DEF Feed, decoding, run, mask
<1>14. CASE RawBand
  BY <1>14 DEF RawBand, decoding, run, mask
<1>15. CASE Again
  BY <1>15, GateAssumption DEF Again, decoding, run, mask, None
<1>16. CASE UNCHANGED vars
  BY <1>16 DEF vars, decoding, run, mask
<1> QED
  BY <1>1, <1>2, <1>3, <1>4, <1>5, <1>6, <1>7, <1>8, <1>9, <1>10, <1>11, <1>12, <1>13,
     <1>14, <1>15, <1>16 DEF Next

(* What is left of runs is as they were.                                   *)
LEMMA TailKept ==
    ASSUME RunsInv
    PROVE  /\ Tail(runs) \in Seq(Span)
           /\ \A k \in 1..Len(Tail(runs)) :
                 Tail(runs)[k].to <= MaxPieces /\ Tail(runs)[k].to - Tail(runs)[k].from >= RunMin
<1>1. runs \in Seq(Span)
  BY DEF RunsInv
<1>2. CASE runs = <<>>
  <2>1. \A k \in 1..Len(runs) : runs[k].to <= MaxPieces /\ runs[k].to - runs[k].from >= RunMin
    BY DEF RunsInv
  <2> QED
    BY <1>2, <2>1
<1>3. CASE runs # <<>>
  <2>1. Tail(runs) \in Seq(Span) /\ Len(Tail(runs)) = Len(runs) - 1
        /\ \A k \in 1..Len(runs) - 1 : Tail(runs)[k] = runs[k + 1] /\ k + 1 \in 1..Len(runs)
    BY <1>1, <1>3
  <2>2. \A k \in 1..Len(runs) : runs[k].to <= MaxPieces /\ runs[k].to - runs[k].from >= RunMin
    BY DEF RunsInv
  <2> QED
    BY <2>1, <2>2
<1> QED
  BY <1>2, <1>3

LEMMA RunsStep == DecodeInv /\ RunsInv /\ [Next]_vars => RunsInv'
<1> SUFFICES ASSUME DecodeInv, RunsInv, [Next]_vars PROVE RunsInv'
  OBVIOUS
<1> USE DEF RunsInv
<1>1. CASE Decode
  BY <1>1 DEF Decode, decoding, run, mask
<1>2. CASE Unpack
  BY <1>2 DEF Unpack, decoding, run, mask
<1>3. CASE Gate
  BY <1>3 DEF Gate, decoding, run, mask
<1>4. CASE FindRuns
  <2>1. /\ contact \in [1..total -> BOOLEAN] /\ total \in Nat /\ total <= MaxPieces
    <3>1. contact \in Seq(BOOLEAN) /\ Len(contact) = total /\ total \in 0..MaxPieces
      BY <1>4 DEF FindRuns, DecodeInv
    <3> QED
      BY <3>1, GateAssumption
  <2>2. runs' = ContactRuns(contact) /\ contact' = contact /\ stage' = "found"
    BY <1>4 DEF FindRuns
  <2>3. runs' \in Seq(Span)
    BY <2>1, <2>2, ContactRunsAre
  <2>4. ASSUME NEW k \in 1..Len(runs')
        PROVE  runs'[k].to <= MaxPieces /\ runs'[k].to - runs'[k].from >= RunMin
    <3> DEFINE q == runs'[k]
    <3>1. q \in Span
      BY <2>3
    <3>2. q.to <= total /\ q.to - q.from >= RunMin
      <4>1. \E j \in 1..Len(ContactRuns(contact)) : ContactRuns(contact)[j] = q
        BY <2>2
      <4> HIDE DEF q
      <4> QED
        BY <2>1, <3>1, <4>1, ContactRunsAre
    <3>3. q.to \in Nat
      BY <3>1 DEF Span
    <3> HIDE DEF q
    <3>4. q.to <= MaxPieces /\ q.to - q.from >= RunMin
      BY <2>1, <3>2, <3>3, GateAssumption
    <3> QED
      BY <3>4 DEF q
  <2> QED
    BY <2>2, <2>3, <2>4
<1>5. CASE Cull
  <2>1. stage' # "found" /\ runs # None /\ (runs' = Tail(runs) \/ runs' = runs)
    BY <1>5 DEF Cull
  <2> QED
    BY <2>1, TailKept
<1>6. CASE ScoreLine
  BY <1>6 DEF ScoreLine, decoding, run, mask
<1>7. CASE FollowLag
  BY <1>7 DEF FollowLag, decoding, run, mask
<1>8. CASE Measure
  <2>1. stage' # "found" /\ (runs' = Tail(runs) \/ runs' = runs)
    BY <1>8 DEF Measure
  <2> QED
    BY <2>1, TailKept
<1>9. CASE Place
  BY <1>9 DEF Place, decoding, run, mask
<1>10. CASE Resample
  <2>1. stage' # "found" /\ runs' = Tail(runs)
    BY <1>10 DEF Resample
  <2> QED
    BY <2>1, TailKept
<1>11. CASE Pick
  BY <1>11 DEF Pick, decoding, run, mask
<1>12. CASE Mask
  BY <1>12 DEF Mask, decoding, run, mask
<1>13. CASE Feed
  BY <1>13 DEF Feed, decoding, run, mask
<1>14. CASE RawBand
  BY <1>14 DEF RawBand, decoding, run, mask
<1>15. CASE Again
  BY <1>15 DEF Again, decoding, run, mask
<1>16. CASE UNCHANGED vars
  BY <1>16 DEF vars, decoding, run, mask
<1> QED
  BY <1>1, <1>2, <1>3, <1>4, <1>5, <1>6, <1>7, <1>8, <1>9, <1>10, <1>11, <1>12, <1>13,
     <1>14, <1>15, <1>16 DEF Next

(* A run is long enough, and a line of it can be told from none.            *)
LEMMA KeptIs ==
    ASSUME NEW m \in Nat, NEW X, NEW c \in [0..m - 1 -> X]
    PROVE  Kept(c) = m /\ DOMAIN c = 0..m - 1
<1> DEFINE D == 0..m - 1
<1>1. Cardinality(D) = m
  BY FS_Interval
<1>2. DOMAIN c = D
  OBVIOUS
<1> QED
  BY <1>1, <1>2 DEF Kept

LEMMA TrackStepped == RunsInv /\ TrackInv /\ [Next]_vars => TrackInv'
<1> SUFFICES ASSUME RunsInv, TrackInv, [Next]_vars PROVE TrackInv'
  OBVIOUS
<1> USE DEF TrackInv
<1>1. CASE Decode
  BY <1>1 DEF Decode, decoding, run, mask
<1>2. CASE Unpack
  BY <1>2 DEF Unpack, decoding, run, mask
<1>3. CASE Gate
  BY <1>3 DEF Gate, decoding, run, mask
<1>4. CASE FindRuns
  BY <1>4 DEF FindRuns, decoding, run, mask
<1>5. CASE Cull
  <2>1. Head(runs).to - Head(runs).from \in Int
    <3>1. runs \in Seq(Span) /\ runs # <<>>
      BY <1>5 DEF Cull, RunsInv, None
    <3>2. Head(runs) \in Span
      BY <3>1
    <3> QED
      BY <3>2 DEF Span
  <2>2. PICK m \in 1..Head(runs).to - Head(runs).from :
           /\ m <= MaxKept
           /\ IF m < MinCulled THEN stage' = "cull"
              ELSE corr' \in [0..m - 1 -> CorrRows] /\ stage' = "track"
    BY <1>5 DEF Cull
  <2>3. m \in Nat
    BY <2>1
  <2>4. score = None /\ score' = None
    BY <1>5 DEF Cull
  <2>5. CASE m < MinCulled
    BY <2>2, <2>4, <2>5
  <2>6. CASE ~(m < MinCulled)
    <3>1. corr' \in [0..m - 1 -> CorrRows] /\ stage' = "track"
      BY <2>2, <2>6
    <3>2. Kept(corr') = m /\ DOMAIN corr' = 0..m - 1
      BY <2>3, <3>1, KeptIs
    <3>3. m \in MinCulled..MaxKept
      BY <2>2, <2>3, <2>6, CulledAssumption
    <3>4. Kept(corr)' = m
      BY <3>2 DEF Kept
    <3>5. /\ Kept(corr)' \in MinCulled..MaxKept
          /\ DOMAIN corr' = 0..Kept(corr)' - 1
          /\ \A t \in DOMAIN corr' : corr'[t] \in CorrRows
      BY <3>1, <3>2, <3>3, <3>4
    <3>6. Scored(score', corr') /\ Len(score') <= Kept(corr)'
      <4>1. score' = <<>> /\ Len(score') = 0
        BY <2>4 DEF None
      <4> QED
        BY <2>3, <3>4, <4>1 DEF Scored
    <3> QED
      BY <3>1, <3>5, <3>6
  <2> QED
    BY <2>5, <2>6
<1>6. CASE ScoreLine
  <2> DEFINE m == Kept(corr)
             n == Len(score)
  <2>1. /\ stage = "track" /\ stage' = "track" /\ n < m
        /\ score' = Append(score, LineScore(score, corr[n]))
        /\ UNCHANGED <<corr, path>>
    BY <1>6 DEF ScoreLine
  <2>2. m \in Nat /\ DOMAIN corr = 0..m - 1 /\ \A t \in 0..m - 1 : corr[t] \in [Lags -> Int]
    BY <2>1, CulledAssumption, CorrAssumption
  <2>3. Scored(score, corr) /\ score \in Seq([Lags -> Int])
    BY <2>1 DEF Scored
  <2>4. Scored(score', corr)
    <3> HIDE DEF m
    <3>1. Profiles(corr, m)
      BY <2>2 DEF Profiles
    <3> QED
      BY <2>1, <2>2, <2>3, <3>1, LineScored
  <2>5. Len(score') <= m
    BY <2>1, <2>2, <2>3
  <2>6. Kept(corr)' = m
    BY <2>1 DEF Kept
  <2> HIDE DEF m, n
  <2>7. /\ m \in MinCulled..MaxKept
        /\ DOMAIN corr = 0..m - 1
        /\ \A t \in DOMAIN corr : corr[t] \in CorrRows
    BY <2>1 DEF m
  <2> QED
    BY <2>1, <2>4, <2>5, <2>6, <2>7
<1>7. CASE FollowLag
  <2> DEFINE m == Kept(corr)
  <2>1. /\ stage = "track" /\ stage' = "measure" /\ Len(score) = m
        /\ path' = Track(score) /\ score' = None /\ UNCHANGED corr
    BY <1>7 DEF FollowLag
  <2>2. m \in Nat \ {0} /\ DOMAIN corr = 0..m - 1 /\ \A t \in 0..m - 1 : corr[t] \in [Lags -> Int]
    BY <2>1, CulledAssumption, CorrAssumption
  <2>3. Scored(score, corr)
    BY <2>1
  <2>4. Kept(corr)' = m
    BY <2>1 DEF Kept
  <2>5. /\ m \in MinCulled..MaxKept
        /\ DOMAIN corr = 0..m - 1
        /\ \A t \in DOMAIN corr : corr[t] \in CorrRows
    BY <2>1
  <2> HIDE DEF m
  <2>6. Profiles(corr, m)
    BY <2>2 DEF Profiles
  <2>7. /\ Track(score) \in PathsOf(m)
        /\ \A p \in PathsOf(m) : ValueOf(corr, p) <= ValueOf(corr, Track(score))
    BY <2>1, <2>2, <2>3, <2>6, TrackBest
  <2> QED
    BY <2>1, <2>4, <2>5, <2>7
<1>8. CASE Measure
  BY <1>8 DEF Measure, decoding, run, mask
<1>9. CASE Place
  BY <1>9 DEF Place, decoding, run, mask
<1>10. CASE Resample
  BY <1>10 DEF Resample, decoding, run, mask
<1>11. CASE Pick
  BY <1>11 DEF Pick, decoding, run, mask
<1>12. CASE Mask
  BY <1>12 DEF Mask, decoding, run, mask
<1>13. CASE Feed
  BY <1>13 DEF Feed, decoding, run, mask
<1>14. CASE RawBand
  BY <1>14 DEF RawBand, decoding, run, mask
<1>15. CASE Again
  BY <1>15 DEF Again, decoding, run, mask
<1>16. CASE UNCHANGED vars
  <2>1. UNCHANGED <<stage, corr, score, path>>
    BY <1>16 DEF vars, run
  <2>2. Kept(corr)' = Kept(corr)
    BY <2>1 DEF Kept
  <2> QED
    BY <2>1, <2>2
<1> QED
  BY <1>1, <1>2, <1>3, <1>4, <1>5, <1>6, <1>7, <1>8, <1>9, <1>10, <1>11, <1>12, <1>13,
     <1>14, <1>15, <1>16 DEF Next

(* What is measured is a whole number of units, and skin moves by one.     *)
LEMMA MeasuredIs ==
    ASSUME NEW c \in CorrRows, NEW l \in Lags, NEW f, NEW t, f[t] = c, Trustworthy(f, t, l),
           NEW v \in Refined(f, t, l)
    PROVE  v \in Int /\ v <= Sep
<1> DEFINE one == <<c>>
<1>1. one[1] = f[t]
  OBVIOUS
<1>2. c \in [Lags -> Int]
  BY CorrAssumption
<1> HIDE DEF one
<1>3. Trustworthy(one, 1, l)
  BY <1>1 DEF Trustworthy
<1>4. Refined(f, t, l) = Refined(one, 1, l)
  BY <1>1 DEF Refined
<1>5. v <= Sep
  <2>1. v \in Refined(one, 1, l)
    BY <1>4
  <2> QED
    BY <1>3, <2>1, UnitsAssumption DEF one
<1>6. v \in Int
  <2>1. l \in Int
    BY LagAssumption DEF Lags
  <2>2. CASE l \notin LagMin + 1..LagMax - 1
    BY <2>1, <2>2 DEF Refined
  <2>3. CASE l \in LagMin + 1..LagMax - 1
    <3> DEFINE rise == c[l + 1] - c[l - 1]
               curve == 2 * (2 * c[l] - c[l - 1] - c[l + 1])
    <3>1. l - 1 \in Lags /\ l + 1 \in Lags
      BY <2>3, LagAssumption DEF Lags
    <3>2. c[l] \in Int /\ c[l - 1] \in Int /\ c[l + 1] \in Int
      BY <1>2, <3>1
    <3>3. rise \in Int /\ curve \in Int
      BY <3>2
    <3>4. v \in IF curve <= 0 THEN {l} ELSE {l + (rise \div curve), l - ((-rise) \div curve)}
      BY <2>3 DEF Refined
    <3> HIDE DEF rise, curve
    <3>5. CASE curve <= 0
      BY <2>1, <3>4, <3>5
    <3>6. CASE ~(curve <= 0)
      <4>1. curve \in Nat \ {0} /\ -rise \in Int
        BY <3>3, <3>6
      <4>2. rise \div curve \in Int /\ (-rise) \div curve \in Int
        BY <3>3, <4>1
      <4>3. v = l + (rise \div curve) \/ v = l - ((-rise) \div curve)
        BY <3>4, <3>6
      <4> QED
        BY <2>1, <4>2, <4>3
    <3> QED
      BY <3>5, <3>6
  <2> QED
    BY <2>2, <2>3
<1> QED
  BY <1>5, <1>6

(* Those of a set of lines, in their order.                                *)
LEMMA GoodIs ==
    ASSUME NEW m \in Nat \ {0}, NEW G \in SUBSET (0..m - 1), Cardinality(G) >= 1
    PROVE  /\ Sorted(Ascending(G)) /\ Len(Ascending(G)) <= m
           /\ \A k \in 1..Len(Ascending(G)) : Ascending(G)[k] \in G
<1> DEFINE a == Ascending(G)
           n == m - 1
<1>1. n \in Nat /\ G \in SUBSET (0..n) /\ IsFiniteSet(0..m - 1) /\ Cardinality(0..m - 1) = m
  BY FS_Interval
<1>2. Cardinality(G) <= m /\ IsFiniteSet(G) /\ Cardinality(G) \in Nat
  BY <1>1, FS_Subset, FS_CardinalityType
<1> HIDE DEF n
<1>3. Ascends(a, G)
  BY <1>1, AscendingIs
<1> HIDE DEF a
<1>4. /\ a \in Seq(G) /\ Len(a) = Cardinality(G)
      /\ \A i, j \in 1..Len(a) : i < j => a[i] < a[j]
  BY <1>3 DEF Ascends
<1>5. \A k \in 1..Len(a) : a[k] \in G
  BY <1>4
<1>6. a \in Seq(Int)
  <2> DEFINE len == Len(a)
  <2>1. len \in Nat /\ DOMAIN a = 1..len /\ a = [k \in 1..len |-> a[k]]
    BY <1>4
  <2>2. \A k \in 1..len : a[k] \in Int
    <3>1. \A x \in G : x \in Int
      OBVIOUS
    <3> QED
      BY <1>5, <3>1
  <2> HIDE DEF len
  <2>3. a \in [1..len -> Int]
    BY <2>1, <2>2
  <2> QED
    BY <2>1, <2>3, FunctionIsSequence
<1>7. Len(a) \in Nat \ {0} /\ Len(a) <= m
  BY <1>2, <1>4
<1>8. Sorted(a)
  BY <1>4, <1>6, <1>7 DEF Sorted
<1> QED
  BY <1>5, <1>7, <1>8 DEF a

LEMMA PlaceStep == TrackInv /\ PlaceInv /\ [Next]_vars => PlaceInv'
<1> SUFFICES ASSUME TrackInv, PlaceInv, [Next]_vars PROVE PlaceInv'
  OBVIOUS
<1> USE DEF PlaceInv
<1>1. CASE Decode
  BY <1>1 DEF Decode, decoding, run, mask
<1>2. CASE Unpack
  BY <1>2 DEF Unpack, decoding, run, mask
<1>3. CASE Gate
  BY <1>3 DEF Gate, decoding, run, mask
<1>4. CASE FindRuns
  BY <1>4 DEF FindRuns, decoding, run, mask
<1>5. CASE Cull
  BY <1>5 DEF Cull, decoding, run, mask
<1>6. CASE ScoreLine
  BY <1>6 DEF ScoreLine, decoding, run, mask
<1>7. CASE FollowLag
  BY <1>7 DEF FollowLag, decoding, run, mask
<1>8. CASE Measure
  <2> DEFINE m == Kept(corr)
  <2>1. /\ m \in MinCulled..MaxKept /\ DOMAIN corr = 0..m - 1
        /\ \A t \in 0..m - 1 : corr[t] \in CorrRows
        /\ path \in PathsOf(m) /\ good = None
    BY <1>8 DEF Measure, TrackInv
  <2>2. m \in Nat \ {0} /\ m <= MaxKept
    BY <2>1, CulledAssumption
  <2>3. \A t \in 0..m - 1 : path[t] \in Lags
    BY <2>1 DEF PathsOf
  <2>4. PICK G \in SUBSET {t \in DOMAIN corr : Trustworthy(corr, t, path[t])} :
          IF Cardinality(G) < MinGood
            THEN /\ stage' = "cull"
                 /\ UNCHANGED <<good, lag>>
            ELSE /\ good' = Ascending(G)
                 /\ \E measured \in [G -> UNION {Refined(corr, t, path[t]) : t \in G}] :
                       /\ \A t \in G : measured[t] \in Refined(corr, t, path[t])
                       /\ \E line \in {Interpolated(good', measured, m)} :
                             lag' = Median5(line, m)
                 /\ stage' = "place"
    BY <1>8 DEF Measure
  <2>5. best' = best
    BY <1>8 DEF Measure
  <2> HIDE DEF m
  <2>6. CASE Cardinality(G) < MinGood
    BY <2>1, <2>4, <2>5, <2>6
  <2>7. CASE ~(Cardinality(G) < MinGood)
    <3>1. /\ stage' = "place" /\ good' = Ascending(G)
          /\ \E v : /\ \A t \in G : v[t] \in Refined(corr, t, path[t])
                    /\ lag' = Median5(Interpolated(good', v, m), m)
      BY <2>4, <2>7
    <3>2. PICK v : /\ \A t \in G : v[t] \in Refined(corr, t, path[t])
                   /\ lag' = Median5(Interpolated(good', v, m), m)
      BY <3>1
    <3>3. G \in SUBSET (0..m - 1) /\ Cardinality(G) >= 1
      <4>1. G \in SUBSET (0..m - 1) /\ IsFiniteSet(0..m - 1)
        BY <2>1, <2>2, FS_Interval
      <4>2. Cardinality(G) \in Nat
        BY <4>1, FS_Subset, FS_CardinalityType
      <4> QED
        BY <2>7, <4>1, <4>2, CulledAssumption
    <3>4. Sorted(good') /\ Len(good') <= m /\ \A k \in 1..Len(good') : good'[k] \in G
      BY <2>2, <3>1, <3>3, GoodIs
    <3>5. \A t \in G : v[t] \in Int /\ v[t] <= Sep
      <4>1. TAKE t \in G
      <4>2. corr[t] \in CorrRows /\ path[t] \in Lags /\ Trustworthy(corr, t, path[t])
        BY <2>1, <2>3, <2>4, <3>3
      <4> QED
        BY <3>2, <4>2, MeasuredIs
    <3>6. Sep \in Int
      BY RowAssumption
    <3> DEFINE line == Interpolated(good', v, m)
    <3>7. \A t \in 0..m - 1 : line[t] \in Int /\ line[t] <= Sep
      BY <2>2, <3>4, <3>5, <3>6, InterpolatedIs
    <3> HIDE DEF line
    <3>8. /\ DOMAIN lag' = 0..m - 1
          /\ \A t \in 0..m - 1 : lag'[t] \in Int /\ lag'[t] <= Sep
      <4>1. lag' = Median5(line, m)
        BY <3>2 DEF line
      <4> QED
        BY <2>2, <3>6, <3>7, <4>1, Median5Is
    <3>9. Kept(lag)' = m
      <4>1. Cardinality(0..m - 1) = m
        BY <2>2, FS_Interval
      <4> QED
        BY <3>8, <4>1 DEF Kept
    <3>10. Len(good') <= MaxKept
      <4>1. Len(good') \in Nat
        BY <3>4 DEF Sorted
      <4> QED
        BY <2>2, <3>4, <4>1, CulledAssumption
    <3> QED
      BY <2>1, <2>5, <3>1, <3>4, <3>8, <3>9, <3>10
  <2> QED
    BY <2>6, <2>7
<1>9. CASE Place
  <2>1. /\ stage = "place" /\ stage' = "resample" /\ y' = Positions(good, lag, Kept(lag))
        /\ UNCHANGED <<good, lag, best>>
    BY <1>9 DEF Place
  <2>2. Kept(lag)' = Kept(lag)
    BY <2>1 DEF Kept
  <2> QED
    BY <2>1, <2>2
<1>10. CASE Resample
  <2> DEFINE m == Kept(lag)
  <2>1. /\ y = Positions(good, lag, m) /\ m \in MinCulled..MaxKept
        /\ \A t \in 0..m - 1 : lag[t] \in Int
    BY <1>10 DEF Resample
  <2>2. m \in Nat \ {0}
    BY <2>1, CulledAssumption
  <2>3. stage' = "cull" /\ good' = None /\ best' = Max({RowsOut(y, Kept(y)), best})
    BY <1>10 DEF Resample
  <2> HIDE DEF m
  <2>4. y \in [0..m - 1 -> Nat]
    BY <2>1, <2>2, PositionsAre
  <2>5. Kept(y) = m
    BY <2>2, <2>4, KeptIs
  <2>6. RowsOut(y, Kept(y)) \in Nat
    <3>1. y[m - 1] \in Nat
      BY <2>2, <2>4
    <3>2. y[m - 1] \div Row \in Nat
      BY <3>1, QuotientIs, RowAssumption
    <3> QED
      BY <2>5, <3>2 DEF RowsOut
  <2>7. best' \in Nat
    BY <2>3, <2>6, MaxOfTwo
  <2> QED
    BY <2>3, <2>7
<1>11. CASE Pick
  <2>1. stage \notin {"place", "resample"} /\ stage' \notin {"place", "resample"} /\ best' = 0
        /\ good' = good
    BY <1>11 DEF Pick, run
  <2> QED
    BY <2>1
<1>12. CASE Mask
  BY <1>12 DEF Mask, decoding, run, mask
<1>13. CASE Feed
  BY <1>13 DEF Feed, decoding, run, mask
<1>14. CASE RawBand
  BY <1>14 DEF RawBand, decoding, run, mask
<1>15. CASE Again
  BY <1>15 DEF Again, decoding, run, mask
<1>16. CASE UNCHANGED vars
  <2>1. UNCHANGED <<stage, good, lag, y, best>>
    BY <1>16 DEF vars, run
  <2>2. Kept(lag)' = Kept(lag)
    BY <2>1 DEF Kept
  <2> QED
    BY <2>1, <2>2
<1> QED
  BY <1>1, <1>2, <1>3, <1>4, <1>5, <1>6, <1>7, <1>8, <1>9, <1>10, <1>11, <1>12, <1>13,
     <1>14, <1>15, <1>16 DEF Next

(* The raw band is the longest there is, if it is long enough.             *)
LEMMA BandIs ==
    ASSUME NEW n \in Nat, NEW A, NEW seg, seg = FingerSegment([i \in 0..n - 1 |-> i \in A], n),
           NEW b, b = IF seg.to - seg.from >= MinBand THEN seg ELSE [from |-> 0, to |-> n]
    PROVE  /\ BandOf(b, A, n)
           /\ b \in [from : 0..n, to : 0..n] /\ b.from <= b.to
<1> DEFINE a == [i \in 0..n - 1 |-> i \in A]
           AreBands(r) == /\ r.from < r.to
                          /\ r.from \in A /\ r.to - 1 \in A
                          /\ \A i \in r.from..r.to - 1 - Bridge : \E z \in i..i + Bridge : z \in A
           bands == {r \in [from : 0..n - 1, to : 1..n] : AreBands(r)}
           L == {r.to - r.from : r \in bands} \cup {0}
<1>1. LongestBand(a, n, 0, seg)
  BY LongestFound
<1>2. ASSUME NEW f \in 0..n - 1, NEW t \in f + 1..n
      PROVE  Band(a, f, t) <=>
               /\ f \in A /\ t - 1 \in A
               /\ \A i \in f..t - 1 - Bridge : \E z \in i..i + Bridge : z \in A
  <2>1. a[f] = (f \in A) /\ a[t - 1] = (t - 1 \in A)
    OBVIOUS
  <2>2. ASSUME NEW i \in f..t - 1 - Bridge, NEW z \in i..i + Bridge
        PROVE  a[z] = (z \in A)
    <3>1. z \in 0..n - 1
      BY BridgeAssumption
    <3> QED
      BY <3>1
  <2> HIDE DEF a
  <2> QED
    BY <2>1, <2>2 DEF Band
<1>3. ASSUME NEW r \in bands
      PROVE  r.to - r.from \in Nat /\ r.to - r.from <= seg.to - seg.from
  <2>1. r.from \in 0..n - 1 /\ r.to \in r.from + 1..n /\ AreBands(r)
    OBVIOUS
  <2> HIDE DEF a, bands
  <2>2. Band(a, r.from, r.to)
    BY <1>2, <2>1
  <2>3. r.to - r.from <= seg.to - seg.from
    BY <1>1, <2>1, <2>2 DEF LongestBand
  <2> QED
    BY <2>1, <2>3
<1>4. seg = NoBand \/ (seg \in bands /\ seg.from \in 0..n - 1 /\ seg.to \in seg.from + 1..n)
  <2> HIDE DEF a
  <2>1. CASE seg = NoBand
    BY <2>1
  <2>2. CASE seg # NoBand
    <3>1. /\ seg \in [from : Nat, to : Nat]
          /\ seg.from \in 0..n - 1 /\ seg.to \in seg.from + 1..n /\ Band(a, seg.from, seg.to)
      BY <1>1, <2>2 DEF LongestBand
    <3>2. AreBands(seg)
      <4> DEFINE f == seg.from
                 t == seg.to
      <4>1. f \in 0..n - 1 /\ t \in f + 1..n /\ Band(a, f, t)
        BY <3>1
      <4> HIDE DEF f, t
      <4>2. /\ f < t /\ f \in A /\ t - 1 \in A
            /\ \A i \in f..t - 1 - Bridge : \E z \in i..i + Bridge : z \in A
        BY <1>2, <4>1
      <4> QED
        BY <4>2 DEF f, t
    <3>3. seg \in [from : 0..n - 1, to : 1..n]
      BY <3>1
    <3> QED
      BY <3>1, <3>2, <3>3
  <2> QED
    BY <2>1, <2>2
<1> HIDE DEF a, bands
<1> DEFINE long == seg.to - seg.from
<1>5. long \in Nat /\ long \in L
  <2>1. CASE seg = NoBand
    BY <2>1 DEF NoBand
  <2>2. CASE /\ seg \in bands
             /\ seg.from \in 0..n - 1 /\ seg.to \in seg.from + 1..n
    <3>1. long \in Nat
      BY <2>2
    <3>2. long \in {r.to - r.from : r \in bands}
      BY <2>2, Zenon
    <3> QED
      BY <3>1, <3>2
  <2> QED
    BY <1>4, <2>1, <2>2
<1>6. \A x \in L : x \in Nat /\ x <= long
  BY <1>3, <1>5
<1>7. Max(L) = long
  <2> HIDE DEF L, long
  <2>1. L \in SUBSET (0..long) /\ L # {}
    BY <1>5, <1>6
  <2>2. Max(L) \in L /\ Max(L) >= long
    BY <1>5, <2>1, MaxIs
  <2> DEFINE most == Max(L)
  <2>3. most \in L /\ most >= long
    BY <2>2
  <2> HIDE DEF most
  <2>4. most = long
    <3>1. most \in Nat /\ most <= long
      BY <1>6, <2>3
    <3> QED
      BY <1>5, <2>3, <3>1
  <2> QED
    BY <2>4 DEF most
<1>8. b.to > 0 => IF long >= MinBand THEN b \in bands /\ b.to - b.from = long
                                     ELSE b = [from |-> 0, to |-> n]
  BY <1>4 DEF NoBand
<1>9. BandOf(b, A, n)
  BY <1>7, <1>8 DEF BandOf, bands
<1>10. b \in [from : 0..n, to : 0..n] /\ b.from <= b.to
  <2>1. CASE b = [from |-> 0, to |-> n]
    BY <2>1
  <2>2. CASE b = seg /\ seg = NoBand
    BY <2>2 DEF NoBand
  <2>3. CASE /\ b = seg /\ seg \in bands
             /\ seg.from \in 0..n - 1 /\ seg.to \in seg.from + 1..n
    <3>1. b \in [from : 0..n - 1, to : 1..n]
      BY <2>3 DEF bands
    <3> QED
      BY <2>3, <3>1
  <2> QED
    BY <1>4, <2>1, <2>2, <2>3
<1> QED
  BY <1>9, <1>10

LEMMA BandStep == DecodeInv /\ BandInv /\ [Next]_vars => BandInv'
<1> SUFFICES ASSUME DecodeInv, BandInv, [Next]_vars PROVE BandInv'
  OBVIOUS
<1> USE DEF BandInv
<1>1. CASE Decode
  <2>1. above = {} /\ band = NoBand /\ above' = above /\ band' = band /\ stage' = "unpack"
    BY <1>1 DEF Decode
  <2>2. band' \in [from : 0..MaxPieces, to : 0..MaxPieces] /\ band'.from <= band'.to
    BY <2>1
  <2>3. BandOf(band', above', total')
    BY <2>1 DEF BandOf, NoBand
  <2> QED
    BY <2>1, <2>2, <2>3
<1>2. CASE Unpack
  BY <1>2 DEF Unpack, decoding, run, mask
<1>3. CASE Gate
  BY <1>3 DEF Gate, decoding, run, mask
<1>4. CASE FindRuns
  BY <1>4 DEF FindRuns, decoding, run, mask
<1>5. CASE Cull
  BY <1>5 DEF Cull, decoding, run, mask
<1>6. CASE ScoreLine
  BY <1>6 DEF ScoreLine, decoding, run, mask
<1>7. CASE FollowLag
  BY <1>7 DEF FollowLag, decoding, run, mask
<1>8. CASE Measure
  BY <1>8 DEF Measure, decoding, run, mask
<1>9. CASE Place
  BY <1>9 DEF Place, decoding, run, mask
<1>10. CASE Resample
  BY <1>10 DEF Resample, decoding, run, mask
<1>11. CASE Pick
  <2>1. /\ above = {} /\ band = NoBand /\ band' = band /\ total' = total
        /\ stage' \in {"mask", "done", "band"}
        /\ stage' # "band" => above' = above
        /\ above' = above \/ HighEnergy
    BY <1>11 DEF Pick
  <2>2. above' \subseteq 0..total - 1
    BY <2>1 DEF HighEnergy
  <2>3. BandOf(band', above', total')
    BY <2>1 DEF BandOf, NoBand
  <2> QED
    BY <2>1, <2>2, <2>3
<1>12. CASE Mask
  BY <1>12 DEF Mask, decoding, run, mask
<1>13. CASE Feed
  BY <1>13 DEF Feed, decoding, run, mask
<1>14. CASE RawBand
  <2> DEFINE seg == FingerSegment([i \in 0..total - 1 |-> i \in above], total)
  <2>1. /\ band' = IF seg.to - seg.from >= MinBand THEN seg ELSE [from |-> 0, to |-> total]
        /\ stage' = "done" /\ UNCHANGED <<above, total>>
    BY <1>14 DEF RawBand
  <2>2. total \in Nat /\ total <= MaxPieces /\ MaxPieces \in Nat
    BY GateAssumption DEF DecodeInv
  <2> HIDE DEF seg
  <2>3. /\ BandOf(band', above, total)
        /\ band' \in [from : 0..total, to : 0..total] /\ band'.from <= band'.to
    BY <2>1, <2>2, BandIs DEF seg
  <2>4. band' \in [from : 0..MaxPieces, to : 0..MaxPieces]
    BY <2>2, <2>3
  <2> QED
    BY <2>1, <2>3, <2>4
<1>15. CASE Again
  <2>1. stage' = "record" /\ above' = {} /\ band' = NoBand /\ total' = 0
    BY <1>15 DEF Again, NoBand
  <2>2. band' \in [from : 0..MaxPieces, to : 0..MaxPieces] /\ band'.from <= band'.to
    BY <2>1, GateAssumption DEF NoBand
  <2>3. BandOf(band', above', total')
    BY <2>1 DEF BandOf, NoBand
  <2> QED
    BY <2>1, <2>2, <2>3
<1>16. CASE UNCHANGED vars
  BY <1>16 DEF vars, decoding, run, mask
<1> QED
  BY <1>1, <1>2, <1>3, <1>4, <1>5, <1>6, <1>7, <1>8, <1>9, <1>10, <1>11, <1>12, <1>13,
     <1>14, <1>15, <1>16 DEF Next

(* Only pixels of the picture are on the stack.                            *)
LEMMA MaskBegins == MaskInit => Masked
<1> SUFFICES ASSUME MaskInit PROVE Masked
  OBVIOUS
<1>1. MaskInv
  BY InitInv
<1>2. \A j : j \in Members(Border(h)) => j \in Pixels(h)
  BY BorderMembers DEF MaskInit
<1> QED
  BY <1>1, <1>2 DEF MaskInit, Masked

(* Nor are there others later.                                             *)
LEMMA MaskGoesOn == Masked /\ [MaskStep]_maskVars => Masked'
<1> SUFFICES ASSUME Masked, [MaskStep]_maskVars PROVE Masked'
  OBVIOUS
<1>1. MaskInv /\ MaskInv' /\ Members(stack) \subseteq Pixels(h)
  BY StepInv DEF Masked
<1>2. /\ h \in Nat \ {0} /\ stack \in Seq(Int) /\ open \subseteq Pixels(h)
  BY <1>1 DEF MaskInv, MaskTypeOK
<1>3. CASE UNCHANGED maskVars
  BY <1>1, <1>3 DEF Masked, maskVars, Members, Pixels
<1>4. CASE PassOver
  <2>1. h' = h /\ stack' = Popped(stack) /\ stack # <<>>
    BY <1>4 DEF PassOver
  <2>2. Members(stack') \subseteq Members(stack)
    BY <1>2, <2>1, MembersWithoutLast
  <2>3. Pixels(h)' = Pixels(h)
    BY <2>1 DEF Pixels
  <2>4. Members(stack)' \subseteq Pixels(h)
    BY <1>1, <2>2 DEF Members
  <2> QED
    BY <1>1, <2>3, <2>4 DEF Masked
<1>5. CASE Reach
  <2> DEFINE i == Top
  <2>1. h' = h /\ stack' = Popped(stack) \o Neighbours(i) /\ stack # <<>> /\ i \in open
    BY <1>5 DEF Reach
  <2> HIDE DEF i
  <2>2. Popped(stack) \in Seq(Int) /\ Members(Popped(stack)) \subseteq Members(stack)
    BY <1>2, <2>1, MembersWithoutLast
  <2>3. i \in Pixels(h)
    BY <1>2, <2>1
  <2>4. Neighbours(i) \in Seq(Int) /\ \A j : j \in Members(Neighbours(i)) => j \in Pixels(h)
    BY <1>2, <2>3, NeighbourMembers, NeighboursAdjacent
  <2>5. Members(stack') = Members(Popped(stack)) \cup Members(Neighbours(i))
    BY <2>1, <2>2, <2>4, MembersOfConcat
  <2>6. Pixels(h)' = Pixels(h)
    BY <2>1 DEF Pixels
  <2>7. Members(stack)' = Members(stack')
    BY DEF Members
  <2>8. Members(stack)' \subseteq Pixels(h)
    BY <1>1, <2>2, <2>4, <2>5, <2>7
  <2> QED
    BY <1>1, <2>6, <2>8 DEF Masked
<1> QED
  BY <1>3, <1>4, <1>5 DEF MaskStep

LEMMA MaskStays ==
    ASSUME UNCHANGED mask
    PROVE  (NoMask => NoMask') /\ (Masked => Masked')
<1>1. NoMask => NoMask'
  BY DEF mask, NoMask
<1>2. UNCHANGED maskVars
  BY DEF mask, maskVars
<1> QED
  BY <1>1, <1>2, MaskGoesOn

LEMMA FillStep == PlaceInv /\ FillInv /\ [Next]_vars => FillInv'
<1> SUFFICES ASSUME PlaceInv, FillInv, [Next]_vars PROVE FillInv'
  OBVIOUS
<1> USE DEF FillInv
<1>1. CASE Decode
  <2>1. UNCHANGED mask /\ (stage \notin {"mask", "done"} \/ stage' \in {"mask", "done"})
        /\ (stage = "mask" \/ stage' # "mask")
    BY <1>1 DEF Decode
  <2> QED
    BY <2>1, MaskStays
<1>2. CASE Unpack
  <2>1. UNCHANGED mask /\ (stage \notin {"mask", "done"} \/ stage' \in {"mask", "done"})
        /\ (stage = "mask" \/ stage' # "mask")
    BY <1>2 DEF Unpack
  <2> QED
    BY <2>1, MaskStays
<1>3. CASE Gate
  <2>1. UNCHANGED mask /\ (stage \notin {"mask", "done"} \/ stage' \in {"mask", "done"})
        /\ (stage = "mask" \/ stage' # "mask")
    BY <1>3 DEF Gate
  <2> QED
    BY <2>1, MaskStays
<1>4. CASE FindRuns
  <2>1. UNCHANGED mask /\ (stage \notin {"mask", "done"} \/ stage' \in {"mask", "done"})
        /\ (stage = "mask" \/ stage' # "mask")
    BY <1>4 DEF FindRuns
  <2> QED
    BY <2>1, MaskStays
<1>5. CASE Cull
  <2>1. UNCHANGED mask /\ (stage \notin {"mask", "done"} \/ stage' \in {"mask", "done"})
        /\ (stage = "mask" \/ stage' # "mask")
    BY <1>5 DEF Cull
  <2> QED
    BY <2>1, MaskStays
<1>6. CASE ScoreLine
  <2>1. UNCHANGED mask /\ (stage \notin {"mask", "done"} \/ stage' \in {"mask", "done"})
        /\ (stage = "mask" \/ stage' # "mask")
    BY <1>6 DEF ScoreLine
  <2> QED
    BY <2>1, MaskStays
<1>7. CASE FollowLag
  <2>1. UNCHANGED mask /\ (stage \notin {"mask", "done"} \/ stage' \in {"mask", "done"})
        /\ (stage = "mask" \/ stage' # "mask")
    BY <1>7 DEF FollowLag
  <2> QED
    BY <2>1, MaskStays
<1>8. CASE Measure
  <2>1. UNCHANGED mask /\ (stage \notin {"mask", "done"} \/ stage' \in {"mask", "done"})
        /\ (stage = "mask" \/ stage' # "mask")
    BY <1>8 DEF Measure
  <2> QED
    BY <2>1, MaskStays
<1>9. CASE Place
  <2>1. UNCHANGED mask /\ (stage \notin {"mask", "done"} \/ stage' \in {"mask", "done"})
        /\ (stage = "mask" \/ stage' # "mask")
    BY <1>9 DEF Place
  <2> QED
    BY <2>1, MaskStays
<1>10. CASE Resample
  <2>1. UNCHANGED mask /\ (stage \notin {"mask", "done"} \/ stage' \in {"mask", "done"})
        /\ (stage = "mask" \/ stage' # "mask")
    BY <1>10 DEF Resample
  <2> QED
    BY <2>1, MaskStays
<1>11. CASE Pick
  <2>1. best \in Nat /\ stage \notin {"mask", "done"}
    BY <1>11 DEF PlaceInv, Pick
  <2>2. CASE best >= MinSwipeRows
    <3>1. MaskStart(best) /\ stage' = "mask"
      BY <1>11, <2>2 DEF Pick
    <3>2. best \in Nat \ {0}
      BY <2>1, <2>2, GateAssumption
    <3>3. MaskInit'
      <4>1. h' = best /\ open' \in SUBSET Pixels(best) /\ background' = {} /\ stack' = Border(best)
        BY <3>1 DEF MaskStart
      <4>2. Pixels(h)' = Pixels(best) /\ Border(h)' = Border(best)
        BY <4>1 DEF Pixels, Border, TopAndBottom, Ends
      <4> QED
        BY <3>2, <4>1, <4>2 DEF MaskInit
    <3>4. (MaskInit => Masked)'
      BY MaskBegins, PTL
    <3> QED
      BY <3>1, <3>3, <3>4
  <2>3. CASE ~(best >= MinSwipeRows)
    <3>1. UNCHANGED mask /\ stage' \in {"done", "band"}
      BY <1>11, <2>3 DEF Pick
    <3> QED
      BY <2>1, <3>1, MaskStays
  <2> QED
    BY <2>2, <2>3
<1>12. CASE Mask
  <2>1. stage = "mask" /\ stage' = "mask" /\ MaskStep
    BY <1>12 DEF Mask
  <2>2. Masked'
    BY <2>1, MaskGoesOn
  <2> QED
    BY <2>1, <2>2
<1>13. CASE Feed
  <2>1. UNCHANGED mask /\ (stage \notin {"mask", "done"} \/ stage' \in {"mask", "done"})
        /\ (stage = "mask" \/ stage' # "mask")
    BY <1>13 DEF Feed
  <2> QED
    BY <2>1, MaskStays
<1>14. CASE RawBand
  <2>1. UNCHANGED mask /\ (stage \notin {"mask", "done"} \/ stage' \in {"mask", "done"})
        /\ (stage = "mask" \/ stage' # "mask")
    BY <1>14 DEF RawBand
  <2> QED
    BY <2>1, MaskStays
<1>15. CASE Again
  BY <1>15 DEF Again, NoMask
<1>16. CASE UNCHANGED vars
  <2>1. UNCHANGED mask /\ UNCHANGED stage
    BY <1>16 DEF vars
  <2> QED
    BY <2>1, MaskStays
<1> QED
  BY <1>1, <1>2, <1>3, <1>4, <1>5, <1>6, <1>7, <1>8, <1>9, <1>10, <1>11, <1>12, <1>13,
     <1>14, <1>15, <1>16 DEF Next

(* What is handed over is no more than the sensor's picture, and fits.     *)
LEMMA WindowIs ==
    ASSUME NEW k \in Nat
    PROVE  Windowed(Upscaled(k)) \in Fed /\ Windowed(Upscaled(k)).rows <= MaxFeedRows
<1> DEFINE n == Upscaled(k)
<1>1. n \in Nat
  BY DEF Upscaled
<1> HIDE DEF n
<1>2. Windowed(n) \in Fed /\ Windowed(n).rows <= MaxFeedRows
  <2>1. CASE n <= MaxFeedRows
    BY <1>1, <2>1 DEF Windowed, Fed
  <2>2. CASE ~(n <= MaxFeedRows)
    <3>1. MaxFeedRows \in Nat /\ (n - MaxFeedRows) \div 2 \in Nat
      BY <1>1, <2>2, FeedAssumption
    <3> QED
      BY <1>1, <2>2, <3>1 DEF Windowed, Fed
  <2> QED
    BY <2>1, <2>2
<1> QED
  BY <1>2 DEF n

LEMMA FedStep == DecodeInv /\ BandInv /\ FillInv /\ FedInv /\ [Next]_vars => FedInv'
<1> SUFFICES ASSUME DecodeInv, BandInv, FillInv, FedInv, [Next]_vars PROVE FedInv'
  OBVIOUS
<1> USE DEF FedInv
<1>1. CASE Decode
  BY <1>1 DEF Decode, decoding, run, mask
<1>2. CASE Unpack
  BY <1>2 DEF Unpack, decoding, run, mask
<1>3. CASE Gate
  BY <1>3 DEF Gate, decoding, run, mask
<1>4. CASE FindRuns
  BY <1>4 DEF FindRuns, decoding, run, mask
<1>5. CASE Cull
  BY <1>5 DEF Cull, decoding, run, mask
<1>6. CASE ScoreLine
  BY <1>6 DEF ScoreLine, decoding, run, mask
<1>7. CASE FollowLag
  BY <1>7 DEF FollowLag, decoding, run, mask
<1>8. CASE Measure
  BY <1>8 DEF Measure, decoding, run, mask
<1>9. CASE Place
  BY <1>9 DEF Place, decoding, run, mask
<1>10. CASE Resample
  BY <1>10 DEF Resample, decoding, run, mask
<1>11. CASE Pick
  BY <1>11 DEF Pick, decoding, run, mask
<1>12. CASE Mask
  BY <1>12 DEF Mask, decoding, run, mask
<1>13. CASE Feed
  <2>1. h \in Nat
    <3>1. Masked
      BY <1>13 DEF Feed, FillInv
    <3> QED
      BY <3>1 DEF Masked, MaskInv, MaskTypeOK
  <2>2. fed' = Windowed(Upscaled(h))
    BY <1>13 DEF Feed
  <2> QED
    BY <2>1, <2>2, WindowIs
<1>14. CASE RawBand
  <2> DEFINE seg == FingerSegment([i \in 0..total - 1 |-> i \in above], total)
             k == band'.to - band'.from
  <2>1. /\ band' = IF seg.to - seg.from >= MinBand THEN seg ELSE [from |-> 0, to |-> total]
        /\ fed' = Windowed(Upscaled(k))
    BY <1>14 DEF RawBand
  <2>2. total \in Nat
    BY GateAssumption DEF DecodeInv
  <2> HIDE DEF seg
  <2>3. band' \in [from : 0..total, to : 0..total] /\ band'.from <= band'.to
    BY <2>1, <2>2, BandIs DEF seg
  <2>4. k \in Nat
    BY <2>2, <2>3
  <2> HIDE DEF k
  <2> QED
    BY <2>1, <2>4, WindowIs
<1>15. CASE Again
  BY <1>15, FeedAssumption DEF Again, NothingFed, Fed
<1>16. CASE UNCHANGED vars
  BY <1>16 DEF vars, decoding, run, mask
<1> QED
  BY <1>1, <1>2, <1>3, <1>4, <1>5, <1>6, <1>7, <1>8, <1>9, <1>10, <1>11, <1>12, <1>13,
     <1>14, <1>15, <1>16 DEF Next

(* The invariant holds at first, is kept by every step, and so always      *)
(* holds.                                                                  *)
LEMMA InitImagingInv == Init => ImagingInv
<1> SUFFICES ASSUME Init PROVE ImagingInv
  OBVIOUS
<1> USE DEF Init
<1>1. StageInv
  BY DEF StageInv
<1>2. DecodeInv
  BY GateAssumption DEF DecodeInv, None
<1>3. RunsInv
  BY DEF RunsInv, None
<1>4. TrackInv
  BY DEF TrackInv
<1>5. PlaceInv
  BY DEF PlaceInv
<1>6. BandInv
  BY GateAssumption DEF BandInv, BandOf, NoBand
<1>7. FillInv
  BY DEF FillInv, NoMask
<1>8. FedInv
  BY FeedAssumption DEF FedInv, NothingFed, Fed
<1> QED
  BY <1>1, <1>2, <1>3, <1>4, <1>5, <1>6, <1>7, <1>8 DEF ImagingInv

LEMMA ImagingStep == ImagingInv /\ [Next]_vars => ImagingInv'
BY StageStep, DecodeStep, RunsStep, TrackStepped, PlaceStep, BandStep, FillStep, FedStep
   DEF ImagingInv

LEMMA ImagingHolds == Spec => []ImagingInv
BY InitImagingInv, ImagingStep, PTL DEF Spec

-----------------------------------------------------------------------------
(* What follows from it.                                                   *)
LEMMA TypesFollow == ImagingInv => TypeOK
<1> SUFFICES ASSUME ImagingInv PROVE TypeOK
  OBVIOUS
<1> USE DEF ImagingInv
<1>1. total \in 0..MaxPieces /\ total \in Nat /\ total <= MaxPieces /\ MaxPieces \in Nat
  BY GateAssumption DEF DecodeInv
<1>2. \A r \in Range(runs) : r.to \in 0..MaxPieces /\ r.from \in 0..r.to - RunMin
  <2>1. TAKE r \in Range(runs)
  <2>2. runs \in Seq(Span)
    BY DEF RunsInv
  <2>3. PICK k \in 1..Len(runs) : r = runs[k]
    BY <2>1, <2>2 DEF Range
  <2>4. r \in Span /\ r.to <= MaxPieces /\ r.to - r.from >= RunMin
    BY <2>2, <2>3 DEF RunsInv
  <2>5. r.from \in Nat /\ r.to \in Nat
    BY <2>4 DEF Span
  <2> QED
    BY <1>1, <2>4, <2>5, RunsAssumption
<1>3. Len(good) <= MaxKept
  BY CulledAssumption DEF PlaceInv, None
<1>4. above \subseteq 0..MaxPieces - 1
  BY <1>1 DEF BandInv
<1>5. band.from <= band.to /\ band.to <= MaxPieces
  BY <1>1 DEF BandInv
<1>6. h \in Nat /\ background \subseteq open /\ stack \in Seq(Pixels(h))
  <2>1. CASE NoMask
    BY <2>1 DEF NoMask
  <2>2. CASE Masked
    <3>1. h \in Nat /\ background \subseteq open /\ stack \in Seq(Int)
      BY <2>2 DEF Masked, MaskInv, MaskTypeOK
    <3> DEFINE n == Len(stack)
    <3>2. n \in Nat /\ DOMAIN stack = 1..n /\ stack = [k \in 1..n |-> stack[k]]
      BY <3>1
    <3>3. \A k \in 1..n : stack[k] \in Pixels(h)
      BY <2>2 DEF Masked, Members
    <3> HIDE DEF n
    <3>4. stack \in [1..n -> Pixels(h)]
      BY <3>2, <3>3
    <3> QED
      BY <3>1, <3>2, <3>4, FunctionIsSequence
  <2> QED
    BY <2>1, <2>2 DEF FillInv
<1> QED
  BY <1>1, <1>2, <1>3, <1>4, <1>5, <1>6 DEF TypeOK, StageInv, DecodeInv, PlaceInv, FedInv

LEMMA FramesFollow == ImagingInv => FramesFound
<1> SUFFICES ASSUME ImagingInv, stage = "unpack", ~ChanceMark, ~ChanceFit, stream # None
             PROVE  \E a \in 1..Len(stream) :
              LET b == a + Longest - 1 IN
              /\ b <= Len(stream) /\ (Longest > 0 => BackToBack(a, b))
              /\ rows = [k \in {k \in 1..Longest :
                                    At(stream, a + k - 1) + Header <= BufLen(stream)}
                            |-> At(stream, a + k - 1)]
  BY DEF FramesFound
<1>1. rows = DecodeEp2(stream) /\ stream \in Seq(Pieces)
  BY DEF ImagingInv, DecodeInv
<1>2. stream \in Seq(Piece)
  BY <1>1, PiecesAssumption
<1> QED
  BY <1>1, <1>2, FramesAre

LEMMA PixelsFollow == ImagingInv => PixelsFromTheirBits
<1> SUFFICES ASSUME ImagingInv, stage = "gate", row # None
             PROVE  \A p \in DOMAIN row :
            row[p] # Blank =>
                \E i \in 0..dli.width - 1 :
                    /\ dli.perm[i] = p
                    /\ row[p].bits = Taken(i)
                    /\ row[p].first = MapThenSumSet(Taken, 0..i - 1)
  BY DEF PixelsFromTheirBits
<1>1. dli \in Dlis /\ \E len : row = UnpackLine(dli, len)
  BY DEF ImagingInv, DecodeInv
<1>2. PICK len : row = UnpackLine(dli, len)
  BY <1>1
<1>3. dli.width \in Nat
  BY <1>1, DlisAssumption
<1> QED
  BY <1>2, <1>3, PixelsAre

LEMMA RunsFollow == ImagingInv => RunsRight
<1> SUFFICES ASSUME ImagingInv, stage = "found"
             PROVE  /\ Range(runs) = {r \in [from : 0..Len(contact) - 1, to : 1..Len(contact)] :
                                         r.from < r.to /\ IsRun(r)}
                    /\ \A k \in 1..Len(runs) - 1 : runs[k].to < runs[k + 1].from
  BY DEF RunsRight
<1> DEFINE n == Len(contact)
<1>1. contact \in Seq(BOOLEAN) /\ runs = ContactRuns(contact)
  BY DEF ImagingInv, DecodeInv, RunsInv
<1>2. n \in Nat /\ contact \in [1..n -> BOOLEAN]
  BY <1>1
<1> HIDE DEF n
<1>3. /\ runs \in Seq(Span)
      /\ \A q \in Span :
            (\E k \in 1..Len(runs) : runs[k] = q) <=>
               /\ q.to <= n /\ Linked(contact, q) /\ Apart(contact, n, q)
               /\ q.to - q.from >= RunMin
      /\ \A i, j \in 1..Len(runs) : i < j => runs[i].to < runs[j].from
  BY <1>1, <1>2, ContactRunsAre
<1>4. ASSUME NEW q \in Span, q.from < q.to, q.to <= n
      PROVE  IsRun(q) <=> /\ Linked(contact, q) /\ Apart(contact, n, q)
                          /\ q.to - q.from >= RunMin
  <2>1. q.from \in Nat /\ q.to \in Nat /\ (q.to - 1) + 1 = q.to
    BY <1>4 DEF Span
  <2> QED
    BY <1>4, <2>1 DEF IsRun, Linked, Apart, n
<1>5. Range(runs) = {runs[k] : k \in 1..Len(runs)}
  BY <1>3 DEF Range
<1>6. ASSUME NEW q
      PROVE  q \in Range(runs) <=>
                q \in [from : 0..n - 1, to : 1..n] /\ q.from < q.to /\ IsRun(q)
  <2>1. ASSUME q \in Range(runs)
        PROVE  q \in [from : 0..n - 1, to : 1..n] /\ q.from < q.to /\ IsRun(q)
    <3>1. PICK k \in 1..Len(runs) : q = runs[k]
      BY <1>5, <2>1
    <3>2. q \in Span
      BY <1>3, <3>1
    <3>3. q.to <= n /\ Linked(contact, q) /\ Apart(contact, n, q) /\ q.to - q.from >= RunMin
      BY <1>3, <3>1, <3>2
    <3>4. q.from < q.to
      BY <3>3 DEF Linked
    <3>5. IsRun(q)
      BY <1>4, <3>2, <3>3, <3>4
    <3>6. q \in [from : 0..n - 1, to : 1..n]
      BY <1>2, <3>2, <3>3, <3>4 DEF Span
    <3> QED
      BY <3>4, <3>5, <3>6
  <2>2. ASSUME q \in [from : 0..n - 1, to : 1..n], q.from < q.to, IsRun(q)
        PROVE  q \in Range(runs)
    <3>1. q \in Span /\ q.to <= n
      BY <1>2, <2>2 DEF Span
    <3>2. Linked(contact, q) /\ Apart(contact, n, q) /\ q.to - q.from >= RunMin
      BY <1>4, <2>2, <3>1
    <3>3. \E k \in 1..Len(runs) : runs[k] = q
      BY <1>3, <3>1, <3>2
    <3> QED
      BY <1>5, <3>3
  <2> QED
    BY <2>1, <2>2
<1>7. Range(runs) = {r \in [from : 0..n - 1, to : 1..n] : r.from < r.to /\ IsRun(r)}
  BY <1>6
<1>8. \A k \in 1..Len(runs) - 1 : runs[k].to < runs[k + 1].from
  BY <1>3
<1> QED
  BY <1>7, <1>8 DEF n

LEMMA PathFollows == ImagingInv => BestPath
<1> SUFFICES ASSUME ImagingInv, stage = "measure"
             PROVE  path \in Paths /\ \A p \in Paths : Value(p) <= Value(path)
  BY DEF BestPath
<1> DEFINE m == Kept(corr)
<1>1. /\ DOMAIN corr = 0..m - 1 /\ m \in MinCulled..MaxKept
      /\ path \in PathsOf(m)
      /\ \A p \in PathsOf(m) : ValueOf(corr, p) <= ValueOf(corr, path)
  BY DEF ImagingInv, TrackInv
<1> HIDE DEF m
<1>2. m \in Nat
  BY <1>1, CulledAssumption
<1>3. DOMAIN corr \ {0} = 1..m - 1
  BY <1>1, <1>2
<1>4. Paths = PathsOf(m)
  BY <1>1, <1>3 DEF Paths, PathsOf
<1>5. \A p : Value(p) = ValueOf(corr, p)
  BY DEF Value, ValueOf
<1> QED
  BY <1>1, <1>4, <1>5

LEMMA MovesFollow == ImagingInv => MovesByMeasurement
<1> SUFFICES ASSUME ImagingInv, stage = "resample", NEW t \in 0..Kept(lag) - 2
             PROVE  y[t + 1] > y[t] <=>
                       \E k \in 1..Len(good) : 2 * Dist(good[k], t) <= HalfHold * lag[t]
  BY DEF MovesByMeasurement
<1> DEFINE m == Kept(lag)
<1>1. /\ Sorted(good) /\ m \in MinCulled..MaxKept
      /\ \A k \in 0..m - 1 : lag[k] \in Int /\ lag[k] <= Sep
      /\ y = Positions(good, lag, m)
  BY DEF ImagingInv, PlaceInv
<1>2. t \in 0..m - 2
  OBVIOUS
<1> HIDE DEF m
<1>3. m \in Nat \ {0} /\ lag[t] <= Sep /\ \A k \in 0..m - 1 : lag[k] \in Int
  BY <1>1, <1>2, CulledAssumption
<1> QED
  BY <1>1, <1>2, <1>3, MovesAre

LEMMA RowsFollow == ImagingInv => RowsInPlace
<1> SUFFICES ASSUME ImagingInv, stage = "resample", NEW k \in DOMAIN Brackets(y, Kept(y))
             PROVE  /\ Brackets(y, Kept(y))[k] + 1 \in DOMAIN y
                    /\ y[Brackets(y, Kept(y))[k]] <= k * Row
                    /\ k * Row <= y[Brackets(y, Kept(y))[k] + 1]
  BY DEF RowsInPlace
<1> DEFINE m == Kept(lag)
<1>1. /\ m \in MinCulled..MaxKept
      /\ \A t \in 0..m - 1 : lag[t] \in Int
      /\ y = Positions(good, lag, m)
  BY DEF ImagingInv, PlaceInv
<1> HIDE DEF m
<1>2. m \in Nat \ {0} /\ m \in Nat /\ m >= 2
  BY <1>1, CulledAssumption
<1>3. y \in [0..m - 1 -> Nat] /\ y[0] = 0
  BY <1>1, <1>2, PositionsAre
<1>4. Kept(y) = m
  BY <1>2, <1>3, KeptIs
<1>5. /\ Brackets(y, m)[k] \in 0..m - 2
      /\ y[Brackets(y, m)[k]] <= k * Row
      /\ k * Row <= y[Brackets(y, m)[k] + 1]
  <2>1. k \in DOMAIN Brackets(y, m)
    BY <1>4
  <2> QED
    BY <1>2, <1>3, <2>1, RowsPlaced
<1>6. Brackets(y, m)[k] + 1 \in DOMAIN y
  BY <1>2, <1>3, <1>5
<1> QED
  BY <1>4, <1>5, <1>6

LEMMA BandFollows == ImagingInv => BandRight
BY DEF ImagingInv, BandInv, BandOf, BandRight, IsBand

LEMMA FillFollows == ImagingInv => BackgroundRight
<1> SUFFICES ASSUME ImagingInv PROVE BackgroundRight
  OBVIOUS
<1>1. CASE NoMask
  BY <1>1 DEF NoMask, BackgroundRight, Closed
<1>2. CASE Masked
  BY <1>2, InvImpliesRight DEF Masked
<1> QED
  BY <1>1, <1>2 DEF ImagingInv, FillInv

(* Types: in particular what is handed over is never longer than           *)
(* MAX_FEED_ROWS (image.rs:525-533).                                       *)
THEOREM TypeCorrect == Spec => []TypeOK
BY ImagingHolds, TypesFollow, PTL

(* decode_ep2 (image.rs:253-286), for streams of any length.               *)
THEOREM FramesCorrect == Spec => []FramesFound
BY ImagingHolds, FramesFollow, PTL

(* unpack_line (image.rs:84-139), for DliConfigs of any width and mode.    *)
THEOREM PixelsCorrect == Spec => []PixelsFromTheirBits
BY ImagingHolds, PixelsFollow, PTL

(* contact_runs (swipe.rs:107-126), for any pattern of contact.            *)
THEOREM RunsCorrect == Spec => []RunsRight
BY ImagingHolds, RunsFollow, PTL

(* track (swipe.rs:185-214), for runs of any length and any correlation.   *)
THEOREM PathCorrect == Spec => []BestPath
BY ImagingHolds, PathFollows, PTL

(* reconstruct_run (swipe.rs:428-436), for any measurements and lags.      *)
THEOREM MovesCorrect == Spec => []MovesByMeasurement
BY ImagingHolds, MovesFollow, PTL

(* reconstruct_run (swipe.rs:441-449): no row is mixed from lines it does  *)
(* not lie between, and no line beyond the last is looked at.              *)
THEOREM RowsCorrect == Spec => []RowsInPlace
BY ImagingHolds, RowsFollow, PTL

(* finger_segment and reconstruct (image.rs:351-412, 476-482).             *)
THEOREM BandCorrect == Spec => []BandRight
BY ImagingHolds, BandFollows, PTL

(* mask_background, of every picture of a run (swipe.rs:280-303).          *)
THEOREM FillCorrect == Spec => []BackgroundRight
BY ImagingHolds, FillFollows, PTL
=============================================================================
