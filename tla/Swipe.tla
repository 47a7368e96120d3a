------------------------------- MODULE Swipe --------------------------------
(***************************************************************************)
(* The discrete part of swipe.rs: where contact runs begin and end         *)
(* (contact_runs), the lag of the second sensing line followed over a run  *)
(* (track), which lags count as measured, where on the skin each line was  *)
(* taken, and which two lines an output row is mixed from                  *)
(* (reconstruct_run).  Correlations come in as small numbers.              *)
(*                                                                         *)
(* Lines of a run and rows are numbered from 0, as in the code.            *)
(***************************************************************************)
EXTENDS Integers, FiniteSets, FiniteSetsExt, SequencesExt

CONSTANTS
    RunBridge, RunMin,    \* RUN_BRIDGE, RUN_MIN (20, 100 in the code)
    LagMin, LagMax,       \* LAG_MIN, LAG_MAX (2, 160)
    TrackStep, TrackLambda,  \* TRACK_STEP, TRACK_LAMBDA (3, 0.02)
    QMin, PeakLagMin, PeakDrop,  \* Q_MIN, PEAK_LAG_MIN, PEAK_DROP (0.5, 4, 0.15)
    HalfHold,             \* twice HOLD (3)
    Sep,                  \* SEP_ROWS in units a row is divided into
    Row                   \* those units

ASSUME RunsAssumption == RunBridge \in Nat /\ RunMin \in Nat \ {0}
ASSUME LagAssumption == LagMin \in Nat \ {0} /\ LagMax \in Nat /\ LagMin <= LagMax
ASSUME TrackAssumption == TrackStep \in Nat /\ TrackLambda \in Nat
ASSUME PeakAssumption == {QMin, PeakLagMin, PeakDrop} \subseteq Nat
ASSUME RowAssumption ==
    HalfHold \in Nat /\ {Sep, Row} \subseteq Nat \ {0}

Lags == LagMin..LagMax

-----------------------------------------------------------------------------
(* Variant: a gap of RunBridge lines is not bridged any more.              *)
BridgedShort(gap) == gap < RunBridge \/ gap = 0

Bridged(gap) == gap <= RunBridge

(* contact_runs, of the lines that have contact.                           *)
ContactRuns(contact) ==
    LET Extend(runs, n) ==
            LET y == n - 1 IN
            IF ~contact[n] THEN runs
            ELSE IF runs # <<>> /\ Bridged(y - Last(runs).to)
              THEN [runs EXCEPT ![Len(runs)].to = y + 1]
              ELSE Append(runs, [from |-> y, to |-> y + 1])
    IN FoldLeft(LAMBDA long, r : IF r.to - r.from >= RunMin THEN Append(long, r) ELSE long,
                <<>>, FoldLeftDomain(Extend, <<>>, contact))

-----------------------------------------------------------------------------
(* track.  score[t + 1][l] is the score of the best path to lag l of line  *)
(* t, corr[t][l] the correlation there.                                    *)

(* Variant: a step back costs nothing.                                     *)
PenaltyUpOnly(from, to) == IF to > from THEN TrackLambda * (to - from) ELSE 0

Penalty(from, to) ==
    TrackLambda * (IF to > from THEN to - from ELSE from - to)

Reachable(l) == {p \in Lags : p - l \in -TrackStep..TrackStep}

(* The best lag before l, and of those as good the largest.                *)
BestBefore(score, l) ==
    CHOOSE p \in Reachable(l) :
        \A q \in Reachable(l) :
            LET vp == score[p] - Penalty(p, l)
                vq == score[q] - Penalty(q, l)
            IN vp > vq \/ (vp = vq /\ p >= q)

(* The scores of a line, from those of the line before it (the first has   *)
(* none) and its correlation.                                              *)
LineScore(score, corr) ==
    IF score = <<>> THEN corr
    ELSE [l \in Lags |->
            LET p == BestBefore(Last(score), l)
            IN Last(score)[p] - Penalty(p, l) + corr[l]]

(* The path through the scores, from its end back.                         *)
Track(score) ==
    LET m == Len(score)
        prev == [t \in 1..m - 1 |-> [l \in Lags |-> BestBefore(score[t], l)]]
        end == CHOOSE l \in Lags :
                  \A k \in Lags : Last(score)[l] > Last(score)[k]
                                    \/ (Last(score)[l] = Last(score)[k] /\ l >= k)
        back[n \in 0..m - 1] == IF n = 0 THEN end ELSE prev[m - n][back[n - 1]]
    IN [t \in 0..m - 1 |-> back[m - 1 - t]]

(* Half a lag, half to even, no less than the smallest lag.                *)
Half(l) ==
    LET half == IF l % 4 = 3 THEN (l \div 2) + 1 ELSE l \div 2
    IN IF half < LagMin THEN LagMin ELSE half

(* A real peak, and not a slope towards the smallest lag.                  *)
Trustworthy(corr, t, l) ==
    /\ corr[t][l] >= QMin
    /\ l >= PeakLagMin /\ corr[t][l] - corr[t][Half(l)] >= PeakDrop

(* The parabola through a peak, in whole lags below and above.  Nothing    *)
(* keeps it near l where the path is not at the top of a peak.             *)
Refined(corr, t, l) ==
    IF l \notin LagMin + 1..LagMax - 1 THEN {l}
    ELSE LET rise == corr[t][l + 1] - corr[t][l - 1]
             curve == 2 * (2 * corr[t][l] - corr[t][l - 1] - corr[t][l + 1])
         IN IF curve <= 0 THEN {l}
            ELSE {l + (rise \div curve), l - ((-rise) \div curve)}

(* interp_at_indices: between two measured lines on the straight line, at  *)
(* the ends as the nearest.                                                *)
Interpolated(good, measured, m) ==
    [t \in 0..m - 1 |->
        LET upto == {k \in 1..Len(good) : good[k] <= t}
        IN IF upto = {} THEN measured[good[1]]
           ELSE LET a == good[Max(upto)] IN
                IF a = Last(good) THEN measured[a]
                ELSE LET b == good[Max(upto) + 1]
                     IN measured[a] + (((t - a) * (measured[b] - measured[a])) \div (b - a))]

(* median_filter over five lines, at the ends over the last one again.     *)
Median5(lag, m) ==
    LET window(t) == [d \in -2..2 |-> lag[IF t + d < 0 THEN 0
                                          ELSE IF t + d >= m THEN m - 1 ELSE t + d]]
        Middle(w) == CHOOSE v \in {w[d] : d \in -2..2} :
                        /\ Cardinality({d \in -2..2 : w[d] < v}) <= 2
                        /\ Cardinality({d \in -2..2 : w[d] > v}) <= 2
    IN [t \in 0..m - 1 |-> Middle(window(t))]

-----------------------------------------------------------------------------
Dist(a, b) == IF a > b THEN a - b ELSE b - a

(* Variant: the pointer moves on when the next is reached.                 *)
NearerIfReached(next, this, t) == next <= t

Nearer(next, this, t) == Dist(next, t) <= Dist(this, t)

(* The measurement each line looks at: a pointer into the sorted           *)
(* measurements that moves on as long as the next is no farther.           *)
Pointer(good, m) ==
    LET On(g, t) ==
            CHOOSE k \in g..Len(good) :
                /\ \A j \in g..k - 1 : Nearer(good[j + 1], good[j], t)
                /\ k = Len(good) \/ ~Nearer(good[k + 1], good[k], t)
        walk[t \in 0..m - 1] == On(IF t = 0 THEN 1 ELSE walk[t - 1], t)
    IN walk

(* The skin moves on with a line whose measurement is near enough.         *)
Moving(good, lag, m) ==
    LET pointer == Pointer(good, m)
    IN [t \in 0..m - 1 |-> 2 * Dist(good[pointer[t]], t) <= HalfHold * lag[t]]

(* Where each line was taken, rounded to units.                            *)
Positions(good, lag, m) ==
    LET moving == Moving(good, lag, m)
        y[t \in 0..m - 1] ==
            IF t = 0 THEN 0
            ELSE y[t - 1] + (IF moving[t - 1] THEN Sep \div Max({lag[t - 1], 1}) ELSE 0)
    IN y

(* Variant: rounded up.                                                    *)
RowsOutRoundedUp(y, m) == (y[m - 1] \div Row) + 2

RowsOut(y, m) == (y[m - 1] \div Row) + 1

(* The line each output row is mixed from, with the one after it.          *)
Brackets(y, m) ==
    LET On(i, k) ==
            CHOOSE l \in i..m - 1 :
                /\ \A j \in i..l - 1 : j + 2 < m /\ y[j + 1] <= k * Row
                /\ l + 2 >= m \/ y[l + 1] > k * Row
        line[k \in 0..RowsOut(y, m) - 1] == On(IF k = 0 THEN 0 ELSE line[k - 1], k)
    IN line
=============================================================================
