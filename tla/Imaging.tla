------------------------------ MODULE Imaging -------------------------------
(***************************************************************************)
(* From the stream of an imaging window to the picture handed to           *)
(* libfprint: swipe_from_window and finger_gate (main.rs), reconstruct_    *)
(* swipe and reconstruct_run (swipe.rs), and `decode --feed`, which falls  *)
(* back to the raw band (reconstruct, image.rs).  The steps                *)
(* follow one another on one thread; the algorithms are operators of       *)
(* Frames and Swipe, the fill of the background is module Background.      *)
(*                                                                         *)
(* What is computed from pixel values is any value it can have: contact,   *)
(* motion, correlation, the pixels without finger.                         *)
(***************************************************************************)
EXTENDS Frames, Swipe, Background

CONSTANTS
    Pieces,       \* the kinds of line a stream may be made of
    Dlis,         \* DliConfigs
    CorrRows,     \* profiles of correlation over the lags of a line
    MinLines, MinContact,  \* the gate of finger_gate (60, 300 in the code)
    MinDecode,    \* lines the decode subcommand asks for (20)
    MinBand,      \* rows of a usable band (20)
    MinCulled, MinGood, MinSwipeRows,  \* MIN_CULLED, MIN_GOOD, MIN_SWIPE_ROWS (30, 10, 64)
    MaxFeedRows,  \* MAX_FEED_ROWS (500)
    MaxPieces,    \* bound: lines of a stream
    MaxKept       \* bound: lines kept of a run

ASSUME PiecesAssumption == Pieces \subseteq Piece
ASSUME DlisAssumption == \A d \in Dlis : d.width \in Nat
ASSUME CorrAssumption == CorrRows \subseteq [Lags -> Int]
(* A measured lag moves the skin on by a unit at least.                    *)
ASSUME UnitsAssumption ==
    \A c \in CorrRows, l \in Lags :
        Trustworthy(<<c>>, 1, l) => \A v \in Refined(<<c>>, 1, l) : v <= Sep
ASSUME GateAssumption ==
    /\ {MinLines, MinContact, MinDecode, MinBand, MaxPieces} \subseteq Nat
    /\ MinSwipeRows \in Nat \ {0}
ASSUME CulledAssumption ==
    /\ {MinCulled, MinGood, MaxKept} \subseteq Nat
    /\ MinCulled >= 2 /\ MinGood >= 1 /\ MaxKept >= MinCulled
ASSUME FeedAssumption == MaxFeedRows \in Nat \ {0}

VARIABLES
    stage,    \* what is computed next
    daemon,   \* for the daemon, or for the decode subcommand
    stream,   \* what the window returned
    rows,     \* Lines: where in the stream each row begins
    dli,      \* the DliConfig, row: a row unpacked with it
    row,
    contact,  \* the rows whose contact_sd reaches CONTACT_SD
    total,    \* how many rows there are
    runs,     \* contact runs still to be reconstructed
    corr,     \* correlation of the lines kept of this run
    score,    \* of the paths through their lags
    path,     \* the lag followed through them
    good, lag,  \* the measurements, and the lag of every line
    y,        \* where on the skin it was taken
    best,     \* rows of the largest reconstruction, 0 = none
    above, band,  \* rows of high energy, and finger_segment of them
    fed       \* the rows handed over: how many of which picture, from where

decoding == <<stream, rows, dli, row>>
run == <<corr, score, path, good, lag, y>>
mask == <<h, open, background, stack>>
vars == <<stage, daemon, decoding, contact, total, runs, run, best, above, band, fed, mask>>

None == <<>>
Fed == [from : Nat, rows : Nat, of : Nat]
NothingFed == [from |-> 0, rows |-> 0, of |-> 0]

TypeOK ==
    /\ stage \in {"record", "unpack", "gate", "runs", "found", "cull", "track", "measure",
                  "place", "resample", "mask", "band", "done"}
    /\ daemon \in BOOLEAN
    /\ stream \in Seq(Pieces) /\ rows \in Seq(Nat)
    /\ contact \in Seq(BOOLEAN) /\ total \in 0..MaxPieces
    /\ \A r \in Range(runs) : r.to \in 0..MaxPieces /\ r.from \in 0..r.to - RunMin
    /\ Len(good) <= MaxKept
    /\ best \in Nat /\ h \in Nat
    /\ above \subseteq 0..MaxPieces - 1
    /\ band.from <= band.to /\ band.to <= MaxPieces
    /\ background \subseteq open /\ stack \in Seq(Pixels(h))
    /\ fed \in Fed /\ fed.rows <= MaxFeedRows

Init ==
    /\ stage = "record" /\ daemon \in BOOLEAN
    /\ stream = None /\ rows = None /\ dli = None /\ row = None
    /\ contact = None /\ total = 0 /\ runs = None
    /\ corr = None /\ score = None /\ path = None
    /\ good = None /\ lag = None /\ y = None
    /\ best = 0 /\ above = {} /\ band = [from |-> 0, to |-> 0]
    /\ h = 0 /\ open = {} /\ background = {} /\ stack = <<>>
    /\ fed = NothingFed

-----------------------------------------------------------------------------
(* A window has been recorded; its frames are found (decode_ep2).          *)
Decode ==
    /\ stage = "record"
    /\ \E n \in 0..MaxPieces : stream' \in [1..n -> Pieces]
    /\ rows' = DecodeEp2(stream')
    /\ contact' \in {c \in [1..Len(rows') -> BOOLEAN] :
                        \A k \in 1..Len(rows') : c[k] \in Shown(stream', rows'[k])}
    /\ total' = Len(rows')
    /\ stage' = "unpack"
    /\ UNCHANGED <<daemon, dli, row, runs, run, best, above, band, fed, mask>>

(* Its rows are unpacked, each from its first pixel to the end of the      *)
(* buffer; the last is looked at here.                                     *)
Unpack ==
    /\ stage = "unpack"
    /\ IF rows = None THEN UNCHANGED <<dli, row>>
       ELSE \E d \in Dlis :
               /\ dli' = d
               /\ row' = UnpackLine(d, BufLen(stream) - Last(rows) - Header)
    /\ stage' = "gate"
    /\ stream' = None /\ rows' = None
    /\ UNCHANGED <<daemon, contact, total, runs, run, best, above, band, fed, mask>>

Touched == Cardinality({n \in 1..Len(contact) : contact[n]})

(* finger_gate for the daemon; decode only wants enough lines.             *)
Gate ==
    /\ stage = "gate"
    /\ LET accept == IF daemon THEN total >= MinLines /\ Touched >= MinContact
                               ELSE total >= MinDecode
       IN stage' = IF accept THEN "runs" ELSE "done"
    /\ dli' = None /\ row' = None
    /\ UNCHANGED <<daemon, stream, rows, contact, total, runs, run, best, above, band, fed, mask>>

(* reconstruct_swipe.                                                      *)
FindRuns ==
    /\ stage = "runs"
    /\ runs' = ContactRuns(contact)
    /\ stage' = "found"
    /\ UNCHANGED <<daemon, decoding, contact, total, run, best, above, band, fed, mask>>

(* reconstruct_run, of the next run: the first line is kept, and of the    *)
(* others those at which the finger has moved (cull).                      *)
Cull ==
    /\ stage \in {"found", "cull"} /\ runs # None
    /\ \E m \in 1..Head(runs).to - Head(runs).from :
          /\ m <= MaxKept
          /\ IF m < MinCulled
               THEN runs' = Tail(runs) /\ stage' = "cull" /\ UNCHANGED corr
               ELSE /\ corr' \in [0..m - 1 -> CorrRows]
                    /\ stage' = "track"
                    /\ UNCHANGED runs
    /\ contact' = None
    /\ UNCHANGED <<daemon, decoding, total, score, path, good, lag, y, best,
                   above, band, fed, mask>>

Kept(ofLines) == Cardinality(DOMAIN ofLines)

(* track: the scores of one line after the other, then the path.           *)
ScoreLine ==
    /\ stage = "track" /\ Len(score) < Kept(corr)
    /\ score' = Append(score, LineScore(score, corr[Len(score)]))
    /\ UNCHANGED <<stage, daemon, decoding, contact, total, runs, corr, path, good, lag, y,
                   best, above, band, fed, mask>>

FollowLag ==
    /\ stage = "track" /\ Len(score) = Kept(corr)
    /\ path' = Track(score)
    /\ score' = None
    /\ stage' = "measure"
    /\ UNCHANGED <<daemon, decoding, contact, total, runs, corr, good, lag, y, best,
                   above, band, fed, mask>>

(* A peak counts if the second line is on skin.  Too few, and there is no  *)
(* reconstruction; otherwise every line gets a lag.                        *)
Measure ==
    /\ stage = "measure"
    /\ \E G \in SUBSET {t \in DOMAIN corr : Trustworthy(corr, t, path[t])} :
          IF Cardinality(G) < MinGood
            THEN /\ stage' = "cull"
                 /\ runs' = Tail(runs)
                 /\ UNCHANGED <<good, lag>>
            ELSE /\ good' = Ascending(G)
                 /\ \E measured \in [G -> UNION {Refined(corr, t, path[t]) : t \in G}] :
                       /\ \A t \in G : measured[t] \in Refined(corr, t, path[t])
                       /\ \E line \in {Interpolated(good', measured, Kept(corr))} :
                             lag' = Median5(line, Kept(corr))
                 /\ stage' = "place"
                 /\ UNCHANGED runs
    /\ corr' = None /\ path' = None
    /\ UNCHANGED <<daemon, decoding, contact, total, score, y, best, above, band, fed, mask>>

Place ==
    /\ stage = "place"
    /\ y' = Positions(good, lag, Kept(lag))
    /\ stage' = "resample"
    /\ UNCHANGED <<daemon, decoding, contact, total, runs, corr, score, path, good, lag, best,
                   above, band, fed, mask>>

(* max_by_key: of the reconstructions the largest.                         *)
Resample ==
    /\ stage = "resample"
    /\ best' = Max({RowsOut(y, Kept(y)), best})
    /\ runs' = Tail(runs)
    /\ good' = None /\ lag' = None /\ y' = None
    /\ stage' = "cull"
    /\ UNCHANGED <<daemon, decoding, contact, total, corr, score, path, above, band, fed, mask>>

(* The threshold lies at the median of the energies or above it.           *)
HighEnergy ==
    above' \in {A \in SUBSET (0..total - 1) :
                    Cardinality(A) < total - (total \div 2)}

(* No run is left: the largest is masked if it is large enough.            *)
Pick ==
    /\ stage \in {"found", "cull"} /\ runs = None
    /\ IF best >= MinSwipeRows
         THEN MaskStart(best) /\ stage' = "mask" /\ UNCHANGED above
         ELSE IF daemon
         THEN stage' = "done" /\ UNCHANGED <<mask, above>>
         ELSE stage' = "band" /\ UNCHANGED mask /\ HighEnergy
    /\ contact' = None
    /\ best' = 0
    /\ UNCHANGED <<daemon, decoding, total, runs, run, band, fed>>

Mask ==
    /\ stage = "mask" /\ MaskStep
    /\ UNCHANGED <<stage, daemon, decoding, contact, total, runs, run, best, above, band, fed>>

(* Variant: the whole picture.                                             *)
WindowedNot(n) == [from |-> 0, rows |-> n, of |-> n]

(* window_for_feed: half as large again, and of that the middle rows.      *)
Upscaled(n) == IF n < 2 THEN n ELSE (3 * n) \div 2
Windowed(n) ==
    IF n <= MaxFeedRows THEN [from |-> 0, rows |-> n, of |-> n]
    ELSE [from |-> (n - MaxFeedRows) \div 2, rows |-> MaxFeedRows, of |-> n]

Feed ==
    /\ stage = "mask" /\ stack = <<>>
    /\ fed' = Windowed(Upscaled(h))
    /\ stage' = "done"
    /\ UNCHANGED <<daemon, decoding, contact, total, runs, run, best, above, band, mask>>

(* reconstruct: the band of the finger, or everything if it is too small.  *)
RawBand ==
    /\ stage = "band"
    /\ LET n == total
           seg == FingerSegment([i \in 0..n - 1 |-> i \in above], n)
       IN /\ band' = IF seg.to - seg.from >= MinBand THEN seg ELSE [from |-> 0, to |-> n]
          /\ fed' = Windowed(Upscaled(band'.to - band'.from))
    /\ stage' = "done"
    /\ UNCHANGED <<daemon, decoding, contact, total, runs, run, best, above, mask>>

(* The next window.                                                        *)
Again ==
    /\ stage = "done" /\ stage' = "record"
    /\ contact' = None /\ total' = 0
    /\ above' = {} /\ band' = [from |-> 0, to |-> 0] /\ fed' = NothingFed
    /\ h' = 0 /\ open' = {} /\ background' = {} /\ stack' = <<>>
    /\ UNCHANGED <<daemon, decoding, runs, run, best>>

Next ==
    \/ Decode \/ Unpack \/ Gate \/ FindRuns \/ Cull \/ ScoreLine \/ FollowLag \/ Measure
    \/ Place \/ Resample \/ Pick \/ Mask \/ Feed \/ RawBand \/ Again

Spec == Init /\ [][Next]_vars

(* One thread, which waits for nothing.                                    *)
FairSpec == Spec /\ WF_vars(Mask) /\ WF_vars(Feed)

-----------------------------------------------------------------------------
(* Received one behind the other: lines a to b, of which all but the last  *)
(* are whole.                                                              *)
BackToBack(a, b) ==
    /\ \A n \in a..b : 0 \in stream[n].marks
    /\ \A n \in a..b - 1 : stream[n].len = Stride

Longest ==
    Max({n \in 0..Len(stream) :
            \E a \in 1..Len(stream) + 1 - n : BackToBack(a, a + n - 1)})

ChanceMark == \E n \in 1..Len(stream) : stream[n].marks \ {0} # {}

(* What is left of a line and of those after it adds up to a line.         *)
ChanceFit ==
    \E a, b \in 1..Len(stream) :
        a + 1 < b /\ At(stream, b) - At(stream, a) = Stride

(* The rows of a capture are the longest stretch of lines in which nothing *)
(* is lost or out of step (image.rs:253-286), provided that 01 fe stands   *)
(* nowhere but in headers, and broken lines do not happen to fit.          *)
FramesFound ==
    stage = "unpack" /\ ~ChanceMark /\ ~ChanceFit /\ stream # None =>
        \E a \in 1..Len(stream) :
            LET b == a + Longest - 1 IN
            /\ b <= Len(stream) /\ (Longest > 0 => BackToBack(a, b))
            /\ rows = [k \in {k \in 1..Longest : At(stream, a + k - 1) + Header <= BufLen(stream)}
                          |-> At(stream, a + k - 1)]

(* Bits a sample takes up in the line.                                     *)
Taken(i) ==
    CASE dli.mode = 8 -> 8
      [] dli.mode = 4 -> 4
      [] OTHER -> IF Used(dli, i) THEN Bits(dli, i) ELSE 0

(* Every pixel is made of the bits of the sample the permutation sends     *)
(* there, which begin where those of the samples before it end, in all     *)
(* three modes (image.rs:84-139).                                          *)
PixelsFromTheirBits ==
    stage = "gate" /\ row # None =>
        \A p \in DOMAIN row :
            row[p] # Blank =>
                \E i \in 0..dli.width - 1 :
                    /\ dli.perm[i] = p
                    /\ row[p].bits = Taken(i)
                    /\ row[p].first = MapThenSumSet(Taken, 0..i - 1)

(* A contact run goes from contact to contact over gaps of RUN_BRIDGE at   *)
(* most, and as far as that leads; all of RUN_MIN lines and more are       *)
(* found, in order (swipe.rs:107-126).                                     *)
IsRun(r) ==
    LET touch(i) == contact[i + 1] IN
    /\ touch(r.from) /\ touch(r.to - 1)
    /\ \A i \in r.from..r.to - 1 - RunBridge : \E z \in i..i + RunBridge : touch(z)
    /\ \A i \in 0..Len(contact) - 1 :
          touch(i) => \/ i \in r.from..r.to - 1
                      \/ r.from - i > RunBridge + 1 \/ i - r.to > RunBridge
    /\ r.to - r.from >= RunMin

RunsRight ==
    stage = "found" =>
        /\ Range(runs) = {r \in [from : 0..Len(contact) - 1, to : 1..Len(contact)] :
                              r.from < r.to /\ IsRun(r)}
        /\ \A k \in 1..Len(runs) - 1 : runs[k].to < runs[k + 1].from

Value(p) ==
    SumFunction([t \in DOMAIN corr |-> corr[t][p[t]]])
      - SumFunction([t \in DOMAIN corr \ {0} |-> TrackLambda * Dist(p[t], p[t - 1])])

Paths ==
    {p \in [DOMAIN corr -> Lags] :
        \A t \in DOMAIN corr \ {0} : Dist(p[t], p[t - 1]) <= TrackStep}

(* The lag followed through a run is the best of all that change by no     *)
(* more than TRACK_STEP from line to line (swipe.rs:185-214).              *)
BestPath ==
    stage = "measure" =>
        path \in Paths /\ \A p \in Paths : Value(p) <= Value(path)

(* The skin moves with a line if and only if there is a measurement within *)
(* HOLD lags of it, whichever way the pointer came (swipe.rs:428-436).     *)
MovesByMeasurement ==
    stage = "resample" =>
        \A t \in 0..Kept(lag) - 2 :
            y[t + 1] > y[t] <=>
                \E k \in 1..Len(good) : 2 * Dist(good[k], t) <= HalfHold * lag[t]

(* Every output row lies between the two lines it is mixed from            *)
(* (swipe.rs:441-449).                                                     *)
RowsInPlace ==
    stage = "resample" =>
        LET line == Brackets(y, Kept(y))
        IN \A k \in DOMAIN line :
              /\ line[k] + 1 \in DOMAIN y
              /\ y[line[k]] <= k * Row /\ k * Row <= y[line[k] + 1]

(* The raw band is the longest stretch from high energy to high energy     *)
(* over gaps of `bridge` rows at most, or all there is                     *)
(* (image.rs:351-412, 476-482).                                            *)
IsBand(from, to) ==
    /\ from \in above /\ to - 1 \in above
    /\ \A i \in from..to - 1 - Bridge : \E z \in i..i + Bridge : z \in above

BandRight ==
    stage = "done" /\ band.to > 0 =>
        LET n == total
            bands == {r \in [from : 0..n - 1, to : 1..n] :
                         r.from < r.to /\ IsBand(r.from, r.to)}
            longest == Max({r.to - r.from : r \in bands} \cup {0})
        IN IF longest >= MinBand
             THEN band \in bands /\ band.to - band.from = longest
             ELSE band = [from |-> 0, to |-> n]

(* The fill of the background comes to its end, though pixels are put on   *)
(* the stack more than once, and the image is handed over                  *)
(* (swipe.rs:280-303).                                                     *)
MaskEnds == stage = "mask" ~> stage = "done"

(* image.rs:251: "Extract the longest run of fixed-stride EP2 frames".     *)
LongestRunFound ==
    stage = "unpack" =>
        \A a, b \in 1..Len(stream) :
            a <= b /\ BackToBack(a, b) /\ stream[b].len = Stride =>
                Len(rows) >= b - a + 1
=============================================================================
