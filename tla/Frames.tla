------------------------------- MODULE Frames -------------------------------
(***************************************************************************)
(* image.rs, up to the rows of a capture: the frames in a decrypted stream *)
(* (decode_ep2), the pixels of a line (unpack_line) and the band of a      *)
(* finger (finger_segment).                                                *)
(*                                                                         *)
(* A stream is what was received of each scan line: how many bytes, at     *)
(* which of them 01 fe stands, and whether skin was over the sensor.  The  *)
(* first mark of a line is its header; one further on is pixel data.       *)
(***************************************************************************)
EXTENDS Integers, FiniteSets, SequencesExt

CONSTANTS
    Stride,   \* bytes from frame to frame (272 in the code)
    Header,   \* bytes before the pixels (8 in the code)
    Bridge    \* rows of a gap inside a finger's band (100 in the code)

ASSUME StrideAssumption == Header \in Nat /\ Stride \in Nat /\ Header < Stride
ASSUME BridgeAssumption == Bridge \in Nat \ {0}

Piece == {p \in [len : 1..Stride, marks : SUBSET (0..Stride - 1), skin : BOOLEAN] :
              \A o \in p.marks : o < p.len}

(* The numbers of a finite set in ascending order.                         *)
Ascending(S) == MapThenFoldSet(LAMBDA x, s : Append(s, x), <<>>, LAMBDA x : x, Max, S)

-----------------------------------------------------------------------------
(* Where a piece starts in the buffer, and where the buffer ends.          *)
At(stream, n) == FoldLeft(LAMBDA sum, p : sum + p.len, 0, SubSeq(stream, 1, n - 1))
BufLen(stream) == At(stream, Len(stream) + 1)

(* decode_ep2: the places of 01 fe, in order.                              *)
Marks(stream) ==
    Ascending(UNION {{At(stream, n) + o : o \in stream[n].marks} : n \in DOMAIN stream})

(* Variant: a frame that has lost bytes is no break.                       *)
FollowsOrShorter(marks, k) == k > 1 /\ marks[k] - marks[k - 1] <= Stride

Follows(marks, k) == k > 1 /\ marks[k] - marks[k - 1] = Stride

(* The longest run of marks, and of those as long the first.               *)
BestRun(marks) ==
    LET Take(acc, k) ==
            LET run == IF Follows(marks, k)
                         THEN [acc.run EXCEPT !.len = @ + 1]
                         ELSE [start |-> k, len |-> 1]
            IN [run |-> run,
                best |-> IF run.len > acc.best.len THEN run ELSE acc.best]
        none == [start |-> 1, len |-> 0]
    IN FoldLeftDomain(Take, [run |-> none, best |-> none], marks).best

(* Where the rows begin; one that ends within its header is left out.      *)
DecodeEp2(stream) ==
    LET marks == Marks(stream)
        run == BestRun(marks)
    IN FoldLeft(LAMBDA rows, m : IF m + Header <= BufLen(stream) THEN Append(rows, m) ELSE rows,
                <<>>, SubSeq(marks, run.start, run.start + run.len - 1))

(* What a row shows.  One that does not begin with a line, or whose line   *)
(* has lost bytes and runs on into the next, shows anything.               *)
Shown(stream, m) ==
    LET whole == {n \in 1..Len(stream) : At(stream, n) = m /\ stream[n].len = Stride}
    IN IF whole = {} THEN BOOLEAN ELSE {stream[n].skin : n \in whole}

-----------------------------------------------------------------------------
(* unpack_line.  A sample is the first bit it is made of and how many.     *)
Blank == [first |-> 0, bits |-> 0]

(* The width of sample i in the general path; 0 and more than 8 are left   *)
(* out.                                                                    *)
Bits(dli, i) ==
    LET w == IF i \in DOMAIN dli.bits THEN dli.bits[i] ELSE 8
    IN IF w > dli.max_bits THEN dli.max_bits ELSE w
Used(dli, i) == Bits(dli, i) \in 1..8

(* Variant: a sample that reaches into a byte uses it up.                  *)
CarriedNone(nb) == 0

Carried(nb) == nb - 8

(* byte_idx and bitoff in front of sample i.                               *)
Cursor(dli) ==
    LET cursor[i \in 0..dli.width] ==
            IF i = 0 THEN [byte |-> 0, bit |-> 0]
            ELSE IF ~Used(dli, i - 1) THEN cursor[i - 1]
            ELSE LET c == cursor[i - 1]
                     nb == c.bit + Bits(dli, i - 1)
                 IN IF nb > 7 THEN [byte |-> c.byte + 1, bit |-> Carried(nb)]
                              ELSE [byte |-> c.byte, bit |-> nb]
    IN cursor

(* The samples of a line of so many bytes, by mode.                        *)
Samples(dli, len) ==
    CASE dli.mode = 8 ->
            [i \in {i \in 0..dli.width - 1 : i < len} |->
                [first |-> 8 * i, bits |-> 8]]
      [] dli.mode = 4 ->
            [i \in {i \in 0..2 * (dli.width \div 2) - 1 : i \div 2 < len} |->
                [first |-> 8 * (i \div 2) + 4 * (i % 2), bits |-> 4]]
      [] OTHER ->
            LET cursor == Cursor(dli)
            IN [i \in {i \in 0..dli.width - 1 : Used(dli, i)} |->
                    [first |-> 8 * cursor[i].byte + cursor[i].bit,
                     bits |-> Bits(dli, i)]]

(* perm says which pixel of the row a sample goes to; what points outside  *)
(* the row is dropped, and the last of several stays.                      *)
UnpackLine(dli, len) ==
    LET samples == Samples(dli, len)
        To(p) == {i \in DOMAIN samples : dli.perm[i] = p}
    IN [p \in 0..dli.width - 1 |-> IF To(p) = {} THEN Blank ELSE samples[Max(To(p))]]

-----------------------------------------------------------------------------
(* finger_segment: rows are numbered from 0; above says which of them have *)
(* an energy above the threshold.                                          *)

(* Variant: a gap of Bridge rows is not bridged any more.                  *)
GapEndShort(above, rows, j) ==
    CHOOSE k \in j..rows :
        /\ \A g \in j..k - 1 : ~above[g] /\ g - j < Bridge - 1
        /\ k = rows \/ above[k] \/ k - j = Bridge - 1

(* Where the search for the end of a gap stops.                            *)
GapEnd(above, rows, j) ==
    CHOOSE k \in j..rows :
        /\ \A g \in j..k - 1 : ~above[g] /\ g - j < Bridge
        /\ k = rows \/ above[k] \/ k - j = Bridge

BandEnd(above, rows, i) ==
    LET end[j \in i..rows] ==
            IF j = rows THEN rows
            ELSE IF above[j] THEN end[j + 1]
            ELSE LET k == GapEnd(above, rows, j)
                 IN IF k < rows /\ above[k] THEN end[k] ELSE j
    IN end[i]

(* The longest band [from, to), and of those as long the first.            *)
FingerSegment(above, rows) ==
    LET best[i \in 0..rows + 1] ==
            IF i >= rows THEN [from |-> 0, to |-> 0]
            ELSE IF ~above[i] THEN best[i + 1]
            ELSE LET j == BandEnd(above, rows, i)
                     later == best[j + 1]
                 IN IF later.to - later.from > j - i THEN later
                    ELSE [from |-> i, to |-> j]
    IN best[0]
=============================================================================
