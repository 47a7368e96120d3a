----------------------------- MODULE MCImaging -----------------------------
(* An instance of Imaging for TLC.                                         *)
EXTENDS Imaging

Got(len, marks, skin) == [len |-> len, marks |-> marks, skin |-> skin]

(* Whole lines with and without skin, one of which only the mark is left,  *)
(* and one without its mark.                                               *)
MCPieces ==
    {Got(5, {0}, TRUE), Got(5, {0}, FALSE), Got(2, {0}, FALSE), Got(3, {}, FALSE)}

(* Also a whole line with 01 fe among its pixels.                          *)
MCChancePieces == MCPieces \cup {Got(5, {0, 3}, TRUE)}

(* All modes; odd widths; samples that straddle bytes, are clamped, left   *)
(* out or not in the table; pixels out of the row, and hit twice.          *)
MCDlis ==
    LET Config(mode, width, max_bits, bits, perm) ==
            [mode |-> mode, width |-> width, max_bits |-> max_bits,
             bits |-> [i \in 0..Len(bits) - 1 |-> bits[i + 1]],
             perm |-> [i \in 0..width - 1 |-> perm[i + 1]]]
    IN {Config(8, 3, 8, <<>>, <<2, 1, 0>>),
        Config(4, 3, 8, <<>>, <<2, 0, 1>>),
        Config(4, 4, 8, <<>>, <<0, 1, 2, 3>>),
        Config(0, 4, 8, <<8, 8, 8, 8>>, <<3, 2, 1, 0>>),
        Config(0, 4, 8, <<6, 5, 7, 3>>, <<0, 1, 2, 3>>),
        Config(0, 4, 5, <<4, 6, 0, 7>>, <<1, 3, 0, 2>>),
        Config(0, 4, 9, <<3, 9, 5, 8>>, <<0, -1, 9, 2>>),
        Config(0, 3, 8, <<4>>, <<1, 1, 0>>)}

(* Peaks near and far, one of them wide, and a slope.                      *)
MCCorrRows ==
    {<<0, 4, 1, 0, 0>>, <<0, 0, 4, 3, 1>>, <<0, 0, 0, 5, 1>>,
     <<4, 3, 2, 1, 0>>}
=============================================================================
