--------------------------- MODULE MCCalibration ---------------------------
(* An instance of Calibration for TLC: three steps, then a window and the  *)
(* closing command.  Slices are frames of every size with every profile of *)
(* sums below, and frames damaged the way a full FIFO damages them.        *)
EXTENDS Calibration

W(reg, val) == [reg |-> reg, val |-> val]
Both(reg, base, val) == <<W(reg, base), W(reg, val)>>

MCRecorded == <<
    <<W("other", 1)>> \o Both("offset", 0, 5),
    <<W("offset", 0), W("adc", 120)>>,
    Both("offset", 0, 5) \o <<W("adc", 120)>>,
    <<W("gain1", 8)>> \o Both("offset", 0, 5) \o <<W("gain2", 8)>>,
    <<W("gain1", 8), W("other", 5)>>,
    <<W("adc", 120)>> \o Both("gain1", 8, 9) \o Both("gain2", 8, 9)
        \o <<W("adc", 121), W("gain1", 7)>> \o Both("offset", 0, 5),
    Both("offset", 1, 4) \o Both("gain2", 8, 9) >>

MCStepAt == [PgaOffset |-> 2, Adc |-> 3, PgaGain |-> 4]
MCValues == [PgaOffset |-> 3, Adc |-> 2, PgaGain |-> 3]
MCPrepare == 1..4
MCWindow == 6..6
MCFinish == 7..7

(* The frame of a step with given sums; the lines of a value share them.   *)
Frame(step, sums) ==
    LET per == PerVal(step)
        size == per * Len(sums)
    IN [n \in 1..size |->
          [mark |-> IF n = size THEN "end" ELSE "line", count |-> n,
           a |-> IF n % per = 0 THEN sums[(n - 1) \div per + 1].a ELSE 0,
           b |-> IF n % per = 0 THEN sums[(n - 1) \div per + 1].b ELSE 0]]

Profiles(step) ==
    CASE step = "PgaOffset" -> [1..3 -> [a : 0..3, b : {1}]]
      [] step = "Adc" -> [1..2 -> [a : 0..2, b : 0..2]]
      [] step = "PgaGain" ->
           [1..3 -> {[a |-> x, b |-> 3 - x] : x \in 0..3}
                    \cup {[a |-> 1, b |-> 1]}]

Frames == UNION {{Frame(step, sums) : sums \in Profiles(step)} : step \in Steps}

Zeros == [mark |-> "zeros", count |-> 0, a |-> 0, b |-> 0]

Damaged ==
    LET some == {Frame("PgaOffset", [n \in 1..3 |-> [a |-> 3 - n, b |-> 1]]),
                 Frame("Adc", [n \in 1..2 |-> [a |-> n, b |-> 0]]),
                 Frame("PgaGain", [n \in 1..3 |-> [a |-> n, b |-> 3 - n]])}
    IN {<<>>}
       \cup {Tail(f) : f \in some}
       \cup {Tail(f) \o <<Zeros>> : f \in some}
       \cup {<<f[1]>> \o f : f \in some}
       \cup {<<f[1]>> \o Tail(Tail(f)) \o <<f[Len(f)]>> : f \in some}

MCSlices == Frames \cup Damaged
=============================================================================
