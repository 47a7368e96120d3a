---------------------------- MODULE Calibration ----------------------------
(***************************************************************************)
(* How a capture calibrates itself (calib.rs, and the part of Capture::run *)
(* that uses it): the slice a sweep command returns is judged, a value is  *)
(* picked from it and written into the commands not yet sent.              *)
(*                                                                         *)
(* A command is the sequence of register writes in it.  A slice is a       *)
(* sequence of lines, of which the marker, the counter and the sums of the *)
(* two interleaved column groups are kept; the sums stand for the samples. *)
(***************************************************************************)
EXTENDS Integers, Sequences, FiniteSets, FiniteSetsExt

CONSTANTS
    Recorded,   \* the recorded commands (capture_seq)
    StepAt,     \* the index of each step's sweep command (SEQ_*)
    Values,     \* how many values each step sweeps
    Target,     \* the sum of a line at mid-scale (127 a column)
    D,          \* how near to saturation is near (10 a pixel)
    Slices,     \* what EP2 may deliver while a command runs
    Prepare, Window, Finish,  \* the indices each unit sends
    None        \* no result

Steps == {"PgaOffset", "Adc", "PgaGain"}
Registers == {"offset", "adc", "gain1", "gain2", "other"}
Command == Seq([reg : Registers, val : Nat])
Units == {"prepare", "window", "finish"}

ASSUME RecordedAssumption == Recorded \in Seq(Command)
ASSUME StepsAssumption ==
    /\ StepAt \in [Steps -> DOMAIN Recorded]
    /\ \A s, t \in Steps : StepAt[s] = StepAt[t] => s = t
    /\ Values \in [Steps -> Nat \ {0}]
    /\ Target \in Nat /\ D \in Nat
ASSUME SlicesAssumption ==
    Slices \subseteq Seq([mark : {"line", "end", "zeros"}, count : Nat,
                          a : Nat, b : Nat])
ASSUME UnitsAssumption ==
    /\ {Prepare, Window, Finish} \subseteq {i..j : i, j \in DOMAIN Recorded}
    /\ {} \notin {Prepare, Window, Finish}
(* Sweeps are part of what prepares, which is sent once (capture.rs:446).  *)
ASSUME SweepsAssumption == \A s \in Steps : StepAt[s] \notin Window \cup Finish
ASSUME NoneAssumption == None \notin Nat

VARIABLES
    seq,     \* the commands as they stand now
    unit,    \* the unit being sent
    idx,     \* the command to send next
    sent,    \* history: the command sent last, with its index
    chosen   \* history: what each step of this capture ought to pick

vars == <<seq, unit, idx, sent, chosen>>

Indices(u) == CASE u = "prepare" -> Prepare
              [] u = "window" -> Window
              [] u = "finish" -> Finish

TypeOK ==
    /\ seq \in Seq(Command) /\ Len(seq) = Len(Recorded)
    /\ unit \in Units
    /\ idx \in Nat
    /\ sent = None \/ sent \in [idx : DOMAIN Recorded, cmd : Command]
    /\ chosen \in [Steps -> Nat \cup {None}]

-----------------------------------------------------------------------------
(* The sweep frames.                                                       *)

PerVal(step) == IF step = "PgaOffset" THEN 1 ELSE 2
FirstValue(step) == IF step = "Adc" THEN 107 ELSE 0

(* Variant: the counters are not looked at.                                *)
ValidateUncounted(step, slice) ==
    /\ Len(slice) = Values[step] * PerVal(step)
    /\ slice[Len(slice)].mark = "end"

Validate(step, slice) ==
    /\ Len(slice) = Values[step] * PerVal(step)
    /\ \A n \in 1..Len(slice) - 1 :
          slice[n].mark = "line" /\ slice[n].count = n
    /\ slice[Len(slice)].mark = "end"

SweepSums(step, slice) ==
    LET per == PerVal(step)
        Group(g) == (g - 1) * per + 1 .. g * per
    IN [g \in 1..Len(slice) \div per |->
          [a |-> MapThenSumSet(LAMBDA n : slice[n].a, Group(g)),
           b |-> MapThenSumSet(LAMBDA n : slice[n].b, Group(g))]]

Distance(sum) == IF sum.a + sum.b > Target THEN sum.a + sum.b - Target
                                           ELSE Target - (sum.a + sum.b)
Peak(sum) == IF sum.b > sum.a THEN sum.b ELSE sum.a

(* compute_pga_offset and compute_adc go through the sums and keep the     *)
(* best so far; positions are from 1.                                      *)
ComputePgaOffset(sums) ==
    LET best[n \in 1..Len(sums)] ==
          IF n = 1 THEN 1
          ELSE IF Distance(sums[n]) < Distance(sums[best[n - 1]])
               THEN n ELSE best[n - 1]
    IN best[Len(sums)]

ComputeAdc(sums) ==
    LET best[n \in 1..Len(sums)] ==
          IF n = 1 THEN 1
          ELSE IF Peak(sums[n]) > Peak(sums[best[n - 1]])
               THEN n ELSE best[n - 1]
    IN best[Len(sums)]

NearA(x, last) == IF last.a > last.b THEN x.a + D >= last.a
                                     ELSE x.a <= last.a + D
NearB(x, last) == IF last.a > last.b THEN x.b <= last.b + D
                                     ELSE x.b + D >= last.b

(* Variant: one is taken off whatever the position.                        *)
BeforeUnchecked(n) == n - 1

(* The position before the n-th, or the first (saturating_sub).            *)
Before(n) == IF n = 1 THEN 1 ELSE n - 1

ComputePgaGain(sums) ==
    LET last == sums[Len(sums)]
        near == {n \in DOMAIN sums : NearA(sums[n], last)}
    IN IF \/ last.a = last.b
          \/ near = {}
          \/ \A n \in DOMAIN sums : ~NearB(sums[n], last)
       THEN None
       ELSE Before(Min(near))

(* What the step finds in the slice; an error counts as no result.         *)
Compute(step, slice) ==
    IF ~Validate(step, slice) THEN None
    ELSE LET sums == SweepSums(step, slice)
             at == CASE step = "PgaOffset" -> ComputePgaOffset(sums)
                     [] step = "Adc" -> ComputeAdc(sums)
                     [] step = "PgaGain" -> ComputePgaGain(sums)
         IN IF at = None THEN None ELSE FirstValue(step) + at - 1

-----------------------------------------------------------------------------
(* The commands.                                                           *)

Writes(cmd, reg) == {p \in DOMAIN cmd : cmd[p].reg = reg}

PatchReg(cmd, reg, val) ==
    IF Cardinality(Writes(cmd, reg)) < 2 THEN cmd
    ELSE [cmd EXCEPT ![Max(Writes(cmd, reg))].val = val]

PatchAdc(cmd, val) ==
    [p \in DOMAIN cmd |-> IF cmd[p].reg = "adc"
                          THEN [cmd[p] EXCEPT !.val = val] ELSE cmd[p]]

Patch(step, cmd, val) ==
    CASE step = "PgaOffset" -> PatchReg(cmd, "offset", val)
      [] step = "Adc" -> PatchAdc(cmd, val)
      [] step = "PgaGain" ->
           PatchReg(PatchReg(cmd, "gain1", val), "gain2", val)

CarryForward(i, slice, cmds) ==
    IF \A step \in Steps : StepAt[step] # i THEN cmds
    ELSE LET step == CHOOSE s \in Steps : StepAt[s] = i
             val == Compute(step, slice)
         IN IF val = None THEN cmds
            ELSE [j \in DOMAIN cmds |-> IF j > i THEN Patch(step, cmds[j], val)
                                                 ELSE cmds[j]]

-----------------------------------------------------------------------------
(* What the comments of calib.rs promise of a step, said without its loop. *)
(* They do not say what "the value BEFORE it" is when the first value is   *)
(* already near saturation; the code's answer, the first, is taken.        *)

First(S) == CHOOSE v \in S : \A w \in S : v <= w

Promised(step, slice) ==
    IF ~ /\ Len(slice) = Values[step] * PerVal(step)
         /\ \A n \in DOMAIN slice :
              IF n = Len(slice) THEN slice[n].mark = "end"
              ELSE <<slice[n].mark, slice[n].count>> = <<"line", n>>
    THEN None
    ELSE
      LET sums == SweepSums(step, slice)
          last == sums[Len(sums)]
          all == DOMAIN sums
          value(n) == FirstValue(step) + n - 1
          closest == {n \in all : \A m \in all :
                         Distance(sums[n]) <= Distance(sums[m])}
          largest == {n \in all : \E l \in {sums[n].a, sums[n].b} :
                         \A k \in all : l >= sums[k].a /\ l >= sums[k].b}
          clear == {n \in all : \A m \in 1..n : ~NearA(sums[m], last)}
      IN CASE step = "PgaOffset" -> value(First(closest))
           [] step = "Adc" -> value(First(largest))
           [] step = "PgaGain" -> IF last.a = last.b THEN None
                                  ELSE value(IF clear = {} THEN 1
                                             ELSE Cardinality(clear))

-----------------------------------------------------------------------------
Init ==
    /\ seq = Recorded
    /\ unit = "prepare" /\ idx = Min(Prepare)
    /\ sent = None
    /\ chosen = [s \in Steps |-> None]

(* Capture::run sends the next command of the unit and carries forward     *)
(* what its slice says.                                                    *)
Send ==
    /\ idx \in Indices(unit)
    /\ sent' = [idx |-> idx, cmd |-> seq[idx]]
    /\ \E slice \in Slices :
         /\ seq' = CarryForward(idx, slice, seq)
         /\ chosen' = [s \in Steps |-> IF StepAt[s] = idx
                                       THEN Promised(s, slice) ELSE chosen[s]]
    /\ idx' = idx + 1
    /\ UNCHANGED unit

(* The caller goes on to a window, another window, or the end.             *)
Begin(u) ==
    /\ idx \notin Indices(unit) /\ unit # "finish"
    /\ unit' = u
    /\ idx' = Min(Indices(u))
    /\ UNCHANGED <<seq, sent, chosen>>

(* Capture::new loads the sequence: for the next request, or after an      *)
(* error anywhere.                                                         *)
New ==
    /\ seq' = Recorded
    /\ unit' = "prepare" /\ idx' = Min(Prepare)
    /\ sent' = None
    /\ chosen' = [s \in Steps |-> None]

Next == Send \/ Begin("window") \/ Begin("finish") \/ New

Spec == Init /\ [][Next]_vars

-----------------------------------------------------------------------------
(* A write the host may override: the last of several to a register, or    *)
(* any Adc entry (calib.rs:14-20).                                         *)
IsOverride(cmd, p) ==
    /\ cmd[p].reg # "other"
    /\ \/ cmd[p].reg = "adc"
       \/ /\ \E q \in 1..p - 1 : cmd[q].reg = cmd[p].reg
          /\ \A q \in p + 1..Len(cmd) : cmd[q].reg # cmd[p].reg

StepOf(reg) == CASE reg = "offset" -> "PgaOffset"
                 [] reg = "adc" -> "Adc"
                 [] reg \in {"gain1", "gain2"} -> "PgaGain"

(* Every command goes out as recorded, except that each override carries   *)
(* what its step chose in this very capture, if the step came before and   *)
(* chose something: base tables stay, a damaged sweep changes nothing, and *)
(* no value of an earlier capture survives (calib.rs:207-212).             *)
SentAsChosen ==
    sent # None =>
      LET was == Recorded[sent.idx]
          Overridden(p) == /\ IsOverride(was, p)
                           /\ StepAt[StepOf(was[p].reg)] < sent.idx
                           /\ chosen[StepOf(was[p].reg)] # None
      IN sent.cmd = [p \in DOMAIN was |->
                       IF Overridden(p)
                       THEN [was[p] EXCEPT !.val = chosen[StepOf(was[p].reg)]]
                       ELSE was[p]]
=============================================================================
