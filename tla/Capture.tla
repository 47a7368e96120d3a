------------------------------ MODULE Capture ------------------------------
(***************************************************************************)
(* The image side of a capture: Capture::run in capture.rs, with the EP2   *)
(* reader thread of read_reply_interleaved, drain_image_bounded, and the   *)
(* decryption of each command's slice (decrypt_image_stream, crypto.rs).   *)
(*                                                                         *)
(* The unit on EP2 is a scan line.  A line is encrypted behind the line    *)
(* before it; the first one after a command that carries a key is          *)
(* encrypted behind that command's IV.  Every window is recorded with the  *)
(* same key and IV, so a chain is named by the command that began it.      *)
(* How the threads take turns is in module Collection; here are the lines. *)
(* What sending a command takes is the matter of module Exchange: here it  *)
(* is executed, rejected, or given up.                                     *)
(***************************************************************************)
EXTENDS Collection, Sequences

CONSTANTS
    Prepare, Window, Finish,  \* the number of commands in each unit
    KeyAt,       \* the command of a window that carries the image key
    MaxBurst,    \* bound: lines streamed for one command
    MaxLines,    \* bound: lines
    MaxSends,    \* bound: commands sent
    MaxResets    \* bound: resets of the sensor

ASSUME UnitsAssumption == {Prepare, Window, Finish} \subseteq Nat \ {0}
ASSUME KeyAssumption == KeyAt \in 1..Window
ASSUME BoundsAssumption == {MaxBurst, MaxLines, MaxSends, MaxResets} \subseteq Nat

VARIABLES
    unit, idx,  \* the unit, and which of its commands comes next
    rgot,     \* what the reader thread has read
    img,      \* the slice of this command
    chain,    \* cur_key: the command it is of, 0 = None
    iv,       \* cur_iv: the line it is the end of, 0 = from the command
    out,      \* the lines of this unit, with how they were decrypted
    pipe,     \* EP2 IN
    left,     \* lines the sensor will still stream
    schain, sprev,  \* the sensor's chain, and the line it is at
    count,    \* lines streamed and not lost with the pipe
    sends, resets,
    upto,     \* history: the last line handed over in a slice
    wins,     \* history: windows opened
    mixed,    \* history: the chains a line of another one was decrypted in
    carried   \* history: lines were left over when this window opened

control == <<pc, unit, idx>>
thread == <<done, reader, rgot>>
collecting == <<attempt, reply, quiet, img>>
crypt == <<chain, iv, out, mixed>>
sensor == <<pipe, left, schain, sprev, count, resets>>
history == <<sends, upto, wins, carried>>
vars == <<control, thread, collecting, crypt, sensor, history>>

Units == {"prepare", "window", "finish"}
Line == [n : Nat, chain : Nat, prev : Nat, win : Nat]
Decrypted == [line : Line, chain : Nat, iv : Nat]

Last(s) == s[Len(s)]
Size(u) == CASE u = "prepare" -> Prepare
             [] u = "window" -> Window
             [] u = "finish" -> Finish

TypeOK ==
    /\ CollectionTypeOK
    /\ unit \in Units /\ idx \in 1..Size(unit) + 1
    /\ rgot \in Seq(Line) /\ img \in Seq(Line) /\ pipe \in Seq(Line)
    /\ chain \in 0..sends /\ iv \in Nat
    /\ out \in Seq(Decrypted)
    /\ left \in Nat /\ schain \in 0..sends /\ sprev \in Nat
    /\ {count, sends, resets, upto, wins} \subseteq Nat
    /\ mixed \subseteq 1..sends /\ carried \in BOOLEAN

Init ==
    /\ CollectionInit
    /\ unit = "prepare" /\ idx = 1 /\ rgot = <<>> /\ img = <<>>
    /\ chain = 0 /\ iv = 0 /\ out = <<>> /\ mixed = {}
    /\ pipe = <<>> /\ left = 0 /\ schain = 0 /\ sprev = 0 /\ count = 0
    /\ sends = 0 /\ resets = 0 /\ upto = 0 /\ wins = 0 /\ carried = FALSE

-----------------------------------------------------------------------------
(* The sensor streams a line.                                              *)
Stream ==
    /\ left > 0 /\ count < MaxLines
    /\ left' = left - 1
    /\ count' = count + 1
    /\ pipe' = Append(pipe, [n |-> count + 1, chain |-> schain,
                             prev |-> sprev, win |-> wins])
    /\ sprev' = IF schain = 0 THEN 0 ELSE count + 1
    /\ UNCHANGED <<schain, resets, control, thread, collecting, crypt, history>>

(* It resets: what it has queued is gone, and so are key and stream.       *)
Reset ==
    /\ resets < MaxResets /\ resets' = resets + 1
    /\ count' = count - Len(pipe)
    /\ pipe' = <<>> /\ left' = 0 /\ schain' = 0 /\ sprev' = 0
    /\ UNCHANGED <<control, thread, collecting, crypt, history>>

(* A command ends the stream of the one before and may begin another; one  *)
(* with a key begins a chain.                                              *)
Execute(keyed) ==
    /\ left' \in 0..MaxBurst
    /\ schain' = IF keyed THEN sends' ELSE schain
    /\ sprev' = IF keyed THEN 0 ELSE sprev
    /\ UNCHANGED <<pipe, count, resets>>

-----------------------------------------------------------------------------
(* Capture::run: the key is taken from the command before it is sent.      *)
Send ==
    /\ idx <= Size(unit)
    /\ sends < MaxSends /\ sends' = sends + 1
    /\ LET keyed == unit = "window" /\ idx = KeyAt IN
       /\ chain' = IF keyed THEN sends' ELSE chain
       /\ iv' = IF keyed THEN 0 ELSE iv
       /\ \/ Execute(keyed) /\ Sent("spawn")      \* executed
          \/ UNCHANGED sensor /\ Sent("spawn")    \* rejected, or skipped
          \/ UNCHANGED sensor /\ Sent("failed")   \* None: run returns Err
    /\ img' = <<>>
    /\ UNCHANGED <<unit, idx, rgot, out, mixed, upto, wins, carried>>

Spawn ==
    /\ Started
    /\ rgot' = <<>>
    /\ UNCHANGED <<unit, idx, img, crypt, sensor, history>>

(* Some of what is in the pipe, in one read_image: nothing only if nothing *)
(* is there.                                                               *)
Chunks == IF pipe = <<>> THEN {0} ELSE 1..Len(pipe)
Taken(n) == SubSeq(pipe, 1, n)
Remaining(n) == pipe' = SubSeq(pipe, n + 1, Len(pipe))

ReaderCheck ==
    /\ ThreadChecks
    /\ UNCHANGED <<unit, idx, rgot, img, crypt, sensor, history>>

ReaderRead ==
    /\ ThreadReads
    /\ \E n \in Chunks : rgot' = rgot \o Taken(n) /\ Remaining(n)
    /\ UNCHANGED <<unit, idx, img, crypt, left, schain, sprev, count, resets, history>>

Reply(got) ==
    /\ Answered(got)
    /\ UNCHANGED <<unit, idx, rgot, img, crypt, sensor, history>>

(* Variant: an error is returned before the reader's lines are added.      *)
JoinedIfReply == IF reply THEN img \o rgot ELSE img

Joined == img \o rgot

Join ==
    /\ ThreadJoined
    /\ img' = Joined
    /\ rgot' = <<>>
    /\ UNCHANGED <<unit, idx, crypt, sensor, history>>

Drain ==
    /\ DrainReads(pipe # <<>>)
    /\ \E n \in Chunks : img' = img \o Taken(n) /\ Remaining(n)
    /\ UNCHANGED <<unit, idx, rgot, crypt, left, schain, sprev, count, resets, history>>

DrainTimeout ==
    /\ DrainStops
    /\ UNCHANGED <<unit, idx, rgot, img, crypt, sensor, history>>

(* Variant: the IV of the command serves every slice.                      *)
ChainedIvKept == iv

(* The last block of the slice.                                            *)
ChainedIv == Last(img).n

Decrypt(s) ==
    [k \in 1..Len(s) |-> [line |-> s[k], chain |-> chain,
                          iv |-> IF k = 1 THEN iv ELSE s[k - 1].n]]

(* The slice is decrypted, if it is not empty and there is a key.          *)
Slice ==
    /\ Sliced
    /\ idx' = idx + 1
    /\ IF img = <<>> \/ chain = 0 THEN UNCHANGED crypt
       ELSE /\ out' = out \o Decrypt(img)
            /\ iv' = ChainedIv
            /\ mixed' = IF \E k \in 1..Len(img) : img[k].chain # chain
                          THEN mixed \cup {chain} ELSE mixed
            /\ UNCHANGED chain
    /\ upto' = IF img = <<>> THEN upto ELSE Last(img).n
    /\ img' = <<>>
    /\ UNCHANGED <<unit, rgot, sensor, sends, wins, carried>>

(* Variant: what the unit before returned is returned again.               *)
OutGoesOn == out

(* Each unit collects in a vector of its own.                              *)
OutAtFirst == <<>>

(* The caller opens a window, another one, or closes the capture.          *)
Begin(u) ==
    /\ pc = "send" /\ idx = Size(unit) + 1 /\ unit # "finish"
    /\ unit' = u /\ idx' = 1
    /\ out' = OutAtFirst
    /\ wins' = IF u = "window" THEN wins + 1 ELSE wins
    /\ carried' = (left > 0 \/ pipe # <<>>)
    /\ UNCHANGED <<pc, thread, collecting, chain, iv, mixed, sensor, sends, upto>>

(* Capture::new, for the next request or after an error; when the device   *)
(* was opened anew, its pipe is empty.                                     *)
New ==
    /\ pc = "failed" \/ (pc = "send" /\ unit = "finish" /\ idx = Size(unit) + 1)
    /\ pc' = "send" /\ unit' = "prepare" /\ idx' = 1
    /\ chain' = 0 /\ iv' = 0 /\ out' = <<>> /\ mixed' = {}
    /\ \/ UNCHANGED <<pipe, count>>
       \/ pipe' = <<>> /\ count' = count - Len(pipe)
    /\ UNCHANGED <<thread, collecting, left, schain, sprev, resets, history>>

Host ==
    \/ Send \/ Spawn \/ Reply(TRUE) \/ Reply(FALSE) \/ Join
    \/ Drain \/ DrainTimeout \/ Slice
    \/ Begin("window") \/ Begin("finish") \/ New
Reader == ReaderCheck \/ ReaderRead

(* No command is left to send within the bound.                            *)
Bounded ==
    /\ pc = "send" /\ sends = MaxSends
    /\ UNCHANGED vars

Next == Host \/ Reader \/ Stream \/ Reset \/ Bounded

Spec == Init /\ [][Next]_vars

-----------------------------------------------------------------------------
(* Between the sensor and the slices no line is lost, doubled or put out   *)
(* of order, whichever thread reads it (capture.rs:325-348, 107-118).      *)
EveryLineKept ==
    LET held == img \o rgot \o pipe
    IN /\ Len(held) = count - upto
       /\ \A k \in 1..Len(held) : held[k].n = upto + k

Readable(d) == d.line.chain # 0 /\ d.iv = d.line.prev

(* A line that comes to the key it was encrypted under is decrypted        *)
(* behind the line it was encrypted behind, however the stream was cut     *)
(* into reads and slices (capture.rs:464-470).  What a line of another     *)
(* chain in between can spoil is the first line of the chain.              *)
DecryptedRight ==
    \A k \in 1..Len(out) :
        out[k].line.chain = out[k].chain =>
            \/ Readable(out[k])
            \/ out[k].chain \in mixed /\ out[k].line.prev = 0

(* A window returns lines of an earlier one only if they were still        *)
(* coming, or unread, when it was opened (capture.rs:499-506).             *)
WindowsApart ==
    \A k \in 1..Len(out) : out[k].line.win # wins => carried
=============================================================================
