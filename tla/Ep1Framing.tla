----------------------------- MODULE Ep1Framing -----------------------------
(***************************************************************************)
(* How records are put together again from bulk transfers:                 *)
(* usb::Sensor::read_record_split.                                         *)
(*                                                                         *)
(* A record is 5 + 16 k bytes, so on a pipe with 64-byte packets it ends   *)
(* in a short packet, which also ends the transfer it is read in; the unit *)
(* here is the packet.  A transfer that meets its deadline hands over the  *)
(* packets it has, if any.  The header is in the first packet.             *)
(***************************************************************************)
EXTENDS Naturals, Sequences

CONSTANTS
    Records,    \* the packets of each record the sensor sends, in order
    Buffer,     \* packets one read_bulk takes at most (64 in the code)
    Stalls      \* whether the sensor may pause in a record for rest_ms

ASSUME RecordsAssumption == Records \in Seq(Nat \ {0})
ASSUME BufferAssumption == Buffer \in Nat \ {0}
ASSUME StallsAssumption == Stalls \in BOOLEAN

VARIABLES
    next,      \* the packet the sensor sends next
    pipe,      \* packets on EP1 IN
    reading,   \* a call of read_record_split is on
    deadline,  \* "first" until a byte was seen, then "rest"
    urb,       \* the packets of the transfer in progress
    acc,       \* the packets accumulated by the call
    got        \* what the calls returned, each a sequence of packets

vars == <<next, pipe, reading, deadline, urb, acc, got>>

(* The i-th packet of the r-th record.                                     *)
Packet == [rec : 1..Len(Records), i : Nat \ {0}]
First == [rec |-> 1, i |-> 1]
IsShort(p) == p.i = Records[p.rec]
Whole(r) == [i \in 1..Records[r] |-> [rec |-> r, i |-> i]]

TypeOK ==
    /\ next \in [rec : 1..Len(Records) + 1, i : Nat \ {0}]
    /\ pipe \in Seq(Packet)
    /\ reading \in BOOLEAN
    /\ deadline \in {"first", "rest"}
    /\ urb \in Seq(Packet) /\ Len(urb) < Buffer
    /\ acc \in Seq(Packet)
    /\ got \in Seq(Seq(Packet))

Init ==
    /\ next = First
    /\ pipe = <<>>
    /\ reading = FALSE /\ deadline = "first"
    /\ urb = <<>> /\ acc = <<>> /\ got = <<>>

(* The sensor puts the next packet on the pipe.                            *)
Emit ==
    /\ next.rec <= Len(Records)
    /\ pipe' = Append(pipe, next)
    /\ next' = IF IsShort(next) THEN [rec |-> next.rec + 1, i |-> 1]
                                ELSE [next EXCEPT !.i = @ + 1]
    /\ UNCHANGED <<reading, deadline, urb, acc, got>>

Call ==
    /\ ~reading
    /\ reading' = TRUE
    /\ deadline' = "first"
    /\ acc' = <<>>
    /\ UNCHANGED <<next, pipe, urb, got>>

(* Variant: the deadline of the call is not extended by its first byte.    *)
AfterFirstByteSame == deadline

AfterFirstByte == IF acc = <<>> THEN "rest" ELSE deadline

(* Ok(n) from read_bulk: the bytes of the transfer are accumulated.        *)
Transferred(packets) ==
    /\ acc' = acc \o packets
    /\ deadline' = AfterFirstByte
    /\ urb' = <<>>

(* Variant: what was accumulated has to exceed the record.                 *)
CompleteAndMore == acc # <<>> /\ Len(acc) > Records[acc[1].rec]

(* The length in the header is reached.                                    *)
Complete == acc # <<>> /\ Len(acc) >= Records[acc[1].rec]

(* Variant: one packet more than the buffer takes.                         *)
FullAndOneMore(packets) == Len(packets) > Buffer

(* The buffer of read_bulk is full.                                        *)
Full(packets) == Len(packets) = Buffer

Transfer ==
    /\ reading /\ ~Complete
    /\ pipe # <<>>
    /\ pipe' = Tail(pipe)
    /\ LET packets == Append(urb, Head(pipe)) IN
       IF IsShort(Head(pipe)) \/ Full(packets)
         THEN Transferred(packets)
         ELSE urb' = packets /\ UNCHANGED <<acc, deadline>>
    /\ UNCHANGED <<next, reading, got>>

(* The deadline passes: while nothing was read it may be any time, in a    *)
(* record only when the sensor stalls.                                     *)
Passes == deadline = "first" \/ Stalls

PartTransferred ==
    /\ reading /\ ~Complete /\ Passes
    /\ urb # <<>>
    /\ Transferred(urb)
    /\ UNCHANGED <<next, pipe, reading, got>>

(* "record read timed out": what was accumulated is dropped.               *)
TimedOut ==
    /\ reading /\ ~Complete /\ Passes
    /\ urb = <<>>
    /\ reading' = FALSE
    /\ acc' = <<>>
    /\ UNCHANGED <<next, pipe, deadline, urb, got>>

(* The record is cut out of what was accumulated.                          *)
Return ==
    /\ reading /\ Complete
    /\ got' = Append(got, SubSeq(acc, 1, Records[acc[1].rec]))
    /\ reading' = FALSE
    /\ acc' = <<>>
    /\ UNCHANGED <<next, pipe, deadline, urb>>

Next == Emit \/ Call \/ Transfer \/ PartTransferred \/ TimedOut \/ Return

Spec == Init /\ [][Next]_vars

-----------------------------------------------------------------------------
(* Records come out whole and in the order the sensor sent them: none is   *)
(* dropped, split or joined with another, whenever the calls time out      *)
(* (usb.rs:90-91, 97-100).                                                 *)
WholeInOrder ==
    /\ Len(got) <= Len(Records)
    /\ \A n \in 1..Len(got) : got[n] = Whole(n)
=============================================================================
