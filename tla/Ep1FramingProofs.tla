-------------------------- MODULE Ep1FramingProofs --------------------------
(***************************************************************************)
(* Proofs about Ep1Framing, for any records and any size of the buffer.    *)
(***************************************************************************)
EXTENDS Ep1Framing, SequenceTheorems, TLAPS

(* The record being put together.                                          *)
Current == Len(got) + 1

(* The packet after p.                                                     *)
Following(p) == IF IsShort(p) THEN [rec |-> p.rec + 1, i |-> 1]
                              ELSE [rec |-> p.rec, i |-> p.i + 1]

(* A packet that is one of its record's.                                   *)
Real(p) == p.i <= Records[p.rec]

(* What the call has, and what the transfer has, are the first packets of  *)
(* the current record; the transfer does not hold the last one.            *)
Collected ==
    /\ \A k \in 1..Len(acc) : acc[k] = [rec |-> Current, i |-> k]
    /\ \A k \in 1..Len(urb) : urb[k] = [rec |-> Current, i |-> Len(acc) + k]
    /\ acc # <<>> => Current <= Len(Records) /\ Len(acc) <= Records[Current]
    /\ urb # <<>> => Current <= Len(Records) /\ Len(acc) + Len(urb) < Records[Current]

(* The packet that comes after those.                                      *)
Awaited == IF acc # <<>> /\ Len(acc) = Records[Current]
             THEN [rec |-> Current + 1, i |-> 1]
             ELSE [rec |-> Current, i |-> Len(acc) + Len(urb) + 1]

(* The pipe goes on from there, without a gap, to what is sent next.       *)
Contiguous ==
    /\ pipe = <<>> => next = Awaited
    /\ pipe # <<>> => pipe[1] = Awaited /\ next = Following(pipe[Len(pipe)])
    /\ \A k \in 1..Len(pipe) - 1 : pipe[k + 1] = Following(pipe[k])
    /\ \A k \in 1..Len(pipe) : Real(pipe[k])
    /\ next.rec <= Len(Records) => Real(next)

(* Between calls nothing is held, and a call that holds something has seen *)
(* its first byte.                                                         *)
Waiting ==
    /\ ~reading => acc = <<>> /\ urb = <<>>
    /\ acc # <<>> => deadline = "rest"

FramingInv == TypeOK /\ WholeInOrder /\ Collected /\ Contiguous /\ Waiting

-----------------------------------------------------------------------------
(* Types                                                                   *)

LEMMA TypesInit == Init => TypeOK
<1> SUFFICES ASSUME Init PROVE TypeOK
  OBVIOUS
<1>1. Len(Records) \in Nat
  BY RecordsAssumption
<1>2. <<>> \in Seq(Packet) /\ <<>> \in Seq(Seq(Packet)) /\ Len(<<>>) < Buffer
  BY BufferAssumption
<1>3. next \in [rec : 1..Len(Records) + 1, i : Nat \ {0}]
  BY <1>1 DEF Init, First
<1>4. reading \in BOOLEAN
  BY DEF Init
<1>5. deadline \in {"first", "rest"}
  BY DEF Init
<1> QED
  BY <1>2, <1>3, <1>4, <1>5 DEF Init, TypeOK

LEMMA TypesStep == TypeOK /\ [Next]_vars => TypeOK'
<1> SUFFICES ASSUME TypeOK, [Next]_vars PROVE TypeOK'
  OBVIOUS
<1> USE RecordsAssumption, BufferAssumption
<1> DEFINE Packets == Seq(Packet)
<1>L. Len(Records) \in Nat
  OBVIOUS
<1>1. CASE Emit
  <2>1. next \in Packet
    BY <1>1, <1>L DEF Emit, TypeOK, Packet
  <2>2. Append(pipe, next) \in Packets
    BY <2>1 DEF TypeOK
  <2>3. next' \in [rec : 1..Len(Records) + 1, i : Nat \ {0}]
    <3>1. next \in [rec : 1..Len(Records), i : Nat \ {0}]
      BY <1>1, <1>L DEF Emit, TypeOK
    <3>2. CASE IsShort(next)
      BY <1>1, <3>1, <3>2, <1>L DEF Emit
    <3>3. CASE ~IsShort(next)
      BY <1>1, <3>1, <3>3, <1>L DEF Emit
    <3> QED
      BY <3>2, <3>3
  <2> QED
    BY <1>1, <2>2, <2>3 DEF Emit, TypeOK
<1>2. CASE Call
  BY <1>2 DEF Call, TypeOK
<1>3. CASE Transfer
  <2> DEFINE packets == Append(urb, Head(pipe))
  <2>1. Head(pipe) \in Packet /\ Tail(pipe) \in Packets
    BY <1>3 DEF Transfer, TypeOK
  <2>2. packets \in Packets /\ Len(packets) = Len(urb) + 1
    BY <2>1 DEF TypeOK
  <2>3. acc \o packets \in Packets
    BY <2>2 DEF TypeOK
  <2>4. CASE IsShort(Head(pipe)) \/ Full(packets)
    <3>1. pipe' = Tail(pipe) /\ UNCHANGED <<next, reading, got>>
      BY <1>3 DEF Transfer
    <3>2. acc' = acc \o packets /\ urb' = <<>>
      BY <1>3, <2>4 DEF Transfer, Transferred
    <3>3. deadline' \in {"first", "rest"}
      BY <1>3, <2>4 DEF Transfer, Transferred, AfterFirstByte, TypeOK
    <3>4. urb' \in Packets /\ Len(urb') < Buffer
      BY <3>2
    <3> QED
      BY <2>1, <2>3, <3>1, <3>2, <3>3, <3>4 DEF TypeOK
  <2>5. CASE ~(IsShort(Head(pipe)) \/ Full(packets))
    <3>1. urb' = packets /\ Len(packets) # Buffer
      BY <1>3, <2>5 DEF Transfer, Full
    <3>2. Len(packets) < Buffer
      BY <2>2, <3>1, SMTT(20) DEF TypeOK
    <3>3. UNCHANGED <<next, reading, deadline, acc, got>> /\ pipe' = Tail(pipe)
      BY <1>3, <2>5 DEF Transfer
    <3> QED
      BY <2>1, <2>2, <3>1, <3>2, <3>3 DEF TypeOK
  <2> QED
    BY <2>4, <2>5
<1>4. CASE PartTransferred
  <2>1. acc \o urb \in Packets
    BY DEF TypeOK
  <2> QED
    BY <1>4, <2>1 DEF PartTransferred, Transferred, AfterFirstByte, TypeOK
<1>5. CASE TimedOut
  BY <1>5 DEF TimedOut, TypeOK
<1>6. CASE Return
  <2> DEFINE size == Records[acc[1].rec]
  <2>1. size \in Nat \ {0} /\ size <= Len(acc)
    <3>1. acc # <<>> /\ Len(acc) >= size
      BY <1>6 DEF Return, Complete
    <3>2. acc[1] \in Packet
      BY <3>1 DEF TypeOK
    <3>3. acc[1].rec \in 1..Len(Records)
      BY <3>2 DEF Packet
    <3>4. size \in Nat \ {0}
      BY <3>3, <1>L
    <3>5. Len(acc) \in Nat
      BY DEF TypeOK
    <3> QED
      BY <3>1, <3>4, <3>5
  <2>2. SubSeq(acc, 1, size) \in Packets
    BY <2>1, SMTT(20) DEF TypeOK
  <2>3. Append(got, SubSeq(acc, 1, size)) \in Seq(Packets)
    BY <2>2 DEF TypeOK
  <2>4. got' \in Seq(Packets) /\ acc' = <<>> /\ reading' = FALSE
    BY <1>6, <2>3 DEF Return
  <2>5. UNCHANGED <<next, pipe, deadline, urb>>
    BY <1>6 DEF Return
  <2>6. reading' \in BOOLEAN
    BY <2>4
  <2> QED
    BY <2>4, <2>5, <2>6 DEF TypeOK
<1>7. CASE UNCHANGED vars
  BY <1>7 DEF vars, TypeOK
<1> QED
  BY <1>1, <1>2, <1>3, <1>4, <1>5, <1>6, <1>7 DEF Next

(* Every variable keeps its type: a transfer never holds as many packets   *)
(* as the buffer takes (read_bulk hands them over first), and what is cut  *)
(* out of the bytes accumulated is within them, whether or not the sensor  *)
(* stalls (usb.rs:114-128).                                                *)
THEOREM FramingTypes == Spec => []TypeOK
<1>1. Init => TypeOK
  BY TypesInit
<1>2. TypeOK /\ [Next]_vars => TypeOK'
  BY TypesStep
<1> QED
  BY <1>1, <1>2, PTL DEF Spec

-----------------------------------------------------------------------------
(* Records                                                                 *)

LEMMA FramingInit == Init => FramingInv
<1> SUFFICES ASSUME Init PROVE FramingInv
  OBVIOUS
<1>1. TypeOK
  BY TypesInit
<1>2. WholeInOrder /\ Collected /\ Waiting
  BY RecordsAssumption DEF Init, WholeInOrder, Collected, Waiting
<1>3. Real(next) \/ ~(next.rec <= Len(Records))
  BY RecordsAssumption DEF Init, First, Real
<1>4. next = Awaited /\ pipe = <<>>
  BY DEF Init, First, Awaited, Current
<1>5. Contiguous
  BY <1>3, <1>4 DEF Contiguous
<1> QED
  BY <1>1, <1>2, <1>5 DEF FramingInv

(* What a packet's successor is.                                           *)
LEMMA FollowingReal ==
    ASSUME NEW p \in Packet, Real(p), Following(p).rec <= Len(Records)
    PROVE  Real(Following(p))
<1> USE RecordsAssumption
<1>1. Len(Records) \in Nat /\ p.rec \in 1..Len(Records) /\ p.i \in Nat \ {0}
  BY DEF Packet
<1>2. CASE IsShort(p)
  <2>1. Following(p) = [rec |-> p.rec + 1, i |-> 1]
    BY <1>2 DEF Following
  <2>2. p.rec + 1 \in 1..Len(Records)
    BY <1>1, <2>1
  <2>3. Records[p.rec + 1] \in Nat \ {0}
    BY <2>2
  <2> QED
    BY <2>1, <2>3 DEF Real
<1>3. CASE ~IsShort(p)
  <2>1. Records[p.rec] \in Nat \ {0}
    BY <1>1
  <2> QED
    BY <1>1, <1>3, <2>1 DEF Following, Real, IsShort
<1> QED
  BY <1>2, <1>3

LEMMA EmitKeeps == FramingInv /\ Emit => WholeInOrder' /\ Collected' /\ Contiguous' /\ Waiting'
<1> SUFFICES ASSUME FramingInv, Emit
             PROVE  WholeInOrder' /\ Collected' /\ Contiguous' /\ Waiting'
  OBVIOUS
<1>1. UNCHANGED <<reading, deadline, urb, acc, got>>
  BY DEF Emit
<1>2. WholeInOrder' /\ Collected' /\ Waiting' /\ Awaited' = Awaited
  BY <1>1 DEF FramingInv, WholeInOrder, Collected, Waiting, Awaited, Current
<1>3. next \in Packet
  BY RecordsAssumption DEF Emit, FramingInv, TypeOK, Packet
<1>4. Real(next)
  BY DEF Emit, FramingInv, Contiguous
<1>5. next' = Following(next)
  BY <1>3 DEF Emit, Following, Packet
<1>6. next'.rec <= Len(Records) => Real(next')
  BY <1>3, <1>4, <1>5, FollowingReal
<1>7. pipe \in Seq(Packet)
  BY DEF FramingInv, TypeOK
<1>8. /\ pipe' = Append(pipe, next)
      /\ Len(pipe') = Len(pipe) + 1
      /\ pipe'[Len(pipe) + 1] = next
      /\ \A k \in 1..Len(pipe) : pipe'[k] = pipe[k]
      /\ pipe' # <<>>
  BY <1>3, <1>7 DEF Emit
<1>9. pipe'[1] = Awaited' /\ next' = Following(pipe'[Len(pipe')])
  <2>1. CASE pipe = <<>>
    BY <1>2, <1>5, <1>8, <2>1 DEF FramingInv, Contiguous
  <2>2. CASE pipe # <<>>
    BY <1>2, <1>5, <1>7, <1>8, <2>2 DEF FramingInv, Contiguous
  <2> QED
    BY <2>1, <2>2
<1>10. ASSUME NEW k \in 1..Len(pipe') - 1 PROVE pipe'[k + 1] = Following(pipe'[k])
  <2>1. CASE k = Len(pipe)
    BY <1>7, <1>8, <2>1 DEF FramingInv, Contiguous
  <2>2. CASE k # Len(pipe)
    BY <1>7, <1>8, <2>2 DEF FramingInv, Contiguous
  <2> QED
    BY <2>1, <2>2
<1>11. ASSUME NEW k \in 1..Len(pipe') PROVE Real(pipe'[k])
  BY <1>4, <1>7, <1>8 DEF FramingInv, Contiguous
<1>12. Contiguous'
  BY <1>6, <1>8, <1>9, <1>10, <1>11 DEF Contiguous, Following, Real, IsShort
<1> QED
  BY <1>2, <1>12

LEMMA CallKeeps == FramingInv /\ Call => WholeInOrder' /\ Collected' /\ Contiguous' /\ Waiting'
<1> SUFFICES ASSUME FramingInv, Call
             PROVE  WholeInOrder' /\ Collected' /\ Contiguous' /\ Waiting'
  OBVIOUS
<1>1. acc' = acc /\ acc = <<>> /\ urb = <<>> /\ UNCHANGED <<next, pipe, urb, got>>
  BY DEF Call, FramingInv, Waiting
<1> QED
  BY <1>1 DEF FramingInv, WholeInOrder, Collected, Contiguous, Waiting, Awaited, Current,
              Call, Following, Real, IsShort

(* What is left of the pipe when its first packet is taken.                *)
LEMMA PipeTail ==
    ASSUME FramingInv, pipe # <<>>, pipe' = Tail(pipe), UNCHANGED next,
           Awaited' = Following(Awaited)
    PROVE  Contiguous'
<1>1. pipe \in Seq(Packet)
  BY DEF FramingInv, TypeOK
<1>2. /\ Len(pipe') = Len(pipe) - 1
      /\ \A k \in 1..Len(pipe) - 1 : pipe'[k] = pipe[k + 1]
      /\ pipe' \in Seq(Packet)
  BY <1>1
<1>3. pipe[1] = Awaited /\ next = Following(pipe[Len(pipe)])
  BY DEF FramingInv, Contiguous
<1>4. ASSUME pipe' = <<>> PROVE next' = Awaited'
  <2>1. Len(pipe') = 0
    BY <1>4, SMTT(20)
  <2>2. Len(pipe) = 1
    BY <1>1, <1>2, <2>1
  <2> QED
    BY <1>3, <2>2
<1>5. pipe' # <<>> => pipe'[1] = Awaited' /\ next' = Following(pipe'[Len(pipe')])
  BY <1>1, <1>2, <1>3 DEF FramingInv, Contiguous
<1>6. \A k \in 1..Len(pipe') - 1 : pipe'[k + 1] = Following(pipe'[k])
  BY <1>1, <1>2 DEF FramingInv, Contiguous
<1>7. \A k \in 1..Len(pipe') : Real(pipe'[k])
  BY <1>1, <1>2 DEF FramingInv, Contiguous
<1>8. next'.rec <= Len(Records) => Real(next')
  BY DEF FramingInv, Contiguous
<1> QED
  BY <1>4, <1>5, <1>6, <1>7, <1>8 DEF Contiguous, Following, Real, IsShort

(* While the record is not complete, the packet awaited is one of its own. *)
LEMMA AwaitedInRecord ==
    ASSUME FramingInv, ~Complete
    PROVE  Awaited = [rec |-> Current, i |-> Len(acc) + Len(urb) + 1]
<1>1. CASE acc = <<>>
  BY <1>1 DEF Awaited
<1>2. CASE acc # <<>>
  <2>1. acc[1] = [rec |-> Current, i |-> 1] /\ Len(acc) \in Nat
    BY <1>2 DEF FramingInv, TypeOK, Collected
  <2>2. ~(Len(acc) >= Records[Current])
    BY <1>2, <2>1 DEF Complete
  <2>3. Current \in 1..Len(Records)
    BY <1>2, RecordsAssumption DEF FramingInv, TypeOK, Collected, Current
  <2>4. Records[Current] \in Nat
    BY <2>3, RecordsAssumption
  <2> QED
    BY <2>1, <2>2, <2>4 DEF Awaited
<1> QED
  BY <1>1, <1>2

(* Handing over what the transfer has moves it behind what the call has.   *)
LEMMA HandedOver ==
    ASSUME FramingInv, NEW packets \in Seq(Packet), packets # <<>>, Transferred(packets),
           Current <= Len(Records), UNCHANGED <<reading, got>>, reading,
           \A k \in 1..Len(packets) : packets[k] = [rec |-> Current, i |-> Len(acc) + k],
           Len(acc) + Len(packets) <= Records[Current]
    PROVE  /\ WholeInOrder' /\ Collected' /\ Waiting'
           /\ acc' # <<>> /\ Len(acc') = Len(acc) + Len(packets) /\ urb' = <<>>
<1>1. acc \in Seq(Packet) /\ Current' = Current
  BY DEF FramingInv, TypeOK, Current
<1>2. acc' = acc \o packets /\ urb' = <<>>
  BY DEF Transferred
<1>3. Len(acc') = Len(acc) + Len(packets) /\ acc' # <<>> /\ acc' \in Seq(Packet)
  BY <1>1, <1>2
<1>4. ASSUME NEW k \in 1..Len(acc') PROVE acc'[k] = [rec |-> Current, i |-> k]
  <2>1. CASE k <= Len(acc)
    BY <1>1, <1>2, <1>3, <2>1 DEF FramingInv, Collected
  <2>2. CASE k > Len(acc)
    <3>1. k - Len(acc) \in 1..Len(packets) /\ acc'[k] = packets[k - Len(acc)]
      BY <1>1, <1>2, <1>3, <2>2
    <3>2. Len(acc) + (k - Len(acc)) = k
      BY <1>1, <2>2, <1>3
    <3> QED
      BY <3>1, <3>2
  <2> QED
    BY <1>1, <1>3, <2>1, <2>2
<1>5. Collected'
  BY <1>1, <1>2, <1>3, <1>4 DEF Collected
<1>6. WholeInOrder'
  BY DEF FramingInv, WholeInOrder
<1>7. Waiting'
  BY DEF Transferred, AfterFirstByte, FramingInv, Waiting
<1> QED
  BY <1>2, <1>3, <1>5, <1>6, <1>7

LEMMA TransferKeeps ==
    FramingInv /\ Transfer => WholeInOrder' /\ Collected' /\ Contiguous' /\ Waiting'
<1> SUFFICES ASSUME FramingInv, Transfer
             PROVE  WholeInOrder' /\ Collected' /\ Contiguous' /\ Waiting'
  OBVIOUS
<1> DEFINE packets == Append(urb, Head(pipe))
<1>1. reading /\ ~Complete /\ pipe # <<>> /\ pipe' = Tail(pipe) /\ UNCHANGED <<next, reading, got>>
  BY DEF Transfer
<1>2. Awaited = [rec |-> Current, i |-> Len(acc) + Len(urb) + 1]
  BY <1>1, AwaitedInRecord
<1>3. pipe[1] = Awaited /\ Head(pipe) = Awaited /\ Awaited \in Packet /\ Real(Awaited)
  BY <1>1 DEF FramingInv, TypeOK, Contiguous
<1>4. /\ Current \in 1..Len(Records) /\ Records[Current] \in Nat \ {0}
      /\ Len(acc) + Len(urb) + 1 <= Records[Current]
  BY <1>2, <1>3, RecordsAssumption DEF Packet, Real
<1>5. acc \in Seq(Packet) /\ urb \in Seq(Packet)
  BY DEF FramingInv, TypeOK
<1>6. packets \in Seq(Packet) /\ Len(packets) = Len(urb) + 1 /\ packets # <<>>
  BY <1>3, <1>5
<1>7. \A k \in 1..Len(packets) : packets[k] = [rec |-> Current, i |-> Len(acc) + k]
  <2> SUFFICES ASSUME NEW k \in 1..Len(packets)
               PROVE  packets[k] = [rec |-> Current, i |-> Len(acc) + k]
    OBVIOUS
  <2>1. CASE k = Len(urb) + 1
    BY <1>2, <1>3, <1>5, <2>1
  <2>2. CASE k # Len(urb) + 1
    BY <1>3, <1>5, <1>6, <2>2 DEF FramingInv, Collected
  <2> QED
    BY <2>1, <2>2
<1>8. IsShort(Awaited) <=> Len(acc) + Len(packets) = Records[Current]
  BY <1>2, <1>4, <1>5, <1>6 DEF IsShort
<1>9. Following(Awaited) = IF IsShort(Awaited)
                             THEN [rec |-> Current + 1, i |-> 1]
                             ELSE [rec |-> Current, i |-> Len(acc) + Len(packets) + 1]
  BY <1>2, <1>5, <1>6 DEF Following
<1>10. CASE IsShort(Head(pipe)) \/ Full(packets)
  <2>1. Transferred(packets)
    BY <1>10 DEF Transfer
  <2>2. Len(acc) + Len(packets) <= Records[Current] /\ Current <= Len(Records)
    BY <1>4, <1>5, <1>6
  <2> HIDE DEF packets
  <2>3. /\ WholeInOrder' /\ Collected' /\ Waiting'
        /\ acc' # <<>> /\ Len(acc') = Len(acc) + Len(packets) /\ urb' = <<>>
    BY <1>1, <1>6, <1>7, <2>1, <2>2, HandedOver
  <2>4. Awaited' = Following(Awaited)
    <3>1. Current' = Current
      BY <1>1 DEF Current
    <3>2. CASE IsShort(Awaited)
      BY <1>8, <1>9, <2>3, <3>1, <3>2 DEF Awaited
    <3>3. CASE ~IsShort(Awaited)
      <4>1. Awaited' = [rec |-> Current, i |-> Len(acc') + Len(urb') + 1]
        BY <1>8, <2>3, <3>1, <3>3 DEF Awaited
      <4>2. Len(acc') + Len(urb') + 1 = Len(acc) + Len(packets) + 1
        BY <1>5, <1>6, <2>3
      <4> QED
        BY <1>9, <3>3, <4>1, <4>2
    <3> QED
      BY <3>2, <3>3
  <2> QED
    BY <1>1, <2>3, <2>4, PipeTail
<1>11. CASE ~(IsShort(Head(pipe)) \/ Full(packets))
  <2>1. urb' = packets /\ UNCHANGED <<acc, deadline>>
    BY <1>11 DEF Transfer
  <2> HIDE DEF packets
  <2>2. Len(acc) + Len(packets) < Records[Current]
    BY <1>3, <1>4, <1>5, <1>6, <1>8, <1>11
  <2>3. Current' = Current
    BY <1>1 DEF Current
  <2>4. Collected'
    <3>1. \A k \in 1..Len(acc') : acc'[k] = [rec |-> Current', i |-> k]
      BY <2>1, <2>3 DEF FramingInv, Collected
    <3>2. \A k \in 1..Len(urb') : urb'[k] = [rec |-> Current', i |-> Len(acc') + k]
      BY <1>7, <2>1, <2>3
    <3>3. acc' # <<>> => Current' <= Len(Records) /\ Len(acc') <= Records[Current']
      BY <2>1, <2>3 DEF FramingInv, Collected
    <3>4. Current' <= Len(Records) /\ Len(acc') + Len(urb') < Records[Current']
      BY <1>4, <2>1, <2>2, <2>3
    <3> QED
      BY <3>1, <3>2, <3>3, <3>4 DEF Collected
  <2>5. WholeInOrder' /\ Waiting'
    BY <1>1, <2>1 DEF FramingInv, WholeInOrder, Waiting
  <2>6. Awaited' = Following(Awaited)
    <3>1. ~(acc' # <<>> /\ Len(acc') = Records[Current'])
      BY <1>4, <1>5, <1>6, <2>1, <2>2, <2>3
    <3>2. Awaited' = [rec |-> Current, i |-> Len(acc) + Len(packets) + 1]
      BY <2>1, <2>3, <3>1 DEF Awaited
    <3> QED
      BY <1>3, <1>9, <1>11, <3>2
  <2> QED
    BY <1>1, <2>4, <2>5, <2>6, PipeTail
<1> QED
  BY <1>10, <1>11

LEMMA PartTransferredKeeps ==
    FramingInv /\ PartTransferred => WholeInOrder' /\ Collected' /\ Contiguous' /\ Waiting'
<1> SUFFICES ASSUME FramingInv, PartTransferred
             PROVE  WholeInOrder' /\ Collected' /\ Contiguous' /\ Waiting'
  OBVIOUS
<1>1. /\ reading /\ ~Complete /\ urb # <<>> /\ Transferred(urb)
      /\ UNCHANGED <<next, pipe, reading, got>>
  BY DEF PartTransferred
<1>2. acc \in Seq(Packet) /\ urb \in Seq(Packet)
  BY DEF FramingInv, TypeOK
<1>3. /\ Current <= Len(Records) /\ Len(acc) + Len(urb) < Records[Current]
      /\ \A k \in 1..Len(urb) : urb[k] = [rec |-> Current, i |-> Len(acc) + k]
  BY <1>1 DEF FramingInv, Collected
<1>4. Current \in 1..Len(Records) /\ Records[Current] \in Nat
  BY <1>3, RecordsAssumption DEF FramingInv, TypeOK, Current
<1>5. Len(acc) + Len(urb) <= Records[Current]
  BY <1>2, <1>3, <1>4
<1>6. /\ WholeInOrder' /\ Collected' /\ Waiting'
      /\ acc' # <<>> /\ Len(acc') = Len(acc) + Len(urb) /\ urb' = <<>>
  BY <1>1, <1>2, <1>3, <1>5, HandedOver
<1>7. Awaited' = Awaited
  <2>1. Current' = Current
    BY <1>1 DEF Current
  <2>2. Len(acc') # Records[Current]
    BY <1>2, <1>3, <1>4, <1>6
  <2>3. Awaited' = [rec |-> Current, i |-> Len(acc') + Len(urb') + 1]
    BY <1>6, <2>1, <2>2 DEF Awaited
  <2>4. Len(acc') + Len(urb') + 1 = Len(acc) + Len(urb) + 1
    BY <1>2, <1>6
  <2> QED
    BY <1>1, <2>3, <2>4, AwaitedInRecord
<1>8. Contiguous'
  BY <1>1, <1>7 DEF FramingInv, Contiguous, Following, Real, IsShort
<1> QED
  BY <1>6, <1>8

(* A call that gives up has nothing, when the sensor does not stall.       *)
LEMMA TimedOutKeeps ==
    ASSUME ~Stalls
    PROVE  FramingInv /\ TimedOut => WholeInOrder' /\ Collected' /\ Contiguous' /\ Waiting'
<1> SUFFICES ASSUME FramingInv, TimedOut
             PROVE  WholeInOrder' /\ Collected' /\ Contiguous' /\ Waiting'
  OBVIOUS
<1>1. deadline = "first" /\ urb = <<>>
  BY DEF TimedOut, Passes
<1>2. acc = <<>>
  BY <1>1 DEF FramingInv, Waiting
<1>3. acc' = acc /\ UNCHANGED <<next, pipe, deadline, urb, got>>
  BY <1>2 DEF TimedOut
<1> QED
  BY <1>1, <1>2, <1>3 DEF FramingInv, WholeInOrder, Collected, Contiguous, Waiting, Awaited,
                          Current, Following, Real, IsShort

LEMMA ReturnKeeps ==
    FramingInv /\ Return => WholeInOrder' /\ Collected' /\ Contiguous' /\ Waiting'
<1> SUFFICES ASSUME FramingInv, Return
             PROVE  WholeInOrder' /\ Collected' /\ Contiguous' /\ Waiting'
  OBVIOUS
<1>1. acc # <<>> /\ Len(acc) >= Records[acc[1].rec] /\ acc \in Seq(Packet) /\ urb \in Seq(Packet)
  BY DEF Return, Complete, FramingInv, TypeOK
<1>2. acc[1].rec = Current
  <2>1. 1 \in 1..Len(acc)
    BY <1>1
  <2>2. acc[1] = [rec |-> Current, i |-> 1]
    BY <2>1 DEF FramingInv, Collected
  <2> QED
    BY <2>2
<1>3. Current \in 1..Len(Records) /\ Records[Current] \in Nat \ {0}
  <2>1. Current <= Len(Records)
    BY <1>1 DEF FramingInv, Collected
  <2>2. Current \in Nat \ {0}
    <3>1. got \in Seq(Seq(Packet))
      BY DEF FramingInv, TypeOK
    <3> QED
      BY <3>1 DEF Current
  <2> QED
    BY <2>1, <2>2, RecordsAssumption
<1>4. Len(acc) = Records[Current]
  BY <1>1, <1>2, <1>3 DEF FramingInv, Collected
<1>5. urb = <<>>
  <2>1. SUFFICES ASSUME urb # <<>> PROVE FALSE
    OBVIOUS
  <2>2. Len(acc) + Len(urb) < Records[Current]
    BY <2>1 DEF FramingInv, Collected
  <2>3. Len(acc) \in Nat /\ Len(urb) \in Nat
    BY <1>1
  <2> QED
    BY <1>3, <1>4, <2>2, <2>3
<1>6. /\ got' = Append(got, SubSeq(acc, 1, Len(acc)))
      /\ acc' = <<>> /\ reading' = FALSE /\ UNCHANGED <<next, pipe, deadline, urb>>
  BY <1>2, <1>4 DEF Return
<1>7. SubSeq(acc, 1, Len(acc)) = Whole(Current)
  <2>1. SubSeq(acc, 1, Len(acc)) = acc
    BY <1>1
  <2>2. acc = [k \in 1..Len(acc) |-> acc[k]]
    BY <1>1
  <2>3. \A k \in 1..Len(acc) : acc[k] = [rec |-> Current, i |-> k]
    BY DEF FramingInv, Collected
  <2>4. [k \in 1..Len(acc) |-> acc[k]] = Whole(Current)
    BY <1>4, <2>3 DEF Whole
  <2> QED
    BY <2>1, <2>2, <2>4
<1>8. got \in Seq(Seq(Packet)) /\ Whole(Current) \in Seq(Packet)
  <2>1. SubSeq(acc, 1, Len(acc)) \in Seq(Packet)
    BY <1>1
  <2> QED
    BY <1>7, <2>1 DEF FramingInv, TypeOK
<1>9. Len(got') = Current /\ got' = Append(got, Whole(Current))
  <2>1. got' = Append(got, Whole(Current))
    BY <1>6, <1>7
  <2>2. Len(Append(got, Whole(Current))) = Len(got) + 1
    BY <1>8
  <2> QED
    BY <2>1, <2>2 DEF Current
<1>10. WholeInOrder'
  <2>1. Len(got') <= Len(Records)
    BY <1>3, <1>9
  <2>2. ASSUME NEW n \in 1..Len(got') PROVE got'[n] = Whole(n)
    <3>1. CASE n = Current
      BY <1>8, <1>9, <3>1 DEF Current
    <3>2. CASE n # Current
      BY <1>8, <1>9, <3>2 DEF Current, FramingInv, WholeInOrder
    <3> QED
      BY <3>1, <3>2
  <2> QED
    BY <2>1, <2>2 DEF WholeInOrder, Whole
<1>11. Collected' /\ Waiting'
  BY <1>5, <1>6 DEF Collected, Waiting
<1>12. Awaited' = Awaited
  <2>1. Current' = Current + 1
    BY <1>9 DEF Current
  <2>2. Awaited = [rec |-> Current + 1, i |-> 1]
    BY <1>1, <1>4 DEF Awaited
  <2> QED
    BY <1>5, <1>6, <2>1, <2>2 DEF Awaited
<1>13. Contiguous'
  BY <1>6, <1>12 DEF FramingInv, Contiguous, Following, Real, IsShort
<1> QED
  BY <1>10, <1>11, <1>13

(* Records come out whole and in the order the sensor sent them, whatever  *)
(* their sizes, however the transfers cut them, however many calls end     *)
(* before a first byte, as long as the sensor does not pause for rest_ms   *)
(* within one (usb.rs:90-91, 97-100).                                      *)
THEOREM RecordsWhole ==
    ASSUME ~Stalls
    PROVE  Spec => []WholeInOrder
<1>1. Init => FramingInv
  BY FramingInit
<1>2. FramingInv /\ [Next]_vars => FramingInv'
  <2> SUFFICES ASSUME FramingInv, [Next]_vars PROVE FramingInv'
    OBVIOUS
  <2>1. TypeOK'
    BY TypesStep DEF FramingInv
  <2>2. CASE Emit
    BY <2>1, <2>2, EmitKeeps DEF FramingInv
  <2>3. CASE Call
    BY <2>1, <2>3, CallKeeps DEF FramingInv
  <2>4. CASE Transfer
    BY <2>1, <2>4, TransferKeeps DEF FramingInv
  <2>5. CASE PartTransferred
    BY <2>1, <2>5, PartTransferredKeeps DEF FramingInv
  <2>6. CASE TimedOut
    BY <2>1, <2>6, TimedOutKeeps DEF FramingInv
  <2>7. CASE Return
    BY <2>1, <2>7, ReturnKeeps DEF FramingInv
  <2>8. CASE UNCHANGED vars
    BY <2>1, <2>8 DEF vars, FramingInv, WholeInOrder, Collected, Contiguous, Waiting, Awaited,
                      Current, Following, Real, IsShort
  <2> QED
    BY <2>2, <2>3, <2>4, <2>5, <2>6, <2>7, <2>8 DEF Next
<1>3. FramingInv => WholeInOrder
  BY DEF FramingInv
<1> QED
  BY <1>1, <1>2, <1>3, PTL DEF Spec
=============================================================================
