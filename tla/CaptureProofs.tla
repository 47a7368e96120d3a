--------------------------- MODULE CaptureProofs ---------------------------
(***************************************************************************)
(* Proofs about Capture, for units of any size, whichever command carries  *)
(* the key, and any number of lines, commands and resets.                  *)
(***************************************************************************)
EXTENDS Capture, SequenceTheorems, TLAPS

(* The lines between the sensor and the slices.                            *)
Held == img \o rgot \o pipe

(* What is empty, and which counters have room, at each place.             *)
Phases ==
    /\ pc \in {"send", "failed"} => img = <<>>
    /\ pc \notin {"wait", "join"} => reader = "off" /\ rgot = <<>>
    /\ pc \in {"spawn", "wait", "join"} => attempt < ReplyReads
    /\ pc # "send" => idx <= Size(unit)

(* The lines held are the last of those streamed.                          *)
Numbered ==
    /\ Len(Held) = count - upto
    /\ \A k \in 1..Len(Held) : Held[k].n = upto + k

KeptInv == TypeOK /\ Phases /\ Numbered

(* When nothing was left over, every line is of this window.               *)
Apart ==
    ~carried => /\ \A k \in 1..Len(Held) : Held[k].win = wins
                /\ \A k \in 1..Len(out) : out[k].line.win = wins

WindowInv == KeptInv /\ Apart

(* The k-th line held is of the chain the host is in.                      *)
Ours(k) == Held[k].chain = chain

(* A line of the host's chain is encrypted behind the line before it,      *)
(* unless it is the chain's first.                                         *)
Encrypted ==
    /\ \A k \in 1..Len(Held) : Ours(k) => Held[k].prev \in {0, upto + k - 1}
    /\ \A j \in 1..Len(Held), k \in 1..Len(Held) :
            j < k /\ Ours(j) /\ Ours(k) => Held[k].prev # 0

(* The host's IV is the last line it decrypted, if there is one.  Until    *)
(* then the next line, if it is of the chain, is its first; from then on   *)
(* only lines of another chain can have come before the first.             *)
InStep ==
    /\ iv \in {0, upto}
    /\ iv = 0 /\ Held # <<>> /\ Ours(1) => Held[1].prev = 0
    /\ iv # 0 /\ chain \notin mixed =>
            \A k \in 1..Len(Held) : Ours(k) => Held[k].prev # 0

(* The same of the line the sensor encrypts next.                          *)
SensorInStep ==
    schain = chain =>
        /\ sprev \in {0, count}
        /\ sprev = 0 => \A k \in 1..Len(Held) : ~Ours(k)
        /\ iv = 0 /\ sprev # 0 => Held # <<>>
        /\ iv # 0 /\ chain \notin mixed => sprev # 0

ChainInv ==
    /\ KeptInv
    /\ \A k \in 1..Len(Held) : Held[k].chain <= sends
    /\ chain # 0 => Encrypted /\ InStep /\ SensorInStep
    /\ DecryptedRight

-----------------------------------------------------------------------------
(* What each step does to the lines held: it keeps them, adds one at the   *)
(* end, or cuts the end or the beginning off.                              *)

LEMMA Associative == \A a, b, c \in Seq(Line) : (a \o b) \o c = a \o (b \o c)
<1> TAKE a, b, c \in Seq(Line)
<1> QED
  BY ConcatAssociative

(* A sequence cut in two.                                                  *)
LEMMA SplitAt ==
    ASSUME NEW s \in Seq(Line), NEW n \in 0..Len(s)
    PROVE  SubSeq(s, 1, n) \o SubSeq(s, n + 1, Len(s)) = s
<1> DEFINE a == SubSeq(s, 1, n)
           b == SubSeq(s, n + 1, Len(s))
<1>1. a \in Seq(Line) /\ Len(a) = n /\ \A i \in 1..n : a[i] = s[i]
  OBVIOUS
<1>2. b \in Seq(Line) /\ Len(b) = Len(s) - n /\ \A i \in 1..Len(s) - n : b[i] = s[n + i]
  OBVIOUS
<1> HIDE DEF a, b
<1>3. a \o b \in Seq(Line) /\ Len(a \o b) = Len(s)
  BY <1>1, <1>2
<1>4. ASSUME NEW i \in 1..Len(s) PROVE (a \o b)[i] = s[i]
  <2>1. (a \o b)[i] = IF i <= n THEN a[i] ELSE b[i - n]
    BY <1>1, <1>2
  <2>2. CASE i <= n
    BY <1>1, <2>1, <2>2
  <2>3. CASE ~(i <= n)
    <3>1. i - n \in 1..Len(s) - n /\ n + (i - n) = i
      BY <2>3
    <3>2. b[i - n] = s[n + (i - n)]
      BY <1>2, <3>1
    <3> QED
      BY <2>1, <2>3, <3>1, <3>2
  <2> QED
    BY <2>2, <2>3
<1>5. a \o b = s
  BY <1>3, <1>4, SeqEqual
<1> QED
  BY <1>5 DEF a, b

LEMMA HeldTyped == TypeOK => Held \in Seq(Line)
BY DEF TypeOK, CollectionTypeOK, Held

LEMMA TakenRemaining ==
    ASSUME TypeOK, NEW n \in Chunks
    PROVE  /\ Taken(n) \in Seq(Line) /\ SubSeq(pipe, n + 1, Len(pipe)) \in Seq(Line)
           /\ Taken(n) \o SubSeq(pipe, n + 1, Len(pipe)) = pipe
<1>1. pipe \in Seq(Line)
  BY DEF TypeOK, CollectionTypeOK
<1>2. n \in 0..Len(pipe)
  BY <1>1 DEF Chunks
<1>3. Taken(n) \in Seq(Line) /\ SubSeq(pipe, n + 1, Len(pipe)) \in Seq(Line)
  BY <1>1, <1>2 DEF Taken
<1>4. Taken(n) \o SubSeq(pipe, n + 1, Len(pipe)) = pipe
  BY <1>1, <1>2, SplitAt DEF Taken
<1> QED
  BY <1>3, <1>4

LEMMA ReaderReadHeld == TypeOK /\ ReaderRead => Held' = Held
<1> SUFFICES ASSUME TypeOK, ReaderRead PROVE Held' = Held
  OBVIOUS
<1>1. PICK n \in Chunks : rgot' = rgot \o Taken(n) /\ Remaining(n)
  BY DEF ReaderRead, ThreadReads
<1>2. img' = img
  BY DEF ReaderRead, ThreadReads, collecting
<1>3. Taken(n) \in Seq(Line) /\ pipe' \in Seq(Line) /\ Taken(n) \o pipe' = pipe
  BY <1>1, TakenRemaining DEF Remaining
<1>4. img \in Seq(Line) /\ rgot \in Seq(Line)
  BY DEF TypeOK, CollectionTypeOK
<1>5. img \o rgot \in Seq(Line)
  BY <1>4
<1>6. (img \o rgot) \o Taken(n) = img \o (rgot \o Taken(n))
  BY <1>3, <1>4, Associative, ZenonT(30)
<1>7. ((img \o rgot) \o Taken(n)) \o pipe' = (img \o rgot) \o (Taken(n) \o pipe')
  BY <1>3, <1>5, Associative, Zenon
<1> QED
  BY <1>1, <1>2, <1>3, <1>6, <1>7, Zenon DEF Held

LEMMA JoinHeld == TypeOK /\ Join => Held' = Held
<1> SUFFICES ASSUME TypeOK, Join PROVE Held' = Held
  OBVIOUS
<1>1. Held' = (img \o rgot) \o <<>> \o pipe
  BY DEF Join, ThreadJoined, Joined, Held, sensor
<1>2. img \in Seq(Line) /\ rgot \in Seq(Line) /\ pipe \in Seq(Line)
  BY DEF TypeOK, CollectionTypeOK
<1> QED
  BY <1>1, <1>2 DEF Held

LEMMA DrainHeld == TypeOK /\ Phases /\ Drain => Held' = Held
<1> SUFFICES ASSUME TypeOK, Phases, Drain PROVE Held' = Held
  OBVIOUS
<1>1. PICK n \in Chunks : img' = img \o Taken(n) /\ Remaining(n)
  BY DEF Drain, DrainReads
<1>2. rgot = <<>> /\ rgot' = <<>>
  BY DEF Drain, DrainReads, Phases, thread
<1>3. Taken(n) \in Seq(Line) /\ pipe' \in Seq(Line) /\ Taken(n) \o pipe' = pipe
  BY <1>1, TakenRemaining DEF Remaining
<1>4. img \in Seq(Line) /\ img' \in Seq(Line)
  BY <1>1, <1>3 DEF TypeOK, CollectionTypeOK
<1>5. img \o <<>> = img /\ img' \o <<>> = img'
  BY <1>4, ConcatEmptySeq
<1>6. (img \o Taken(n)) \o pipe' = img \o (Taken(n) \o pipe')
  BY <1>3, <1>4, Associative, ZenonT(30)
<1> QED
  BY <1>1, <1>2, <1>3, <1>5, <1>6, Zenon DEF Held

(* The line the sensor streams.                                            *)
Streamed == [n |-> count + 1, chain |-> schain, prev |-> sprev, win |-> wins]

LEMMA StreamHeld == TypeOK /\ Stream => Streamed \in Line /\ Held' = Append(Held, Streamed)
<1> SUFFICES ASSUME TypeOK, Stream
             PROVE  Streamed \in Line /\ Held' = Append(Held, Streamed)
  OBVIOUS
<1>1. Streamed \in Line
  BY DEF TypeOK, CollectionTypeOK, Streamed, Line
<1>2. img \in Seq(Line) /\ rgot \in Seq(Line) /\ pipe \in Seq(Line)
  BY DEF TypeOK, CollectionTypeOK
<1>3. Held' = img \o rgot \o Append(pipe, Streamed)
  BY DEF Stream, Streamed, Held, thread, collecting
<1> HIDE DEF Streamed
<1>4. img \o rgot \o Append(pipe, Streamed) = Append(img \o rgot \o pipe, Streamed)
  BY <1>1, <1>2
<1> QED
  BY <1>1, <1>3, <1>4 DEF Held

(* What is lost with the pipe.                                             *)
LEMMA PipeLost ==
    ASSUME TypeOK, pipe' = <<>>, UNCHANGED <<img, rgot>>
    PROVE  /\ Len(Held') = Len(Held) - Len(pipe)
           /\ \A k \in 1..Len(Held') : k \in 1..Len(Held) /\ Held'[k] = Held[k]
<1>1. img \in Seq(Line) /\ rgot \in Seq(Line) /\ pipe \in Seq(Line)
  BY DEF TypeOK, CollectionTypeOK
<1> DEFINE before == img \o rgot
<1>2. before \in Seq(Line)
  BY <1>1
<1>3. Held = before \o pipe /\ Held' = before \o <<>>
  BY DEF Held
<1> HIDE DEF before
<1>4. Held' = before
  BY <1>2, <1>3
<1> QED
  BY <1>1, <1>2, <1>3, <1>4

(* What is left when the slice is handed over.                             *)
LEMMA SliceHeld ==
    ASSUME TypeOK, Phases, Slice
    PROVE  /\ img \in Seq(Line)
           /\ Len(Held) = Len(img) + Len(Held')
           /\ \A k \in 1..Len(img) : k \in 1..Len(Held) /\ Held[k] = img[k]
           /\ \A k \in 1..Len(Held') : Len(img) + k \in 1..Len(Held)
                                       /\ Held'[k] = Held[Len(img) + k]
<1>1. img \in Seq(Line) /\ pipe \in Seq(Line)
  BY DEF TypeOK, CollectionTypeOK
<1>2. rgot = <<>> /\ rgot' = <<>> /\ pipe' = pipe /\ img' = <<>>
  BY DEF Slice, Sliced, Phases, thread, sensor
<1>3. Held = img \o <<>> \o pipe /\ Held' = <<>> \o <<>> \o pipe
  BY <1>2 DEF Held
<1>4. Held = img \o pipe /\ Held' = pipe
  BY <1>1, <1>3
<1> QED
  BY <1>1, <1>4

-----------------------------------------------------------------------------
(* Types and phases                                                        *)

LEMMA KeptInit == Init => KeptInv
<1> SUFFICES ASSUME Init PROVE KeptInv
  OBVIOUS
<1>1. <<>> \in Seq(Line) /\ <<>> \in Seq(Decrypted)
  OBVIOUS
<1>2. pc \in {"send", "spawn", "wait", "join", "drain", "slice", "failed"}
  BY DEF Init, CollectionInit
<1>3. unit \in Units /\ idx \in 1..Size(unit) + 1
  BY UnitsAssumption DEF Init, CollectionInit, Units, Size
<1>4. attempt \in 0..ReplyReads /\ quiet \in 0..QuietReads - 1
  BY ReadsAssumption DEF Init, CollectionInit
<1>5. reply \in BOOLEAN /\ done \in BOOLEAN /\ reader \in {"off", "check", "read"}
  BY DEF Init, CollectionInit
<1>6. mixed \subseteq 1..sends /\ carried \in BOOLEAN
  BY DEF Init, CollectionInit
<1>7. TypeOK
  BY <1>1, <1>2, <1>3, <1>4, <1>5, <1>6 DEF Init, CollectionInit, TypeOK, CollectionTypeOK
<1>8. Held = <<>>
  <2>1. Held = <<>> \o <<>> \o <<>>
    BY DEF Init, CollectionInit, Held
  <2> QED
    BY <1>1, <2>1, ConcatEmptySeq
<1>9. Numbered /\ Phases
  BY <1>8 DEF Init, CollectionInit, Numbered, Phases
<1> QED
  BY <1>7, <1>9 DEF KeptInv

(* What TypeOK says of the numbers, of the sequences, and of the rest.      *)
NumbersOK ==
    /\ idx \in 1..Size(unit) + 1 /\ attempt \in 0..ReplyReads /\ quiet \in 0..QuietReads - 1
    /\ chain \in 0..sends /\ iv \in Nat
    /\ left \in Nat /\ schain \in 0..sends /\ sprev \in Nat
    /\ count \in Nat /\ sends \in Nat /\ resets \in Nat /\ upto \in Nat /\ wins \in Nat
    /\ mixed \subseteq 1..sends

LinesOK == rgot \in Seq(Line) /\ img \in Seq(Line) /\ pipe \in Seq(Line) /\ out \in Seq(Decrypted)

StatesOK ==
    /\ pc \in {"send", "spawn", "wait", "join", "drain", "slice", "failed"}
    /\ unit \in Units /\ reader \in {"off", "check", "read"}
    /\ reply \in BOOLEAN /\ done \in BOOLEAN /\ carried \in BOOLEAN

LEMMA TypeParts == TypeOK <=> NumbersOK /\ LinesOK /\ StatesOK
BY DEF TypeOK, CollectionTypeOK, NumbersOK, LinesOK, StatesOK

LEMMA StatesStep == TypeOK /\ [Next]_vars => StatesOK'
<1> SUFFICES ASSUME StatesOK, [Next]_vars PROVE StatesOK'
  BY TypeParts
<1>1. CASE Stream
  BY <1>1 DEF Stream, control, thread, collecting, crypt, sensor, history, StatesOK, Units
<1>2. CASE Reset
  BY <1>2 DEF Reset, control, thread, collecting, crypt, sensor, history, StatesOK, Units
<1>3. CASE Send
  BY <1>3 DEF Send, Sent, control, thread, collecting, crypt, sensor, history, StatesOK, Units
<1>4. CASE Spawn
  BY <1>4 DEF Spawn, Started, control, thread, collecting, crypt, sensor, history, StatesOK, Units
<1>5. CASE ReaderCheck
  BY <1>5 DEF ReaderCheck, ThreadChecks, control, thread, collecting, crypt, sensor, history,
              StatesOK, Units
<1>6. CASE ReaderRead
  BY <1>6 DEF ReaderRead, ThreadReads, control, thread, collecting, crypt, sensor, history,
              StatesOK, Units
<1>7. ASSUME NEW got \in BOOLEAN, Reply(got) PROVE StatesOK'
  BY <1>7 DEF Reply, Answered, Done, control, thread, collecting, crypt, sensor, history,
              StatesOK, Units
<1>8. CASE Join
  BY <1>8 DEF Join, ThreadJoined, Joined, ReadsLeft, control, thread, collecting, crypt, sensor,
              history, StatesOK, Units
<1>9. CASE Drain
  BY <1>9 DEF Drain, DrainReads, control, thread, collecting, crypt, sensor, history, StatesOK,
              Units
<1>10. CASE DrainTimeout
  BY <1>10 DEF DrainTimeout, DrainStops, control, thread, collecting, crypt, sensor, history,
               StatesOK, Units
<1>11. CASE Slice
  BY <1>11 DEF Slice, Sliced, ChainedIv, Decrypt, control, thread, collecting, crypt, sensor,
               history, StatesOK, Units
<1>12. ASSUME NEW u \in Units, Begin(u) PROVE StatesOK'
  BY <1>12 DEF Begin, OutAtFirst, control, thread, collecting, crypt, sensor, history, StatesOK,
               Units
<1>13. CASE New
  BY <1>13 DEF New, control, thread, collecting, crypt, sensor, history, StatesOK, Units
<1>14. CASE UNCHANGED vars
  BY <1>14 DEF vars, control, thread, collecting, crypt, sensor, history, StatesOK, Units
<1>15. CASE Bounded
  BY <1>14, <1>15 DEF Bounded
<1> QED
  BY <1>1, <1>2, <1>3, <1>4, <1>5, <1>6, <1>7, <1>8, <1>9,
     <1>10, <1>11, <1>12, <1>13, <1>14, <1>15
  DEF Next, Host, Reader, Units

LEMMA UnitSize == \A u \in Units : Size(u) \in Nat \ {0}
BY UnitsAssumption DEF Units, Size

LEMMA PipeWithin == TypeOK /\ Numbered => Len(pipe) \in Nat /\ Len(pipe) <= count
<1> SUFFICES ASSUME TypeOK, Numbered PROVE Len(pipe) \in Nat /\ Len(pipe) <= count
  OBVIOUS
<1>1. img \in Seq(Line) /\ rgot \in Seq(Line) /\ pipe \in Seq(Line)
  BY DEF TypeOK, CollectionTypeOK
<1>2. img \o rgot \in Seq(Line)
  BY <1>1
<1>3. Len(Held) = Len(img \o rgot) + Len(pipe) /\ Len(img \o rgot) \in Nat
  BY <1>1, <1>2 DEF Held
<1> QED
  BY <1>1, <1>3, SMTT(20) DEF TypeOK, CollectionTypeOK, Numbered

(* The slice as it is handed over.                                         *)
LEMMA SliceTyped ==
    TypeOK => /\ Decrypt(img) \in Seq(Decrypted)
              /\ Len(Decrypt(img)) = Len(img)
              /\ \A k \in 1..Len(img) :
                    /\ Decrypt(img)[k].line = img[k]
                    /\ Decrypt(img)[k].chain = chain
                    /\ Decrypt(img)[k].iv = IF k = 1 THEN iv ELSE img[k - 1].n
<1> SUFFICES ASSUME TypeOK
             PROVE  /\ Decrypt(img) \in Seq(Decrypted)
                    /\ Len(Decrypt(img)) = Len(img)
                    /\ \A k \in 1..Len(img) :
                          /\ Decrypt(img)[k].line = img[k]
                          /\ Decrypt(img)[k].chain = chain
                          /\ Decrypt(img)[k].iv = IF k = 1 THEN iv ELSE img[k - 1].n
  OBVIOUS
<1>1. img \in Seq(Line) /\ chain \in Nat /\ iv \in Nat /\ Len(img) \in Nat
  BY DEF TypeOK, CollectionTypeOK
<1>2. ASSUME NEW k \in 1..Len(img)
      PROVE  [line |-> img[k], chain |-> chain,
              iv |-> IF k = 1 THEN iv ELSE img[k - 1].n] \in Decrypted
  <2>1. img[k] \in Line
    BY <1>1
  <2>2. (IF k = 1 THEN iv ELSE img[k - 1].n) \in Nat
    <3>1. CASE k = 1
      BY <1>1, <3>1
    <3>2. CASE k # 1
      <4>1. k - 1 \in 1..Len(img)
        BY <1>1, <3>2
      <4>2. img[k - 1] \in Line
        BY <1>1, <4>1
      <4> QED
        BY <3>2, <4>2 DEF Line
    <3> QED
      BY <3>1, <3>2
  <2> QED
    BY <1>1, <2>1, <2>2 DEF Decrypted
<1>3. Decrypt(img) \in [1..Len(img) -> Decrypted]
  BY <1>2 DEF Decrypt
<1>4. Decrypt(img) \in Seq(Decrypted) /\ Len(Decrypt(img)) = Len(img)
  BY <1>1, <1>3
<1> QED
  BY <1>4 DEF Decrypt

LEMMA SendSensor == Send => UNCHANGED sensor \/ \E keyed \in BOOLEAN : Execute(keyed)
BY DEF Send, Sent

LEMMA NumbersStep == KeptInv /\ [Next]_vars => NumbersOK'
<1> SUFFICES ASSUME KeptInv, NumbersOK, LinesOK, [Next]_vars PROVE NumbersOK'
  BY TypeParts DEF KeptInv
<1> USE UnitsAssumption, ReadsAssumption, BoundsAssumption
<1>1. CASE Stream
  BY <1>1 DEF Stream, control, thread, collecting, crypt, sensor, history, NumbersOK
<1>2. CASE Reset
  <2>1. Len(pipe) \in Nat /\ Len(pipe) <= count
    BY PipeWithin DEF KeptInv
  <2> QED
    BY <1>2, <2>1 DEF Reset, control, thread, collecting, crypt, history, NumbersOK
<1>3. CASE Send
  <2>1. sends' = sends + 1 /\ chain' \in {chain, sends'} /\ iv' \in {iv, 0}
    BY <1>3 DEF Send, Sent
  <2>2. left' \in Nat /\ schain' \in {schain, sends'} /\ sprev' \in {sprev, 0}
        /\ UNCHANGED <<count, resets>>
    <3>1. CASE UNCHANGED sensor
      BY <3>1 DEF sensor, NumbersOK
    <3>2. CASE \E keyed \in BOOLEAN : Execute(keyed)
      BY <3>2 DEF Execute, NumbersOK
    <3> QED
      BY <1>3, <3>1, <3>2, SendSensor
  <2>3. attempt' = 0 /\ UNCHANGED <<idx, unit, quiet, mixed, upto, wins>>
    BY <1>3 DEF Send, Sent
  <2> QED
    BY <2>1, <2>2, <2>3 DEF NumbersOK
<1>4. CASE Spawn
  BY <1>4 DEF Spawn, Started, control, thread, collecting, crypt, sensor, history, NumbersOK
<1>5. CASE ReaderCheck
  BY <1>5 DEF ReaderCheck, ThreadChecks, control, thread, collecting, crypt, sensor, history,
              NumbersOK
<1>6. CASE ReaderRead
  BY <1>6 DEF ReaderRead, ThreadReads, control, thread, collecting, crypt, sensor, history,
              NumbersOK
<1>7. ASSUME NEW got \in BOOLEAN, Reply(got) PROVE NumbersOK'
  BY <1>7 DEF Reply, Answered, Done, control, thread, collecting, crypt, sensor, history, NumbersOK
<1>8. CASE Join
  <2>1. attempt < ReplyReads
    BY <1>8 DEF Join, ThreadJoined, KeptInv, Phases
  <2> QED
    BY <1>8, <2>1 DEF Join, ThreadJoined, crypt, sensor, history, NumbersOK
<1>9. CASE Drain
  <2>1. quiet' \in 0..QuietReads - 1
    BY <1>9, SMTT(20) DEF Drain, DrainReads, NumbersOK
  <2> QED
    BY <1>9, <2>1 DEF Drain, DrainReads, crypt, history, NumbersOK
<1>10. CASE DrainTimeout
  BY <1>10 DEF DrainTimeout, DrainStops, control, thread, collecting, crypt, sensor, history,
               NumbersOK
<1>11. CASE Slice
  <2>1. idx <= Size(unit) /\ Size(unit) \in Nat
    <3>1. idx <= Size(unit)
      BY <1>11 DEF Slice, Sliced, KeptInv, Phases
    <3>2. unit \in Units
      BY DEF KeptInv, TypeOK, CollectionTypeOK
    <3> QED
      BY <3>1, <3>2, UnitSize
  <2>2. idx' \in 1..Size(unit') + 1
    <3>1. idx' = idx + 1 /\ unit' = unit
      BY <1>11 DEF Slice
    <3>2. idx \in Nat \ {0}
      BY DEF NumbersOK
    <3> QED
      BY <2>1, <3>1, <3>2
  <2>3. ASSUME img # <<>> PROVE Last(img).n \in Nat
    <3>1. img \in Seq(Line) /\ Len(img) \in 1..Len(img)
      BY <2>3 DEF LinesOK
    <3>2. img[Len(img)] \in Line
      BY <3>1
    <3> QED
      BY <3>2 DEF Last, Line
  <2>4. iv' \in Nat /\ upto' \in Nat
    BY <1>11, <2>3 DEF Slice, Sliced, ChainedIv, crypt, NumbersOK
  <2>5. mixed' \subseteq 1..sends /\ chain' = chain
    <3>1. chain' = chain /\ sends' = sends
      BY <1>11 DEF Slice, Sliced, crypt
    <3>2. mixed' = mixed \/ (chain # 0 /\ mixed' = mixed \cup {chain})
      BY <1>11 DEF Slice, Sliced, crypt
    <3>3. chain # 0 => chain \in 1..sends
      BY DEF NumbersOK
    <3> QED
      BY <3>1, <3>2, <3>3 DEF NumbersOK
  <2> QED
    BY <1>11, <2>2, <2>4, <2>5 DEF Slice, Sliced, sensor, NumbersOK
<1>12. ASSUME NEW u \in Units, Begin(u) PROVE NumbersOK'
  <2>1. idx' \in 1..Size(unit') + 1
    BY <1>12, UnitSize DEF Begin
  <2> QED
    BY <1>12, <2>1 DEF Begin, collecting, sensor, NumbersOK
<1>13. CASE New
  <2>1. Len(pipe) \in Nat /\ Len(pipe) <= count
    BY PipeWithin DEF KeptInv
  <2>2. count' \in Nat
    BY <1>13, <2>1 DEF New, NumbersOK
  <2>3. idx' \in 1..Size(unit') + 1
    BY <1>13, UnitSize DEF New, Units
  <2> QED
    BY <1>13, <2>2, <2>3 DEF New, collecting, history, NumbersOK
<1>14. CASE UNCHANGED vars
  BY <1>14 DEF vars, control, thread, collecting, crypt, sensor, history, NumbersOK
<1>15. CASE Bounded
  BY <1>14, <1>15 DEF Bounded
<1> QED
  BY <1>1, <1>2, <1>3, <1>4, <1>5, <1>6, <1>7, <1>8, <1>9,
     <1>10, <1>11, <1>12, <1>13, <1>14, <1>15
  DEF Next, Host, Reader, Units

LEMMA LinesStep == TypeOK /\ [Next]_vars => LinesOK'
<1> SUFFICES ASSUME TypeOK, NumbersOK, LinesOK, [Next]_vars PROVE LinesOK'
  BY TypeParts
<1>0. <<>> \in Seq(Line) /\ <<>> \in Seq(Decrypted)
  OBVIOUS
<1>1. CASE Stream
  <2>1. Append(pipe, Streamed) \in Seq(Line)
    BY <1>1, StreamHeld DEF LinesOK
  <2> QED
    BY <1>1, <2>1 DEF Stream, Streamed, thread, collecting, crypt, LinesOK
<1>2. CASE Reset
  BY <1>2 DEF Reset, control, thread, collecting, crypt, sensor, history, LinesOK
<1>3. CASE Send
  <2>1. img' = <<>> /\ pipe' = pipe /\ UNCHANGED <<rgot, out>>
    BY <1>3 DEF Send, Sent, Execute, thread, sensor
  <2> QED
    BY <1>0, <2>1 DEF LinesOK
<1>4. CASE Spawn
  BY <1>4 DEF Spawn, Started, control, thread, collecting, crypt, sensor, history, LinesOK
<1>5. CASE ReaderCheck
  BY <1>5 DEF ReaderCheck, ThreadChecks, control, thread, collecting, crypt, sensor, history,
              LinesOK
<1>6. CASE ReaderRead
  <2>1. PICK n \in Chunks : rgot' = rgot \o Taken(n) /\ Remaining(n)
    BY <1>6 DEF ReaderRead, ThreadReads
  <2>2. rgot' \in Seq(Line) /\ pipe' \in Seq(Line)
    BY <2>1, TakenRemaining DEF Remaining, LinesOK
  <2> QED
    BY <1>6, <2>2 DEF ReaderRead, ThreadReads, collecting, crypt, LinesOK
<1>7. ASSUME NEW got \in BOOLEAN, Reply(got) PROVE LinesOK'
  BY <1>7 DEF Reply, Answered, Done, control, thread, collecting, crypt, sensor, history, LinesOK
<1>8. CASE Join
  BY <1>8 DEF Join, ThreadJoined, Joined, ReadsLeft, control, thread, collecting, crypt, sensor,
              history, LinesOK
<1>9. CASE Drain
  <2>1. PICK n \in Chunks : img' = img \o Taken(n) /\ Remaining(n)
    BY <1>9 DEF Drain, DrainReads
  <2>2. img' \in Seq(Line) /\ pipe' \in Seq(Line)
    BY <2>1, TakenRemaining DEF Remaining, LinesOK
  <2> QED
    BY <1>9, <2>2 DEF Drain, DrainReads, thread, crypt, LinesOK
<1>10. CASE DrainTimeout
  BY <1>10 DEF DrainTimeout, DrainStops, control, thread, collecting, crypt, sensor, history,
               LinesOK
<1>11. CASE Slice
  <2>1. Decrypt(img) \in Seq(Decrypted)
    BY SliceTyped
  <2>2. out' \in Seq(Decrypted)
    <3>1. out' = out \/ out' = out \o Decrypt(img)
      BY <1>11 DEF Slice, Sliced, crypt
    <3>2. out \in Seq(Decrypted) /\ out \o Decrypt(img) \in Seq(Decrypted)
      BY <2>1 DEF LinesOK
    <3> QED
      BY <3>1, <3>2
  <2> QED
    BY <1>0, <1>11, <2>2 DEF Slice, Sliced, thread, sensor, LinesOK
<1>12. ASSUME NEW u \in Units, Begin(u) PROVE LinesOK'
  BY <1>12 DEF Begin, OutAtFirst, control, thread, collecting, crypt, sensor, history, LinesOK
<1>13. CASE New
  <2>1. out' = <<>> /\ pipe' \in {pipe, <<>>} /\ UNCHANGED <<rgot, img>>
    BY <1>13 DEF New, thread, collecting
  <2> QED
    BY <1>0, <2>1 DEF LinesOK
<1>14. CASE UNCHANGED vars
  BY <1>14 DEF vars, control, thread, collecting, crypt, sensor, history, LinesOK
<1>15. CASE Bounded
  BY <1>14, <1>15 DEF Bounded
<1> QED
  BY <1>1, <1>2, <1>3, <1>4, <1>5, <1>6, <1>7, <1>8, <1>9,
     <1>10, <1>11, <1>12, <1>13, <1>14, <1>15
  DEF Next, Host, Reader, Units

LEMMA TypesStep == KeptInv /\ [Next]_vars => TypeOK'
<1> SUFFICES ASSUME KeptInv, [Next]_vars PROVE (NumbersOK /\ LinesOK /\ StatesOK)'
  BY TypeParts DEF TypeOK, CollectionTypeOK, NumbersOK, LinesOK, StatesOK
<1> QED
  BY StatesStep, NumbersStep, LinesStep DEF KeptInv

LEMMA PhasesStep == TypeOK /\ Phases /\ [Next]_vars => Phases'
<1> SUFFICES ASSUME TypeOK, Phases, [Next]_vars PROVE Phases'
  OBVIOUS
<1> USE UnitsAssumption, ReadsAssumption DEF Phases
<1>1. CASE Stream
  BY <1>1 DEF Stream, control, thread, collecting
<1>2. CASE Reset
  BY <1>2 DEF Reset, control, thread, collecting
<1>3. CASE Send
  BY <1>3 DEF Send, Sent, thread
<1>4. CASE Spawn
  BY <1>4 DEF Spawn, Started, collecting
<1>5. CASE ReaderCheck
  BY <1>5 DEF ReaderCheck, ThreadChecks, control, collecting
<1>6. CASE ReaderRead
  BY <1>6 DEF ReaderRead, ThreadReads, control, collecting
<1>7. ASSUME NEW got \in BOOLEAN, Reply(got) PROVE Phases'
  BY <1>7 DEF Reply, Answered
<1>8. CASE Join
  BY <1>8 DEF Join, ThreadJoined, ReadsLeft, TypeOK, CollectionTypeOK
<1>9. CASE Drain
  BY <1>9 DEF Drain, DrainReads, thread
<1>10. CASE DrainTimeout
  BY <1>10 DEF DrainTimeout, DrainStops, thread
<1>11. CASE Slice
  BY <1>11 DEF Slice, Sliced, thread
<1>12. ASSUME NEW u \in Units, Begin(u) PROVE Phases'
  BY <1>12 DEF Begin, thread, collecting
<1>13. CASE New
  BY <1>13 DEF New, thread, collecting
<1>14. CASE UNCHANGED vars
  BY <1>14 DEF vars, control, thread, collecting
<1>15. CASE Bounded
  BY <1>14, <1>15 DEF Bounded
<1> QED
  BY <1>1, <1>2, <1>3, <1>4, <1>5, <1>6, <1>7, <1>8, <1>9, <1>10, <1>11, <1>12, <1>13, <1>14,
     <1>15 DEF Next, Host, Reader, Units

-----------------------------------------------------------------------------
(* The lines held                                                          *)

(* A step that only moves lines, or moves none.                            *)
Moves == Held' = Held /\ UNCHANGED <<count, upto>>

(* What the pipe held is lost.                                             *)
Loses == pipe' = <<>> /\ count' = count - Len(pipe) /\ UNCHANGED <<img, rgot, upto>>

LEMMA HeldSteps == KeptInv /\ [Next]_vars => Stream \/ Slice \/ Moves \/ Loses
<1> SUFFICES ASSUME KeptInv, [Next]_vars PROVE Stream \/ Slice \/ Moves \/ Loses
  OBVIOUS
<1> USE DEF KeptInv, Moves, Loses
<1>1. CASE Reset
  BY <1>1 DEF Reset, thread, collecting, history
<1>2. CASE Send
  BY <1>2 DEF Send, Sent, Phases, Held, Execute, thread, sensor
<1>3. CASE Spawn
  BY <1>3 DEF Spawn, Started, Phases, Held, collecting, sensor, history
<1>4. CASE ReaderCheck
  BY <1>4 DEF ReaderCheck, ThreadChecks, Held, collecting, sensor, history
<1>5. CASE ReaderRead
  BY <1>5, ReaderReadHeld DEF ReaderRead, ThreadReads, history
<1>6. ASSUME NEW got \in BOOLEAN, Reply(got) PROVE Moves
  BY <1>6 DEF Reply, Answered, Held, sensor, history
<1>7. CASE Join
  BY <1>7, JoinHeld DEF Join, ThreadJoined, sensor, history
<1>8. CASE Drain
  BY <1>8, DrainHeld DEF Drain, DrainReads, history
<1>9. CASE DrainTimeout
  BY <1>9 DEF DrainTimeout, DrainStops, Held, thread, sensor, history
<1>10. ASSUME NEW u \in Units, Begin(u) PROVE Moves
  BY <1>10 DEF Begin, Held, thread, collecting, sensor
<1>11. CASE New
  BY <1>11 DEF New, Held, thread, collecting, history
<1>12. CASE UNCHANGED vars \/ Bounded
  BY <1>12 DEF Bounded, vars, Held, thread, collecting, sensor, history
<1> QED
  BY <1>1, <1>2, <1>3, <1>4, <1>5, <1>6, <1>7, <1>8, <1>9, <1>10, <1>11, <1>12
  DEF Next, Host, Reader, Units

LEMMA SliceUpto ==
    ASSUME KeptInv, Slice
    PROVE  upto' = upto + Len(img) /\ (img # <<>> => Last(img).n = upto + Len(img))
<1>1. /\ img \in Seq(Line)
      /\ \A k \in 1..Len(img) : k \in 1..Len(Held) /\ Held[k] = img[k]
  BY SliceHeld DEF KeptInv
<1>2. CASE img = <<>>
  <2>1. upto' = upto /\ Len(img) = 0 /\ upto \in Nat
    BY <1>2 DEF Slice, Sliced, KeptInv, TypeOK, CollectionTypeOK
  <2> QED
    BY <1>2, <2>1
<1>3. CASE img # <<>>
  <2>1. Len(img) \in 1..Len(img) /\ upto' = Last(img).n
    BY <1>1, <1>3 DEF Slice, Sliced
  <2>2. Last(img).n = upto + Len(img)
    BY <1>1, <2>1 DEF Last, KeptInv, Numbered
  <2> QED
    BY <2>1, <2>2
<1> QED
  BY <1>2, <1>3

LEMMA NumberedStep == KeptInv /\ [Next]_vars => Numbered'
<1> SUFFICES ASSUME KeptInv, [Next]_vars PROVE Numbered'
  OBVIOUS
<1>1. Held \in Seq(Line) /\ count \in Nat /\ upto \in Nat
  BY HeldTyped DEF KeptInv, TypeOK, CollectionTypeOK
<1>2. Len(Held) = count - upto /\ \A k \in 1..Len(Held) : Held[k].n = upto + k
  BY DEF KeptInv, Numbered
<1>3. CASE Stream
  <2>1. Streamed \in Line /\ Held' = Append(Held, Streamed) /\ Streamed.n = count + 1
    BY <1>3, StreamHeld DEF KeptInv, Streamed
  <2>2. count' = count + 1 /\ upto' = upto
    BY <1>3 DEF Stream, history
  <2>3. Len(Held') = Len(Held) + 1 /\ Held'[Len(Held) + 1] = Streamed
        /\ \A k \in 1..Len(Held) : Held'[k] = Held[k]
    BY <1>1, <2>1
  <2>4. ASSUME NEW k \in 1..Len(Held') PROVE Held'[k].n = upto + k
    <3>1. CASE k = Len(Held) + 1
      BY <1>1, <1>2, <2>1, <2>3, <3>1
    <3>2. CASE k # Len(Held) + 1
      BY <1>1, <1>2, <2>3, <3>2
    <3> QED
      BY <3>1, <3>2
  <2> QED
    BY <1>1, <1>2, <2>2, <2>3, <2>4 DEF Numbered
<1>4. CASE Slice
  <2>1. /\ img \in Seq(Line) /\ Len(Held) = Len(img) + Len(Held')
        /\ \A k \in 1..Len(Held') : Len(img) + k \in 1..Len(Held) /\ Held'[k] = Held[Len(img) + k]
    BY <1>4, SliceHeld DEF KeptInv
  <2>2. upto' = upto + Len(img)
    BY <1>4, SliceUpto
  <2>3. count' = count
    BY <1>4 DEF Slice, Sliced, sensor
  <2>4. Held' \in Seq(Line)
    BY TypesStep DEF TypeOK, CollectionTypeOK, Held
  <2>5. Len(Held') = count' - upto'
    <3>1. Len(img) \in Nat /\ Len(Held') \in Nat
      BY <2>1, <2>4
    <3>2. Len(Held) = count - upto /\ Len(Held) = Len(img) + Len(Held')
      BY <1>2, <2>1
    <3> QED
      BY <1>1, <2>2, <2>3, <3>1, <3>2
  <2>6. ASSUME NEW k \in 1..Len(Held') PROVE Held'[k].n = upto' + k
    BY <1>1, <1>2, <2>1, <2>2, <2>4
  <2> QED
    BY <2>5, <2>6 DEF Numbered
<1>5. CASE Moves
  BY <1>5 DEF KeptInv, Numbered, Moves
<1>6. CASE Loses
  <2>1. /\ Len(Held') = Len(Held) - Len(pipe)
        /\ \A k \in 1..Len(Held') : k \in 1..Len(Held) /\ Held'[k] = Held[k]
    BY <1>6, PipeLost DEF KeptInv, Loses
  <2>2. Len(pipe) \in Nat
    BY DEF KeptInv, TypeOK, CollectionTypeOK
  <2>3. Len(Held') = count' - upto'
    BY <1>1, <1>2, <1>6, <2>1, <2>2 DEF Loses
  <2>4. ASSUME NEW k \in 1..Len(Held') PROVE Held'[k].n = upto' + k
    BY <1>2, <1>6, <2>1 DEF Loses
  <2> QED
    BY <2>3, <2>4 DEF Numbered
<1> QED
  BY <1>3, <1>4, <1>5, <1>6, HeldSteps

LEMMA KeptStep == KeptInv /\ [Next]_vars => KeptInv'
BY TypesStep, PhasesStep, NumberedStep DEF KeptInv

(* Every variable keeps its type; a reset never takes more lines from the  *)
(* count than were streamed, and no command is sent past the end of a unit.*)
THEOREM CaptureTypes == Spec => []TypeOK
<1>1. KeptInv => TypeOK
  BY DEF KeptInv
<1> QED
  BY <1>1, KeptInit, KeptStep, PTL DEF Spec

(* Between the sensor and the slices no line is lost, doubled or put out   *)
(* of order, whichever thread reads it, however the reader thread, the     *)
(* replies, the drains and the resets interleave (capture.rs:325-348,      *)
(* 107-118).                                                               *)
THEOREM LinesKept == Spec => []EveryLineKept
<1>1. KeptInv => EveryLineKept
  BY DEF KeptInv, Numbered, EveryLineKept, Held
<1> QED
  BY <1>1, KeptInit, KeptStep, PTL DEF Spec

-----------------------------------------------------------------------------
(* Windows                                                                 *)

LEMMA ApartStep == WindowInv /\ [Next]_vars => Apart'
<1> SUFFICES ASSUME WindowInv, [Next]_vars, ~carried' PROVE
        /\ \A k \in 1..Len(Held') : Held'[k].win = wins'
        /\ \A k \in 1..Len(out') : out'[k].line.win = wins'
  BY DEF Apart
<1>1. Held \in Seq(Line) /\ out \in Seq(Decrypted) /\ img \in Seq(Line) /\ pipe \in Seq(Line)
  BY HeldTyped DEF WindowInv, KeptInv, TypeOK, CollectionTypeOK
<1>2. CASE \E u \in Units : Begin(u)
  <2>1. PICK u \in Units : Begin(u)
    BY <1>2
  <2>2. pipe = <<>> /\ out' = <<>> /\ pc = "send" /\ UNCHANGED <<img, rgot, pipe>>
    BY <2>1 DEF Begin, OutAtFirst, thread, collecting, sensor
  <2>3. img = <<>> /\ rgot = <<>>
    BY <2>2 DEF WindowInv, KeptInv, Phases
  <2>4. Len(Held') = 0 /\ Len(out') = 0
    BY <2>2, <2>3 DEF Held
  <2> QED
    BY <2>4
<1>3. CASE ~(\E u \in Units : Begin(u))
  <2>1. UNCHANGED <<carried, wins>>
    BY <1>3 DEF Next, Host, Reader, Stream, Reset, Send, Sent, Spawn, Started, ReaderCheck,
                ThreadChecks, ReaderRead, ThreadReads, Reply, Answered,
                Join, ThreadJoined, Drain, DrainReads, DrainTimeout, DrainStops, Slice, Sliced,
                New, Bounded, vars, history, Units
  <2>2. /\ \A k \in 1..Len(Held) : Held[k].win = wins
        /\ \A k \in 1..Len(out) : out[k].line.win = wins
    BY <2>1 DEF WindowInv, Apart
  <2>3. \A k \in 1..Len(Held') : Held'[k].win = wins
    <3>1. CASE Stream
      <4>1. Streamed \in Line /\ Held' = Append(Held, Streamed) /\ Streamed.win = wins
        BY <3>1, StreamHeld DEF WindowInv, KeptInv, Streamed
      <4> QED
        BY <1>1, <2>2, <4>1
    <3>2. CASE Slice
      BY <2>2, <3>2, SliceHeld DEF WindowInv, KeptInv
    <3>3. CASE Moves
      BY <2>2, <3>3 DEF Moves
    <3>4. CASE Loses
      BY <2>2, <3>4, PipeLost DEF Loses, WindowInv, KeptInv
    <3> QED
      BY <3>1, <3>2, <3>3, <3>4, HeldSteps DEF WindowInv
  <2>4. \A k \in 1..Len(out') : out'[k].line.win = wins
    <3>1. CASE Slice /\ out' # out
      <4>1. out' = out \o Decrypt(img)
        BY <3>1 DEF Slice, Sliced, crypt
      <4>2. /\ Decrypt(img) \in Seq(Decrypted) /\ Len(Decrypt(img)) = Len(img)
            /\ \A k \in 1..Len(img) : Decrypt(img)[k].line = img[k]
        BY SliceTyped DEF WindowInv, KeptInv
      <4>3. \A k \in 1..Len(img) : k \in 1..Len(Held) /\ Held[k] = img[k]
        BY <3>1, SliceHeld DEF WindowInv, KeptInv
      <4>4. \A k \in 1..Len(img) : Decrypt(img)[k].line.win = wins
        BY <2>2, <4>2, <4>3
      <4>5. ASSUME NEW k \in 1..Len(out') PROVE out'[k].line.win = wins
        <5>1. CASE k <= Len(out)
          BY <1>1, <2>2, <4>1, <4>2, <5>1
        <5>2. CASE k > Len(out)
          <6>1. k - Len(out) \in 1..Len(img) /\ out'[k] = Decrypt(img)[k - Len(out)]
            BY <1>1, <4>1, <4>2, <5>2
          <6> QED
            BY <4>4, <6>1
        <5> QED
          BY <1>1, <4>1, <4>2, <5>1, <5>2
      <4> QED
        BY <4>5
    <3>2. CASE New
      BY <3>2 DEF New
    <3>3. CASE out' = out
      BY <2>2, <3>3
    <3>4. Slice \/ New \/ out' = out
      BY <1>3 DEF Next, Host, Reader, Stream, Reset, Send, Sent, Spawn, Started, ReaderCheck,
                  ThreadChecks, ReaderRead, ThreadReads, Reply, Answered,
                  Join, ThreadJoined, Drain, DrainReads, DrainTimeout, DrainStops, Bounded, vars,
                  crypt, Units
    <3> QED
      BY <3>1, <3>2, <3>3, <3>4
  <2> QED
    BY <2>1, <2>3, <2>4
<1> QED
  BY <1>2, <1>3

(* A window returns lines of an earlier one only if they were still coming,*)
(* or unread, when it was opened, however many windows a capture opens and *)
(* whichever commands failed before (capture.rs:499-506).                  *)
THEOREM WindowsStayApart == Spec => []WindowsApart
<1>1. Init => WindowInv
  <2> SUFFICES ASSUME Init PROVE WindowInv
    OBVIOUS
  <2>1. KeptInv
    BY KeptInit
  <2>2. out = <<>> /\ count = 0 /\ upto = 0
    BY DEF Init, CollectionInit
  <2>3. Len(Held) = 0 /\ Len(out) = 0
    BY <2>1, <2>2 DEF KeptInv, Numbered
  <2> QED
    BY <2>1, <2>3 DEF WindowInv, Apart
<1>2. WindowInv /\ [Next]_vars => WindowInv'
  BY KeptStep, ApartStep DEF WindowInv
<1>3. WindowInv => WindowsApart
  BY DEF WindowInv, Apart, WindowsApart
<1> QED
  BY <1>1, <1>2, <1>3, PTL DEF Spec

-----------------------------------------------------------------------------
(* Decryption                                                              *)

LEMMA ChainInit == Init => ChainInv
<1> SUFFICES ASSUME Init PROVE ChainInv
  OBVIOUS
<1>1. KeptInv
  BY KeptInit
<1>2. out = <<>> /\ chain = 0 /\ count = 0 /\ upto = 0
  BY DEF Init, CollectionInit
<1>3. Len(Held) = 0 /\ Len(out) = 0
  BY <1>1, <1>2 DEF KeptInv, Numbered
<1> QED
  BY <1>1, <1>2, <1>3 DEF ChainInv, DecryptedRight

(* A command that does not carry the key, or is not one.                   *)
Continues == Moves /\ UNCHANGED <<crypt, schain, sprev>> /\ sends' \in {sends, sends + 1}

(* A command that carries the key: the sensor begins the chain or, if it   *)
(* does not get it, goes on with an older one.                             *)
Rekeys ==
    /\ Moves /\ UNCHANGED <<out, mixed>>
    /\ sends' = sends + 1 /\ chain' = sends' /\ iv' = 0
    /\ \/ schain' = sends' /\ sprev' = 0
       \/ schain' = schain

(* Another capture, which has no key yet.                                  *)
Forgets == (Moves \/ Loses) /\ chain' = 0 /\ out' = <<>> /\ UNCHANGED sends

(* The next unit: what it returns is empty.                                *)
Returns == Moves /\ out' = <<>> /\ UNCHANGED <<chain, iv, mixed, sends, schain, sprev>>

(* The sensor resets.                                                      *)
Breaks == Loses /\ schain' = 0 /\ UNCHANGED <<crypt, sends>>

LEMMA ChainSteps ==
    KeptInv /\ [Next]_vars =>
        Stream \/ Slice \/ Continues \/ Rekeys \/ Forgets \/ Returns \/ Breaks
<1> SUFFICES ASSUME KeptInv, [Next]_vars
             PROVE  Stream \/ Slice \/ Continues \/ Rekeys \/ Forgets \/ Returns \/ Breaks
  OBVIOUS
<1>0. sends \in Nat
  BY DEF KeptInv, TypeOK, CollectionTypeOK
<1>1. CASE Reset
  BY <1>1 DEF Reset, Breaks, Loses, thread, collecting, history
<1>2. CASE Send
  <2>1. Moves /\ sends' = sends + 1 /\ UNCHANGED <<out, mixed>>
    BY <1>2 DEF Send, Sent, Moves, KeptInv, Phases, Held, Execute, thread, sensor
  <2> DEFINE keyed == unit = "window" /\ idx = KeyAt
  <2>2. CASE keyed
    <3>1. chain' = sends' /\ iv' = 0
      BY <1>2, <2>2 DEF Send, Sent
    <3>2. (schain' = sends' /\ sprev' = 0) \/ schain' = schain
      BY <1>2, <2>2 DEF Send, Sent, Execute, sensor
    <3> QED
      BY <2>1, <3>1, <3>2 DEF Rekeys
  <2>3. CASE ~keyed
    BY <1>2, <1>0, <2>1, <2>3 DEF Send, Sent, Execute, sensor, Continues, crypt
  <2> QED
    BY <2>2, <2>3
<1>3. ASSUME NEW u \in Units, Begin(u) PROVE Returns
  BY <1>3 DEF Begin, OutAtFirst, Returns, Moves, Held, thread, collecting, sensor
<1>4. CASE New
  BY <1>4 DEF New, Forgets, Moves, Loses, Held, thread, collecting, history
<1>5. CASE Spawn
  BY <1>5, <1>0 DEF Spawn, Started, Continues, Moves, KeptInv, Phases, Held, collecting, sensor,
                    history
<1>6. CASE ReaderCheck
  BY <1>6, <1>0 DEF ReaderCheck, ThreadChecks, Continues, Moves, Held, collecting, sensor, history
<1>7. CASE ReaderRead
  BY <1>7, <1>0, ReaderReadHeld DEF ReaderRead, ThreadReads, Continues, Moves, KeptInv, history
<1>8. ASSUME NEW got \in BOOLEAN, Reply(got) PROVE Continues
  BY <1>8, <1>0 DEF Reply, Answered, Continues, Moves, Held, sensor, history
<1>9. CASE Join
  BY <1>9, <1>0, JoinHeld DEF Join, ThreadJoined, Continues, Moves, KeptInv, sensor, history
<1>10. CASE Drain
  BY <1>10, <1>0, DrainHeld DEF Drain, DrainReads, Continues, Moves, KeptInv, history
<1>11. CASE DrainTimeout
  BY <1>11, <1>0 DEF DrainTimeout, DrainStops, Continues, Moves, Held, thread, sensor, history
<1>12. CASE UNCHANGED vars \/ Bounded
  BY <1>12, <1>0 DEF Bounded, vars, Continues, Moves, Held, thread, collecting, sensor, history
<1> QED
  BY <1>1, <1>2, <1>3, <1>4, <1>5, <1>6, <1>7, <1>8, <1>9, <1>10, <1>11, <1>12
  DEF Next, Host, Reader, Units

(* The parts of ChainInv but for KeptInv.                                  *)
Older == \A k \in 1..Len(Held) : Held[k].chain <= sends
Chained == chain # 0 => Encrypted /\ InStep /\ SensorInStep

LEMMA ContinuesKeeps == ChainInv /\ (Continues \/ Returns) => Older' /\ Chained' /\ DecryptedRight'
<1> SUFFICES ASSUME ChainInv, Continues \/ Returns
             PROVE  Older' /\ Chained' /\ DecryptedRight'
  OBVIOUS
<1>1. /\ Held' = Held /\ UNCHANGED <<count, upto, chain, iv, mixed, schain, sprev>>
      /\ sends' >= sends /\ (out' = out \/ out' = <<>>)
  BY SMTT(20) DEF Continues, Returns, Moves, crypt, ChainInv, KeptInv, TypeOK, CollectionTypeOK
<1>2. Older'
  <2>1. ASSUME NEW k \in 1..Len(Held) PROVE Held[k].chain <= sends'
    <3>1. Held[k] \in Line /\ sends \in Nat /\ sends' \in Int
      BY HeldTyped, SMTT(20) DEF ChainInv, KeptInv, TypeOK, CollectionTypeOK, Continues, Returns
    <3>2. Held[k].chain \in Nat /\ Held[k].chain <= sends
      BY <3>1 DEF Line, ChainInv
    <3> QED
      BY <1>1, <3>1, <3>2
  <2> QED
    BY <1>1, <2>1 DEF Older
<1>3. Chained'
  BY <1>1 DEF ChainInv, Chained, Encrypted, InStep, SensorInStep, Ours
<1>4. DecryptedRight'
  BY <1>1 DEF ChainInv, DecryptedRight, Readable
<1> QED
  BY <1>2, <1>3, <1>4

LEMMA LosesOlder == ChainInv /\ Loses /\ UNCHANGED sends => Older'
BY PipeLost DEF ChainInv, KeptInv, Loses, Older

LEMMA ForgetsKeeps == ChainInv /\ Forgets => Older' /\ Chained' /\ DecryptedRight'
<1> SUFFICES ASSUME ChainInv, Forgets PROVE Older' /\ Chained' /\ DecryptedRight'
  OBVIOUS
<1>1. Older'
  <2>1. CASE Moves
    BY <2>1 DEF Forgets, Moves, ChainInv, Older
  <2>2. CASE Loses
    BY <2>2, LosesOlder DEF Forgets
  <2> QED
    BY <2>1, <2>2 DEF Forgets
<1> QED
  BY <1>1 DEF Forgets, Chained, DecryptedRight

LEMMA BreaksKeeps == ChainInv /\ Breaks => Older' /\ Chained' /\ DecryptedRight'
<1> SUFFICES ASSUME ChainInv, Breaks PROVE Older' /\ Chained' /\ DecryptedRight'
  OBVIOUS
<1>1. /\ Len(Held') = Len(Held) - Len(pipe)
      /\ \A k \in 1..Len(Held') : k \in 1..Len(Held) /\ Held'[k] = Held[k]
  BY PipeLost DEF Breaks, Loses, ChainInv, KeptInv
<1>2. UNCHANGED <<chain, iv, out, mixed, upto, sends>> /\ schain' = 0
  BY DEF Breaks, Loses, crypt
<1>3. Older'
  BY LosesOlder DEF Breaks
<1>4. ASSUME chain # 0 PROVE Encrypted' /\ InStep' /\ SensorInStep'
  <2>1. Encrypted /\ InStep
    BY <1>4 DEF ChainInv
  <2>2. Encrypted'
    BY <1>1, <1>2, <2>1 DEF Encrypted, Ours
  <2>3. Held' \in Seq(Line)
    <3>1. img \in Seq(Line) /\ rgot \in Seq(Line) /\ <<>> \in Seq(Line)
      BY DEF ChainInv, KeptInv, TypeOK, CollectionTypeOK
    <3> QED
      BY <3>1 DEF Breaks, Loses, Held
  <2>4. Held' # <<>> => 1 \in 1..Len(Held')
    BY <2>3
  <2>5. Held' # <<>> => Held # <<>> /\ Held'[1] = Held[1]
    BY <1>1, <2>4
  <2>6. InStep'
    BY <1>1, <1>2, <2>1, <2>5 DEF InStep, Ours
  <2> QED
    BY <1>2, <1>4, <2>2, <2>6 DEF SensorInStep
<1>5. DecryptedRight'
  BY <1>2 DEF ChainInv, DecryptedRight, Readable
<1> QED
  BY <1>2, <1>3, <1>4, <1>5 DEF Chained

LEMMA RekeysKeeps == ChainInv /\ Rekeys => Older' /\ Chained' /\ DecryptedRight'
<1> SUFFICES ASSUME ChainInv, Rekeys PROVE Older' /\ Chained' /\ DecryptedRight'
  OBVIOUS
<1>1. /\ Held' = Held /\ UNCHANGED <<out, mixed>> /\ sends' = sends + 1 /\ chain' = sends + 1
      /\ iv' = 0 /\ ((schain' = sends + 1 /\ sprev' = 0) \/ schain' = schain)
  BY DEF Rekeys, Moves
<1>2. Held \in Seq(Line) /\ sends \in Nat /\ schain \in 0..sends
  BY HeldTyped DEF ChainInv, KeptInv, TypeOK, CollectionTypeOK
<1>3. ASSUME NEW k \in 1..Len(Held) PROVE Held[k].chain \in Nat /\ Held[k].chain <= sends
  <2>1. Held[k] \in Line
    BY <1>2
  <2> QED
    BY <2>1 DEF Line, ChainInv
<1>4. Older'
  BY <1>1, <1>2, <1>3 DEF Older
<1>5. \A k \in 1..Len(Held') : ~Ours(k)'
  BY <1>1, <1>2, <1>3 DEF Ours
<1>6. Encrypted'
  BY <1>5 DEF Encrypted
<1>7. InStep'
  <2>1. Held' # <<>> => 1 \in 1..Len(Held')
    BY <1>1, <1>2
  <2> QED
    BY <1>1, <1>5, <2>1 DEF InStep
<1>8. SensorInStep'
  <2>1. schain' = chain' => sprev' = 0
    BY <1>1, <1>2
  <2> QED
    BY <1>1, <1>5, <2>1 DEF SensorInStep
<1>9. DecryptedRight'
  BY <1>1 DEF ChainInv, DecryptedRight, Readable
<1> QED
  BY <1>4, <1>6, <1>7, <1>8, <1>9 DEF Chained

LEMMA StreamKeeps == ChainInv /\ Stream => Older' /\ Chained' /\ DecryptedRight'
<1> SUFFICES ASSUME ChainInv, Stream PROVE Older' /\ Chained' /\ DecryptedRight'
  OBVIOUS
<1>1. /\ Streamed \in Line /\ Held' = Append(Held, Streamed)
      /\ Streamed.chain = schain /\ Streamed.prev = sprev
  BY StreamHeld DEF ChainInv, KeptInv, Streamed
<1>2. UNCHANGED <<chain, iv, out, mixed, upto, sends, schain>> /\ count' = count + 1
  BY DEF Stream, crypt, history
<1>3. /\ Held \in Seq(Line) /\ count \in Nat /\ upto \in Nat /\ sends \in Nat
      /\ schain \in 0..sends /\ Len(Held) = count - upto
  BY HeldTyped DEF ChainInv, KeptInv, TypeOK, CollectionTypeOK, Numbered
<1> DEFINE last == Len(Held) + 1
<1>4. /\ Len(Held') = last /\ Held'[last] = Streamed /\ Len(Held) \in Nat
      /\ \A k \in 1..Len(Held) : Held'[k] = Held[k]
      /\ \A k \in 1..last : k = last \/ k \in 1..Len(Held)
  BY <1>1, <1>3
<1>5. Older'
  BY <1>1, <1>2, <1>3, <1>4 DEF ChainInv, Older
<1>6. \A k \in 1..Len(Held) : Ours(k)' <=> Ours(k)
  BY <1>2, <1>4 DEF Ours
<1>7. ASSUME NEW k \in 1..Len(Held'), k = last, Ours(k)'
      PROVE  schain = chain /\ Held'[k].prev = sprev
  BY <1>1, <1>2, <1>4, <1>7 DEF Ours
<1>8. ASSUME chain # 0 PROVE Encrypted' /\ InStep' /\ SensorInStep'
  <2>1. Encrypted /\ InStep /\ SensorInStep
    BY <1>8 DEF ChainInv
  <2>2. schain = chain => /\ sprev \in {0, count}
                          /\ sprev = 0 => \A k \in 1..Len(Held) : ~Ours(k)
                          /\ iv = 0 /\ sprev # 0 => Held # <<>>
                          /\ iv # 0 /\ chain \notin mixed => sprev # 0
    BY <2>1 DEF SensorInStep
  <2>3. ASSUME NEW k \in 1..Len(Held'), Ours(k)' PROVE Held'[k].prev \in {0, upto + k - 1}
    <3>1. CASE k = last
      <4>1. upto + last - 1 = count
        BY <1>3
      <4> QED
        BY <1>7, <2>2, <2>3, <3>1, <4>1
    <3>2. CASE k # last
      BY <1>4, <1>6, <2>1, <2>3, <3>2 DEF Encrypted
    <3> QED
      BY <3>1, <3>2
  <2>4. ASSUME NEW j \in 1..Len(Held'), NEW k \in 1..Len(Held'), j < k, Ours(j)', Ours(k)'
        PROVE  Held'[k].prev # 0
    <3>1. j \in 1..Len(Held)
      BY <1>4, <2>4
    <3>2. CASE k = last
      BY <1>6, <1>7, <2>2, <2>4, <3>1, <3>2
    <3>3. CASE k # last
      BY <1>4, <1>6, <2>1, <2>4, <3>1, <3>3 DEF Encrypted
    <3> QED
      BY <3>2, <3>3
  <2>5. Encrypted'
    BY <1>2, <2>3, <2>4 DEF Encrypted
  <2>6. ASSUME iv = 0, Ours(1)' PROVE Held'[1].prev = 0
    <3>1. CASE Len(Held) = 0
      <4>1. Held = <<>> /\ last = 1
        BY <1>3, <3>1
      <4>2. 1 \in 1..Len(Held')
        BY <1>4, <4>1
      <4> QED
        BY <1>7, <2>2, <2>6, <4>1, <4>2
    <3>2. CASE Len(Held) # 0
      <4>1. 1 \in 1..Len(Held) /\ Held # <<>>
        BY <1>4, <3>2
      <4> QED
        BY <1>4, <1>6, <2>1, <2>6, <4>1 DEF InStep
    <3> QED
      BY <3>1, <3>2
  <2>7. ASSUME iv # 0, chain \notin mixed, NEW k \in 1..Len(Held'), Ours(k)'
        PROVE  Held'[k].prev # 0
    <3>1. CASE k = last
      BY <1>7, <2>2, <2>7, <3>1
    <3>2. CASE k # last
      BY <1>4, <1>6, <2>1, <2>7, <3>2 DEF InStep
    <3> QED
      BY <3>1, <3>2
  <2>8. InStep'
    BY <1>2, <2>1, <2>6, <2>7 DEF InStep
  <2>9. SensorInStep'
    <3>1. ASSUME schain = chain PROVE sprev' = count + 1 /\ sprev' # 0
      BY <1>3, <1>8, <3>1 DEF Stream
    <3>2. Held' # <<>>
      BY <1>4
    <3> QED
      BY <1>2, <3>1, <3>2 DEF SensorInStep
  <2> QED
    BY <2>5, <2>8, <2>9
<1>9. DecryptedRight'
  BY <1>2 DEF ChainInv, DecryptedRight, Readable
<1> QED
  BY <1>2, <1>5, <1>8, <1>9 DEF Chained

(* A slice that is not decrypted.                                          *)
LEMMA SkippedSliceKeeps ==
    ChainInv /\ Slice /\ (img = <<>> \/ chain = 0) => Older' /\ Chained' /\ DecryptedRight'
<1> SUFFICES ASSUME ChainInv, Slice, img = <<>> \/ chain = 0
             PROVE  Older' /\ Chained' /\ DecryptedRight'
  OBVIOUS
<1>1. UNCHANGED <<crypt, sends, schain, sprev, count>>
  BY DEF Slice, Sliced, crypt, sensor
<1>2. CASE img = <<>>
  <2>1. Moves
    BY <1>1, <1>2 DEF Slice, Sliced, Moves, Held, thread, sensor
  <2>2. Continues
    BY <1>1, <2>1 DEF Continues
  <2> QED
    BY <2>2, ContinuesKeeps
<1>3. CASE chain = 0
  <2>1. Older'
    BY <1>1, SliceHeld DEF ChainInv, KeptInv, Older
  <2>2. Chained'
    BY <1>1, <1>3 DEF Chained, crypt
  <2>3. DecryptedRight'
    BY <1>1 DEF crypt, ChainInv, DecryptedRight, Readable
  <2> QED
    BY <2>1, <2>2, <2>3
<1> QED
  BY <1>2, <1>3

LEMMA SliceKeeps ==
    ChainInv /\ Slice /\ img # <<>> /\ chain # 0 => Older' /\ Chained' /\ DecryptedRight'
<1> SUFFICES ASSUME ChainInv, Slice, img # <<>>, chain # 0
             PROVE  Older' /\ Chained' /\ DecryptedRight'
  OBVIOUS
<1> DEFINE m == Len(img)
           Foreign == \E k \in 1..Len(img) : img[k].chain # chain
<1>1. /\ img \in Seq(Line) /\ Len(Held) = Len(img) + Len(Held')
      /\ \A k \in 1..Len(img) : k \in 1..Len(Held) /\ Held[k] = img[k]
      /\ \A k \in 1..Len(Held') : Len(img) + k \in 1..Len(Held) /\ Held'[k] = Held[Len(img) + k]
  BY SliceHeld DEF ChainInv, KeptInv
<1>2. /\ out' = out \o Decrypt(img) /\ iv' = Last(img).n
      /\ mixed' = IF Foreign THEN mixed \cup {chain} ELSE mixed
      /\ UNCHANGED <<chain, sends, schain, sprev, count>>
  BY DEF Slice, Sliced, ChainedIv, sensor
<1>3. upto' = upto + m /\ iv' = upto + m
  BY <1>2, SliceUpto DEF ChainInv
<1>4. m \in Nat \ {0} /\ upto \in Nat /\ iv' # 0 /\ m \in 1..m
  BY <1>1, <1>3, SMTT(20) DEF ChainInv, KeptInv, TypeOK, CollectionTypeOK
<1>5. Encrypted /\ InStep /\ SensorInStep
  BY DEF ChainInv
<1>6. Older'
  BY <1>1, <1>2 DEF ChainInv, Older
<1>7. ASSUME NEW k \in 1..Len(Held')
      PROVE  m + k \in 1..Len(Held) /\ Held'[k] = Held[m + k] /\ (Ours(k)' <=> Ours(m + k))
  BY <1>1, <1>2 DEF Ours
<1>8. chain \notin mixed' => chain \notin mixed /\ 1 \in 1..Len(Held) /\ Ours(1)
  BY <1>1, <1>2, <1>4 DEF Ours
<1> HIDE DEF m, Foreign
<1>9. Encrypted'
  <2>1. ASSUME NEW k \in 1..Len(Held'), Ours(k)' PROVE Held'[k].prev \in {0, upto' + k - 1}
    <3>1. Held[m + k].prev \in {0, upto + (m + k) - 1}
      BY <1>5, <1>7, <2>1 DEF Encrypted
    <3>2. upto + (m + k) - 1 = upto' + k - 1
      BY <1>3, <1>4
    <3> QED
      BY <1>7, <3>1, <3>2
  <2>2. ASSUME NEW j \in 1..Len(Held'), NEW k \in 1..Len(Held'), j < k, Ours(j)', Ours(k)'
        PROVE  Held'[k].prev # 0
    <3>1. m + j < m + k
      BY <1>4, <2>2
    <3> QED
      BY <1>5, <1>7, <2>2, <3>1 DEF Encrypted
  <2> QED
    BY <2>1, <2>2 DEF Encrypted
<1>10. ASSUME chain \notin mixed', NEW k \in 1..Len(Held'), Ours(k)' PROVE Held'[k].prev # 0
  <2>1. 1 < m + k
    BY <1>4
  <2> QED
    BY <1>5, <1>7, <1>8, <1>10, <2>1 DEF Encrypted
<1>11. InStep'
  BY <1>2, <1>3, <1>4, <1>10 DEF InStep
<1>12. SensorInStep'
  <2>1. SUFFICES ASSUME schain = chain
                 PROVE  /\ sprev \in {0, count}
                        /\ sprev = 0 => \A k \in 1..Len(Held') : ~Ours(k)'
                        /\ chain \notin mixed' => sprev # 0
    BY <1>2, <1>4 DEF SensorInStep
  <2>2. sprev \in {0, count} /\ (sprev = 0 => \A k \in 1..Len(Held) : ~Ours(k))
    BY <1>5, <2>1 DEF SensorInStep
  <2> QED
    BY <1>7, <1>8, <2>2
<1>13. /\ Decrypt(img) \in Seq(Decrypted) /\ Len(Decrypt(img)) = Len(img)
       /\ \A k \in 1..Len(img) :
              /\ Decrypt(img)[k].line = img[k] /\ Decrypt(img)[k].chain = chain
              /\ Decrypt(img)[k].iv = IF k = 1 THEN iv ELSE img[k - 1].n
  BY SliceTyped DEF ChainInv, KeptInv
<1> DEFINE Right(d) == d.line.chain = d.chain =>
                          Readable(d) \/ (d.chain \in mixed' /\ d.line.prev = 0)
<1>14. ASSUME NEW k \in 1..Len(img) PROVE Right(Decrypt(img)[k])
  <2>1. SUFFICES ASSUME img[k].chain = chain
                 PROVE  \/ Decrypt(img)[k].iv = img[k].prev
                        \/ chain \in mixed' /\ img[k].prev = 0
    BY <1>13 DEF Readable
  <2>2. k \in 1..Len(Held) /\ Held[k] = img[k] /\ Ours(k)
    BY <1>1, <2>1 DEF Ours
  <2>3. img[k].prev \in {0, upto + k - 1}
    BY <1>5, <2>2 DEF Encrypted
  <2>4. CASE k = 1
    <3>1. Decrypt(img)[k].iv = iv
      BY <1>13, <2>4
    <3>2. Held # <<>> /\ upto + k - 1 = upto /\ iv \in {0, upto}
      BY <1>4, <1>5, <2>2, <2>4 DEF InStep
    <3>3. CASE iv = 0
      BY <1>5, <2>2, <2>4, <3>1, <3>2, <3>3 DEF InStep
    <3>4. CASE iv # 0
      <4>1. chain \notin mixed => img[k].prev # 0
        BY <1>5, <2>2, <3>4 DEF InStep
      <4> QED
        BY <1>2, <2>3, <3>1, <3>2, <3>4, <4>1
    <3> QED
      BY <3>3, <3>4
  <2>5. CASE k # 1
    <3>1. k - 1 \in 1..Len(img) /\ k - 1 \in 1..Len(Held) /\ k - 1 < k /\ k - 1 \in Nat
      BY <1>1, <2>5
    <3>2. img[k - 1].n = upto + (k - 1)
      BY <1>1, <3>1 DEF ChainInv, KeptInv, Numbered
    <3>3. Decrypt(img)[k].iv = upto + k - 1
      BY <1>4, <1>13, <2>5, <3>2
    <3>4. CASE img[k].prev = 0
      <4>1. ~Ours(k - 1)
        BY <1>5, <2>2, <3>1, <3>4 DEF Encrypted
      <4>2. img[k - 1].chain # chain
        BY <1>1, <3>1, <4>1 DEF Ours
      <4>3. Foreign
        BY <3>1, <4>2 DEF Foreign
      <4> QED
        BY <1>2, <3>4, <4>3
    <3>5. CASE img[k].prev # 0
      BY <2>3, <3>3, <3>5
    <3> QED
      BY <3>4, <3>5
  <2> QED
    BY <2>4, <2>5
<1>15. ASSUME NEW k \in 1..Len(out) PROVE Right(out[k])
  BY <1>2 DEF ChainInv, DecryptedRight, Readable
<1>16. ASSUME NEW k \in 1..Len(out') PROVE Right(out'[k])
  <2>1. out \in Seq(Decrypted)
    BY DEF ChainInv, KeptInv, TypeOK, CollectionTypeOK
  <2>2. CASE k <= Len(out)
    <3>1. k \in 1..Len(out) /\ out'[k] = out[k]
      BY <1>2, <1>13, <2>1, <2>2
    <3> QED
      BY <1>15, <3>1
  <2>3. CASE k > Len(out)
    <3>1. k - Len(out) \in 1..Len(img) /\ out'[k] = Decrypt(img)[k - Len(out)]
      BY <1>2, <1>13, <2>1, <2>3
    <3> QED
      BY <1>14, <3>1
  <2> QED
    BY <1>2, <1>13, <2>1, <2>2, <2>3
<1>17. DecryptedRight'
  BY <1>16 DEF DecryptedRight, Readable
<1> QED
  BY <1>2, <1>6, <1>9, <1>11, <1>12, <1>17 DEF Chained

(* A line that comes to the key it was encrypted under is decrypted behind *)
(* the line it was encrypted behind, however the stream was cut into reads *)
(* and slices, whichever command carries the key, whether or not the       *)
(* sensor got it (capture.rs:464-470, 590-597).                            *)
THEOREM LinesDecrypted == Spec => []DecryptedRight
<1>1. ChainInv /\ [Next]_vars => ChainInv'
  <2> SUFFICES ASSUME ChainInv, [Next]_vars PROVE ChainInv'
    OBVIOUS
  <2>1. KeptInv'
    BY KeptStep DEF ChainInv
  <2>2. Older' /\ Chained' /\ DecryptedRight'
    BY ChainSteps, StreamKeeps, SkippedSliceKeeps, SliceKeeps, ContinuesKeeps, RekeysKeeps,
       ForgetsKeeps, BreaksKeeps DEF ChainInv
  <2> QED
    BY <2>1, <2>2 DEF ChainInv, Older, Chained
<1>2. ChainInv => DecryptedRight
  BY DEF ChainInv
<1> QED
  BY <1>1, <1>2, ChainInit, PTL DEF Spec
=============================================================================
