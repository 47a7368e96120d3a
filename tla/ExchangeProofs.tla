--------------------------- MODULE ExchangeProofs ---------------------------
(***************************************************************************)
(* Proofs about Exchange, for any number of init steps, tries, reads,      *)
(* resets, faults and commands and every setting of the flags: its types,  *)
(* and that it implements CommandChannel: whatever resets, write errors,   *)
(* late answers and failed handshakes occur, commands take effect in the   *)
(* order they were issued and never twice in a session.                    *)
(***************************************************************************)
EXTENDS Exchange, TLAPS

-----------------------------------------------------------------------------
(* Types of the record layer's operators.                                  *)
LEMMA NewRecordType ==
    ASSUME NEW s \in Session
    PROVE  NewRecord(s) \in Record
BY DEF NewRecord, Record, Block, KeyIV, ServerBlock

LEMMA EncryptedType ==
    ASSUME NEW r \in Record, NEW k \in {"init", "hello", "flight", "data"},
           NEW b \in Nat
    PROVE  Encrypted(r, k, b) \in Wire
BY DEF Encrypted, Record, Wire

LEMMA AfterEncryptType ==
    ASSUME NEW r \in Record, NEW b \in Nat
    PROVE  AfterEncrypt(r, b) \in Record
<1>1. <<r.sseq + 1, b>> \in Block
  BY DEF Record, Block
<1> QED
  BY <1>1 DEF AfterEncrypt, Record

LEMMA AfterDecryptType ==
    ASSUME NEW r \in Record, NEW item \in Item
    PROVE  AfterDecrypt(r, item) \in Record
<1>1. <<item.sess, item.n>> \in ServerBlock
  BY DEF Item, ServerBlock
<1> QED
  BY <1>1 DEF AfterDecrypt, Record

LEMMA PlainType ==
    ASSUME NEW k \in {"init", "hello", "flight", "data"},
           NEW s \in Session, NEW b \in Nat
    PROVE  Plain(k, s, b) \in Wire
BY DEF Plain, Wire, KeyIV, Block

LEMMA NoneType == NoSession \in Session /\ NoRecord \in Record /\ NoWire \in Wire
<1>1. NoSession \in Session
  BY DEF NoSession, Session
<1> QED
  BY <1>1, NewRecordType, PlainType DEF NoRecord, NoWire

(* The first entry of a pipe is a message, and taking it leaves a pipe.    *)
LEMMA HeadTail ==
    ASSUME NEW S, NEW q \in Seq(S), q # <<>>
    PROVE  Head(q) \in S /\ Tail(q) \in Seq(S)
OBVIOUS

LEMMA EmptyPipe == ASSUME NEW S PROVE <<>> \in Seq(S)
OBVIOUS

LEMMA StepCases ==
    ASSUME NEW k \in 1..FlightStep
    PROVE  /\ k \in Nat /\ HelloStep \in Nat /\ FlightStep \in Nat
           /\ \/ k <= NInit /\ k # HelloStep /\ k # FlightStep
              \/ k = HelloStep /\ ~(k <= NInit) /\ k # FlightStep
              \/ k = FlightStep /\ ~(k <= NInit) /\ k # HelloStep
BY NInitAssumption DEF HelloStep, FlightStep

LEMMA HsMessageType ==
    ASSUME TypeOK
    PROVE  HsMessage \in Wire
<1>1. hs.rec \in Record /\ hs.step \in 1..FlightStep /\ <<nonce + 1, 0>> \in Session
  BY DEF TypeOK, HostTypeOK, Handshake, Session
<1>2. CASE hs.step <= NInit
  BY <1>1, <1>2, StepCases, PlainType, NoneType DEF HsMessage
<1>3. CASE hs.step = HelloStep
  BY <1>1, <1>3, StepCases, PlainType DEF HsMessage
<1>4. CASE hs.step = FlightStep
  BY <1>1, <1>4, StepCases, EncryptedType DEF HsMessage
<1> QED
  BY <1>1, <1>2, <1>3, <1>4, StepCases

-----------------------------------------------------------------------------
(* Type correctness.  The sensor's steps first: they touch the link only.  *)
LEMMA TailOfType ==
    ASSUME NEW w \in Wire
    PROVE  TailOf(w) \in Block
BY DEF TailOf, Wire, Block

LEMMA ItemType ==
    ASSUME NEW k \in {"init", "hello", "flight", "data", "alert", "zeros"},
           NEW s \in Session, NEW n \in Nat, NEW b \in Nat
    PROVE  [kind |-> k, sess |-> s, n |-> n, body |-> b] \in Item
BY DEF Item

LEMMA PlainReplyType ==
    ASSUME LinkTypeOK,
           NEW k \in {"init", "hello", "alert", "zeros"},
           NEW s \in Session, NEW b \in Nat, PlainReply(k, s, b)
    PROVE  epIn' \in Seq(Item)
BY ItemType DEF LinkTypeOK, PlainReply, Reply

LEMMA SecureReplyType ==
    ASSUME LinkTypeOK,
           NEW k \in {"flight", "data", "alert"},
           NEW st \in SensorSession, NEW b \in Nat, SecureReply(k, st, b)
    PROVE  epIn' \in Seq(Item) /\ ses' \in SensorSession
<1>1. st.sess \in Session /\ st.tx + 1 \in Nat
  BY DEF SensorSession
<1>2. epIn' \in Seq(Item)
  BY <1>1, ItemType DEF LinkTypeOK, SecureReply, Reply
<1>3. ses' \in SensorSession
  BY DEF SecureReply, SensorSession
<1> QED
  BY <1>2, <1>3

LEMMA SensorStepType ==
    ASSUME LinkTypeOK, SensorStep
    PROVE  LinkTypeOK'
<1> USE DEF LinkTypeOK
<1>1. epOut' \in Seq(Wire) /\ Incoming \in Wire
  BY HeadTail DEF SensorStep, Incoming
<1>2. Incoming.body \in Nat /\ Incoming.sess \in Session
  BY <1>1 DEF Wire
<1>3. UNCHANGED <<present, epoch, resets>>
  BY DEF SensorStep, busVars
<1> DEFINE Rest == /\ epIn' \in Seq(Item) /\ ses' \in SensorSession
                   /\ neg' \in Session /\ srv' \in Nat
                   /\ log' \in Seq(Executed) /\ established' \subseteq Session
<1>4. CASE SensorInitStep
  <2>1. epIn' \in Seq(Item)
    BY <1>2, <1>4, PlainReplyType, NoneType DEF SensorInitStep
  <2> QED
    BY <1>1, <1>3, <1>4, <2>1 DEF SensorInitStep
<1>5. CASE SensorHello
  <2>1. <<Incoming.sess[1], srv + 1>> \in Session
    BY <1>2 DEF Session
  <2>2. epIn' \in Seq(Item)
    BY <1>5, <2>1, PlainReplyType DEF SensorHello
  <2> QED
    BY <1>1, <1>3, <1>5, <2>1, <2>2 DEF SensorHello
<1>6. CASE SensorFlightGood
  <2>1. [sess |-> neg, rx |-> 1, chain |-> TailOf(Incoming), tx |-> 0] \in SensorSession
    BY <1>1, TailOfType DEF SensorSession
  <2>2. epIn' \in Seq(Item) /\ ses' \in SensorSession
    BY <1>6, <2>1, SecureReplyType DEF SensorFlightGood
  <2> QED
    BY <1>1, <1>3, <1>6, <2>2, NoneType DEF SensorFlightGood
<1>7. CASE SensorFlightBad
  <2>1. epIn' \in Seq(Item)
    BY <1>7, PlainReplyType, NoneType DEF SensorFlightBad
  <2> QED
    BY <1>1, <1>3, <1>7, <2>1, NoneType DEF SensorFlightBad
<1>8. CASE SensorExecute
  <2>1. AfterAccept(Incoming) \in SensorSession
    BY <1>1, TailOfType DEF SensorSession, AfterAccept
  <2>2. epIn' \in Seq(Item) /\ ses' \in SensorSession
    BY <1>2, <1>8, <2>1, SecureReplyType DEF SensorExecute
  <2>3. [sess |-> ses.sess, cmd |-> Incoming.body] \in Executed
    BY <1>2 DEF Executed, SensorSession
  <2> QED
    BY <1>1, <1>3, <1>8, <2>2, <2>3 DEF SensorExecute
<1>9. CASE SensorAlert
  <2>1. epIn' \in Seq(Item) /\ ses' \in SensorSession
    BY <1>9, SecureReplyType DEF SensorAlert
  <2> QED
    BY <1>1, <1>3, <1>9, <2>1 DEF SensorAlert
<1>10. CASE SensorZeros
  <2>1. epIn' \in Seq(Item)
    BY <1>10, PlainReplyType, NoneType DEF SensorZeros
  <2> QED
    BY <1>1, <1>3, <1>10, <2>1 DEF SensorZeros
<1> QED
  BY <1>4, <1>5, <1>6, <1>7, <1>8, <1>9, <1>10 DEF SensorStep

LEMMA NoSensorSessionType == NoSensorSession \in SensorSession
BY NoneType DEF NoSensorSession, SensorSession, KeyIV, Block

LEMMA LinkStepType ==
    ASSUME LinkTypeOK, LinkStep
    PROVE  LinkTypeOK'
<1>1. CASE Reset
  <2>1. ses' \in SensorSession
    BY <1>1, NoSensorSessionType DEF LinkTypeOK, Reset
  <2>2. neg' \in Session
    BY <1>1, NoneType DEF Reset
  <2>3. epOut' \in Seq(Wire) /\ epIn' \in Seq(Item)
    BY <1>1, EmptyPipe DEF Reset
  <2>4. present' \in BOOLEAN
    BY <1>1, Zenon DEF Reset
  <2>6. resets' \in Nat
    <3>1. resets \in Nat /\ resets' = resets + 1
      BY <1>1, Zenon DEF LinkTypeOK, Reset
    <3> QED
      BY <3>1
  <2>5. UNCHANGED <<epoch, srv, log, established>>
    BY <1>1 DEF Reset
  <2> QED
    BY <2>1, <2>2, <2>3, <2>4, <2>5, <2>6 DEF LinkTypeOK
<1>2. CASE Enumerate
  BY <1>2 DEF LinkTypeOK, Enumerate, sensorVars
<1>3. CASE SensorStep
  BY <1>3, SensorStepType
<1> QED
  BY <1>1, <1>2, <1>3 DEF LinkStep

-----------------------------------------------------------------------------
(* The host's steps.  What a failed and a finished handshake leave behind, *)
(* then each action.                                                       *)
LEMMA InitType == Init => TypeOK
<1> SUFFICES ASSUME Init PROVE TypeOK
  OBVIOUS
<1>1. LinkTypeOK
  BY EmptyPipe, NoneType, NoSensorSessionType DEF Init, LinkInit, LinkTypeOK
<1>2. hs \in Handshake
  BY NoneType, NInitAssumption DEF Init, Handshake, FlightStep
<1>3. tries \in 0..WriteTries /\ got \in Seq(Nat)
  BY TriesAssumption, EmptyPipe DEF Init
<1> QED
  BY <1>1, <1>2, <1>3, NoneType DEF Init, TypeOK, HostTypeOK

LEMMA LinkUnchanged ==
    ASSUME LinkTypeOK, UNCHANGED <<busVars, sensorVars>>,
           epOut' \in Seq(Wire), epIn' \in Seq(Item)
    PROVE  LinkTypeOK'
BY DEF LinkTypeOK, busVars, sensorVars

LEMMA PutType ==
    ASSUME LinkTypeOK, NEW w \in Wire, Put(w)
    PROVE  epOut' \in Seq(Wire)
BY DEF LinkTypeOK, Put

LEMMA WriteFaultType ==
    ASSUME TypeOK, NEW w \in Wire, WriteFault(w)
    PROVE  epOut' \in Seq(Wire) /\ faults' \in Nat /\ lates' \in Nat
<1>1. epOut' = epOut \/ Put(w)
  BY Zenon DEF WriteFault
<1>2. epOut' \in Seq(Wire)
  BY <1>1, PutType DEF TypeOK, LinkTypeOK
<1>3. faults' = faults + 1 /\ lates' = lates
  BY Zenon DEF WriteFault
<1> QED
  BY <1>2, <1>3 DEF TypeOK, HostTypeOK

LEMMA StartHandshakeType ==
    ASSUME NEW r \in {"boot", "send", "rebuild"}, StartHandshake(r)
    PROVE  hs' \in Handshake /\ pc' = "hsWrite"
BY NoneType, NInitAssumption DEF StartHandshake, Handshake, FlightStep

LEMMA DieType ==
    ASSUME TypeOK, Die
    PROVE  /\ pc' = "boot" /\ handle' \in Nat /\ rec' \in Record /\ snap' \in Record
           /\ wire' \in Wire /\ got' \in Seq(Nat) /\ tries' \in 0..WriteTries
           /\ broken' \in BOOLEAN
<1>1. tries' = 0 /\ 0 \in 0..WriteTries
  BY TriesAssumption DEF Die
<1>2. got' \in Seq(Nat)
  BY EmptyPipe DEF Die
<1> QED
  BY <1>1, <1>2, NoneType DEF Die

LEMMA HandshakeErrType ==
    ASSUME TypeOK, HandshakeErr
    PROVE  /\ pc' \in {"boot", "write", "idle"} /\ handle' \in Nat
           /\ rec' \in Record /\ snap' \in Record
           /\ wire' \in Wire /\ got' \in Seq(Nat) /\ tries' \in 0..WriteTries
           /\ broken' \in BOOLEAN /\ hs' \in Handshake /\ cmd' \in Nat
<1>1. CASE hs.ret = "boot"
  BY <1>1, DieType DEF HandshakeErr, TypeOK, HostTypeOK
<1>2. CASE hs.ret # "boot"
  BY <1>2 DEF HandshakeErr, TypeOK, HostTypeOK
<1> QED
  BY <1>1, <1>2

LEMMA HandshakeOkType ==
    ASSUME TypeOK, NEW new \in Record, HandshakeOk(new)
    PROVE  /\ pc' \in {"write", "idle"} /\ handle' \in Nat
           /\ rec' \in Record /\ snap' \in Record
           /\ wire' \in Wire /\ got' \in Seq(Nat) /\ tries' \in 0..WriteTries
           /\ broken' \in BOOLEAN /\ hs' \in Handshake /\ cmd' \in Nat
<1>1. CASE hs.ret = "send"
  BY <1>1, EncryptedType, AfterEncryptType DEF HandshakeOk, TypeOK, HostTypeOK
<1>2. CASE hs.ret # "send"
  BY <1>2 DEF HandshakeOk, TypeOK, HostTypeOK
<1> QED
  BY <1>1, <1>2

LEMMA ReadFailsType ==
    ASSUME TypeOK, ReadFails
    PROVE  faults' \in Nat /\ lates' \in Nat
BY DEF TypeOK, HostTypeOK, ReadFails

LEMMA EpInHead ==
    ASSUME TypeOK, epIn # <<>>
    PROVE  Head(epIn) \in Item /\ Tail(epIn) \in Seq(Item)
BY HeadTail DEF TypeOK, LinkTypeOK

LEMMA HsStepType ==
    ASSUME TypeOK, HsWrite \/ HsWriteErr \/ HsRead \/ HsReadErr
    PROVE  TypeOK'
<1> USE DEF TypeOK
<1>1. CASE HsWrite
  <2>1. epOut' \in Seq(Wire)
    BY <1>1, HsMessageType, PutType DEF HsWrite
  <2>2. LinkTypeOK'
    BY <1>1, <2>1, LinkUnchanged DEF HsWrite, LinkTypeOK
  <2>3. hs' \in Handshake
    <3>1. hs.rec \in Record
      BY DEF HostTypeOK, Handshake
    <3>2. CASE hs.step = FlightStep
      BY <1>1, <3>1, <3>2, AfterEncryptType DEF HsWrite, HostTypeOK, Handshake
    <3> QED
      BY <1>1, <3>2 DEF HsWrite, HostTypeOK
  <2>4. nonce' \in Nat
    BY <1>1 DEF HsWrite, NonceDrawn, HostTypeOK
  <2> QED
    BY <1>1, <2>2, <2>3, <2>4 DEF HsWrite, HostTypeOK, budgets
<1>2. CASE HsWriteErr
  <2>1. epOut' \in Seq(Wire) /\ faults' \in Nat /\ lates' \in Nat
    BY <1>2, HsMessageType, WriteFaultType DEF HsWriteErr, budgets, HostTypeOK, LinkTypeOK
  <2>2. LinkTypeOK'
    BY <1>2, <2>1, LinkUnchanged DEF HsWriteErr, LinkTypeOK
  <2>3. nonce' \in Nat
    BY <1>2 DEF HsWriteErr, NonceDrawn, HostTypeOK
  <2> QED
    BY <1>2, <2>1, <2>2, <2>3, HandshakeErrType DEF HsWriteErr, HostTypeOK
<1>3. CASE HsRead
  <2>1. PICK item : item = Head(epIn)
    OBVIOUS
  <2>2. item \in Item /\ epIn' \in Seq(Item)
    BY <1>3, <2>1, EpInHead DEF HsRead
  <2>3. LinkTypeOK'
    BY <1>3, <2>2, LinkUnchanged DEF HsRead, LinkTypeOK
  <2>4. nonce' \in Nat /\ faults' \in Nat /\ lates' \in Nat
    BY <1>3 DEF HsRead, HostTypeOK, budgets
  <2>5. CASE HsReadInit(item)
    <3>1. hs' \in Handshake
      BY <2>5, NInitAssumption DEF HsReadInit, Advance, HostTypeOK, Handshake, FlightStep
    <3> QED
      BY <2>3, <2>4, <2>5, <3>1 DEF HsReadInit, HostTypeOK
  <2>6. CASE HsReadServerHello(item)
    <3>1. <<nonce, ServerNonce(item)>> \in Session
      BY <2>2 DEF HostTypeOK, ServerNonce, Session, Item
    <3>2. NewRecord(<<nonce, ServerNonce(item)>>) \in Record
      BY <3>1, NewRecordType
    <3>3. hs' \in Handshake
      BY <2>6, <3>2, NInitAssumption
         DEF HsReadServerHello, Advance, HostTypeOK, Handshake, FlightStep, HelloStep
    <3> QED
      BY <2>3, <2>4, <2>6, <3>3 DEF HsReadServerHello, HostTypeOK
  <2>7. CASE HsReadShortHello(item)
    BY <2>3, <2>4, <2>7, HandshakeErrType DEF HsReadShortHello, HostTypeOK
  <2>8. CASE HsReadFlight(item)
    <3>1. hs.rec \in Record /\ hs \in Handshake /\ cmd \in Nat
      BY DEF HostTypeOK, Handshake
    <3>2. \/ HandshakeOk(AfterDecrypt(hs.rec, item))
          \/ Die /\ UNCHANGED <<hs, cmd>>
          \/ HandshakeErr
      BY <2>8 DEF HsReadFlight
    <3>3. CASE HandshakeOk(AfterDecrypt(hs.rec, item))
      BY <2>2, <2>3, <2>4, <3>1, <3>3, AfterDecryptType, HandshakeOkType DEF HostTypeOK
    <3>4. CASE Die /\ UNCHANGED <<hs, cmd>>
      BY <2>3, <2>4, <3>1, <3>4, DieType DEF HostTypeOK
    <3>5. CASE HandshakeErr
      BY <2>3, <2>4, <3>5, HandshakeErrType DEF HostTypeOK
    <3> QED
      BY <3>2, <3>3, <3>4, <3>5
  <2> QED
    BY <1>3, <2>1, <2>5, <2>6, <2>7, <2>8 DEF HsRead
<1>4. CASE HsReadErr
  <2>1. LinkTypeOK'
    BY <1>4 DEF HsReadErr, LinkTypeOK, linkVars, busVars, sensorVars
  <2>2. nonce' \in Nat /\ faults' \in Nat /\ lates' \in Nat
    BY <1>4, ReadFailsType DEF HsReadErr, HostTypeOK
  <2> QED
    BY <1>4, <2>1, <2>2, HandshakeErrType DEF HsReadErr, HostTypeOK
<1> QED
  BY <1>1, <1>2, <1>3, <1>4

LEMMA LinkStutter == ASSUME LinkTypeOK, UNCHANGED linkVars PROVE LinkTypeOK'
BY DEF LinkTypeOK, linkVars, busVars, sensorVars

LEMMA SendStepType ==
    ASSUME TypeOK,
           SendCmd \/ Write \/ WriteErr \/ WriteNoDevice \/ ReopenOk \/ ReopenFails \/ GiveUp
    PROVE  TypeOK'
<1> USE DEF TypeOK
<1>1. CASE SendCmd
  <2>1. cmd + 1 \in Nat /\ rec \in Record
    BY DEF HostTypeOK
  <2>2. wire' \in Wire /\ rec' \in Record
    BY <1>1, <2>1, EncryptedType, AfterEncryptType DEF SendCmd
  <2>3. tries' \in 0..WriteTries /\ got' \in Seq(Nat)
    BY <1>1, TriesAssumption, EmptyPipe DEF SendCmd
  <2> QED
    BY <1>1, <2>1, <2>2, <2>3, LinkStutter DEF SendCmd, HostTypeOK, budgets
<1>2. CASE Write
  <2>1. epOut' \in Seq(Wire)
    BY <1>2, PutType DEF Write, HostTypeOK
  <2>2. LinkTypeOK'
    BY <1>2, <2>1, LinkUnchanged DEF Write, LinkTypeOK
  <2> QED
    BY <1>2, <2>2 DEF Write, HostTypeOK, hostVars, budgets
<1>3. CASE WriteErr
  <2>1. epOut' \in Seq(Wire) /\ faults' \in Nat /\ lates' \in Nat
    BY <1>3, WriteFaultType DEF WriteErr, HostTypeOK
  <2>2. LinkTypeOK'
    BY <1>3, <2>1, LinkUnchanged DEF WriteErr, LinkTypeOK
  <2>3. tries' \in 0..WriteTries
    BY <1>3, TriesAssumption DEF WriteErr, TriesLeft, Attempt, HostTypeOK
  <2> QED
    BY <1>3, <2>1, <2>2, <2>3 DEF WriteErr, NextAttempt, HostTypeOK
<1>4. CASE WriteNoDevice
  <2>1. tries' \in 0..WriteTries
    BY <1>4, TriesAssumption DEF WriteNoDevice, TriesLeft, Attempt, HostTypeOK
  <2> QED
    BY <1>4, <2>1, LinkStutter DEF WriteNoDevice, HostTypeOK, budgets
<1>5. CASE ReopenOk
  <2>1. handle' \in Nat
    BY <1>5 DEF ReopenOk, LinkTypeOK
  <2>2. rec' \in Record /\ hs' \in Handshake /\ pc' \in {"idle", "hsWrite", "write"}
    <3>1. CASE HpResume
      BY <1>5, <3>1 DEF ReopenOk, RolledBack, HostTypeOK
    <3>2. CASE ~HpResume /\ Recover
      BY <1>5, <3>2, StartHandshakeType DEF ReopenOk, HostTypeOK
    <3>3. CASE ~HpResume /\ ~Recover
      BY <1>5, <3>3 DEF ReopenOk, HostTypeOK
    <3> QED
      BY <3>1, <3>2, <3>3
  <2> QED
    BY <1>5, <2>1, <2>2, LinkStutter DEF ReopenOk, HostTypeOK, budgets
<1>6. CASE ReopenFails
  BY <1>6, LinkStutter DEF ReopenFails, HostTypeOK, hostVars, budgets
<1>7. CASE GiveUp
  BY <1>7, LinkStutter DEF GiveUp, HostTypeOK, budgets
<1> QED
  BY <1>1, <1>2, <1>3, <1>4, <1>5, <1>6, <1>7

LEMMA ReplyStepType ==
    ASSUME TypeOK, ReadReply \/ Return
    PROVE  TypeOK'
<1> USE DEF TypeOK
<1>1. CASE ReadReply
  <2>1. Head(epIn) \in Item /\ epIn' \in Seq(Item)
    BY <1>1, EpInHead DEF ReadReply
  <2>2. LinkTypeOK'
    BY <1>1, <2>1, LinkUnchanged DEF ReadReply, LinkTypeOK
  <2>3. cmd' \in Nat /\ hs' \in Handshake /\ nonce' \in Nat
          /\ faults' \in Nat /\ lates' \in Nat
    BY <1>1 DEF ReadReply, HostTypeOK, budgets
  <2>4. CASE Panics(Head(epIn))
    BY <1>1, <2>2, <2>3, <2>4, DieType DEF ReadReply, HostTypeOK
  <2>5. CASE ~Panics(Head(epIn))
    <3>1. rec' \in Record
      BY <1>1, <2>1, <2>5, AfterDecryptType DEF ReadReply, HostTypeOK
    <3>2. (IF Readable(rec, Head(epIn)) THEN Head(epIn).body ELSE Garbled) \in Nat
      BY <2>1 DEF Item, Garbled
    <3>3. PICK answer \in Nat : got' = Append(got, answer)
      BY <1>1, <2>5, <3>2, Zenon DEF ReadReply
    <3>4. got' \in Seq(Nat)
      BY <3>3 DEF HostTypeOK
    <3> QED
      BY <1>1, <2>2, <2>3, <2>5, <3>1, <3>4 DEF ReadReply, HostTypeOK
  <2> QED
    BY <2>4, <2>5
<1>2. CASE Return
  <2>1. faults' \in Nat /\ lates' \in Nat
    BY <1>2, ReadFailsType DEF Return, HostTypeOK, budgets
  <2> QED
    BY <1>2, <2>1, LinkStutter DEF Return, HostTypeOK, hostVars
<1> QED
  BY <1>1, <1>2

LEMMA ProcessStepType ==
    ASSUME TypeOK, Boot \/ RebuildReopen \/ RebuildOpen \/ RebuildFails
    PROVE  TypeOK'
<1> USE DEF TypeOK
<1>1. CASE Boot \/ RebuildOpen
  <2>1. epOut' \in Seq(Wire) /\ epIn' \in Seq(Item)
    BY <1>1, EmptyPipe DEF Boot, RebuildOpen
  <2>2. LinkTypeOK'
    BY <1>1, <2>1, LinkUnchanged DEF Boot, RebuildOpen
  <2>3. hs' \in Handshake /\ pc' = "hsWrite" /\ handle' \in Nat
    BY <1>1, StartHandshakeType DEF Boot, RebuildOpen, LinkTypeOK
  <2> QED
    BY <1>1, <2>2, <2>3 DEF Boot, RebuildOpen, HostTypeOK, budgets
<1>2. CASE RebuildReopen
  <2>1. hs' \in Handshake /\ pc' = "hsWrite" /\ handle' \in Nat
    BY <1>2, StartHandshakeType DEF RebuildReopen, LinkTypeOK
  <2> QED
    BY <1>2, <2>1, LinkStutter DEF RebuildReopen, HostTypeOK, budgets
<1>3. CASE RebuildFails
  BY <1>3, LinkStutter DEF RebuildFails, HostTypeOK, hostVars, budgets
<1> QED
  BY <1>1, <1>2, <1>3

LEMMA NextType == TypeOK /\ [Next]_vars => TypeOK'
<1> SUFFICES ASSUME TypeOK, [Next]_vars PROVE TypeOK'
  OBVIOUS
<1>1. CASE HostStep
  BY <1>1, HsStepType, SendStepType, ReplyStepType, ProcessStepType DEF HostStep
<1>2. CASE LinkStep /\ UNCHANGED <<pc, hostVars, budgets>>
  BY <1>2, LinkStepType DEF TypeOK, HostTypeOK, hostVars, budgets
<1>3. CASE UNCHANGED vars
  BY <1>3, LinkStutter DEF TypeOK, HostTypeOK, vars, hostVars, budgets
<1> QED
  BY <1>1, <1>2, <1>3 DEF Next, Finished

(* Every state of the exchange is well-typed: records, pipes, counters and *)
(* the control state of session.rs, usb.rs and capture.rs.                 *)
THEOREM TypeCorrect == Spec => []TypeOK
BY InitType, NextType, PTL DEF Spec

-----------------------------------------------------------------------------
(* What the operations on EP1 OUT do to the commands in it.                *)
LEMMA PutOther ==
    ASSUME TypeOK, NEW w \in Wire, w.kind # "data", Put(w)
    PROVE  Commands' = Commands /\ \A i \in Commands : epOut'[i] = epOut[i]
<1>1. epOut \in Seq(Wire)
  BY DEF TypeOK, LinkTypeOK
<1>2. /\ Len(epOut') = Len(epOut) + 1
      /\ epOut'[Len(epOut) + 1] = w
      /\ \A i \in 1..Len(epOut) : epOut'[i] = epOut[i]
  BY <1>1 DEF Put
<1> QED
  BY <1>1, <1>2 DEF Commands

LEMMA PutCommand ==
    ASSUME TypeOK, NEW w \in Wire, w.kind = "data", Put(w)
    PROVE  /\ Len(epOut) \in Nat
           /\ Commands' = Commands \cup {Len(epOut) + 1}
           /\ epOut'[Len(epOut) + 1] = w
           /\ \A i \in Commands : i \in 1..Len(epOut) /\ epOut'[i] = epOut[i]
<1>1. epOut \in Seq(Wire)
  BY DEF TypeOK, LinkTypeOK
<1>2. /\ Len(epOut') = Len(epOut) + 1
      /\ epOut'[Len(epOut) + 1] = w
      /\ \A i \in 1..Len(epOut) : epOut'[i] = epOut[i]
  BY <1>1 DEF Put
<1> QED
  BY <1>1, <1>2 DEF Commands

LEMMA TakeFirst ==
    ASSUME TypeOK, epOut # <<>>, epOut' = Tail(epOut)
    PROVE  /\ \A i \in Commands' : i \in Nat /\ i + 1 \in Commands /\ epOut'[i] = epOut[i + 1]
           /\ Incoming \in Wire
           /\ Incoming.kind = "data" => 1 \in Commands /\ Incoming = epOut[1]
<1>1. epOut \in Seq(Wire)
  BY DEF TypeOK, LinkTypeOK
<1>2. /\ Len(epOut) \in Nat \ {0} /\ Len(epOut') = Len(epOut) - 1
      /\ \A i \in 1..Len(epOut') : epOut'[i] = epOut[i + 1]
      /\ Incoming = epOut[1] /\ Incoming \in Wire
  BY <1>1 DEF Incoming
<1> QED
  BY <1>1, <1>2 DEF Commands

LEMMA EmptyOut ==
    ASSUME epOut' = <<>>
    PROVE  Commands' = {}
BY DEF Commands

(* When a step adds nothing to what is in play.                            *)
LEMMA InPlayShrinks ==
    ASSUME \A i \in Commands' : epOut'[i] \in InPlay,
           Sending' => Sending /\ wire' = wire
    PROVE  InPlay' \subseteq InPlay
BY DEF InPlay

LEMMA InPlayCommand ==
    ASSUME NEW i \in Commands
    PROVE  epOut[i] \in InPlay
BY DEF InPlay

LEMMA InPlayWire ==
    ASSUME Sending
    PROVE  wire \in InPlay
BY DEF InPlay

LEMMA SamePipe ==
    ASSUME epOut' = epOut, Sending' => Sending /\ wire' = wire
    PROVE  InPlay' \subseteq InPlay
<1>1. Commands' = Commands
  BY DEF Commands
<1> QED
  BY <1>1, InPlayCommand, InPlayShrinks

-----------------------------------------------------------------------------
(* The parts of the invariant that only speak of what is in play survive   *)
(* every step that puts nothing new in play and executes nothing.          *)
LEMMA SettledStep ==
    ASSUME TypeOK, ChannelInv,
           InPlay' \subseteq InPlay,
           UNCHANGED <<log, srv, nonce>>,
           rec'.sess[1] <= nonce, snap'.sess[1] <= nonce,
           (ses'.sess = ses.sess /\ ses'.rx = ses.rx) \/ ses' = NoSensorSession,
           neg' = neg \/ neg' = NoSession,
           pc' = "hsRead" /\ hs'.step = HelloStep => NonceUnused,
           InHandshake' /\ hs'.step = FlightStep =>
               hs'.rec.sess[1] = nonce /\ NonceUnused
    PROVE  OneNumber' /\ NotAgain' /\ FreshNonce' /\ FreshServerNonce'
<1> USE DEF ChannelInv
<1>1. Last' = Last
  BY DEF Last
<1>2. log # <<>> => Last.sess # NoSession
  BY DEF FreshServerNonce, NoSession
<1>3. ses' = NoSensorSession => ses'.sess = NoSession
  BY DEF NoSensorSession
<1>4. OneNumber'
  BY DEF OneNumber
<1>5. NotAgain'
  BY <1>1, <1>2, <1>3 DEF NotAgain
<1>6. NonceUnused => NonceUnused'
  BY <1>1 DEF NonceUnused
<1>7. FreshNonce'
  BY <1>1, <1>6 DEF FreshNonce
<1>8. FreshServerNonce'
  BY <1>1, <1>3 DEF FreshServerNonce
<1> QED
  BY <1>4, <1>5, <1>7, <1>8

(* The order of the commands, for each way the pipe can change.            *)
LEMMA OrderSame ==
    ASSUME InOrder, UNCHANGED <<epOut, log, cmd>>
    PROVE  InOrder'
BY DEF InOrder, Commands, Last

LEMMA OrderEmpty ==
    ASSUME InOrder, epOut' = <<>>, UNCHANGED <<log, cmd>>
    PROVE  InOrder'
BY EmptyOut DEF InOrder, Last

LEMMA OrderPutOther ==
    ASSUME TypeOK, InOrder, NEW w \in Wire, w.kind # "data", Put(w),
           UNCHANGED <<log, cmd>>
    PROVE  InOrder'
BY PutOther DEF InOrder, Last

LEMMA OrderPutCommand ==
    ASSUME TypeOK, InOrder, NEW w \in Wire, w.kind = "data", w.body = cmd, cmd > 0,
           Put(w), UNCHANGED <<log, cmd>>
    PROVE  InOrder'
<1>1. cmd \in Nat
  BY DEF TypeOK, HostTypeOK
<1> QED
  BY <1>1, PutCommand, SMTT(20) DEF InOrder, Last

LEMMA OrderTake ==
    ASSUME TypeOK, InOrder, epOut # <<>>, epOut' = Tail(epOut), UNCHANGED <<log, cmd>>
    PROVE  InOrder'
<1>1. \A i \in Commands' : i \in Nat /\ i + 1 \in Commands /\ epOut'[i] = epOut[i + 1]
  BY TakeFirst
<1>2. Last' = Last
  BY DEF Last
<1>3. \A i, j \in Commands' : i < j => epOut'[i].body <= epOut'[j].body
  <2> SUFFICES ASSUME NEW i \in Commands', NEW j \in Commands', i < j
               PROVE  epOut'[i].body <= epOut'[j].body
    OBVIOUS
  <2>1. i + 1 \in Commands /\ j + 1 \in Commands /\ i + 1 < j + 1
    BY <1>1
  <2> QED
    BY <1>1, <2>1 DEF InOrder
<1> QED
  BY <1>1, <1>2, <1>3 DEF InOrder

(* The record that is executed becomes the last in the log, and those      *)
(* behind it in the pipe are not older.                                    *)
LEMMA OrderExecute ==
    ASSUME TypeOK, InOrder, epOut # <<>>, epOut' = Tail(epOut),
           Incoming.kind = "data",
           log' = Append(log, [sess |-> ses.sess, cmd |-> Incoming.body]),
           cmd' = cmd
    PROVE  InOrder' /\ log' # <<>> /\ Last' = [sess |-> ses.sess, cmd |-> Incoming.body]
<1>1. \A i \in Commands' : i \in Nat /\ i + 1 \in Commands /\ epOut'[i] = epOut[i + 1]
  BY TakeFirst
<1>2. 1 \in Commands /\ Incoming = epOut[1]
  BY TakeFirst
<1>3. log' # <<>> /\ Last' = [sess |-> ses.sess, cmd |-> Incoming.body]
  <2> DEFINE e == [sess |-> ses.sess, cmd |-> Incoming.body]
  <2>1. e \in Executed
    BY TakeFirst DEF Executed, Wire, TypeOK, LinkTypeOK, SensorSession
  <2>2. log \in Seq(Executed) /\ log' = Append(log, e)
    BY DEF TypeOK, LinkTypeOK
  <2> HIDE DEF e
  <2>3. log' # <<>> /\ log'[Len(log')] = e
    BY <2>1, <2>2
  <2> QED
    BY <2>3 DEF e, Last
<1>4. \A i, j \in Commands' : i < j => epOut'[i].body <= epOut'[j].body
  <2> SUFFICES ASSUME NEW i \in Commands', NEW j \in Commands', i < j
               PROVE  epOut'[i].body <= epOut'[j].body
    OBVIOUS
  <2>1. i + 1 \in Commands /\ j + 1 \in Commands /\ i + 1 < j + 1
    BY <1>1
  <2> QED
    BY <1>1, <2>1 DEF InOrder
<1>5. \A i \in Commands' : Last'.cmd <= epOut'[i].body
  <2> SUFFICES ASSUME NEW i \in Commands' PROVE Last'.cmd <= epOut'[i].body
    OBVIOUS
  <2>1. i \in 1..Len(epOut')
    BY DEF Commands
  <2>2. 1 < i + 1 /\ i + 1 \in Commands
    BY <1>1, <2>1
  <2> QED
    BY <1>1, <1>2, <1>3, <2>2 DEF InOrder
<1> QED
  BY <1>1, <1>2, <1>3, <1>4, <1>5 DEF InOrder

-----------------------------------------------------------------------------
(* A write that puts no command in the pipe but the one being sent.        *)
Calm ==
    \/ epOut' = epOut
    \/ \E w \in Wire : w.kind # "data" /\ Put(w)
    \/ Sending /\ Put(wire)

LEMMA CalmInPlay ==
    ASSUME TypeOK, ChannelInv, Calm, Sending' => Sending /\ wire' = wire
    PROVE  InPlay' \subseteq InPlay
<1>1. CASE epOut' = epOut
  BY <1>1, SamePipe
<1>2. ASSUME NEW w \in Wire, w.kind # "data", Put(w)
      PROVE  InPlay' \subseteq InPlay
  BY <1>2, PutOther, InPlayCommand, InPlayShrinks
<1>3. CASE Sending /\ Put(wire)
  <2>1. wire \in Wire /\ wire.kind = "data"
    BY <1>3 DEF TypeOK, HostTypeOK, ChannelInv, WireCurrent
  <2>2. \A i \in Commands' : epOut'[i] = wire \/ (i \in Commands /\ epOut'[i] = epOut[i])
    BY <1>3, <2>1, PutCommand
  <2>3. \A i \in Commands' : epOut'[i] \in InPlay
    BY <1>3, <2>2, InPlayCommand, InPlayWire
  <2> QED
    BY <2>3, InPlayShrinks
<1> QED
  BY <1>1, <1>2, <1>3 DEF Calm

LEMMA CalmOrder ==
    ASSUME TypeOK, ChannelInv, Calm, UNCHANGED <<log, cmd>>
    PROVE  InOrder'
<1> USE DEF ChannelInv
<1>1. CASE epOut' = epOut
  BY <1>1, OrderSame
<1>2. ASSUME NEW w \in Wire, w.kind # "data", Put(w)
      PROVE  InOrder'
  BY <1>2, OrderPutOther
<1>3. CASE Sending /\ Put(wire)
  <2>1. wire \in Wire /\ wire.kind = "data" /\ wire.body = cmd /\ cmd > 0
    BY <1>3 DEF TypeOK, HostTypeOK, WireCurrent
  <2> QED
    BY <1>3, <2>1, OrderPutCommand
<1> QED
  BY <1>1, <1>2, <1>3 DEF Calm

(* A calm step that leaves the sensor and the counters alone.              *)
LEMMA CalmStep ==
    ASSUME TypeOK, ChannelInv, Calm,
           UNCHANGED <<log, cmd, srv, nonce, ses, neg>>,
           Sending' => Sending /\ wire' = wire,
           rec'.sess[1] <= nonce, snap'.sess[1] <= nonce,
           pc' = "hsRead" /\ hs'.step = HelloStep => NonceUnused,
           InHandshake' /\ hs'.step = FlightStep =>
               hs'.rec.sess[1] = nonce /\ NonceUnused
    PROVE  ChannelInv'
<1>1. InPlay' \subseteq InPlay
  BY CalmInPlay
<1>2. OneNumber' /\ NotAgain' /\ FreshNonce' /\ FreshServerNonce'
  BY <1>1, SettledStep
<1>3. InOrder'
  BY CalmOrder
<1>4. WireCurrent'
  BY DEF ChannelInv, WireCurrent
<1> QED
  BY <1>2, <1>3, <1>4 DEF ChannelInv

(* A step that empties the pipes and stops every sending.                  *)
LEMMA EmptyingStep ==
    ASSUME TypeOK, ChannelInv,
           epOut' = <<>>, UNCHANGED <<log, cmd, srv, nonce>>,
           Sending' => Sending /\ wire' = wire,
           rec'.sess[1] <= nonce, snap'.sess[1] <= nonce,
           ses' = ses \/ ses' = NoSensorSession,
           neg' = neg \/ neg' = NoSession,
           pc' = "hsRead" /\ hs'.step = HelloStep => NonceUnused,
           InHandshake' /\ hs'.step = FlightStep =>
               hs'.rec.sess[1] = nonce /\ NonceUnused
    PROVE  ChannelInv'
<1>1. InPlay' \subseteq InPlay
  BY EmptyOut, InPlayShrinks
<1>2. OneNumber' /\ NotAgain' /\ FreshNonce' /\ FreshServerNonce'
  BY <1>1, SettledStep
<1>3. InOrder'
  BY OrderEmpty DEF ChannelInv
<1>4. WireCurrent'
  BY DEF ChannelInv, WireCurrent
<1> QED
  BY <1>2, <1>3, <1>4 DEF ChannelInv

(* The nonces of what the host holds are numbers.                          *)
LEMMA NonceTypes ==
    ASSUME TypeOK
    PROVE  /\ nonce \in Nat
           /\ rec.sess[1] \in Nat /\ snap.sess[1] \in Nat /\ hs.rec.sess[1] \in Nat
           /\ \A w \in Wire : w.sess[1] \in Nat
<1>1. \A t \in Session : t[1] \in Nat
  BY DEF Session
<1>2. rec.sess \in Session /\ snap.sess \in Session /\ hs.rec.sess \in Session
  BY DEF TypeOK, HostTypeOK, Handshake, Record
<1>3. \A w \in Wire : w.sess \in Session
  BY DEF Wire
<1> QED
  BY <1>1, <1>2, <1>3 DEF TypeOK, HostTypeOK

LEMMA NoRecordNonce == NoRecord.sess[1] = 0
BY DEF NoRecord, NewRecord, NoSession

(* The largest nonce in anything there is.                                 *)
LEMMA NoncesDrawn ==
    ASSUME TypeOK, ChannelInv, InPlay' \subseteq InPlay, log' = log, nonce' = nonce + 1
    PROVE  /\ \A w \in InPlay' : w.sess[1] \in Nat /\ w.sess[1] <= nonce
           /\ log' # <<>> => Last'.sess[1] \in Nat /\ Last'.sess[1] <= nonce
           /\ NonceUnused' /\ nonce \in Nat
<1> USE DEF ChannelInv
<1>1. \A w \in InPlay' : w.sess[1] \in Nat /\ w.sess[1] <= nonce
  <2>1. InPlay \subseteq Wire
    BY DEF InPlay, Commands, TypeOK, LinkTypeOK, HostTypeOK
  <2> QED
    BY <2>1, NonceTypes DEF FreshNonce
<1>2. log' # <<>> => Last'.sess[1] \in Nat /\ Last'.sess[1] <= nonce
  <2>1. log # <<>> => Last \in Executed
    BY DEF Last, TypeOK, LinkTypeOK
  <2>2. log # <<>> => Last.sess[1] \in Nat
    BY <2>1 DEF Executed, Session
  <2>3. Last' = Last
    BY DEF Last
  <2> QED
    BY <2>2, <2>3 DEF FreshNonce
<1>3. nonce \in Nat
  BY NonceTypes
<1>4. NonceUnused'
  BY <1>1, <1>2, <1>3 DEF NonceUnused
<1> QED
  BY <1>1, <1>2, <1>3, <1>4

LEMMA DieCalm ==
    ASSUME TypeOK, ChannelInv, Die, Calm,
           UNCHANGED <<log, cmd, srv, nonce, ses, neg>>
    PROVE  ChannelInv'
<1>1. ~Sending' /\ ~InHandshake' /\ pc' # "hsRead"
  BY DEF Die, Sending, InHandshake
<1>2. rec'.sess[1] <= nonce /\ snap'.sess[1] <= nonce
  BY NonceTypes, NoRecordNonce DEF Die
<1> QED
  BY <1>1, <1>2, CalmStep

(* handshake returns an error.                                             *)
LEMMA HandshakeErrCalm ==
    ASSUME TypeOK, ChannelInv, InHandshake, HandshakeErr, Calm,
           UNCHANGED <<log, cmd, srv, nonce, ses, neg>>
    PROVE  ChannelInv'
<1>1. CASE hs.ret = "boot"
  BY <1>1, DieCalm DEF HandshakeErr
<1>2. CASE hs.ret # "boot"
  <2>1. pc' \in {"write", "idle"} /\ UNCHANGED <<rec, snap, wire>>
    BY <1>2 DEF HandshakeErr
  <2>2. pc' = "write" => hs.ret = "send"
    BY <1>2 DEF HandshakeErr
  <2>3. Sending' => Sending /\ wire' = wire
    BY <2>1, <2>2 DEF Sending, InHandshake
  <2>4. rec'.sess[1] <= nonce /\ snap'.sess[1] <= nonce
    BY <2>1 DEF ChannelInv, FreshNonce
  <2>5. ~InHandshake' /\ pc' # "hsRead"
    BY <2>1 DEF InHandshake
  <2> QED
    BY <2>3, <2>4, <2>5, CalmStep
<1> QED
  BY <1>1, <1>2

(* A handshake begins, for a send or to rebuild the session.               *)
LEMMA StartCalm ==
    ASSUME TypeOK, ChannelInv, NEW ret, StartHandshake(ret),
           ret = "send" => Sending,
           UNCHANGED <<wire, rec, snap, log, cmd, srv, nonce, ses, neg>>,
           epOut' = epOut \/ epOut' = <<>>
    PROVE  ChannelInv'
<1>1. pc' = "hsWrite" /\ hs'.ret = ret /\ hs'.step = 1
  BY DEF StartHandshake
<1>2. Sending' => Sending /\ wire' = wire
  BY <1>1 DEF Sending, InHandshake
<1>3. hs'.step # FlightStep /\ pc' # "hsRead"
  BY <1>1, NInitAssumption DEF FlightStep
<1>4. rec'.sess[1] <= nonce /\ snap'.sess[1] <= nonce
  BY DEF ChannelInv, FreshNonce
<1>5. CASE epOut' = epOut
  BY <1>2, <1>3, <1>4, <1>5, CalmStep DEF Calm
<1>6. CASE epOut' = <<>>
  BY <1>2, <1>3, <1>4, <1>6, EmptyingStep
<1> QED
  BY <1>5, <1>6

LEMMA AfterDecryptSession ==
    ASSUME NEW r \in Record, NEW item
    PROVE  AfterDecrypt(r, item).sess = r.sess
BY DEF AfterDecrypt, Record

(* Steps of a send that change neither the pipe nor what is being sent.    *)
LEMMA SendCalm ==
    ASSUME TypeOK, ChannelInv,
           WriteNoDevice \/ ReopenOk \/ ReopenFails \/ GiveUp
    PROVE  ChannelInv'
<1>1. rec.sess[1] <= nonce /\ snap.sess[1] <= nonce
  BY DEF ChannelInv, FreshNonce
<1>2. CASE WriteNoDevice \/ ReopenFails \/ GiveUp
  <2>1. /\ UNCHANGED <<epOut, log, cmd, srv, nonce, ses, neg, rec, snap, wire>>
        /\ pc \in {"write", "reopen"} /\ pc' \in {"reopen", "write", "failed"}
    BY <1>2 DEF WriteNoDevice, ReopenFails, GiveUp, linkVars, sensorVars, hostVars
  <2>2. Sending /\ ~InHandshake' /\ pc' # "hsRead"
    BY <2>1 DEF Sending, InHandshake
  <2> QED
    BY <1>1, <2>1, <2>2, CalmStep DEF Calm
<1>3. CASE ReopenOk
  <2>1. /\ UNCHANGED <<epOut, log, cmd, srv, nonce, ses, neg, snap, wire>>
        /\ pc = "reopen" /\ Sending
    BY <1>3 DEF ReopenOk, linkVars, sensorVars, Sending
  <2>2. CASE HpResume
    <3>1. rec' = snap /\ pc' = "idle"
      BY <1>3, <2>2 DEF ReopenOk, RolledBack
    <3>2. ~Sending' /\ ~InHandshake' /\ pc' # "hsRead"
      BY <3>1 DEF Sending, InHandshake
    <3> QED
      BY <1>1, <2>1, <3>1, <3>2, CalmStep DEF Calm
  <2>3. CASE ~HpResume /\ Recover
    <3>1. StartHandshake("send") /\ UNCHANGED rec
      BY <1>3, <2>3 DEF ReopenOk
    <3> QED
      BY <2>1, <3>1, StartCalm
  <2>4. CASE ~HpResume /\ ~Recover
    <3>1. pc' = "write" /\ UNCHANGED <<rec, hs>>
      BY <1>3, <2>4 DEF ReopenOk
    <3>2. ~InHandshake' /\ pc' # "hsRead"
      BY <3>1 DEF InHandshake
    <3> QED
      BY <1>1, <2>1, <3>1, <3>2, CalmStep DEF Calm
  <2> QED
    BY <2>2, <2>3, <2>4
<1> QED
  BY <1>2, <1>3

LEMMA ReplyCalm ==
    ASSUME TypeOK, ChannelInv, ReadReply \/ Return
    PROVE  ChannelInv'
<1>1. rec.sess[1] <= nonce /\ snap.sess[1] <= nonce
  BY DEF ChannelInv, FreshNonce
<1>2. CASE ReadReply
  <2>1. /\ UNCHANGED <<epOut, log, cmd, srv, nonce, ses, neg>>
        /\ pc = "collect"
    BY <1>2 DEF ReadReply, sensorVars
  <2>2. CASE Panics(Head(epIn))
    BY <1>2, <2>1, <2>2, DieCalm DEF ReadReply, Calm
  <2>3. CASE ~Panics(Head(epIn))
    <3>1. rec' = AfterDecrypt(rec, Head(epIn)) /\ UNCHANGED <<pc, snap, wire>>
      BY <1>2, <2>3 DEF ReadReply
    <3>2. rec'.sess[1] <= nonce
      BY <1>1, <3>1, AfterDecryptSession DEF TypeOK, HostTypeOK
    <3>3. ~Sending' /\ ~InHandshake' /\ pc' # "hsRead"
      BY <2>1, <3>1 DEF Sending, InHandshake
    <3> QED
      BY <1>1, <2>1, <3>1, <3>2, <3>3, CalmStep DEF Calm
  <2> QED
    BY <2>2, <2>3
<1>3. CASE Return
  <2>1. /\ UNCHANGED <<epOut, log, cmd, srv, nonce, ses, neg, rec, snap, wire>>
        /\ pc' = "idle"
    BY <1>3 DEF Return, linkVars, sensorVars, hostVars
  <2>2. ~Sending' /\ ~InHandshake' /\ pc' # "hsRead"
    BY <2>1 DEF Sending, InHandshake
  <2> QED
    BY <1>1, <2>1, <2>2, CalmStep DEF Calm
<1> QED
  BY <1>2, <1>3

LEMMA ProcessCalm ==
    ASSUME TypeOK, ChannelInv, Boot \/ RebuildReopen \/ RebuildOpen \/ RebuildFails
    PROVE  ChannelInv'
<1>1. CASE Boot
  BY <1>1, StartCalm DEF Boot, sensorVars
<1>2. CASE RebuildReopen
  BY <1>2, StartCalm DEF RebuildReopen, linkVars, sensorVars
<1>3. CASE RebuildOpen
  BY <1>3, StartCalm DEF RebuildOpen, sensorVars
<1>4. CASE RebuildFails
  <2>1. /\ UNCHANGED <<epOut, log, cmd, srv, nonce, ses, neg, rec, snap, wire>>
        /\ pc' = "idle"
    BY <1>4 DEF RebuildFails, linkVars, sensorVars, hostVars
  <2>2. ~Sending' /\ ~InHandshake' /\ pc' # "hsRead"
    BY <2>1 DEF Sending, InHandshake
  <2>3. rec'.sess[1] <= nonce /\ snap'.sess[1] <= nonce
    BY <2>1 DEF ChannelInv, FreshNonce
  <2> QED
    BY <2>1, <2>2, <2>3, CalmStep DEF Calm
<1> QED
  BY <1>1, <1>2, <1>3, <1>4

(* The host writes to the sensor.                                          *)
LEMMA WriteCalm ==
    ASSUME TypeOK, ChannelInv, Write \/ WriteErr
    PROVE  ChannelInv'
<1>1. /\ UNCHANGED <<log, cmd, srv, nonce, ses, neg, rec, snap, wire>>
      /\ pc = "write" /\ pc' \in {"write", "collect"}
  BY DEF Write, WriteErr, NextAttempt, sensorVars, hostVars
<1>2. Sending /\ ~InHandshake' /\ pc' # "hsRead"
  BY <1>1 DEF Sending, InHandshake
<1>3. Calm
  BY <1>2 DEF Write, WriteErr, WriteFault, Calm
<1>4. rec'.sess[1] <= nonce /\ snap'.sess[1] <= nonce
  BY <1>1 DEF ChannelInv, FreshNonce
<1> QED
  BY <1>1, <1>2, <1>3, <1>4, CalmStep

LEMMA HsMessageOther ==
    ASSUME TypeOK
    PROVE  HsMessage \in Wire /\ HsMessage.kind # "data"
<1>1. hs.step \in 1..FlightStep
  BY DEF TypeOK, HostTypeOK, Handshake
<1>2. HsMessage.kind \in {"init", "hello", "flight"}
  BY <1>1, NInitAssumption DEF HsMessage, HelloStep, FlightStep, Plain, Encrypted
<1> QED
  BY <1>2, HsMessageType DEF TypeOK

(* ClientHello draws a new nonce: everything in play was made before it.   *)
LEMMA HsWriteStep ==
    ASSUME TypeOK, ChannelInv, HsWrite
    PROVE  ChannelInv'
<1>1. /\ UNCHANGED <<log, cmd, srv, ses, neg, rec, snap, wire>>
      /\ pc = "hsWrite" /\ pc' = "hsRead"
      /\ nonce' = IF hs.step = HelloStep THEN nonce + 1 ELSE nonce
  BY DEF HsWrite, NonceDrawn, sensorVars
<1>2. hs' = hs \/ hs' = [hs EXCEPT !.rec = AfterEncrypt(hs.rec, 0)]
  BY DEF HsWrite
<1>3. /\ hs'.step = hs.step /\ hs'.ret = hs.ret
      /\ hs'.rec.sess = hs.rec.sess
  <2>1. hs \in Handshake /\ hs.rec \in Record
    BY DEF TypeOK, HostTypeOK, Handshake
  <2>2. AfterEncrypt(hs.rec, 0).sess = hs.rec.sess
    BY DEF AfterEncrypt
  <2> QED
    BY <1>2, <2>1, <2>2 DEF Handshake
<1>4. Sending' => Sending /\ wire' = wire
  BY <1>1, <1>3 DEF Sending, InHandshake
<1>5. Calm
  BY HsMessageOther DEF HsWrite, Calm
<1>6. InHandshake /\ HelloStep # FlightStep
  BY <1>1, NInitAssumption DEF InHandshake, HelloStep, FlightStep
<1>7. CASE hs.step # HelloStep
  <2>1. nonce' = nonce /\ hs'.step # HelloStep
    BY <1>1, <1>3, <1>7
  <2>2. InHandshake' /\ hs'.step = FlightStep => hs'.rec.sess[1] = nonce /\ NonceUnused
    BY <1>3, <1>6 DEF ChannelInv, FreshNonce
  <2>3. rec'.sess[1] <= nonce /\ snap'.sess[1] <= nonce
    BY <1>1 DEF ChannelInv, FreshNonce
  <2> QED
    BY <1>1, <1>4, <1>5, <2>1, <2>2, <2>3, CalmStep
<1>8. CASE hs.step = HelloStep
  <2> USE DEF ChannelInv
  <2>1. nonce \in Nat /\ nonce' = nonce + 1 /\ hs'.step # FlightStep
    BY <1>1, <1>3, <1>6, <1>8, NonceTypes
  <2>2. InPlay' \subseteq InPlay /\ InOrder'
    BY <1>1, <1>4, <1>5, CalmInPlay, CalmOrder
  <2>3. Last' = Last
    BY <1>1 DEF Last
  <2>4. OneNumber' /\ NotAgain' /\ FreshServerNonce'
    BY <1>1, <2>2, <2>3 DEF OneNumber, NotAgain, FreshServerNonce
  <2>5. /\ \A w \in InPlay' : w.sess[1] \in Nat /\ w.sess[1] <= nonce
        /\ log' # <<>> => Last'.sess[1] \in Nat /\ Last'.sess[1] <= nonce
        /\ NonceUnused'
    BY <1>1, <2>1, <2>2, NoncesDrawn
  <2>8. rec'.sess[1] <= nonce' /\ snap'.sess[1] <= nonce'
    BY <1>1, <2>1, NonceTypes DEF FreshNonce
  <2>9. FreshNonce'
    BY <2>1, <2>5, <2>8 DEF FreshNonce
  <2>10. WireCurrent'
    BY <1>1, <1>4 DEF WireCurrent
  <2> QED
    BY <2>2, <2>4, <2>9, <2>10
<1> QED
  BY <1>7, <1>8

(* The hello that could not be written has drawn a nonce all the same.     *)
LEMMA HelloNotWritten ==
    ASSUME TypeOK, ChannelInv, InHandshake, HandshakeErr, Calm,
           UNCHANGED <<log, cmd, srv, ses, neg>>, nonce' = nonce + 1
    PROVE  ChannelInv'
<1> USE DEF ChannelInv
<1>1. ~InHandshake' /\ pc' # "hsRead"
  BY DEF HandshakeErr, Die, InHandshake
<1>2. Sending' => Sending /\ wire' = wire
  BY DEF HandshakeErr, Die, Sending, InHandshake
<1>3. rec' \in {rec, NoRecord} /\ snap' \in {snap, NoRecord}
  BY DEF HandshakeErr, Die
<1>4. nonce \in Nat /\ rec'.sess[1] <= nonce' /\ snap'.sess[1] <= nonce'
  BY <1>3, NonceTypes, NoRecordNonce DEF FreshNonce
<1>5. InPlay' \subseteq InPlay /\ InOrder'
  BY <1>2, CalmInPlay, CalmOrder
<1>6. Last' = Last
  BY DEF Last
<1>7. OneNumber' /\ NotAgain' /\ FreshServerNonce'
  BY <1>5, <1>6 DEF OneNumber, NotAgain, FreshServerNonce
<1>8. FreshNonce'
  BY <1>1, <1>4, <1>5, NoncesDrawn DEF FreshNonce
<1>9. WireCurrent'
  BY <1>2 DEF WireCurrent
<1> QED
  BY <1>5, <1>7, <1>8, <1>9

LEMMA HsErrStep ==
    ASSUME TypeOK, ChannelInv, HsWriteErr \/ HsReadErr
    PROVE  ChannelInv'
<1>1. CASE HsWriteErr
  <2>1. /\ UNCHANGED <<log, cmd, srv, ses, neg>>
        /\ nonce' = nonce \/ nonce' = nonce + 1
        /\ InHandshake /\ HandshakeErr
    BY <1>1 DEF HsWriteErr, NonceDrawn, HandshakeErr, sensorVars, InHandshake
  <2>2. Calm
    BY <1>1, HsMessageOther DEF HsWriteErr, WriteFault, Calm
  <2> QED
    BY <2>1, <2>2, HandshakeErrCalm, HelloNotWritten
<1>2. CASE HsReadErr
  BY <1>2, HandshakeErrCalm
     DEF HsReadErr, HandshakeErr, linkVars, sensorVars, InHandshake, Calm
<1> QED
  BY <1>1, <1>2

-----------------------------------------------------------------------------
(* A command is encrypted: the new record joins those in the pipe.         *)
LEMMA NewWireInPlay ==
    ASSUME epOut' = epOut, NEW w \in InPlay', w # wire'
    PROVE  w \in InPlay /\ \E i \in Commands : w = epOut[i]
<1>1. Commands' = Commands
  BY DEF Commands
<1> QED
  BY <1>1 DEF InPlay

(* After a handshake in the middle of a send: the new session's nonce is   *)
(* newer than everything else in play, and than what was executed last.    *)
LEMMA ResendStep ==
    ASSUME TypeOK, ChannelInv, InHandshake, hs.step = FlightStep, hs.ret = "send",
           NEW new \in Record, new.sess = hs.rec.sess, HandshakeOk(new),
           UNCHANGED <<epOut, log, srv, nonce, ses, neg>>
    PROVE  ChannelInv'
<1> USE DEF ChannelInv
<1>1. /\ wire' = Encrypted(new, "data", cmd) /\ rec' = AfterEncrypt(new, cmd)
      /\ pc' = "write" /\ UNCHANGED <<snap, cmd>>
  BY DEF HandshakeOk
<1>2. wire'.kind = "data" /\ wire'.body = cmd /\ wire'.sess = new.sess
  BY <1>1 DEF Encrypted
<1>3. rec'.sess = new.sess
  BY <1>1 DEF AfterEncrypt
<1>4. new.sess[1] = nonce /\ NonceUnused /\ nonce \in Nat
  BY NonceTypes DEF FreshNonce
<1>5. Last' = Last
  BY DEF Last
<1>6. \A w \in InPlay' : w = wire' \/ (w \in InPlay /\ w.sess # new.sess)
  BY <1>4, NewWireInPlay DEF NonceUnused
<1>7. WireCurrent'
  BY <1>1, <1>2 DEF WireCurrent, Sending
<1>8. InOrder'
  BY <1>1, OrderSame
<1>9. OneNumber'
  BY <1>2, <1>6 DEF OneNumber
<1>10. log # <<>> => Last.sess # new.sess
  BY <1>4 DEF NonceUnused
<1>11. NotAgain'
  BY <1>2, <1>5, <1>6, <1>10 DEF NotAgain
<1>12. FreshNonce'
  <2>1. ~InHandshake' /\ pc' # "hsRead"
    BY <1>1 DEF InHandshake
  <2>2. \A w \in InPlay' : w.sess[1] <= nonce
    BY <1>2, <1>4, <1>6 DEF FreshNonce
  <2> QED
    BY <1>1, <1>3, <1>4, <1>5, <2>1, <2>2 DEF FreshNonce
<1>13. FreshServerNonce'
  BY <1>5 DEF FreshServerNonce
<1> QED
  BY <1>7, <1>8, <1>9, <1>11, <1>12, <1>13

(* A new command is newer than everything in play and executed.            *)
LEMMA SendCmdStep ==
    ASSUME TypeOK, ChannelInv, SendCmd
    PROVE  ChannelInv'
<1> USE DEF ChannelInv
<1>1. /\ cmd \in Nat /\ cmd' = cmd + 1
      /\ wire' = Encrypted(rec, "data", cmd + 1) /\ rec' = AfterEncrypt(rec, cmd + 1)
      /\ snap' = rec /\ pc' = "write"
      /\ UNCHANGED <<epOut, log, srv, nonce, ses, neg>>
  BY DEF SendCmd, linkVars, sensorVars, TypeOK, HostTypeOK
<1>2. wire'.kind = "data" /\ wire'.body = cmd + 1 /\ wire'.sess = rec.sess
  BY <1>1 DEF Encrypted
<1>3. rec'.sess = rec.sess
  BY <1>1 DEF AfterEncrypt
<1>4. Last' = Last /\ Commands' = Commands
  BY <1>1 DEF Last, Commands
<1>5. \A w \in InPlay' : w = wire' \/ (w \in InPlay /\ w.body \in 1..cmd)
  BY <1>1, NewWireInPlay DEF InOrder
<1>6. WireCurrent'
  BY <1>1, <1>2 DEF WireCurrent, Sending
<1>7. InOrder'
  BY <1>1, <1>4 DEF InOrder
<1>8. OneNumber'
  <2> SUFFICES ASSUME NEW v \in InPlay', NEW w \in InPlay', v.sess = w.sess, v.body = w.body
               PROVE  v.seq = w.seq
    BY DEF OneNumber
  <2>1. CASE v = wire' \/ w = wire'
    BY <1>1, <1>2, <1>5, <2>1
  <2>2. CASE v # wire' /\ w # wire'
    BY <1>5, <2>2 DEF OneNumber
  <2> QED
    BY <2>1, <2>2
<1>9. NotAgain'
  <2>1. log # <<>> => wire'.body # Last.cmd
    BY <1>1, <1>2 DEF InOrder
  <2> QED
    BY <1>1, <1>4, <1>5, <2>1 DEF NotAgain
<1>10. FreshNonce'
  <2>1. ~InHandshake' /\ pc' # "hsRead"
    BY <1>1 DEF InHandshake
  <2>2. \A w \in InPlay' : w.sess[1] <= nonce
    BY <1>2, <1>5 DEF FreshNonce
  <2> QED
    BY <1>1, <1>3, <1>4, <2>1, <2>2 DEF FreshNonce
<1>11. FreshServerNonce'
  BY <1>1, <1>4 DEF FreshServerNonce
<1> QED
  BY <1>6, <1>7, <1>8, <1>9, <1>10, <1>11

LEMMA HsReadStep ==
    ASSUME TypeOK, ChannelInv, HsRead
    PROVE  ChannelInv'
<1> DEFINE item == Head(epIn)
<1>1. /\ pc = "hsRead" /\ InHandshake
      /\ UNCHANGED <<epOut, log, srv, nonce, ses, neg>>
  BY DEF HsRead, sensorVars, InHandshake
<1>2. rec.sess[1] <= nonce /\ snap.sess[1] <= nonce
  BY DEF ChannelInv, FreshNonce
<1>3. hs.step \in 1..FlightStep
  BY DEF TypeOK, HostTypeOK, Handshake
<1>4. CASE HsReadInit(item)
  <2>1. /\ hs'.step = hs.step + 1 /\ hs.step <= NInit /\ hs'.ret = hs.ret
        /\ pc' = "hsWrite" /\ UNCHANGED <<rec, snap, wire, cmd>>
    BY <1>4 DEF HsReadInit, Advance
  <2>2. hs'.step # FlightStep
    BY <1>3, <2>1, NInitAssumption DEF FlightStep
  <2>3. Sending' => Sending /\ wire' = wire
    BY <1>1, <2>1 DEF Sending, InHandshake
  <2> QED
    BY <1>1, <1>2, <2>1, <2>2, <2>3, CalmStep DEF Calm
<1>5. CASE HsReadServerHello(item)
  <2>1. /\ hs'.rec = NewRecord(<<nonce, ServerNonce(item)>>) /\ hs.step = HelloStep
        /\ hs'.ret = hs.ret /\ pc' = "hsWrite" /\ UNCHANGED <<rec, snap, wire, cmd>>
    BY <1>5 DEF HsReadServerHello, Advance
  <2>2. hs'.rec.sess[1] = nonce
    BY <2>1 DEF NewRecord
  <2>3. NonceUnused
    BY <1>1, <2>1 DEF ChannelInv, FreshNonce
  <2>4. Sending' => Sending /\ wire' = wire
    BY <1>1, <2>1 DEF Sending, InHandshake
  <2> QED
    BY <1>1, <1>2, <2>1, <2>2, <2>3, <2>4, CalmStep DEF Calm
<1>6. CASE HsReadShortHello(item)
  BY <1>1, <1>6, HandshakeErrCalm DEF HsReadShortHello, HandshakeErr, Calm
<1>7. CASE HsReadFlight(item)
  <2>1. \/ HandshakeOk(AfterDecrypt(hs.rec, item))
        \/ Die /\ UNCHANGED <<hs, cmd>>
        \/ HandshakeErr
    BY <1>7 DEF HsReadFlight
  <2>2. hs.rec \in Record /\ hs.step = FlightStep /\ item \in Item
    BY <1>7, EpInHead DEF HsReadFlight, HsRead, TypeOK, HostTypeOK, Handshake
  <2>3. CASE HandshakeOk(AfterDecrypt(hs.rec, item))
    <3> DEFINE new == AfterDecrypt(hs.rec, item)
    <3>1. new \in Record /\ new.sess = hs.rec.sess
      BY <2>2, AfterDecryptType, AfterDecryptSession
    <3>2. CASE hs.ret = "send"
      BY <1>1, <2>2, <2>3, <3>1, <3>2, ResendStep
    <3>3. CASE hs.ret # "send"
      <4>1. rec' = new /\ pc' = "idle" /\ UNCHANGED <<wire, snap, cmd>>
        BY <2>3, <3>3 DEF HandshakeOk
      <4>2. hs.rec.sess[1] = nonce
        BY <1>1, <2>2 DEF ChannelInv, FreshNonce
      <4>3. rec'.sess[1] <= nonce
        BY <3>1, <4>1, <4>2, NonceTypes
      <4>4. ~Sending' /\ ~InHandshake' /\ pc' # "hsRead"
        BY <4>1 DEF Sending, InHandshake
      <4> QED
        BY <1>1, <1>2, <4>1, <4>3, <4>4, CalmStep DEF Calm
    <3> QED
      BY <3>2, <3>3
  <2>4. CASE Die /\ UNCHANGED <<hs, cmd>>
    BY <1>1, <2>4, DieCalm DEF Calm
  <2>5. CASE HandshakeErr
    BY <1>1, <2>5, HandshakeErrCalm DEF HandshakeErr, Calm
  <2> QED
    BY <2>1, <2>3, <2>4, <2>5
<1> QED
  BY <1>4, <1>5, <1>6, <1>7 DEF HsRead

-----------------------------------------------------------------------------
(* What a step of the bus or the sensor leaves to the host.                *)
HostStill == UNCHANGED <<pc, rec, snap, wire, cmd, hs, nonce>>

LEMMA HostStillFacts ==
    ASSUME ChannelInv, HostStill
    PROVE  /\ Sending' = Sending /\ wire' = wire
           /\ rec'.sess[1] <= nonce /\ snap'.sess[1] <= nonce
           /\ pc' = "hsRead" /\ hs'.step = HelloStep => NonceUnused
           /\ InHandshake' /\ hs'.step = FlightStep =>
                hs'.rec.sess[1] = nonce /\ NonceUnused
           /\ WireCurrent'
BY DEF ChannelInv, HostStill, Sending, InHandshake, FreshNonce, WireCurrent

LEMMA BusStep ==
    ASSUME TypeOK, ChannelInv, HostStill, Reset \/ Enumerate
    PROVE  ChannelInv'
<1>1. UNCHANGED <<log, cmd, srv, nonce>>
  BY DEF HostStill, Reset, Enumerate, sensorVars
<1>2. CASE Reset
  <2>1. /\ epOut' = <<>> /\ neg' = NoSession
        /\ ses' = ses \/ ses' = NoSensorSession
    BY <1>2 DEF Reset
  <2> QED
    BY <1>1, <2>1, HostStillFacts, EmptyingStep
<1>3. CASE Enumerate
  BY <1>1, <1>3, HostStillFacts, CalmStep DEF Enumerate, sensorVars, Calm
<1> QED
  BY <1>2, <1>3

LEMMA TakeInPlay ==
    ASSUME TypeOK, HostStill, epOut # <<>>, epOut' = Tail(epOut)
    PROVE  InPlay' \subseteq InPlay
<1>1. Sending' = Sending /\ wire' = wire
  BY DEF HostStill, Sending, InHandshake
<1>2. \A i \in Commands' : epOut'[i] \in InPlay
  BY TakeFirst, InPlayCommand
<1> QED
  BY <1>1, <1>2, InPlayShrinks

(* Answers that neither execute anything nor move a session.               *)
LEMMA AnswerStep ==
    ASSUME TypeOK, ChannelInv, HostStill, epOut # <<>>, epOut' = Tail(epOut),
           SensorInitStep \/ SensorFlightBad \/ SensorAlert \/ SensorZeros
    PROVE  ChannelInv'
<1>1. UNCHANGED <<log, cmd, srv, nonce>>
  BY DEF HostStill, SensorInitStep, SensorFlightBad, SensorAlert, SensorZeros
<1>2. ses'.sess = ses.sess /\ ses'.rx = ses.rx
  <2>1. ses \in SensorSession
    BY DEF TypeOK, LinkTypeOK
  <2>2. ses' = ses \/ ses' = [ses EXCEPT !.tx = ses.tx + 1]
    BY DEF SensorInitStep, SensorFlightBad, SensorAlert, SensorZeros, SecureReply
  <2> QED
    BY <2>1, <2>2 DEF SensorSession
<1>3. neg' = neg \/ neg' = NoSession
  BY DEF SensorInitStep, SensorFlightBad, SensorAlert, SensorZeros
<1>4. OneNumber' /\ NotAgain' /\ FreshNonce' /\ FreshServerNonce'
  BY <1>1, <1>2, <1>3, TakeInPlay, HostStillFacts, SettledStep
<1>5. InOrder'
  BY <1>1, OrderTake DEF ChannelInv
<1> QED
  BY <1>4, <1>5, HostStillFacts DEF ChannelInv

(* The parts about the host and the pipe, for the answers that do move.    *)
LEMMA HostPartsStill ==
    ASSUME TypeOK, ChannelInv, HostStill, epOut # <<>>, epOut' = Tail(epOut), log' = log
    PROVE  /\ WireCurrent' /\ InOrder' /\ OneNumber' /\ FreshNonce'
           /\ InPlay' \subseteq InPlay /\ Last' = Last
<1> USE DEF ChannelInv
<1>1. nonce' = nonce /\ cmd' = cmd
  BY DEF HostStill
<1>2. InPlay' \subseteq InPlay /\ Last' = Last
  BY TakeInPlay DEF Last
<1>3. InOrder'
  BY <1>1, OrderTake
<1>4. OneNumber'
  BY <1>2 DEF OneNumber
<1>5. NonceUnused => NonceUnused'
  BY <1>1, <1>2 DEF NonceUnused
<1>6. FreshNonce'
  BY <1>1, <1>2, <1>5, HostStillFacts DEF FreshNonce
<1> QED
  BY <1>2, <1>3, <1>4, <1>6, HostStillFacts

LEMMA HelloAnswered ==
    ASSUME TypeOK, ChannelInv, HostStill, epOut # <<>>, epOut' = Tail(epOut),
           SensorHello
    PROVE  ChannelInv'
<1> USE DEF ChannelInv
<1>1. /\ srv \in Nat /\ srv' = srv + 1 /\ UNCHANGED <<ses, log>>
      /\ neg'[2] = srv'
  BY DEF SensorHello, TypeOK, LinkTypeOK
<1>2. /\ WireCurrent' /\ InOrder' /\ OneNumber' /\ FreshNonce'
      /\ InPlay' \subseteq InPlay /\ Last' = Last
  BY <1>1, HostPartsStill
<1>3. NotAgain'
  BY <1>1, <1>2 DEF NotAgain
<1>4. FreshServerNonce'
  BY <1>1, <1>2 DEF FreshServerNonce
<1> QED
  BY <1>2, <1>3, <1>4

(* The session that begins is newer than the one anything was executed in. *)
LEMMA FlightAnswered ==
    ASSUME TypeOK, ChannelInv, HostStill, epOut # <<>>, epOut' = Tail(epOut),
           SensorFlightGood
    PROVE  ChannelInv'
<1> USE DEF ChannelInv
<1>1. /\ UNCHANGED <<log, srv>> /\ srv \in Nat
      /\ neg # NoSession /\ neg' = NoSession
  BY DEF SensorFlightGood, TypeOK, LinkTypeOK
<1>2. ses'.sess = neg
  <2> DEFINE st == [sess |-> neg, rx |-> 1, chain |-> TailOf(Incoming), tx |-> 0]
  <2>1. ses' = [st EXCEPT !.tx = st.tx + 1]
    BY DEF SensorFlightGood, SecureReply
  <2> QED
    BY <2>1
<1>3. /\ WireCurrent' /\ InOrder' /\ OneNumber' /\ FreshNonce'
      /\ InPlay' \subseteq InPlay /\ Last' = Last
  BY <1>1, HostPartsStill
<1>4. neg[2] = srv /\ srv > 0 /\ (log # <<>> => Last.sess[2] < srv)
  BY <1>1 DEF FreshServerNonce
<1>5. log # <<>> => Last.sess[2] \in 1..srv
  BY DEF FreshServerNonce
<1>6. NotAgain'
  BY <1>1, <1>2, <1>3, <1>4, <1>5 DEF NotAgain
<1>7. FreshServerNonce'
  BY <1>1, <1>2, <1>3, <1>4, <1>5 DEF FreshServerNonce
<1> QED
  BY <1>3, <1>6, <1>7

(* Execution moves the sensor past the number of the command, and no other *)
(* record of that command in the session has another number.               *)
LEMMA CommandExecuted ==
    ASSUME TypeOK, ChannelInv, HostStill, epOut # <<>>, epOut' = Tail(epOut),
           SensorExecute
    PROVE  ChannelInv'
<1> USE DEF ChannelInv
<1>1. /\ Incoming.kind = "data" /\ Incoming \in InPlay
      /\ ses.sess # NoSession /\ Incoming.sess = ses.sess /\ Incoming.seq = ses.rx
      /\ log' = Append(log, [sess |-> ses.sess, cmd |-> Incoming.body])
      /\ UNCHANGED <<neg, srv, cmd, nonce>>
  BY TakeFirst, InPlayCommand DEF SensorExecute, Acceptable, HostStill
<1>2. ses'.sess = ses.sess /\ ses'.rx = ses.rx + 1 /\ ses.rx \in Nat
  <2>1. ses' = [AfterAccept(Incoming) EXCEPT !.tx = AfterAccept(Incoming).tx + 1]
    BY DEF SensorExecute, SecureReply
  <2> QED
    BY <2>1 DEF AfterAccept, TypeOK, LinkTypeOK, SensorSession
<1>3. /\ InOrder' /\ log' # <<>>
      /\ Last' = [sess |-> ses.sess, cmd |-> Incoming.body]
  BY <1>1, OrderExecute
<1>4. InPlay' \subseteq InPlay
  BY TakeInPlay
<1>5. OneNumber'
  BY <1>4 DEF OneNumber
<1>6. NotAgain'
  <2> SUFFICES ASSUME NEW w \in InPlay', w.sess = ses.sess, w.body = Incoming.body
               PROVE  w.seq < ses'.rx
    BY <1>2, <1>3 DEF NotAgain
  <2>1. w.seq = Incoming.seq
    BY <1>1, <1>4 DEF OneNumber
  <2> QED
    BY <1>1, <1>2, <2>1
<1>7. Last'.sess[1] <= nonce
  BY <1>1, <1>3 DEF FreshNonce
<1>8. NonceUnused => NonceUnused'
  BY <1>1, <1>3, <1>4 DEF NonceUnused
<1>9. FreshNonce'
  BY <1>1, <1>4, <1>7, <1>8, HostStillFacts DEF FreshNonce
<1>10. FreshServerNonce'
  BY <1>1, <1>2, <1>3 DEF FreshServerNonce
<1> QED
  BY <1>3, <1>5, <1>6, <1>9, <1>10, HostStillFacts

LEMMA SensorStepChannel ==
    ASSUME TypeOK, ChannelInv, HostStill, SensorStep
    PROVE  ChannelInv'
BY AnswerStep, HelloAnswered, FlightAnswered, CommandExecuted DEF SensorStep

-----------------------------------------------------------------------------
LEMMA ChannelInit == Init => ChannelInv
<1> SUFFICES ASSUME Init PROVE ChannelInv
  OBVIOUS
<1>1. /\ pc = "boot" /\ epOut = <<>> /\ log = <<>> /\ neg = NoSession
      /\ ses.sess = NoSession /\ nonce = 0
      /\ rec.sess[1] = 0 /\ snap.sess[1] = 0
  BY NoRecordNonce DEF Init, LinkInit, NoSensorSession
<1>2. ~Sending /\ ~InHandshake /\ Commands = {}
  BY <1>1 DEF Sending, InHandshake, Commands
<1>3. InPlay = {}
  BY <1>2 DEF InPlay
<1> QED
  BY <1>1, <1>2, <1>3
     DEF ChannelInv, WireCurrent, InOrder, OneNumber, NotAgain, FreshNonce, FreshServerNonce

LEMMA ChannelNext == TypeOK /\ ChannelInv /\ [Next]_vars => ChannelInv'
<1> SUFFICES ASSUME TypeOK, ChannelInv, [Next]_vars PROVE ChannelInv'
  OBVIOUS
<1>1. CASE HostStep
  BY <1>1, ProcessCalm, HsWriteStep, HsErrStep, HsReadStep, SendCmdStep, WriteCalm,
     SendCalm, ReplyCalm DEF HostStep
<1>2. CASE LinkStep /\ UNCHANGED <<pc, hostVars, budgets>>
  <2>1. HostStill
    BY <1>2 DEF HostStill, hostVars
  <2> QED
    BY <1>2, <2>1, BusStep, SensorStepChannel DEF LinkStep
<1>3. CASE UNCHANGED vars
  <2>1. HostStill /\ epOut' = epOut /\ UNCHANGED <<log, srv, ses, neg>>
    BY <1>3 DEF HostStill, vars, hostVars, linkVars, sensorVars
  <2>2. UNCHANGED <<log, cmd, srv, nonce, ses, neg>>
    BY <2>1 DEF HostStill
  <2> QED
    BY <2>1, <2>2, HostStillFacts, CalmStep DEF Calm
<1> QED
  BY <1>1, <1>2, <1>3 DEF Next, Finished

(* In every state the commands on their way to the sensor are in order,    *)
(* each has one sequence number in a session, and the sensor is past the   *)
(* number of the one it executed last (capture.rs:206-265).                *)
THEOREM ChannelCorrect == Spec => []ChannelInv
<1>1. Init => TypeOK /\ ChannelInv
  BY InitType, ChannelInit
<1>2. TypeOK /\ ChannelInv /\ [Next]_vars => TypeOK' /\ ChannelInv'
  BY NextType, ChannelNext
<1> QED
  BY <1>1, <1>2, PTL DEF Spec

-----------------------------------------------------------------------------
(* The log as the channel sees it.                                         *)
LEMMA LogView ==
    ASSUME TypeOK
    PROVE  /\ LogOf # <<>> <=> log # <<>>
           /\ log # <<>> =>
                LogOf[Len(LogOf)] = [sess |-> Last.sess[2], cmd |-> Last.cmd]
<1>1. log \in Seq(Executed)
  BY DEF TypeOK, LinkTypeOK
<1>2. Len(LogOf) = Len(log) /\ Len(log) \in Nat
  BY <1>1 DEF LogOf
<1>3. LogOf # <<>> <=> log # <<>>
  BY <1>1, <1>2 DEF LogOf
<1>4. ASSUME log # <<>>
      PROVE  LogOf[Len(LogOf)] = [sess |-> Last.sess[2], cmd |-> Last.cmd]
  <2>1. Len(log) \in 1..Len(log)
    BY <1>1, <1>4
  <2> QED
    BY <1>2, <2>1 DEF LogOf, Last
<1> QED
  BY <1>3, <1>4

LEMMA LogViewGrows ==
    ASSUME TypeOK, NEW e \in Executed, log' = Append(log, e)
    PROVE  LogOf' = Append(LogOf, [sess |-> e.sess[2], cmd |-> e.cmd])
<1> DEFINE f == [sess |-> e.sess[2], cmd |-> e.cmd]
<1>1. log \in Seq(Executed) /\ Len(log) \in Nat
  BY DEF TypeOK, LinkTypeOK
<1>2. /\ Len(log') = Len(log) + 1 /\ log'[Len(log) + 1] = e
      /\ \A i \in 1..Len(log) : log'[i] = log[i]
  BY <1>1
<1>3. LogOf' = [i \in 1..(Len(log) + 1) |-> [sess |-> log'[i].sess[2], cmd |-> log'[i].cmd]]
  BY <1>2 DEF LogOf
<1>4. Len(LogOf) = Len(log) /\ DOMAIN LogOf = 1..Len(log)
  BY <1>1 DEF LogOf
<1>5. Append(LogOf, f) = [i \in 1..(Len(log) + 1) |-> IF i = Len(log) + 1 THEN f ELSE LogOf[i]]
  BY <1>1, <1>4
<1>6. \A i \in 1..(Len(log) + 1) :
         [sess |-> log'[i].sess[2], cmd |-> log'[i].cmd]
           = IF i = Len(log) + 1 THEN f ELSE LogOf[i]
  BY <1>1, <1>2 DEF LogOf
<1> QED
  BY <1>3, <1>5, <1>6

(* What is executed may follow what was executed last.                     *)
LEMMA ExecutesInOrder ==
    ASSUME TypeOK, ChannelInv, HostStill, epOut # <<>>, epOut' = Tail(epOut),
           SensorExecute
    PROVE  Channel!Next
<1> USE DEF ChannelInv
<1> DEFINE e == [sess |-> ses.sess, cmd |-> Incoming.body]
           f == [sess |-> ses.sess[2], cmd |-> Incoming.body]
<1>1. /\ Incoming.kind = "data" /\ Incoming \in Wire
      /\ 1 \in Commands /\ Incoming = epOut[1] /\ Incoming \in InPlay
      /\ ses.sess # NoSession /\ Incoming.sess = ses.sess /\ Incoming.seq = ses.rx
      /\ log' = Append(log, e)
      /\ UNCHANGED <<srv, cmd>>
  BY TakeFirst, InPlayCommand DEF SensorExecute, Acceptable, HostStill
<1>2. e \in Executed
  BY <1>1 DEF Executed, Wire, TypeOK, LinkTypeOK, SensorSession
<1>3. LogOf' = Append(LogOf, f)
  BY <1>1, <1>2, LogViewGrows
<1>4. ses.sess[2] \in 1..srv /\ Incoming.body \in 1..cmd
  BY <1>1 DEF FreshServerNonce, InOrder
<1>5. ASSUME log # <<>>
      PROVE  Channel!Follows(f, [sess |-> Last.sess[2], cmd |-> Last.cmd])
  <2>1. srv \in Nat /\ cmd \in Nat /\ ses.rx \in Nat
    BY DEF TypeOK, LinkTypeOK, HostTypeOK, SensorSession
  <2>2. Last.sess[2] \in 1..srv /\ Last.cmd \in 1..cmd /\ Last.cmd <= Incoming.body
    BY <1>1, <1>5 DEF FreshServerNonce, InOrder
  <2>3. Last.sess = ses.sess => Incoming.body # Last.cmd
    BY <1>1, <1>5, <2>1 DEF NotAgain
  <2>4. Last.sess = ses.sess \/ Last.sess[2] < ses.sess[2]
    BY <1>1, <1>5 DEF FreshServerNonce
  <2> QED
    BY <1>4, <2>1, <2>2, <2>3, <2>4 DEF Channel!Follows
<1>6. Channel!Execute(f)
  BY <1>1, <1>3, <1>5, LogView DEF Channel!Execute
<1> QED
  BY <1>4, <1>6 DEF Channel!Next

LEMMA StepImplements ==
    ASSUME TypeOK, ChannelInv, [Next]_vars
    PROVE  Channel!Next \/ UNCHANGED <<srv, cmd, LogOf>>
<1>1. log' = log => LogOf' = LogOf
  BY DEF LogOf
<1>2. CASE HostStep
  <2>1. UNCHANGED <<srv, log>>
    BY <1>2 DEF HostStep, Boot, HsWrite, HsWriteErr, HsRead, HsReadErr, SendCmd, Write,
       WriteErr, WriteNoDevice, ReopenOk, ReopenFails, GiveUp, ReadReply, Return,
       RebuildReopen, RebuildOpen, RebuildFails, linkVars, sensorVars
  <2>2. CASE SendCmd
    BY <1>1, <2>1, <2>2 DEF SendCmd, Channel!Next, Channel!Issue
  <2>3. CASE ~SendCmd
    <3>1. cmd' = cmd
      BY <1>2, <2>3 DEF HostStep, Boot, HsWrite, HsWriteErr, HsRead, HsReadErr, Write,
         HsReadInit, HsReadServerHello, HsReadShortHello, HsReadFlight, HandshakeOk,
         HandshakeErr, WriteErr, WriteNoDevice, ReopenOk, ReopenFails, GiveUp, ReadReply,
         Return, RebuildReopen, RebuildOpen, RebuildFails, hostVars
    <3> QED
      BY <1>1, <2>1, <3>1
  <2> QED
    BY <2>2, <2>3
<1>3. CASE LinkStep /\ UNCHANGED <<pc, hostVars, budgets>>
  <2>1. HostStill /\ cmd' = cmd
    BY <1>3 DEF HostStill, hostVars
  <2>2. CASE Reset \/ Enumerate
    BY <1>1, <2>1, <2>2 DEF Reset, Enumerate, sensorVars
  <2>3. CASE SensorStep
    <3>1. CASE SensorHello
      BY <1>1, <2>1, <3>1 DEF SensorHello, Channel!Next, Channel!Offer
    <3>2. CASE SensorExecute
      BY <2>1, <2>3, <3>2, ExecutesInOrder DEF SensorStep
    <3>3. CASE ~SensorHello /\ ~SensorExecute
      BY <1>1, <2>1, <2>3, <3>3
         DEF SensorStep, SensorInitStep, SensorFlightGood, SensorFlightBad, SensorAlert,
             SensorZeros
    <3> QED
      BY <3>1, <3>2, <3>3
  <2> QED
    BY <1>3, <2>2, <2>3 DEF LinkStep
<1>4. CASE UNCHANGED vars
  BY <1>1, <1>4 DEF vars, linkVars, sensorVars, hostVars
<1> QED
  BY <1>2, <1>3, <1>4 DEF Next, Finished

(* The exchange keeps the channel's promise: commands take effect in the   *)
(* order they were issued, and never twice in a session, whatever is lost, *)
(* late, repeated or reset (capture.rs:199-319, session.rs:132-219).       *)
THEOREM Implementation == Spec => ImplementsChannel
<1>1. Init => Channel!Init
  <2> SUFFICES ASSUME Init PROVE Channel!Init
    OBVIOUS
  <2>1. srv = 0 /\ cmd = 0 /\ log = <<>>
    BY DEF Init, LinkInit
  <2>2. LogOf = <<>>
    BY <2>1 DEF LogOf
  <2> QED
    BY <2>1, <2>2 DEF Channel!Init
<1>2. TypeOK /\ ChannelInv /\ [Next]_vars => [Channel!Next]_<<srv, cmd, LogOf>>
  BY StepImplements
<1>3. Spec => []TypeOK /\ []ChannelInv
  BY TypeCorrect, ChannelCorrect
<1> QED
  BY <1>1, <1>2, <1>3, PTL DEF Spec, ImplementsChannel, Channel!Spec
=============================================================================
