--------------------------- MODULE SessionProofs ---------------------------
(***************************************************************************)
(* Proofs that the two ends of Exchange agree: on the session, on what the *)
(* sensor expects next, and on what the host reads next.                   *)
(***************************************************************************)
EXTENDS ExchangeProofs

(* The host waits for the answer to its ClientHello, or has one and has    *)
(* not sent its flight, or waits for the answer to that.                   *)
AwaitsHello == pc = "hsRead" /\ hs.step = HelloStep
BeforeFlight == pc = "hsWrite" /\ hs.step = FlightStep
AwaitsFlight == pc = "hsRead" /\ hs.step = FlightStep
PastFirst == InHandshake /\ hs.step > 1

(* Sessions are numbered by the sensor as it offers them; neither end, nor *)
(* anything in the pipes, knows of one it has not offered yet, and the one *)
(* on offer was not agreed to before.                                      *)
Offered ==
    /\ \A s \in established : s[2] \in 1..srv /\ (neg # NoSession => s[2] < srv)
    /\ neg # NoSession => neg[2] = srv /\ srv > 0
    /\ ses.sess # NoSession => ses.sess \in established
    /\ hs.rec.sess[2] <= srv
    /\ \A k \in 1..Len(epIn) : epIn[k].kind = "hello" => epIn[k].sess[2] <= srv
    /\ \A k \in 1..Len(epOut) : epOut[k].kind = "flight" => epOut[k].sess[2] <= srv

(* No hello carries a nonce that was not drawn yet.                        *)
Drawn ==
    /\ neg[1] <= nonce
    /\ \A k \in 1..Len(epOut) : epOut[k].kind = "hello" => epOut[k].sess[1] <= nonce
    /\ AwaitsHello \/ BeforeFlight \/ AwaitsFlight => nonce > 0
    /\ BeforeFlight \/ AwaitsFlight => hs.rec.sess[1] = nonce

(* The host's own hello is the last message it sent, and the answer to it  *)
(* is the last one in the pipe.                                            *)
HelloLast ==
    AwaitsHello =>
        /\ \A k \in 1..Len(epOut) :
              epOut[k].kind = "hello" /\ epOut[k].sess[1] = nonce => k = Len(epOut)
        /\ neg[1] = nonce =>
              /\ epOut = <<>>
              /\ \A k \in 1..Len(epIn) :
                    epIn[k].kind = "hello" /\ epIn[k].sess[2] = neg[2] => k = Len(epIn)

(* A record that took the answer to its own hello took the last message.   *)
OwnAnswer == BeforeFlight /\ hs.rec.sess = neg => epIn = <<>> /\ epOut = <<>>

(* A flight the sensor will accept.                                        *)
Good(w) == w.kind = "flight" /\ neg # NoSession /\ w.sess = neg

(* What the host's ends of a session are when it has sent its flight.      *)
AfterFlight(r) == r.sseq = 1 /\ r.civ = <<1, 0>>

(* Such a flight, and the answer to it, is the first message left: it does *)
(* not outlive the first step of another handshake.                        *)
FlightFirst ==
    /\ \A k \in 1..Len(epOut) : epOut[k].kind = "flight" => TailOf(epOut[k]) = <<1, 0>>
    /\ \A k \in 1..Len(epOut) : Good(epOut[k]) =>
          /\ k = 1 /\ epIn = <<>>
          /\ PastFirst => AwaitsFlight /\ Len(epOut) = 1 /\ hs.rec.sess = epOut[k].sess
    /\ \A k \in 1..Len(epIn) : epIn[k].kind = "flight" =>
          /\ k = 1
          /\ PastFirst => /\ AwaitsFlight /\ epOut = <<>> /\ Len(epIn) = 1
                          /\ hs.rec.sess = epIn[k].sess /\ epIn[k].sess \in established
                          /\ epIn[k].n = 1
                          /\ ses = [sess |-> hs.rec.sess, rx |-> 1, chain |-> <<1, 0>>, tx |-> 1]

(* The new Record stands where the handshake is.                           *)
NewRecordStands ==
    /\ BeforeFlight => hs.rec.sseq = 0 /\ hs.rec.civ = KeyIV
    /\ AwaitsFlight => AfterFlight(hs.rec)

(* A Record to fall back on is of an agreed session as well.               *)
Agreed ==
    /\ SessionAgreed
    /\ snap.sess # NoSession => snap.sess \in established

AgreementInv ==
    /\ Offered /\ Drawn /\ HelloLast /\ OwnAnswer /\ FlightFirst /\ NewRecordStands
    /\ Agreed

-----------------------------------------------------------------------------
(* A pipe after its first message is taken, and after one is put in.       *)
LEMMA Taken ==
    ASSUME NEW S, NEW q \in Seq(S), q # <<>>, NEW p, p = Tail(q)
    PROVE  /\ p \in Seq(S) /\ Len(q) \in Nat \ {0} /\ Len(p) = Len(q) - 1
           /\ Head(q) = q[1] /\ q[1] \in S
           /\ \A k \in 1..Len(p) : k + 1 \in 2..Len(q) /\ p[k] = q[k + 1]
OBVIOUS

LEMMA Added ==
    ASSUME NEW S, NEW q \in Seq(S), NEW e \in S, NEW p, p = Append(q, e)
    PROVE  /\ p \in Seq(S) /\ Len(q) \in Nat /\ Len(p) = Len(q) + 1
           /\ p[Len(p)] = e
           /\ \A k \in 1..Len(p) : k = Len(p) \/ (k \in 1..Len(q) /\ p[k] = q[k])
OBVIOUS

LEMMA Steps ==
    /\ HelloStep \in Nat /\ FlightStep \in Nat
    /\ 1 < HelloStep /\ NInit < HelloStep /\ FlightStep = HelloStep + 1
BY NInitAssumption DEF HelloStep, FlightStep

LEMMA NumberTypes ==
    ASSUME TypeOK
    PROVE  /\ neg \in Session /\ neg[1] \in Nat /\ neg[2] \in Nat
           /\ srv \in Nat /\ nonce \in Nat
           /\ hs.rec \in Record /\ hs.rec.sess \in Session
           /\ hs.rec.sess[1] \in Nat /\ hs.rec.sess[2] \in Nat
           /\ hs.step \in 1..FlightStep
           /\ epOut \in Seq(Wire) /\ epIn \in Seq(Item)
           /\ \A w \in Wire : w.sess[1] \in Nat /\ w.sess[2] \in Nat /\ w.seq \in Nat
           /\ \A m \in Item : m.sess[1] \in Nat /\ m.sess[2] \in Nat
<1>1. \A t \in Session : t[1] \in Nat /\ t[2] \in Nat
  BY DEF Session
<1>2. hs.rec \in Record /\ hs.step \in 1..FlightStep
  BY DEF TypeOK, HostTypeOK, Handshake
<1>3. neg \in Session /\ hs.rec.sess \in Session
  BY <1>2 DEF TypeOK, LinkTypeOK, Record
<1>4. \A w \in Wire : w.sess \in Session /\ w.seq \in Nat
  BY DEF Wire
<1>5. \A m \in Item : m.sess \in Session
  BY DEF Item
<1> QED
  BY <1>1, <1>2, <1>3, <1>4, <1>5 DEF TypeOK, LinkTypeOK, HostTypeOK

LEMMA AgreementInit == Init => AgreementInv
<1> SUFFICES ASSUME Init PROVE AgreementInv
  OBVIOUS
<1>1. /\ pc = "boot" /\ epIn = <<>> /\ epOut = <<>> /\ established = {} /\ srv = 0
      /\ neg = NoSession /\ nonce = 0 /\ ses.sess = NoSession /\ hs.rec = NoRecord
      /\ rec = NoRecord /\ snap = NoRecord
  BY DEF Init, LinkInit, NoSensorSession
<1>2. NoRecord.sess = NoSession /\ NoSession[1] = 0 /\ NoSession[2] = 0
  BY DEF NoRecord, NewRecord, NoSession
<1> QED
  BY <1>1, <1>2
     DEF AgreementInv, Offered, Drawn, HelloLast, OwnAnswer, FlightFirst, NewRecordStands,
         Agreed, SessionAgreed, AwaitsHello, BeforeFlight, AwaitsFlight, PastFirst,
         InHandshake

-----------------------------------------------------------------------------
(* What the host does to the pipes when no handshake goes on after it: it  *)
(* reads, empties them, or writes; a flight is only written in a handshake.*)
Writes(w) ==
    /\ Put(w)
    /\ w.kind = "hello" => w.sess[1] <= nonce'
    /\ w.kind = "flight" => BeforeFlight /\ w = Encrypted(hs.rec, "flight", 0)

PipesLeft ==
    /\ epOut' = epOut \/ epOut' = <<>> \/ \E w \in Wire : Writes(w)
    /\ epIn' = epIn \/ epIn' = <<>> \/ (epIn # <<>> /\ epIn' = Tail(epIn))

LEMMA LeftIn ==
    ASSUME TypeOK, PipesLeft
    PROVE  /\ \A k \in 1..Len(epIn') :
                 \E j \in 1..Len(epIn) : epIn'[k] = epIn[j] /\ 1 <= k /\ k <= j
           /\ epIn = <<>> => epIn' = <<>>
<1>1. epIn \in Seq(Item)
  BY NumberTypes
<1>2. CASE epIn # <<>> /\ epIn' = Tail(epIn)
  <2>1. \A k \in 1..Len(epIn') : k + 1 \in 2..Len(epIn) /\ epIn'[k] = epIn[k + 1]
    BY <1>1, <1>2, Taken
  <2>2. \A k \in 1..Len(epIn') : k + 1 \in 1..Len(epIn) /\ k <= k + 1
    BY <1>1, <2>1
  <2> QED
    BY <1>2, <2>1, <2>2
<1>3. CASE epIn' = epIn \/ epIn' = <<>>
  BY <1>1, <1>3
<1> QED
  BY <1>2, <1>3 DEF PipesLeft

LEMMA LeftOut ==
    ASSUME TypeOK, PipesLeft
    PROVE  \A k \in 1..Len(epOut') :
              \/ k \in 1..Len(epOut) /\ epOut'[k] = epOut[k]
              \/ k = Len(epOut) + 1 /\ epOut'[k] \in Wire /\ Writes(epOut'[k])
<1>1. epOut \in Seq(Wire)
  BY NumberTypes
<1>2. ASSUME NEW w \in Wire, Writes(w)
      PROVE  \A k \in 1..Len(epOut') :
                \/ k \in 1..Len(epOut) /\ epOut'[k] = epOut[k]
                \/ k = Len(epOut) + 1 /\ epOut'[k] = w
  BY <1>1, <1>2, Added DEF Writes, Put
<1>3. CASE epOut' = epOut \/ epOut' = <<>>
  BY <1>1, <1>3
<1> QED
  BY <1>2, <1>3 DEF PipesLeft

(* After the steps that leave the host outside a handshake, or at its      *)
(* first step.                                                             *)
LEMMA AgreementLeft ==
    ASSUME TypeOK, AgreementInv, PipesLeft, ~PastFirst',
           UNCHANGED <<ses, neg, srv, established>>,
           nonce' = nonce \/ nonce' = nonce + 1,
           hs'.rec.sess = hs.rec.sess \/ hs'.rec.sess = NoSession,
           rec'.sess # NoSession => rec'.sess \in established,
           snap'.sess # NoSession => snap'.sess \in established
    PROVE  AgreementInv'
<1> USE DEF AgreementInv
<1>1. ~AwaitsHello' /\ ~BeforeFlight' /\ ~AwaitsFlight'
  BY Steps DEF AwaitsHello, BeforeFlight, AwaitsFlight, PastFirst, InHandshake
<1>2. nonce' \in Nat /\ nonce <= nonce'
  BY NumberTypes
<1>3. /\ hs'.rec.sess[2] <= srv
  <2>1. NoSession[2] = 0
    BY DEF NoSession
  <2> QED
    BY <2>1, NumberTypes DEF Offered
<1>4. Offered'
  <2>1. \A k \in 1..Len(epIn') : epIn'[k].kind = "hello" => epIn'[k].sess[2] <= srv
    BY LeftIn DEF Offered
  <2>2. \A k \in 1..Len(epOut') : epOut'[k].kind = "flight" => epOut'[k].sess[2] <= srv
    BY LeftOut DEF Offered, Writes, Encrypted
  <2> QED
    BY <1>3, <2>1, <2>2 DEF Offered
<1>5. Drawn'
  <2>1. \A k \in 1..Len(epOut) : epOut[k].sess[1] \in Nat
    BY NumberTypes
  <2>2. \A k \in 1..Len(epOut') : epOut'[k].kind = "hello" => epOut'[k].sess[1] <= nonce'
    BY <1>2, <2>1, LeftOut, NumberTypes DEF Drawn, Writes
  <2>3. neg'[1] <= nonce'
    BY <1>2, NumberTypes DEF Drawn
  <2> QED
    BY <1>1, <2>2, <2>3 DEF Drawn
<1>6. HelloLast' /\ OwnAnswer' /\ NewRecordStands'
  BY <1>1 DEF HelloLast, OwnAnswer, NewRecordStands
<1>7. FlightFirst'
  <2>1. ASSUME NEW k \in 1..Len(epOut'), epOut'[k].kind = "flight"
        PROVE  TailOf(epOut'[k]) = <<1, 0>>
    BY <2>1, LeftOut DEF FlightFirst, NewRecordStands, Writes, Encrypted, TailOf
  <2>2. ASSUME NEW k \in 1..Len(epOut'),
               epOut'[k].kind = "flight", neg # NoSession, epOut'[k].sess = neg
        PROVE  k = 1 /\ epIn' = <<>>
    <3>2. CASE k \in 1..Len(epOut) /\ epOut'[k] = epOut[k]
      <4>1. k = 1 /\ epIn = <<>>
        BY <2>2, <3>2 DEF FlightFirst, Good
      <4> QED
        BY <4>1, LeftIn
    <3>3. CASE k = Len(epOut) + 1 /\ Writes(epOut'[k])
      <4>1. BeforeFlight /\ hs.rec.sess = neg
        BY <2>2, <3>3 DEF Writes, Encrypted
      <4> QED
        BY <3>3, <4>1, LeftIn DEF OwnAnswer
    <3> QED
      BY <3>2, <3>3, LeftOut
  <2>3. ASSUME NEW k \in 1..Len(epIn'), epIn'[k].kind = "flight"
        PROVE  k = 1
    BY <2>3, LeftIn DEF FlightFirst
  <2> QED
    BY <2>1, <2>2, <2>3 DEF FlightFirst, Good
<1>8. Agreed'
  BY DEF Agreed, SessionAgreed
<1> QED
  BY <1>4, <1>5, <1>6, <1>7, <1>8

(* No flight is left of an earlier handshake once the host is past the     *)
(* first init step.                                                        *)
LEMMA NoOldFlight ==
    ASSUME AgreementInv, PastFirst, ~AwaitsFlight
    PROVE  /\ \A k \in 1..Len(epOut) : ~Good(epOut[k])
           /\ \A k \in 1..Len(epIn) : epIn[k].kind # "flight"
BY DEF AgreementInv, FlightFirst

LEMMA AgreementHsWrite ==
    ASSUME TypeOK, AgreementInv, HsWrite
    PROVE  AgreementInv'
<1> USE DEF AgreementInv
<1>1. /\ pc = "hsWrite" /\ pc' = "hsRead" /\ Put(HsMessage) /\ NonceDrawn
      /\ UNCHANGED <<ses, neg, srv, established, epIn, rec, snap>>
  BY DEF HsWrite, sensorVars
<1>2. HsMessage \in Wire /\ epOut \in Seq(Wire) /\ epIn \in Seq(Item)
  BY HsMessageType, NumberTypes
<1>3. /\ Len(epOut) \in Nat /\ Len(epOut') = Len(epOut) + 1
      /\ epOut'[Len(epOut')] = HsMessage
      /\ \A k \in 1..Len(epOut') :
            k = Len(epOut') \/ (k \in 1..Len(epOut) /\ epOut'[k] = epOut[k])
  BY <1>1, <1>2, Added DEF Put
<1>4. /\ InHandshake /\ InHandshake' /\ ~AwaitsHello /\ ~AwaitsFlight /\ ~BeforeFlight'
  BY <1>1 DEF InHandshake, AwaitsHello, AwaitsFlight, BeforeFlight
<1>5. Agreed' /\ OwnAnswer'
  BY <1>1, <1>4 DEF Agreed, SessionAgreed, OwnAnswer
<1>6. nonce \in Nat /\ neg[1] \in Nat
  BY NumberTypes
<1>7. CASE hs.step <= NInit
  <2> hs.step # HelloStep /\ hs.step # FlightStep
    BY <1>7, StepCases, NumberTypes
  <2>1. hs' = hs /\ nonce' = nonce /\ HsMessage.kind = "init"
    BY <1>1, <1>7 DEF HsWrite, NonceDrawn, HsMessage, Plain
  <2>2. ~AwaitsHello' /\ ~AwaitsFlight' /\ ~BeforeFlight /\ PastFirst' = PastFirst
    BY <1>4, <2>1
       DEF AwaitsHello, AwaitsFlight, BeforeFlight, PastFirst
  <2>3. Offered'
    BY <1>1, <1>3, <2>1 DEF Offered
  <2>4. Drawn' /\ HelloLast' /\ NewRecordStands'
    BY <1>1, <1>3, <1>4, <2>1, <2>2 DEF Drawn, HelloLast, NewRecordStands
  <2>5. FlightFirst'
    BY <1>1, <1>3, <1>4, <2>1, <2>2 DEF FlightFirst, Good
  <2> QED
    BY <1>5, <2>3, <2>4, <2>5
<1>8. CASE hs.step = HelloStep
  <2>1. /\ hs' = hs /\ nonce' = nonce + 1
        /\ HsMessage.kind = "hello" /\ HsMessage.sess = <<nonce + 1, 0>>
    BY <1>1, <1>8, Steps, NumberTypes DEF HsWrite, NonceDrawn, HsMessage, Plain
  <2>2. ~AwaitsFlight' /\ ~BeforeFlight /\ PastFirst
    BY <1>4, <1>8, <2>1, Steps, NumberTypes
       DEF AwaitsHello, AwaitsFlight, BeforeFlight, PastFirst
  <2>3. Offered'
    BY <1>1, <1>3, <2>1 DEF Offered
  <2>4. \A k \in 1..Len(epOut) : epOut[k].kind = "hello" => epOut[k].sess[1] \in 0..nonce
    BY <1>2, <1>6, NumberTypes DEF Drawn
  <2>5. Drawn' /\ NewRecordStands'
    BY <1>1, <1>3, <1>4, <1>6, <2>1, <2>2, <2>4 DEF Drawn, NewRecordStands
  <2>6. HelloLast'
    <3>1. neg'[1] # nonce'
      BY <1>1, <1>6, <2>1 DEF Drawn
    <3>2. \A k \in 1..Len(epOut') :
             epOut'[k].kind = "hello" /\ epOut'[k].sess[1] = nonce' => k = Len(epOut')
      BY <1>3, <1>6, <2>1, <2>4
    <3> QED
      BY <3>1, <3>2 DEF HelloLast
  <2>7. FlightFirst'
    <3>1. /\ \A k \in 1..Len(epOut) : ~Good(epOut[k])
          /\ \A k \in 1..Len(epIn) : epIn[k].kind # "flight"
      BY <1>4, <2>2, NoOldFlight
    <3> QED
      BY <1>1, <1>3, <2>1, <3>1 DEF FlightFirst, Good
  <2> QED
    BY <1>5, <2>3, <2>5, <2>6, <2>7
<1>9. CASE hs.step = FlightStep
  <2>1. /\ hs' = [hs EXCEPT !.rec = AfterEncrypt(hs.rec, 0)] /\ nonce' = nonce
        /\ HsMessage = Encrypted(hs.rec, "flight", 0)
    BY <1>1, <1>9, Steps, NumberTypes DEF HsWrite, NonceDrawn, HsMessage
  <2>2. hs \in Handshake /\ hs.rec \in Record
    BY DEF TypeOK, HostTypeOK, Handshake
  <2>3. hs'.step = hs.step /\ hs'.rec = AfterEncrypt(hs.rec, 0)
    BY <2>1, <2>2 DEF Handshake
  <2>4. BeforeFlight /\ AwaitsFlight' /\ ~AwaitsHello' /\ PastFirst /\ PastFirst'
    BY <1>1, <1>4, <1>9, <2>3, Steps DEF BeforeFlight, AwaitsFlight, AwaitsHello, PastFirst
  <2>5. hs'.rec.sess = hs.rec.sess /\ hs'.rec.sseq = 1 /\ hs'.rec.civ = <<1, 0>>
    BY <2>3, <2>4 DEF AfterEncrypt, NewRecordStands
  <2>6. /\ HsMessage.kind = "flight" /\ HsMessage.sess = hs.rec.sess
        /\ TailOf(HsMessage) = <<1, 0>>
    BY <2>1, <2>4 DEF Encrypted, TailOf, NewRecordStands
  <2>7. Offered'
    BY <1>1, <1>3, <2>5, <2>6 DEF Offered
  <2>8. Drawn' /\ HelloLast' /\ NewRecordStands'
    BY <1>1, <1>3, <1>4, <2>1, <2>4, <2>5, <2>6
       DEF Drawn, HelloLast, NewRecordStands, AfterFlight
  <2>9. FlightFirst'
    <3>1. /\ \A k \in 1..Len(epOut) : ~Good(epOut[k])
          /\ \A k \in 1..Len(epIn) : epIn[k].kind # "flight"
      BY <1>4, <2>4, NoOldFlight
    <3>2. HsMessage.sess = neg => epIn = <<>> /\ epOut = <<>>
      BY <2>4, <2>6 DEF OwnAnswer
    <3>3. epOut = <<>> => Len(epOut') = 1
      BY <1>3
    <3>4. \A k \in 1..Len(epOut') : epOut'[k].kind = "flight" => TailOf(epOut'[k]) = <<1, 0>>
      BY <1>3, <2>6 DEF FlightFirst
    <3>5. \A k \in 1..Len(epOut') :
             epOut'[k].kind = "flight" /\ neg # NoSession /\ epOut'[k].sess = neg =>
                k = 1 /\ epIn = <<>> /\ Len(epOut') = 1 /\ hs'.rec.sess = epOut'[k].sess
      BY <1>3, <2>5, <2>6, <3>1, <3>2, <3>3 DEF Good
    <3> QED
      BY <1>1, <2>4, <3>1, <3>4, <3>5 DEF FlightFirst, Good
  <2> QED
    BY <1>5, <2>7, <2>8, <2>9
<1> QED
  BY <1>7, <1>8, <1>9, StepCases, NumberTypes

(* The answer that is read is the first one; a flight's is the only one.   *)
LEMMA AgreementHsAdvance ==
    ASSUME TypeOK, AgreementInv, pc = "hsRead", epIn # <<>>, epIn' = Tail(epIn),
           UNCHANGED <<busVars, sensorVars, epOut, nonce>>,
           HsReadInit(Head(epIn)) \/ HsReadServerHello(Head(epIn))
    PROVE  AgreementInv'
<1> USE DEF AgreementInv
<1> DEFINE item == Head(epIn)
<1>1. /\ pc' = "hsWrite" /\ hs'.step = hs.step + 1 /\ UNCHANGED <<rec, snap>>
      /\ UNCHANGED <<ses, neg, srv, established, epOut, nonce>>
  BY DEF HsReadInit, HsReadServerHello, Advance, sensorVars
<1>2. epIn \in Seq(Item) /\ epOut \in Seq(Wire) /\ hs.step \in 1..FlightStep
  BY NumberTypes
<1>3. /\ Len(epIn) \in Nat \ {0} /\ Len(epIn') = Len(epIn) - 1
      /\ item = epIn[1] /\ item \in Item
      /\ \A k \in 1..Len(epIn') : k + 1 \in 2..Len(epIn) /\ epIn'[k] = epIn[k + 1]
  BY <1>2, Taken
<1>4. \A k \in 1..Len(epIn') : k + 1 \in 1..Len(epIn) /\ k + 1 # 1 /\ epIn'[k] = epIn[k + 1]
  BY <1>3
<1>5. hs.step # FlightStep /\ PastFirst' /\ ~AwaitsFlight /\ ~BeforeFlight
  <2>1. hs.step # FlightStep
    BY <1>2, StepCases DEF HsReadInit, HsReadServerHello
  <2>2. hs.step \in Nat \ {0}
    BY <1>2, Steps
  <2> QED
    BY <1>1, <2>1, <2>2 DEF AwaitsFlight, BeforeFlight, PastFirst, InHandshake
<1>6. ~AwaitsHello' /\ ~AwaitsFlight'
  BY <1>1 DEF AwaitsHello, AwaitsFlight
<1>7. Agreed'
  BY <1>1 DEF Agreed, SessionAgreed
<1>8. \A k \in 1..Len(epIn') : epIn'[k].kind # "flight"
  BY <1>4 DEF FlightFirst
<1>9. FlightFirst'
  <2>1. \A k \in 1..Len(epOut) : ~Good(epOut[k])
    BY DEF FlightFirst
  <2> QED
    BY <1>1, <1>8, <2>1 DEF FlightFirst, Good
<1>10. HelloLast'
  BY <1>6 DEF HelloLast
<1>11. CASE HsReadInit(item)
  <2>1. hs'.rec = hs.rec /\ ~BeforeFlight'
    <3>1. hs.step \in Nat /\ hs.step <= NInit /\ hs'.rec = hs.rec
      BY <1>2, <1>11, Steps DEF HsReadInit, Advance
    <3> QED
      BY <1>1, <3>1, NInitAssumption DEF BeforeFlight, FlightStep
  <2>2. Offered'
    BY <1>1, <1>4, <2>1 DEF Offered
  <2>3. Drawn' /\ OwnAnswer' /\ NewRecordStands'
    BY <1>1, <1>6, <2>1 DEF Drawn, OwnAnswer, NewRecordStands
  <2> QED
    BY <1>7, <1>9, <1>10, <2>2, <2>3
<1>12. CASE HsReadServerHello(item)
  <2>1. AwaitsHello /\ hs'.rec = NewRecord(<<nonce, ServerNonce(item)>>)
    BY <1>12 DEF HsReadServerHello, Advance, AwaitsHello
  <2>2. /\ hs'.rec.sess = <<nonce, ServerNonce(item)>>
        /\ hs'.rec.sseq = 0 /\ hs'.rec.civ = KeyIV
    BY <2>1 DEF NewRecord
  <2>3. ServerNonce(item) <= srv
    BY <1>3, NumberTypes DEF ServerNonce, Offered
  <2>4. Offered'
    BY <1>1, <1>4, <2>2, <2>3 DEF Offered
  <2>5. nonce > 0 /\ nonce \in Nat
    BY <2>1, NumberTypes DEF Drawn
  <2>6. Drawn' /\ NewRecordStands'
    BY <1>1, <1>6, <2>2, <2>5 DEF Drawn, NewRecordStands
  <2>7. ASSUME <<nonce, ServerNonce(item)>> = neg
        PROVE  epIn' = <<>> /\ epOut = <<>>
    <3>1. neg[1] = nonce /\ neg[2] = ServerNonce(item)
      BY <2>7
    <3>2. neg # NoSession
      BY <2>5, <3>1 DEF NoSession
    <3>3. neg[2] > 0
      BY <3>2 DEF Offered
    <3>4. item.kind = "hello" /\ item.sess[2] = neg[2]
      BY <3>1, <3>3 DEF ServerNonce
    <3>5. 1 \in 1..Len(epIn) /\ epIn[1].kind = "hello" /\ epIn[1].sess[2] = neg[2]
      BY <1>3, <3>4
    <3>6. epOut = <<>> /\ 1 = Len(epIn)
      BY <2>1, <3>1, <3>5 DEF HelloLast
    <3> QED
      BY <1>2, <1>3, <3>6
  <2>8. OwnAnswer'
    BY <1>1, <2>2, <2>7 DEF OwnAnswer
  <2> QED
    BY <1>7, <1>9, <1>10, <2>4, <2>6, <2>8
<1> QED
  BY <1>11, <1>12

(* A handshake that ends leaves the Record of a session the sensor agreed  *)
(* to, or none, or the one the host had.                                   *)
LEMMA HandshakeEnds ==
    ASSUME TypeOK, AgreementInv, pc = "hsRead", epIn # <<>>,
           HsReadShortHello(Head(epIn)) \/ HsReadFlight(Head(epIn))
    PROVE  /\ pc' \in {"boot", "idle", "write"} /\ hs' = hs
           /\ rec'.sess # NoSession => rec'.sess \in established
           /\ snap'.sess # NoSession => snap'.sess \in established
<1> USE DEF AgreementInv
<1> DEFINE item == Head(epIn)
<1>1. NoRecord.sess = NoSession
  BY DEF NoRecord, NewRecord
<1>2. CASE HandshakeErr
  BY <1>1, <1>2 DEF HandshakeErr, Die, Agreed, SessionAgreed
<1>3. CASE Die /\ UNCHANGED <<hs, cmd>>
  BY <1>1, <1>3 DEF Die
<1>4. CASE hs.step = FlightStep /\ item.kind = "flight"
           /\ HandshakeOk(AfterDecrypt(hs.rec, item))
  <2>1. AwaitsFlight /\ PastFirst
    BY <1>4, Steps DEF AwaitsFlight, PastFirst, InHandshake
  <2>2. hs.rec.sess \in established
    <3>1. epIn \in Seq(Item) /\ Len(epIn) \in Nat \ {0} /\ item = epIn[1]
      BY NumberTypes, Taken
    <3> QED
      BY <1>4, <2>1, <3>1 DEF FlightFirst
  <2>3. AfterDecrypt(hs.rec, item).sess = hs.rec.sess
    BY NumberTypes, AfterDecryptSession
  <2>4. rec'.sess = hs.rec.sess
    BY <1>4, <2>3 DEF HandshakeOk, AfterEncrypt
  <2>5. snap' = snap /\ hs' = hs /\ pc' \in {"idle", "write"}
    BY <1>4 DEF HandshakeOk
  <2> QED
    BY <2>2, <2>4, <2>5 DEF Agreed
<1> QED
  BY <1>2, <1>3, <1>4 DEF HsReadShortHello, HsReadFlight

LEMMA AgreementHsRead ==
    ASSUME TypeOK, AgreementInv, HsRead
    PROVE  AgreementInv'
<1>1. /\ pc = "hsRead" /\ epIn # <<>> /\ epIn' = Tail(epIn)
      /\ UNCHANGED <<busVars, sensorVars, epOut, nonce>>
  BY DEF HsRead
<1>2. CASE HsReadInit(Head(epIn)) \/ HsReadServerHello(Head(epIn))
  BY <1>1, <1>2, AgreementHsAdvance
<1>3. CASE HsReadShortHello(Head(epIn)) \/ HsReadFlight(Head(epIn))
  <2>1. /\ pc' \in {"boot", "idle", "write"} /\ hs' = hs
        /\ rec'.sess # NoSession => rec'.sess \in established
        /\ snap'.sess # NoSession => snap'.sess \in established
    BY <1>1, <1>3, HandshakeEnds
  <2>2. ~PastFirst' /\ PipesLeft
    BY <1>1, <2>1 DEF PastFirst, InHandshake, PipesLeft
  <2>3. UNCHANGED <<ses, neg, srv, established>>
    BY <1>1 DEF sensorVars
  <2> QED
    BY <1>1, <2>1, <2>2, <2>3, AgreementLeft
<1> QED
  BY <1>2, <1>3 DEF HsRead

LEMMA AgreementHsErr ==
    ASSUME TypeOK, AgreementInv, HsWriteErr \/ HsReadErr
    PROVE  AgreementInv'
<1>1. /\ pc' \in {"boot", "idle", "write"} /\ hs' = hs
      /\ UNCHANGED <<ses, neg, srv, established, epIn>> /\ HandshakeErr
  BY DEF HsWriteErr, HsReadErr, HandshakeErr, Die, linkVars, sensorVars
<1>2. nonce' = nonce \/ nonce' = nonce + 1
  BY DEF HsWriteErr, HsReadErr, NonceDrawn
<1>3. epOut' = epOut \/ \E w \in Wire : Writes(w)
  <2>1. CASE HsWriteErr /\ Put(HsMessage)
    <3>1. HsMessage \in Wire /\ pc = "hsWrite" /\ hs.step \in 1..FlightStep
      BY <2>1, HsMessageType, NumberTypes DEF HsWriteErr
    <3>2. CASE hs.step <= NInit
      BY <2>1, <3>1, <3>2, StepCases DEF HsMessage, Plain, Writes
    <3>3. CASE hs.step = HelloStep
      <4>1. nonce' = nonce + 1 /\ nonce \in Nat
        BY <2>1, <3>3, NumberTypes DEF HsWriteErr, NonceDrawn
      <4>2. HsMessage = Plain("hello", <<nonce + 1, 0>>, 0)
        BY <3>1, <3>3, StepCases DEF HsMessage
      <4>3. HsMessage.kind = "hello" /\ HsMessage.sess[1] <= nonce'
        BY <4>1, <4>2 DEF Plain
      <4> QED
        BY <2>1, <3>1, <4>3 DEF Writes
    <3>4. CASE hs.step = FlightStep
      <4>1. HsMessage = Encrypted(hs.rec, "flight", 0) /\ BeforeFlight
        BY <3>1, <3>4, StepCases DEF HsMessage, BeforeFlight
      <4> QED
        BY <2>1, <3>1, <4>1 DEF Writes, Encrypted
    <3> QED
      BY <3>1, <3>2, <3>3, <3>4, StepCases
  <2>2. epOut' = epOut \/ (HsWriteErr /\ Put(HsMessage))
    BY DEF HsWriteErr, HsReadErr, WriteFault, linkVars
  <2> QED
    BY <2>1, <2>2
<1>4. ~PastFirst' /\ PipesLeft
  BY <1>1, <1>3 DEF PastFirst, InHandshake, PipesLeft
<1>5. /\ rec'.sess # NoSession => rec'.sess \in established
      /\ snap'.sess # NoSession => snap'.sess \in established
  BY <1>1 DEF HandshakeErr, Die, NoRecord, NewRecord, AgreementInv, Agreed, SessionAgreed
<1> QED
  BY <1>1, <1>2, <1>4, <1>5, AgreementLeft

LEMMA AgreementStart ==
    ASSUME TypeOK, AgreementInv, Boot \/ RebuildReopen \/ RebuildOpen \/ ReopenOk
    PROVE  AgreementInv'
<1>1. /\ UNCHANGED <<ses, neg, srv, established, nonce, snap>>
      /\ epOut' = epOut \/ epOut' = <<>>
      /\ epIn' = epIn \/ epIn' = <<>>
  BY DEF Boot, RebuildReopen, RebuildOpen, ReopenOk, linkVars, sensorVars
<1>2. PipesLeft
  BY <1>1 DEF PipesLeft
<1>3. rec' = rec \/ rec' = snap
  BY DEF Boot, RebuildReopen, RebuildOpen, ReopenOk, RolledBack
<1>4. \/ hs'.step = 1 /\ hs'.rec = NoRecord
      \/ pc' \in {"idle", "write"} /\ hs' = hs
  BY DEF Boot, RebuildReopen, RebuildOpen, ReopenOk, StartHandshake
<1>5. ~PastFirst' /\ (hs'.rec.sess = hs.rec.sess \/ hs'.rec.sess = NoSession)
  BY <1>4 DEF PastFirst, InHandshake, NoRecord, NewRecord
<1>6. /\ rec'.sess # NoSession => rec'.sess \in established
      /\ snap'.sess # NoSession => snap'.sess \in established
  BY <1>1, <1>3 DEF AgreementInv, Agreed, SessionAgreed
<1> QED
  BY <1>1, <1>2, <1>5, <1>6, AgreementLeft

LEMMA AgreementSend ==
    ASSUME TypeOK, ChannelInv, AgreementInv,
           \/ SendCmd \/ Write \/ WriteErr \/ WriteNoDevice \/ ReopenFails \/ GiveUp
           \/ Return \/ RebuildFails
    PROVE  AgreementInv'
<1>1. /\ UNCHANGED <<ses, neg, srv, established, nonce, hs, epIn>>
      /\ pc' \in {"write", "collect", "reopen", "failed", "idle"}
  BY DEF SendCmd, Write, WriteErr, WriteNoDevice, ReopenFails, GiveUp, Return, RebuildFails,
         linkVars, sensorVars, hostVars
<1>2. epOut' = epOut \/ (pc = "write" /\ Put(wire))
  BY DEF SendCmd, Write, WriteErr, WriteFault, WriteNoDevice, ReopenFails, GiveUp, Return,
         RebuildFails, linkVars
<1>3. pc = "write" => wire \in Wire /\ wire.kind = "data"
  BY DEF ChannelInv, WireCurrent, Sending, TypeOK, HostTypeOK
<1>4. PipesLeft
  BY <1>1, <1>2, <1>3 DEF PipesLeft, Writes
<1>5. ~PastFirst'
  BY <1>1 DEF PastFirst, InHandshake
<1>6. rec'.sess = rec.sess /\ (snap' = snap \/ snap' = rec)
  BY DEF SendCmd, Write, WriteErr, WriteNoDevice, ReopenFails, GiveUp, Return, RebuildFails,
         hostVars, NextAttempt, AfterEncrypt
<1>7. /\ rec'.sess # NoSession => rec'.sess \in established
      /\ snap'.sess # NoSession => snap'.sess \in established
  BY <1>6 DEF AgreementInv, Agreed, SessionAgreed
<1> QED
  BY <1>1, <1>4, <1>5, <1>7, AgreementLeft

LEMMA AgreementReadReply ==
    ASSUME TypeOK, AgreementInv, ReadReply
    PROVE  AgreementInv'
<1>1. /\ UNCHANGED <<ses, neg, srv, established, nonce, hs, epOut>>
      /\ epIn # <<>> /\ epIn' = Tail(epIn) /\ pc' \in {"collect", "boot"}
  BY DEF ReadReply, Die, sensorVars
<1>2. PipesLeft /\ ~PastFirst'
  BY <1>1 DEF PipesLeft, PastFirst, InHandshake
<1>3. rec \in Record /\ NoRecord.sess = NoSession
  BY DEF TypeOK, HostTypeOK, NoRecord, NewRecord
<1>4. /\ rec'.sess = rec.sess \/ rec'.sess = NoSession
      /\ snap' = snap \/ snap'.sess = NoSession
  BY <1>3, AfterDecryptSession DEF ReadReply, Die
<1>5. /\ rec'.sess # NoSession => rec'.sess \in established
      /\ snap'.sess # NoSession => snap'.sess \in established
  BY <1>4 DEF AgreementInv, Agreed, SessionAgreed
<1> QED
  BY <1>1, <1>2, <1>5, AgreementLeft

-----------------------------------------------------------------------------
(* Nothing of a handshake is on its way while the sensor answers something *)
(* else than a hello or a flight it accepts.                               *)
LEMMA AgreementBus ==
    ASSUME TypeOK, AgreementInv, HostStill, Reset \/ Enumerate
    PROVE  AgreementInv'
<1> USE DEF AgreementInv
<1>1. CASE Enumerate
  <2>1. UNCHANGED <<pc, rec, snap, hs, nonce, ses, neg, srv, established, epIn, epOut>>
    BY <1>1 DEF Enumerate, HostStill, sensorVars
  <2> QED
    BY <2>1
       DEF Offered, Drawn, HelloLast, OwnAnswer, FlightFirst, NewRecordStands, Agreed,
           SessionAgreed, AwaitsHello, BeforeFlight, AwaitsFlight, PastFirst, InHandshake,
           Good, AfterFlight
<1>2. CASE Reset
  <2>1. /\ UNCHANGED <<pc, rec, snap, hs, nonce, srv, established>>
        /\ epIn' = <<>> /\ epOut' = <<>> /\ neg' = NoSession
        /\ ses' = ses \/ ses'.sess = NoSession
    BY <1>2 DEF Reset, HostStill, NoSensorSession
  <2>2. /\ AwaitsHello' = AwaitsHello /\ BeforeFlight' = BeforeFlight
        /\ AwaitsFlight' = AwaitsFlight
    BY <2>1 DEF AwaitsHello, BeforeFlight, AwaitsFlight
  <2>3. NoSession[1] = 0 /\ nonce \in Nat
    BY NumberTypes DEF NoSession
  <2>4. Offered'
    BY <2>1, NumberTypes DEF Offered
  <2>5. Drawn' /\ HelloLast' /\ OwnAnswer'
    BY <2>1, <2>2, <2>3 DEF Drawn, HelloLast, OwnAnswer
  <2>6. FlightFirst'
    BY <2>1 DEF FlightFirst
  <2>7. NewRecordStands' /\ Agreed'
    BY <2>1, <2>2 DEF NewRecordStands, AfterFlight, Agreed, SessionAgreed
  <2> QED
    BY <2>4, <2>5, <2>6, <2>7
<1> QED
  BY <1>1, <1>2

(* A message is taken and an item is put in.                               *)
LEMMA Answered ==
    ASSUME TypeOK, epOut # <<>>, epOut' = Tail(epOut), NEW m \in Item, Reply(m)
    PROVE  /\ Incoming = epOut[1] /\ 1 \in 1..Len(epOut) /\ Incoming \in Wire
           /\ Len(epOut) \in Nat \ {0} /\ Len(epOut') = Len(epOut) - 1
           /\ \A k \in 1..Len(epOut') :
                 k + 1 \in 1..Len(epOut) /\ k + 1 # 1 /\ epOut'[k] = epOut[k + 1]
           /\ Len(epIn) \in Nat /\ Len(epIn') = Len(epIn) + 1 /\ epIn'[Len(epIn')] = m
           /\ \A k \in 1..Len(epIn') :
                 k = Len(epIn') \/ (k \in 1..Len(epIn) /\ epIn'[k] = epIn[k])
<1>1. epOut \in Seq(Wire) /\ epIn \in Seq(Item)
  BY NumberTypes
<1>2. /\ Len(epOut) \in Nat \ {0} /\ Len(epOut') = Len(epOut) - 1
      /\ Incoming = epOut[1] /\ epOut[1] \in Wire
      /\ \A k \in 1..Len(epOut') : k + 1 \in 2..Len(epOut) /\ epOut'[k] = epOut[k + 1]
  BY <1>1, Taken DEF Incoming
<1>3. \A k \in 1..Len(epOut') :
         k + 1 \in 1..Len(epOut) /\ k + 1 # 1 /\ epOut'[k] = epOut[k + 1]
  BY <1>2
<1> QED
  BY <1>1, <1>2, <1>3, Added DEF Reply

LEMMA HostStillStands ==
    ASSUME HostStill, AgreementInv, established \subseteq established'
    PROVE  /\ AwaitsHello' = AwaitsHello /\ BeforeFlight' = BeforeFlight
           /\ AwaitsFlight' = AwaitsFlight /\ PastFirst' = PastFirst
           /\ NewRecordStands' /\ Agreed'
BY DEF HostStill, AwaitsHello, BeforeFlight, AwaitsFlight, PastFirst, InHandshake,
       AgreementInv, NewRecordStands, AfterFlight, Agreed, SessionAgreed

LEMMA AgreementAnswer ==
    ASSUME TypeOK, AgreementInv, HostStill, epOut # <<>>, epOut' = Tail(epOut),
           NEW m \in Item, Reply(m), m.kind \notin {"hello", "flight"},
           UNCHANGED <<srv, established>>, ses'.sess = ses.sess,
           neg' = neg \/ neg' = NoSession
    PROVE  AgreementInv'
<1> USE DEF AgreementInv
<1>1. UNCHANGED <<pc, rec, snap, hs, nonce>>
  BY DEF HostStill
<1>2. /\ AwaitsHello' = AwaitsHello /\ BeforeFlight' = BeforeFlight
      /\ AwaitsFlight' = AwaitsFlight /\ PastFirst' = PastFirst
      /\ NewRecordStands' /\ Agreed'
  BY HostStillStands
<1>3. Offered'
  BY <1>1, Answered DEF Offered
<1>4. NoSession[1] = 0 /\ nonce \in Nat
  BY NumberTypes DEF NoSession
<1>5. Drawn'
  BY <1>1, <1>2, <1>4, Answered DEF Drawn
<1>6. AwaitsHello => neg'[1] # nonce
  BY <1>4 DEF HelloLast, Drawn
<1>7. HelloLast'
  <2> SUFFICES ASSUME AwaitsHello, NEW k \in 1..Len(epOut'),
                      epOut'[k].kind = "hello", epOut'[k].sess[1] = nonce
               PROVE  k = Len(epOut')
    BY <1>1, <1>2, <1>6 DEF HelloLast
  <2>1. k + 1 = Len(epOut)
    BY Answered DEF HelloLast
  <2> QED
    BY <2>1, Answered
<1>8. OwnAnswer'
  <2>1. BeforeFlight => hs.rec.sess # NoSession /\ hs.rec.sess # neg
    BY <1>4 DEF Drawn, OwnAnswer
  <2> QED
    BY <1>1, <1>2, <2>1 DEF OwnAnswer
<1>9. FlightFirst'
  <2>1. \A k \in 1..Len(epOut') : epOut'[k].kind = "flight" => TailOf(epOut'[k]) = <<1, 0>>
    BY Answered DEF FlightFirst
  <2>2. \A k \in 1..Len(epOut') :
           ~(epOut'[k].kind = "flight" /\ neg' # NoSession /\ epOut'[k].sess = neg')
    BY Answered DEF FlightFirst, Good
  <2>3. \A k \in 1..Len(epIn') :
           epIn'[k].kind = "flight" => k \in 1..Len(epIn) /\ epIn'[k] = epIn[k]
    BY Answered
  <2>4. \A k \in 1..Len(epIn') : epIn'[k].kind = "flight" => k = 1 /\ ~PastFirst
    BY <2>3 DEF FlightFirst
  <2> QED
    BY <1>2, <2>1, <2>2, <2>4 DEF FlightFirst, Good
<1> QED
  BY <1>2, <1>3, <1>5, <1>7, <1>8, <1>9

LEMMA AgreementHello ==
    ASSUME TypeOK, AgreementInv, HostStill, epOut # <<>>, epOut' = Tail(epOut),
           SensorHello
    PROVE  AgreementInv'
<1> USE DEF AgreementInv
<1> DEFINE s == <<Incoming.sess[1], srv + 1>>
           m == [kind |-> "hello", sess |-> s, n |-> 0, body |-> 0]
<1>1. UNCHANGED <<pc, rec, snap, hs, nonce, ses, established>>
  BY DEF HostStill, SensorHello
<1>2. srv \in Nat /\ srv' = srv + 1 /\ neg' = s /\ Incoming.kind = "hello" /\ Reply(m)
  BY NumberTypes DEF SensorHello, PlainReply
<1>3. Incoming.sess[1] \in Nat
  <2>1. Incoming \in Wire
    BY NumberTypes, Taken DEF Incoming
  <2> QED
    BY <2>1, NumberTypes
<1>4. m \in Item /\ m.kind = "hello" /\ m.sess[2] = srv + 1
  BY <1>2, <1>3, ItemType DEF Session
<1> HIDE DEF m
<1>5. /\ AwaitsHello' = AwaitsHello /\ BeforeFlight' = BeforeFlight
      /\ AwaitsFlight' = AwaitsFlight /\ PastFirst' = PastFirst
      /\ NewRecordStands' /\ Agreed'
  BY <1>1, HostStillStands
<1>6. neg'[1] = Incoming.sess[1] /\ neg'[2] = srv + 1
  BY <1>2
<1>7. Offered'
  <2>1. \A t \in established : t[2] \in 1..srv' /\ t[2] < srv'
    BY <1>2 DEF Offered
  <2>2. \A k \in 1..Len(epIn') : epIn'[k].kind = "hello" => epIn'[k].sess[2] <= srv'
    <3>1. \A k \in 1..Len(epIn) : epIn[k].sess[2] \in Nat
      BY NumberTypes
    <3> QED
      BY <1>2, <1>4, <3>1, Answered DEF Offered
  <2>3. \A k \in 1..Len(epOut') : epOut'[k].kind = "flight" => epOut'[k].sess[2] <= srv'
    <3>1. \A k \in 1..Len(epOut) : epOut[k].kind = "flight" => epOut[k].sess[2] <= srv'
      <4>1. \A k \in 1..Len(epOut) : epOut[k].sess[2] \in Nat
        BY NumberTypes
      <4> QED
        BY <1>2, <4>1 DEF Offered
    <3> QED
      BY <1>2, <1>4, <3>1, Answered
  <2>4. hs'.rec.sess[2] <= srv'
    BY <1>1, <1>2, NumberTypes DEF Offered
  <2> QED
    BY <1>1, <1>2, <1>6, <2>1, <2>2, <2>3, <2>4 DEF Offered
<1>8. Drawn'
  BY <1>1, <1>2, <1>4, <1>5, <1>6, Answered DEF Drawn
<1>9. HelloLast'
  <2> SUFFICES ASSUME AwaitsHello PROVE HelloLast'
    BY <1>5 DEF HelloLast
  <2>1. ASSUME NEW k \in 1..Len(epOut'),
               epOut'[k].kind = "hello", epOut'[k].sess[1] = nonce
        PROVE  k = Len(epOut')
    <3>1. k + 1 = Len(epOut)
      BY <1>2, <1>4, <2>1, Answered DEF HelloLast
    <3> QED
      BY <1>2, <1>4, <3>1, Answered
  <2>2. ASSUME Incoming.sess[1] = nonce
        PROVE  epOut' = <<>>
    <3>1. 1 = Len(epOut)
      BY <1>2, <1>4, <2>2, Answered DEF HelloLast
    <3>2. epOut \in Seq(Wire)
      BY NumberTypes
    <3> QED
      BY <3>1, <3>2
  <2>3. ASSUME NEW k \in 1..Len(epIn'), epIn'[k].kind = "hello", epIn'[k].sess[2] = srv + 1
        PROVE  k = Len(epIn')
    <3>1. \A j \in 1..Len(epIn) : epIn[j].kind = "hello" => epIn[j].sess[2] # srv + 1
      BY <1>2, NumberTypes, SMTT(20) DEF Offered
    <3> QED
      BY <1>2, <1>4, <2>3, <3>1, Answered
  <2> QED
    BY <1>1, <1>6, <2>1, <2>2, <2>3 DEF HelloLast
<1>10. OwnAnswer'
  <2>1. hs.rec.sess[2] # srv + 1
    BY <1>2, NumberTypes DEF Offered
  <2> QED
    BY <1>1, <1>5, <1>6, <2>1 DEF OwnAnswer
<1>11. FlightFirst'
  <2>1. \A k \in 1..Len(epOut') :
           epOut'[k].kind = "flight" =>
              TailOf(epOut'[k]) = <<1, 0>> /\ epOut'[k].sess # neg'
    <3>1. \A k \in 1..Len(epOut) : epOut[k].kind = "flight" => epOut[k].sess[2] # srv + 1
      BY <1>2, NumberTypes DEF Offered
    <3>2. \A k \in 1..Len(epOut') :
             /\ k + 1 \in 1..Len(epOut) /\ epOut'[k] = epOut[k + 1]
      BY <1>2, <1>4, Answered
    <3> QED
      BY <1>6, <3>1, <3>2 DEF FlightFirst
  <2>2. \A k \in 1..Len(epIn') :
           epIn'[k].kind = "flight" => k \in 1..Len(epIn) /\ epIn'[k] = epIn[k]
    BY <1>2, <1>4, Answered
  <2>3. \A k \in 1..Len(epIn') : epIn'[k].kind = "flight" => k = 1 /\ ~PastFirst
    BY <2>2 DEF FlightFirst
  <2> QED
    BY <1>5, <2>1, <2>3 DEF FlightFirst, Good
<1> QED
  BY <1>5, <1>7, <1>8, <1>9, <1>10, <1>11

(* The flight the sensor accepts was alone in the pipe, and so is its      *)
(* answer.                                                                 *)
LEMMA AgreementFlight ==
    ASSUME TypeOK, AgreementInv, HostStill, epOut # <<>>, epOut' = Tail(epOut),
           SensorFlightGood
    PROVE  AgreementInv'
<1> USE DEF AgreementInv
<1> DEFINE st == [sess |-> neg, rx |-> 1, chain |-> TailOf(Incoming), tx |-> 0]
           m == [kind |-> "flight", sess |-> neg, n |-> 1, body |-> 0]
<1>1. /\ UNCHANGED <<pc, rec, snap, hs, nonce, srv>>
      /\ Incoming.kind = "flight" /\ neg # NoSession /\ Incoming.sess = neg
      /\ established' = established \cup {neg} /\ neg' = NoSession
  BY DEF HostStill, SensorFlightGood
<1>2. Reply(m) /\ ses' = [sess |-> neg, rx |-> 1, chain |-> TailOf(Incoming), tx |-> 1]
  <2>1. SecureReply("flight", st, 0)
    BY DEF SensorFlightGood
  <2>2. st.sess = neg /\ st.tx + 1 = 1
    OBVIOUS
  <2> QED
    BY <2>1, <2>2 DEF SecureReply
<1>3. m \in Item /\ m.kind = "flight" /\ m.sess = neg /\ m.n = 1
  BY NumberTypes, ItemType
<1> HIDE DEF m
<1>4. Good(Incoming) /\ Incoming = epOut[1] /\ 1 \in 1..Len(epOut)
  BY <1>1, <1>2, <1>3, Answered DEF Good
<1>5. epIn = <<>> /\ TailOf(Incoming) = <<1, 0>>
  BY <1>1, <1>4 DEF FlightFirst
<1>6. epIn' = <<m>> /\ Len(epIn') = 1 /\ epIn'[1] = m
  BY <1>2, <1>3, <1>5 DEF Reply
<1>7. /\ AwaitsHello' = AwaitsHello /\ BeforeFlight' = BeforeFlight
      /\ AwaitsFlight' = AwaitsFlight /\ PastFirst' = PastFirst
      /\ NewRecordStands' /\ Agreed'
  BY <1>1, HostStillStands
<1>8. NoSession[1] = 0 /\ nonce \in Nat
  BY NumberTypes DEF NoSession
<1>9. Offered'
  <2>1. neg[2] \in 1..srv
    BY <1>1, NumberTypes DEF Offered
  <2>2. \A t \in established' : t[2] \in 1..srv
    BY <1>1, <2>1 DEF Offered
  <2>3. \A k \in 1..Len(epOut') : epOut'[k].kind = "flight" => epOut'[k].sess[2] <= srv
    BY <1>2, <1>3, Answered DEF Offered
  <2>4. \A k \in 1..Len(epIn') : epIn'[k].kind # "hello"
    BY <1>3, <1>6
  <2>5. hs'.rec.sess[2] <= srv' /\ ses'.sess \in established'
    BY <1>1, <1>2 DEF Offered
  <2> QED
    BY <1>1, <2>2, <2>3, <2>4, <2>5 DEF Offered
<1>10. Drawn'
  BY <1>1, <1>2, <1>3, <1>7, <1>8, Answered DEF Drawn
<1>11. HelloLast'
  <2>1. AwaitsHello => neg'[1] # nonce
    BY <1>1, <1>8 DEF Drawn
  <2>2. ASSUME AwaitsHello, NEW k \in 1..Len(epOut'),
               epOut'[k].kind = "hello", epOut'[k].sess[1] = nonce
        PROVE  k = Len(epOut')
    <3>1. k + 1 = Len(epOut)
      BY <1>2, <1>3, <2>2, Answered DEF HelloLast
    <3> QED
      BY <1>2, <1>3, <3>1, Answered
  <2> QED
    BY <1>1, <1>7, <2>1, <2>2 DEF HelloLast
<1>12. OwnAnswer'
  <2>1. BeforeFlight => hs.rec.sess # NoSession
    BY <1>8 DEF Drawn
  <2> QED
    BY <1>1, <1>7, <2>1 DEF OwnAnswer
<1>13. FlightFirst'
  <2>1. \A k \in 1..Len(epOut') : epOut'[k].kind = "flight" => TailOf(epOut'[k]) = <<1, 0>>
    BY <1>2, <1>3, Answered DEF FlightFirst
  <2>2. PastFirst => AwaitsFlight /\ Len(epOut) = 1 /\ hs.rec.sess = neg
    BY <1>1, <1>4 DEF FlightFirst
  <2>3. Len(epOut) = 1 => epOut' = <<>>
    BY NumberTypes
  <2>4. PastFirst' =>
           /\ AwaitsFlight' /\ epOut' = <<>> /\ Len(epIn') = 1
           /\ hs'.rec.sess = neg /\ neg \in established'
           /\ ses' = [sess |-> hs'.rec.sess, rx |-> 1, chain |-> <<1, 0>>, tx |-> 1]
    BY <1>1, <1>2, <1>5, <1>6, <1>7, <2>2, <2>3
  <2>5. \A k \in 1..Len(epIn') : k = 1 /\ epIn'[k].sess = neg /\ epIn'[k].n = 1
    BY <1>3, <1>6
  <2> QED
    BY <1>1, <2>1, <2>4, <2>5 DEF FlightFirst, Good
<1> QED
  BY <1>7, <1>9, <1>10, <1>11, <1>12, <1>13

LEMMA AgreementSensor ==
    ASSUME TypeOK, AgreementInv, HostStill, SensorStep
    PROVE  AgreementInv'
<1>1. /\ epOut # <<>> /\ epOut' = Tail(epOut)
      /\ Incoming \in Wire /\ Incoming.body \in Nat /\ ses \in SensorSession
  <2>1. epOut # <<>> /\ epOut' = Tail(epOut)
    BY DEF SensorStep
  <2>2. Incoming \in Wire
    BY <2>1, NumberTypes, Taken DEF Incoming
  <2> QED
    BY <2>1, <2>2 DEF Wire, TypeOK, LinkTypeOK
<1>2. ses.sess \in Session /\ ses.tx + 1 \in Nat
  BY <1>1 DEF SensorSession
<1>3. CASE SensorInitStep \/ SensorFlightBad \/ SensorZeros
  <2>1. PICK k \in {"init", "alert", "zeros"}, b \in Nat : PlainReply(k, NoSession, b)
    BY <1>1, <1>3 DEF SensorInitStep, SensorFlightBad, SensorZeros
  <2> DEFINE m == [kind |-> k, sess |-> NoSession, n |-> 0, body |-> b]
  <2>2. m \in Item /\ m.kind \notin {"hello", "flight"} /\ Reply(m)
    BY <2>1, NoneType, ItemType DEF PlainReply
  <2>3. /\ UNCHANGED <<srv, established, ses>> /\ (neg' = neg \/ neg' = NoSession)
    BY <1>3 DEF SensorInitStep, SensorFlightBad, SensorZeros
  <2> HIDE DEF m
  <2> QED
    BY <1>1, <2>2, <2>3, AgreementAnswer
<1>4. CASE SensorExecute \/ SensorAlert
  <2>1. PICK k \in {"data", "alert"}, b \in Nat, st \in {ses, AfterAccept(Incoming)} :
           SecureReply(k, st, b)
    BY <1>1, <1>4 DEF SensorExecute, SensorAlert
  <2>2. st.sess = ses.sess /\ st.tx = ses.tx
    BY DEF AfterAccept
  <2> DEFINE m == [kind |-> k, sess |-> ses.sess, n |-> ses.tx + 1, body |-> b]
  <2>3. m \in Item /\ m.kind \notin {"hello", "flight"} /\ Reply(m)
    BY <1>2, <2>1, <2>2, ItemType DEF SecureReply
  <2>4. ses'.sess = ses.sess
    BY <1>1, <2>1, <2>2 DEF SecureReply, AfterAccept, SensorSession
  <2>5. UNCHANGED <<srv, established, neg>>
    BY <1>4 DEF SensorExecute, SensorAlert
  <2> HIDE DEF m
  <2> QED
    BY <1>1, <2>3, <2>4, <2>5, AgreementAnswer
<1> QED
  BY <1>1, <1>3, <1>4, AgreementHello, AgreementFlight DEF SensorStep

LEMMA AgreementNext ==
    TypeOK /\ ChannelInv /\ AgreementInv /\ [Next]_vars => AgreementInv'
<1> SUFFICES ASSUME TypeOK, ChannelInv, AgreementInv, [Next]_vars PROVE AgreementInv'
  OBVIOUS
<1>1. CASE HostStep
  BY <1>1, AgreementHsWrite, AgreementHsErr, AgreementHsRead, AgreementStart,
     AgreementSend, AgreementReadReply DEF HostStep
<1>2. CASE LinkStep /\ UNCHANGED <<pc, hostVars, budgets>>
  <2>1. HostStill
    BY <1>2 DEF HostStill, hostVars
  <2> QED
    BY <1>2, <2>1, AgreementBus, AgreementSensor DEF LinkStep
<1>3. CASE UNCHANGED vars
  <2>1. UNCHANGED <<pc, rec, snap, hs, nonce, ses, neg, srv, established, epIn, epOut>>
    BY <1>3 DEF vars, hostVars, linkVars, sensorVars
  <2> QED
    BY <2>1
       DEF AgreementInv, Offered, Drawn, HelloLast, OwnAnswer, FlightFirst, NewRecordStands,
           Agreed, SessionAgreed, AwaitsHello, BeforeFlight, AwaitsFlight, PastFirst,
           InHandshake, Good, AfterFlight
<1> QED
  BY <1>1, <1>2, <1>3 DEF Next, Finished

LEMMA AgreementHolds == Spec => [](TypeOK /\ ChannelInv /\ AgreementInv)
<1>1. Init => TypeOK /\ ChannelInv /\ AgreementInv
  BY InitType, ChannelInit, AgreementInit
<1>2. TypeOK /\ ChannelInv /\ AgreementInv /\ [Next]_vars
        => TypeOK' /\ ChannelInv' /\ AgreementInv'
  BY NextType, ChannelNext, AgreementNext
<1> QED
  BY <1>1, <1>2, PTL DEF Spec

(* The Record the host holds is of a session the sensor agreed to, from    *)
(* whatever answers of an earlier, broken-off exchange the handshake took  *)
(* for its own (session.rs:132-219).                                       *)
THEOREM SessionsAgreed == Spec => []SessionAgreed
<1>1. AgreementInv => SessionAgreed
  BY DEF AgreementInv, Agreed
<1> QED
  BY <1>1, AgreementHolds, PTL

-----------------------------------------------------------------------------
Live == SessionLive /\ ~broken

(* Without a session, or with one a send was given up under, the process   *)
(* starts, and the daemon rebuilds.                                        *)
Standing ==
    /\ pc = "boot" => rec.sess = NoSession
    /\ pc = "failed" => broken

(* The command being sent is the last the host encrypted.                  *)
WireLast ==
    Sending => /\ wire.sess = rec.sess /\ rec.sseq = wire.seq + 1
               /\ rec.civ = TailOf(wire)

(* With VFS_HP_RESUME it is the one the host can roll back.                *)
SnapBefore ==
    HpResume => /\ hs.ret # "send"
                /\ Sending => /\ snap.sess = rec.sess
                              /\ snap.sseq = wire.seq /\ snap.civ = wire.iv

(* The first record of a session is the Finished of its handshake.         *)
Started ==
    rec.sess # NoSession =>
        /\ rec.sseq >= 1
        /\ Sending \/ hs.ret = "send" => rec.sseq >= 2

HostInv == Standing /\ WireLast /\ SnapBefore /\ Started

-----------------------------------------------------------------------------
LEMMA SideTypes ==
    ASSUME TypeOK
    PROVE  /\ rec \in Record /\ snap \in Record /\ hs \in Handshake /\ wire \in Wire
           /\ rec.sess \in Session /\ rec.sseq \in Nat /\ snap.sseq \in Nat
           /\ wire.seq \in Nat /\ cmd \in Nat
           /\ ses \in SensorSession /\ ses.rx \in Nat /\ ses.tx \in Nat
BY DEF TypeOK, LinkTypeOK, HostTypeOK, Record, Wire, SensorSession

LEMMA NoRecordSide == NoRecord.sess = NoSession
BY DEF NoRecord, NewRecord

(* The session a handshake sets up when it ends well: nothing of it is     *)
(* left in the pipes, and both ends stand behind the two Finished records. *)
LEMMA HandshakeDone ==
    ASSUME TypeOK, AgreementInv, pc = "hsRead", epIn # <<>>, epIn' = Tail(epIn),
           HsReadFlight(Head(epIn)), Head(epIn).kind = "flight",
           NEW new, new = AfterDecrypt(hs.rec, Head(epIn))
    PROVE  /\ HandshakeOk(new) /\ new \in Record
           /\ new.sess = hs.rec.sess /\ new.sess # NoSession
           /\ new.sseq = 1 /\ new.civ = <<1, 0>> /\ new.siv = <<hs.rec.sess, 1>>
           /\ epOut = <<>> /\ epIn' = <<>>
           /\ ses = [sess |-> hs.rec.sess, rx |-> 1, chain |-> <<1, 0>>, tx |-> 1]
<1> DEFINE item == Head(epIn)
<1>1. HandshakeOk(new) /\ AwaitsFlight /\ PastFirst
  BY Steps DEF HsReadFlight, AwaitsFlight, PastFirst, InHandshake
<1>2. /\ epIn \in Seq(Item) /\ Len(epIn) \in Nat \ {0} /\ item = epIn[1] /\ item \in Item
      /\ Len(epIn') = Len(epIn) - 1 /\ epIn' \in Seq(Item)
  BY NumberTypes, Taken
<1>3. /\ epOut = <<>> /\ Len(epIn) = 1 /\ hs.rec.sess = item.sess /\ item.n = 1
      /\ hs.rec.sess \in established
      /\ ses = [sess |-> hs.rec.sess, rx |-> 1, chain |-> <<1, 0>>, tx |-> 1]
  BY <1>1, <1>2 DEF AgreementInv, FlightFirst
<1>4. hs.rec.sess[2] \in 1..srv
  BY <1>3 DEF AgreementInv, Offered
<1>5. hs.rec.sess # NoSession
  BY <1>4 DEF NoSession
<1>6. hs.rec.sseq = 1 /\ hs.rec.civ = <<1, 0>>
  BY <1>1 DEF AgreementInv, NewRecordStands, AfterFlight
<1>7. new = [hs.rec EXCEPT !.siv = <<item.sess, item.n>>] /\ hs.rec \in Record
  BY <1>3, NumberTypes DEF AfterDecrypt, IsCiphertext
<1>8. /\ new.sess = hs.rec.sess /\ new.sseq = hs.rec.sseq /\ new.civ = hs.rec.civ
      /\ new.siv = <<item.sess, item.n>>
  BY <1>7 DEF Record
<1>9. new \in Record
  BY <1>2, AfterDecryptType, NumberTypes
<1> QED
  BY <1>1, <1>2, <1>3, <1>5, <1>6, <1>8, <1>9

LEMMA HostInit == Init => HostInv
BY NoRecordSide
   DEF Init, HostInv, Standing, WireLast, SnapBefore, Started, Sending, InHandshake

LEMMA HostDies ==
    ASSUME Die, hs' = hs, HostInv
    PROVE  HostInv'
BY NoRecordSide
   DEF Die, HostInv, Standing, WireLast, SnapBefore, Started, Sending, InHandshake

LEMMA HostHandshakeErr ==
    ASSUME TypeOK, HostInv, InHandshake, HandshakeErr
    PROVE  HostInv'
<1>1. CASE hs.ret = "boot"
  BY <1>1, HostDies DEF HandshakeErr
<1>2. CASE hs.ret # "boot"
  BY <1>2 DEF HandshakeErr, HostInv, Standing, WireLast, SnapBefore, Started, Sending, InHandshake
<1> QED
  BY <1>1, <1>2

LEMMA HostHandshakeGoes ==
    ASSUME TypeOK, HostInv, InHandshake, InHandshake', hs'.ret = hs.ret,
           UNCHANGED <<rec, snap, wire, broken>>
    PROVE  HostInv'
BY DEF HostInv, Standing, WireLast, SnapBefore, Started, Sending, InHandshake

LEMMA HostHandshake ==
    ASSUME TypeOK, AgreementInv, HostInv, HsWrite \/ HsWriteErr \/ HsRead \/ HsReadErr
    PROVE  HostInv'
<1>1. CASE HsWrite
  <2>1. InHandshake /\ InHandshake' /\ UNCHANGED <<rec, snap, wire, broken>>
    BY <1>1 DEF HsWrite, InHandshake
  <2>2. hs'.ret = hs.ret
    BY <1>1, SideTypes DEF HsWrite, Handshake
  <2> QED
    BY <2>1, <2>2, HostHandshakeGoes
<1>2. CASE HsWriteErr \/ HsReadErr
  BY <1>2, HostHandshakeErr DEF HsWriteErr, HsReadErr, InHandshake
<1>3. CASE HsRead
  <2> DEFINE item == Head(epIn)
             new == AfterDecrypt(hs.rec, item)
  <2>1. pc = "hsRead" /\ InHandshake /\ epIn # <<>> /\ epIn' = Tail(epIn)
    BY <1>3 DEF HsRead, InHandshake
  <2>2. CASE HsReadInit(item) \/ HsReadServerHello(item)
    <3>1. InHandshake' /\ UNCHANGED <<rec, snap, wire, broken>> /\ hs'.ret = hs.ret
      BY <2>2 DEF HsReadInit, HsReadServerHello, Advance, InHandshake
    <3> QED
      BY <2>1, <3>1, HostHandshakeGoes
  <2>3. CASE HandshakeErr
    BY <2>1, <2>3, HostHandshakeErr
  <2>4. CASE Die /\ UNCHANGED <<hs, cmd>>
    BY <2>4, HostDies
  <2>5. CASE HsReadFlight(item) /\ item.kind = "flight"
    <3>1. HandshakeOk(new) /\ new.sess # NoSession /\ new.sseq = 1
      BY <2>1, <2>5, HandshakeDone
    <3> HIDE DEF new
    <3>2. CASE hs.ret = "send"
      <4>1. /\ pc' = "write" /\ wire' = Encrypted(new, "data", cmd)
            /\ rec' = AfterEncrypt(new, cmd) /\ hs' = hs
        BY <3>1, <3>2 DEF HandshakeOk
      <4> QED
        BY <3>1, <3>2, <4>1
           DEF HostInv, Standing, WireLast, SnapBefore, Started, Sending, InHandshake,
               Encrypted, AfterEncrypt, TailOf
    <3>3. CASE hs.ret # "send"
      <4>1. pc' = "idle" /\ rec' = new /\ hs' = hs
        BY <3>1, <3>3 DEF HandshakeOk
      <4> QED
        BY <3>1, <3>3, <4>1
           DEF HostInv, Standing, WireLast, SnapBefore, Started, Sending, InHandshake
    <3> QED
      BY <3>2, <3>3
  <2> QED
    BY <1>3, <2>2, <2>3, <2>4, <2>5 DEF HsRead, HsReadShortHello, HsReadFlight
<1> QED
  BY <1>1, <1>2, <1>3

LEMMA HostSend ==
    ASSUME TypeOK, HostInv,
           \/ SendCmd \/ Write \/ WriteErr \/ WriteNoDevice \/ ReopenFails \/ GiveUp
           \/ ReadReply \/ Return \/ RebuildFails
    PROVE  HostInv'
<1> USE DEF HostInv, Standing, WireLast, SnapBefore, Started, Sending, InHandshake
<1>1. CASE SendCmd
  BY <1>1, SideTypes DEF SendCmd, Encrypted, AfterEncrypt, TailOf
<1>2. CASE Write \/ Return \/ GiveUp \/ ReopenFails \/ RebuildFails
  BY <1>2 DEF Write, Return, GiveUp, ReopenFails, RebuildFails, hostVars
<1>3. CASE WriteErr \/ WriteNoDevice
  BY <1>3 DEF WriteErr, WriteNoDevice, NextAttempt
<1>4. CASE ReadReply
  <2>1. CASE Die
    BY <1>4, <2>1, HostDies DEF ReadReply
  <2>2. CASE rec' = AfterDecrypt(rec, Head(epIn))
             /\ UNCHANGED <<pc, handle, snap, wire, tries, broken>>
    <3>1. rec'.sess = rec.sess /\ rec'.sseq = rec.sseq
      BY <2>2, SideTypes DEF AfterDecrypt, Record
    <3> QED
      BY <1>4, <2>2, <3>1 DEF ReadReply
  <2> QED
    BY <1>4, <2>1, <2>2 DEF ReadReply
<1> QED
  BY <1>1, <1>2, <1>3, <1>4

LEMMA HostStart ==
    ASSUME TypeOK, HostInv, Boot \/ RebuildReopen \/ RebuildOpen \/ ReopenOk
    PROVE  HostInv'
<1> USE DEF HostInv, Standing, WireLast, SnapBefore, Started, Sending, InHandshake
<1>1. CASE Boot \/ RebuildReopen \/ RebuildOpen
  BY <1>1 DEF Boot, RebuildReopen, RebuildOpen, StartHandshake
<1>2. CASE ReopenOk
  <2>1. CASE HpResume
    BY <1>2, <2>1, SideTypes DEF ReopenOk, RolledBack
  <2>2. CASE ~HpResume
    BY <1>2, <2>2 DEF ReopenOk, StartHandshake
  <2> QED
    BY <2>1, <2>2
<1> QED
  BY <1>1, <1>2

LEMMA HostNext ==
    TypeOK /\ AgreementInv /\ HostInv /\ [Next]_vars => HostInv'
<1> SUFFICES ASSUME TypeOK, AgreementInv, HostInv, [Next]_vars PROVE HostInv'
  OBVIOUS
<1>1. CASE HostStep
  BY <1>1, HostStart, HostHandshake, HostSend DEF HostStep
<1>2. CASE ~HostStep
  <2>1. UNCHANGED <<pc, rec, snap, wire, hs, broken>>
    BY <1>2 DEF Next, Finished, vars, hostVars
  <2> QED
    BY <2>1 DEF HostInv, Standing, WireLast, SnapBefore, Started, Sending, InHandshake
<1> QED
  BY <1>1, <1>2

-----------------------------------------------------------------------------
(* The commands on their way, and what is in play of the host's session.   *)
Waiting == {epOut[i] : i \in Commands}
Ours == {w \in InPlay : w.sess = rec.sess}

(* It has every number from where the sensor is to where the host is, in   *)
(* the order of the commands ...                                           *)
Complete ==
    /\ ses.rx <= rec.sseq
    /\ \A n \in ses.rx..(rec.sseq - 1) : \E w \in Ours : w.seq = n
    /\ \A w \in Ours : w.seq < rec.sseq
    /\ \A v, w \in Ours : v.body < w.body => v.seq <= w.seq

(* ... and each record is chained to the one before it, the first to what  *)
(* the sensor has, and what the host has to the last.                      *)
Chained ==
    /\ \A v, w \in Ours : ses.rx <= v.seq /\ w.seq = v.seq + 1 => w.iv = TailOf(v)
    /\ \A w \in Ours : w.seq = ses.rx => w.iv = ses.chain
    /\ \A w \in Ours : ses.rx <= w.seq /\ rec.sseq = w.seq + 1 => TailOf(w) = rec.civ
    /\ ses.rx = rec.sseq => ses.chain = rec.civ

(* What can be rolled back was not delivered.                              *)
Undelivered ==
    HpResume /\ Sending =>
        /\ ses.rx <= wire.seq
        /\ \A w \in Waiting : w.sess = rec.sess => w.seq < wire.seq

LockstepInv == Live => Complete /\ Chained /\ Undelivered

-----------------------------------------------------------------------------
(* The commands in the pipe, for each way it can change.                   *)
LEMMA InPlayParts ==
    /\ InPlay = Waiting \cup (IF Sending THEN {wire} ELSE {})
    /\ InPlay' = Waiting' \cup (IF Sending' THEN {wire'} ELSE {})
BY DEF InPlay, Waiting

LEMMA WaitingSame == ASSUME epOut' = epOut PROVE Waiting' = Waiting
BY DEF Waiting, Commands

LEMMA WaitingNone == ASSUME epOut' = <<>> PROVE Waiting' = {}
BY DEF Waiting, Commands

LEMMA WaitingPutOther ==
    ASSUME TypeOK, NEW w \in Wire, w.kind # "data", Put(w)
    PROVE  Waiting' = Waiting
BY PutOther DEF Waiting

LEMMA WaitingPut ==
    ASSUME TypeOK, NEW w \in Wire, w.kind = "data", Put(w)
    PROVE  Waiting' = Waiting \cup {w}
<1>1. /\ Len(epOut) \in Nat
      /\ Commands' = Commands \cup {Len(epOut) + 1}
      /\ epOut'[Len(epOut) + 1] = w
      /\ \A i \in Commands : i \in 1..Len(epOut) /\ epOut'[i] = epOut[i]
  BY PutCommand
<1> QED
  BY <1>1 DEF Waiting

LEMMA WaitingTaken ==
    ASSUME TypeOK, epOut # <<>>, epOut' = Tail(epOut)
    PROVE  /\ Waiting' \subseteq Waiting
           /\ Waiting \subseteq Waiting' \cup {Incoming}
           /\ Incoming.kind # "data" => Waiting' = Waiting
           /\ Incoming.kind = "data" => Incoming \in Waiting
<1>1. /\ Len(epOut) \in Nat \ {0} /\ Len(epOut') = Len(epOut) - 1
      /\ Incoming = epOut[1]
      /\ \A k \in 1..Len(epOut') : k + 1 \in 2..Len(epOut) /\ epOut'[k] = epOut[k + 1]
  BY NumberTypes, Taken DEF Incoming
<1>2. \A i \in Commands' : i + 1 \in Commands /\ epOut'[i] = epOut[i + 1]
  BY TakeFirst
<1>3. Waiting' \subseteq Waiting
  BY <1>2 DEF Waiting
<1>4. \A i \in Commands : i = 1 \/ (i - 1 \in Commands' /\ epOut'[i - 1] = epOut[i])
  <2> SUFFICES ASSUME NEW i \in Commands, i # 1
               PROVE  i - 1 \in Commands' /\ epOut'[i - 1] = epOut[i]
    OBVIOUS
  <2>1. i - 1 \in 1..Len(epOut') /\ (i - 1) + 1 = i /\ epOut[i].kind = "data"
    BY <1>1 DEF Commands
  <2>2. epOut'[i - 1] = epOut[i]
    BY <1>1, <2>1
  <2> QED
    BY <2>1, <2>2 DEF Commands
<1>5. \A i \in Commands : epOut[i] = Incoming \/ epOut[i] \in Waiting'
  BY <1>1, <1>4 DEF Waiting
<1>6. Waiting \subseteq Waiting' \cup {Incoming}
  BY <1>5 DEF Waiting
<1>7. Incoming.kind # "data" => 1 \notin Commands
  BY <1>1 DEF Commands
<1>8. Incoming.kind # "data" => Waiting \subseteq Waiting'
  BY <1>4, <1>7 DEF Waiting
<1>9. Incoming.kind = "data" => Incoming \in Waiting
  BY TakeFirst DEF Waiting
<1> QED
  BY <1>3, <1>6, <1>8, <1>9

LEMMA InPlayTypes ==
    ASSUME TypeOK
    PROVE  /\ InPlay \subseteq Wire
           /\ \A w \in InPlay : w.seq \in Nat /\ w.body \in Nat
<1>1. InPlay \subseteq Wire
  BY DEF InPlay, Commands, TypeOK, LinkTypeOK, HostTypeOK
<1> QED
  BY <1>1 DEF Wire

-----------------------------------------------------------------------------
SameSide ==
    /\ rec'.sess = rec.sess /\ rec'.sseq = rec.sseq /\ rec'.civ = rec.civ
    /\ broken' = broken

SameSensor == ses'.sess = ses.sess /\ ses'.rx = ses.rx /\ ses'.chain = ses.chain

LEMMA LockstepKept ==
    ASSUME LockstepInv, SameSide, SameSensor, InPlay' = InPlay,
           Sending' => Sending /\ wire' = wire,
           HpResume /\ Sending' => Waiting' \subseteq Waiting
    PROVE  LockstepInv'
<1>1. Live' = Live /\ Ours' = Ours
  BY DEF SameSide, SameSensor, Live, SessionLive, Ours
<1>2. Complete => Complete'
  BY <1>1 DEF SameSide, SameSensor, Complete
<1>3. Chained => Chained'
  BY <1>1 DEF SameSide, SameSensor, Chained
<1>4. Undelivered => Undelivered'
  BY DEF SameSide, SameSensor, Undelivered
<1> QED
  BY <1>1, <1>2, <1>3, <1>4 DEF LockstepInv

LEMMA LockstepGone == ASSUME ~Live' PROVE LockstepInv'
BY DEF LockstepInv

LEMMA NoSessionGone == ASSUME rec'.sess = NoSession \/ broken' PROVE ~Live'
BY DEF Live, SessionLive

LEMMA LockstepInit == Init => LockstepInv
BY NoRecordSide DEF Init, LockstepInv, Live, SessionLive

(* A message of the handshake leaves the commands where they are.          *)
LEMMA LockstepHsMessage ==
    ASSUME TypeOK, LockstepInv, UNCHANGED <<rec, broken, ses, wire>>,
           epOut' = epOut \/ Put(HsMessage), Sending' = Sending
    PROVE  LockstepInv'
<1>1. Waiting' = Waiting
  BY HsMessageOther, WaitingSame, WaitingPutOther
<1>2. InPlay' = InPlay
  BY <1>1, InPlayParts
<1> QED
  BY <1>1, <1>2, LockstepKept DEF SameSide, SameSensor

LEMMA LockstepDies == ASSUME Die PROVE LockstepInv'
BY NoRecordSide, NoSessionGone, LockstepGone DEF Die

LEMMA LockstepHsErr ==
    ASSUME TypeOK, LockstepInv, InHandshake, HandshakeErr, ses' = ses,
           epOut' = epOut \/ Put(HsMessage)
    PROVE  LockstepInv'
<1>1. CASE hs.ret = "boot"
  BY <1>1, LockstepDies DEF HandshakeErr
<1>2. CASE hs.ret # "boot"
  <2>1. UNCHANGED <<rec, broken, wire>> /\ Sending' = Sending
    BY <1>2 DEF HandshakeErr, Sending, InHandshake
  <2> QED
    BY <2>1, LockstepHsMessage
<1> QED
  BY <1>1, <1>2

(* A new session starts with both ends at 1 and nothing in play but the    *)
(* command that is sent under it again.                                    *)
LEMMA LockstepHandshakeOk ==
    ASSUME TypeOK, HostInv, AgreementInv, pc = "hsRead", epIn # <<>>, epIn' = Tail(epIn),
           HsReadFlight(Head(epIn)), Head(epIn).kind = "flight", UNCHANGED <<epOut, ses>>
    PROVE  LockstepInv'
<1> DEFINE new == AfterDecrypt(hs.rec, Head(epIn))
<1>1. /\ HandshakeOk(new) /\ new.sseq = 1 /\ new.civ = <<1, 0>>
      /\ epOut = <<>> /\ ses.rx = 1 /\ ses.chain = <<1, 0>>
  BY HandshakeDone
<1> HIDE DEF new
<1>2. Waiting' = {} /\ ses' = ses
  BY <1>1, WaitingNone
<1>3. CASE hs.ret = "send"
  <2>1. /\ ~HpResume /\ pc' = "write"
        /\ wire' = Encrypted(new, "data", cmd) /\ rec' = AfterEncrypt(new, cmd)
    BY <1>1, <1>3 DEF HandshakeOk, HostInv, SnapBefore
  <2>2. /\ wire'.seq = 1 /\ wire'.iv = <<1, 0>> /\ TailOf(wire') = <<2, cmd>>
        /\ rec'.sseq = 2 /\ rec'.civ = <<2, cmd>> /\ wire'.sess = rec'.sess
    BY <1>1, <2>1 DEF Encrypted, AfterEncrypt, TailOf
  <2>3. Ours' = {wire'}
    BY <1>2, <2>1, <2>2, InPlayParts DEF Ours, Sending
  <2> QED
    BY <1>1, <1>2, <2>1, <2>2, <2>3 DEF LockstepInv, Complete, Chained, Undelivered
<1>4. CASE hs.ret # "send"
  <2>1. pc' = "idle" /\ rec' = new
    BY <1>1, <1>4 DEF HandshakeOk
  <2>2. Ours' = {} /\ ~Sending'
    BY <1>2, <2>1, InPlayParts DEF Ours, Sending, InHandshake
  <2> QED
    BY <1>1, <1>2, <2>1, <2>2 DEF LockstepInv, Complete, Chained, Undelivered
<1> QED
  BY <1>3, <1>4

LEMMA LockstepHandshake ==
    ASSUME TypeOK, AgreementInv, HostInv, LockstepInv,
           HsWrite \/ HsWriteErr \/ HsRead \/ HsReadErr
    PROVE  LockstepInv'
<1>1. CASE HsWrite
  <2>1. UNCHANGED <<rec, broken, ses, wire>> /\ Put(HsMessage)
    BY <1>1 DEF HsWrite, sensorVars
  <2>2. hs'.ret = hs.ret
    BY <1>1, SideTypes DEF HsWrite, Handshake
  <2>3. Sending' = Sending
    BY <1>1, <2>2 DEF HsWrite, Sending, InHandshake
  <2> QED
    BY <2>1, <2>3, LockstepHsMessage
<1>2. CASE HsWriteErr \/ HsReadErr
  <2>1. InHandshake /\ HandshakeErr /\ ses' = ses
    BY <1>2 DEF HsWriteErr, HsReadErr, InHandshake, linkVars, sensorVars
  <2>2. epOut' = epOut \/ Put(HsMessage)
    BY <1>2 DEF HsWriteErr, HsReadErr, WriteFault, linkVars
  <2> QED
    BY <2>1, <2>2, LockstepHsErr
<1>3. CASE HsRead
  <2> DEFINE item == Head(epIn)
  <2>1. /\ pc = "hsRead" /\ InHandshake /\ epIn # <<>> /\ epIn' = Tail(epIn)
        /\ UNCHANGED <<epOut, ses>>
    BY <1>3 DEF HsRead, InHandshake, sensorVars
  <2>2. CASE HsReadInit(item) \/ HsReadServerHello(item)
    <3>1. UNCHANGED <<rec, broken, wire>> /\ Sending' = Sending
      BY <2>1, <2>2 DEF HsReadInit, HsReadServerHello, Advance, Sending, InHandshake
    <3> QED
      BY <2>1, <3>1, LockstepHsMessage
  <2>3. CASE HandshakeErr
    BY <2>1, <2>3, LockstepHsErr
  <2>4. CASE Die
    BY <2>4, LockstepDies
  <2>5. CASE HsReadFlight(item) /\ item.kind = "flight"
    BY <2>1, <2>5, LockstepHandshakeOk
  <2> QED
    BY <1>3, <2>2, <2>3, <2>4, <2>5 DEF HsRead, HsReadShortHello, HsReadFlight
<1> QED
  BY <1>1, <1>2, <1>3

(* A new command takes the next number and the host's chaining value.      *)
LEMMA LockstepSendCmd ==
    ASSUME TypeOK, ChannelInv, LockstepInv, SendCmd
    PROVE  LockstepInv'
<1>1. /\ pc = "idle" /\ pc' = "write" /\ cmd \in Nat
      /\ wire' = Encrypted(rec, "data", cmd + 1) /\ rec' = AfterEncrypt(rec, cmd + 1)
      /\ UNCHANGED <<epOut, ses, broken>>
  BY SideTypes DEF SendCmd, linkVars, sensorVars
<1>2. /\ wire'.seq = rec.sseq /\ wire'.iv = rec.civ /\ wire'.body = cmd + 1
      /\ TailOf(wire') = <<rec.sseq + 1, cmd + 1>> /\ wire'.sess = rec.sess
      /\ rec'.sseq = rec.sseq + 1 /\ rec'.civ = <<rec.sseq + 1, cmd + 1>>
      /\ rec'.sess = rec.sess
  BY <1>1 DEF Encrypted, AfterEncrypt, TailOf
<1>3. rec.sseq \in Nat /\ ses.rx \in Nat /\ \A w \in Ours : w.seq \in Nat /\ w.body \in 0..cmd
  <2>1. \A w \in InPlay : w.body \in 0..cmd
    <3>1. ~Sending
      BY <1>1 DEF Sending, InHandshake
    <3> QED
      BY <1>1, <3>1 DEF InPlay, ChannelInv, InOrder
  <2> QED
    BY <2>1, SideTypes, InPlayTypes DEF Ours
<1>4. ~Sending /\ Sending' /\ Waiting' = Waiting
  BY <1>1, WaitingSame DEF Sending, InHandshake
<1>5. Ours = {w \in Waiting : w.sess = rec.sess} /\ Ours' = Ours \cup {wire'}
  BY <1>2, <1>4, InPlayParts DEF Ours
<1>6. SUFFICES ASSUME Live PROVE Complete' /\ Chained' /\ Undelivered'
  BY <1>1, <1>2 DEF Live, SessionLive, LockstepInv
<1>7. Complete /\ Chained
  BY <1>6 DEF LockstepInv
<1>8. Complete'
  <2>1. ses'.rx <= rec'.sseq
    BY <1>1, <1>2, <1>3, <1>7 DEF Complete
  <2>2. ASSUME NEW n \in ses'.rx..(rec'.sseq - 1)
        PROVE  \E w \in Ours' : w.seq = n
    <3>1. n = rec.sseq \/ n \in ses.rx..(rec.sseq - 1)
      BY <1>1, <1>2, <1>3
    <3> QED
      BY <1>2, <1>5, <1>7, <3>1 DEF Complete
  <2>3. \A w \in Ours' : w.seq < rec'.sseq
    BY <1>2, <1>3, <1>5, <1>7 DEF Complete
  <2>4. ASSUME NEW v \in Ours', NEW w \in Ours', v.body < w.body
        PROVE  v.seq <= w.seq
    <3>1. CASE v \in Ours /\ w \in Ours
      BY <1>7, <2>4, <3>1 DEF Complete
    <3>2. CASE w = wire' /\ v \in Ours
      BY <1>2, <1>3, <1>7, <3>2 DEF Complete
    <3>3. CASE v = wire'
      BY <1>1, <1>2, <1>3, <1>5, <2>4, <3>3
    <3> QED
      BY <1>5, <3>1, <3>2, <3>3
  <2> QED
    BY <2>1, <2>2, <2>3, <2>4 DEF Complete
<1>9. Chained'
  <2>1. ASSUME NEW v \in Ours', NEW w \in Ours', ses.rx <= v.seq, w.seq = v.seq + 1
        PROVE  w.iv = TailOf(v)
    <3>1. CASE v \in Ours /\ w \in Ours
      BY <1>7, <2>1, <3>1 DEF Chained
    <3>2. CASE v \in Ours /\ w = wire'
      BY <1>2, <1>7, <2>1, <3>2 DEF Chained
    <3>3. CASE v = wire' /\ w \in Ours
      BY <1>2, <1>3, <1>7, <2>1, <3>3 DEF Complete
    <3>4. CASE v = wire' /\ w = wire'
      BY <1>2, <1>3, <2>1, <3>4
    <3> QED
      BY <1>5, <3>1, <3>2, <3>3, <3>4
  <2>2. \A w \in Ours' : w.seq = ses.rx => w.iv = ses.chain
    BY <1>2, <1>5, <1>7 DEF Chained
  <2>3. \A w \in Ours' : ses.rx <= w.seq /\ rec'.sseq = w.seq + 1 => TailOf(w) = rec'.civ
    <3>1. \A w \in Ours : rec'.sseq # w.seq + 1
      BY <1>2, <1>3, <1>7 DEF Complete
    <3> QED
      BY <1>2, <1>5, <3>1
  <2>4. ses.rx # rec'.sseq
    BY <1>2, <1>3, <1>7 DEF Complete
  <2> QED
    BY <1>1, <2>1, <2>2, <2>3, <2>4 DEF Chained
<1>10. Undelivered'
  BY <1>1, <1>2, <1>4, <1>5, <1>7 DEF Undelivered, Complete
<1> QED
  BY <1>8, <1>9, <1>10

(* The command being sent is written: it stays in play.                    *)
LEMMA LockstepWrite ==
    ASSUME TypeOK, ChannelInv, LockstepInv, ~HpResume \/ ~AmbiguousWrite,
           Write \/ WriteErr
    PROVE  LockstepInv'
<1>1. /\ pc = "write" /\ Sending /\ UNCHANGED <<ses, rec, wire, broken>>
      /\ epOut' = epOut \/ Put(wire)
  BY DEF Write, WriteErr, WriteFault, NextAttempt, Sending, hostVars, sensorVars
<1>2. wire \in Wire /\ wire.kind = "data"
  BY <1>1 DEF TypeOK, HostTypeOK, ChannelInv, WireCurrent
<1>3. Waiting' = Waiting \/ Waiting' = Waiting \cup {wire}
  BY <1>1, <1>2, WaitingSame, WaitingPut
<1>4. CASE Write
  <2>1. Waiting' = Waiting \cup {wire} /\ ~Sending'
    BY <1>2, <1>4, WaitingPut DEF Write, Sending, InHandshake
  <2>2. InPlay' = InPlay
    BY <1>1, <2>1, InPlayParts
  <2> QED
    BY <1>1, <2>1, <2>2, LockstepKept DEF SameSide, SameSensor
<1>5. CASE WriteErr
  <2>1. Sending'
    BY <1>5 DEF WriteErr, Sending
  <2>2. InPlay' = InPlay
    BY <1>1, <1>3, <2>1, InPlayParts
  <2>3. HpResume => Waiting' = Waiting
    BY <1>5, WaitingSame DEF WriteErr, WriteFault
  <2> QED
    BY <1>1, <2>1, <2>2, <2>3, LockstepKept DEF SameSide, SameSensor
<1> QED
  BY <1>4, <1>5

(* What is rolled back was in play and nowhere else: the host is where it  *)
(* was before it encrypted the command.                                    *)
LEMMA LockstepRollback ==
    ASSUME TypeOK, HostInv, LockstepInv, HpResume, ReopenOk
    PROVE  LockstepInv'
<1>1. /\ Sending /\ ~Sending' /\ rec' = snap /\ UNCHANGED <<epOut, ses, broken>>
  BY DEF ReopenOk, RolledBack, Sending, InHandshake, linkVars, sensorVars
<1>2. /\ wire.sess = rec.sess /\ rec.sseq = wire.seq + 1
      /\ rec'.sess = rec.sess /\ rec'.sseq = wire.seq /\ rec'.civ = wire.iv
  BY <1>1 DEF HostInv, WireLast, SnapBefore
<1>3. /\ Ours = {w \in Waiting : w.sess = rec.sess} \cup {wire}
      /\ Ours' = {w \in Waiting : w.sess = rec.sess}
  BY <1>1, <1>2, WaitingSame, InPlayParts DEF Ours
<1>4. SUFFICES ASSUME Live PROVE Complete' /\ Chained' /\ Undelivered'
  BY <1>1, <1>2 DEF Live, SessionLive, LockstepInv
<1>5. /\ Complete /\ Chained /\ ses.rx <= wire.seq
      /\ \A w \in Ours' : w.seq < wire.seq
  BY <1>1, <1>3, <1>4 DEF LockstepInv, Undelivered
<1>6. wire.seq \in Nat /\ ses.rx \in Nat /\ wire \in Ours /\ Ours' \subseteq Ours
  BY <1>3, SideTypes
<1>7. Complete'
  <2>1. ASSUME NEW n \in ses.rx..(wire.seq - 1)
        PROVE  \E w \in Ours' : w.seq = n
    <3>1. n \in ses.rx..(rec.sseq - 1) /\ n # wire.seq
      BY <1>2, <1>6
    <3>2. PICK w \in Ours : w.seq = n
      BY <1>5, <3>1 DEF Complete
    <3> QED
      BY <1>3, <3>1, <3>2
  <2> QED
    BY <1>1, <1>2, <1>5, <1>6, <2>1 DEF Complete
<1>8. Chained'
  <2>1. \A w \in Ours' : ses.rx <= w.seq /\ wire.seq = w.seq + 1 => TailOf(w) = wire.iv
    BY <1>5, <1>6 DEF Chained
  <2>2. ses.rx = wire.seq => ses.chain = wire.iv
    BY <1>5, <1>6 DEF Chained
  <2> QED
    BY <1>1, <1>2, <1>5, <1>6, <2>1, <2>2 DEF Chained
<1> QED
  BY <1>1, <1>7, <1>8 DEF Undelivered

LEMMA LockstepOther ==
    ASSUME TypeOK, HostInv, LockstepInv,
           \/ Boot \/ RebuildReopen \/ RebuildOpen \/ RebuildFails \/ (ReopenOk /\ ~HpResume)
           \/ WriteNoDevice \/ ReopenFails \/ GiveUp \/ ReadReply \/ Return
    PROVE  LockstepInv'
<1>1. CASE Boot \/ RebuildReopen \/ RebuildOpen \/ RebuildFails \/ GiveUp
  <2>1. rec'.sess = NoSession \/ broken'
    BY <1>1
       DEF Boot, RebuildReopen, RebuildOpen, RebuildFails, GiveUp, hostVars, HostInv, Standing
  <2> QED
    BY <2>1, NoSessionGone, LockstepGone
<1>2. CASE (ReopenOk /\ ~HpResume) \/ WriteNoDevice \/ ReopenFails
  <2>1. UNCHANGED <<rec, wire, broken, ses, epOut>>
    BY <1>2 DEF ReopenOk, WriteNoDevice, ReopenFails, linkVars, sensorVars, hostVars
  <2>2. Sending /\ Sending'
    BY <1>2 DEF ReopenOk, WriteNoDevice, ReopenFails, StartHandshake, Sending, InHandshake
  <2>3. Waiting' = Waiting /\ InPlay' = InPlay
    BY <2>1, <2>2, WaitingSame, InPlayParts
  <2> QED
    BY <2>1, <2>2, <2>3, LockstepKept DEF SameSide, SameSensor
<1>3. CASE Return \/ (ReadReply /\ ~Die)
  <2>1. /\ SameSide /\ UNCHANGED <<ses, epOut>> /\ ~Sending /\ ~Sending'
    <3>1. CASE Return
      BY <3>1 DEF Return, SameSide, hostVars, linkVars, sensorVars, Sending, InHandshake
    <3>2. CASE ReadReply /\ ~Die
      BY <3>2, SideTypes
         DEF ReadReply, SameSide, AfterDecrypt, Record, sensorVars, Sending, InHandshake
    <3> QED
      BY <1>3, <3>1, <3>2
  <2>2. Waiting' = Waiting /\ InPlay' = InPlay
    BY <2>1, WaitingSame, InPlayParts
  <2> QED
    BY <2>1, <2>2, LockstepKept DEF SameSensor
<1>4. CASE Die
  BY <1>4, LockstepDies
<1> QED
  BY <1>1, <1>2, <1>3, <1>4

LEMMA LockstepBus ==
    ASSUME TypeOK, LockstepInv, HostStill, broken' = broken, Reset \/ Enumerate
    PROVE  LockstepInv'
<1>1. SameSide /\ Sending' = Sending /\ wire' = wire
  BY DEF HostStill, SameSide, Sending, InHandshake
<1>2. CASE (Reset /\ SessionSurvivesReset) \/ Enumerate
  <2>1. ses' = ses /\ (epOut' = epOut \/ (epOut = <<>> /\ epOut' = <<>>))
    BY <1>2 DEF Reset, Enumerate, sensorVars
  <2>2. Waiting' = Waiting /\ InPlay' = InPlay
    BY <1>1, <2>1, WaitingSame, InPlayParts
  <2> QED
    BY <1>1, <2>1, <2>2, LockstepKept DEF SameSensor
<1>3. CASE Reset /\ ~SessionSurvivesReset
  <2>1. ses'.sess = NoSession
    BY <1>3 DEF Reset, NoSensorSession
  <2> QED
    BY <2>1, LockstepGone DEF Live, SessionLive
<1> QED
  BY <1>2, <1>3

(* A session that begins is not one the host has a Record of.              *)
LEMMA NewSessionUnknown ==
    ASSUME TypeOK, AgreementInv, HostStill, SensorFlightGood
    PROVE  ~Live'
<1>1. ses'.sess = neg /\ neg # NoSession /\ rec' = rec
  <2> DEFINE st == [sess |-> neg, rx |-> 1, chain |-> TailOf(Incoming), tx |-> 0]
  <2>1. ses' = [st EXCEPT !.tx = st.tx + 1]
    BY DEF SensorFlightGood, SecureReply
  <2> QED
    BY <2>1 DEF SensorFlightGood, HostStill
<1>2. neg \notin established
  BY <1>1, NumberTypes DEF AgreementInv, Offered
<1> QED
  BY <1>1, <1>2 DEF Live, SessionLive, AgreementInv, Agreed, SessionAgreed

(* The command the sensor takes is not ahead of what it expects: the one   *)
(* it expects is behind none that is newer.                                *)
LEMMA NotAhead ==
    ASSUME TypeOK, ChannelInv, Complete, 1 \in Commands, epOut[1].sess = rec.sess
    PROVE  epOut[1].seq <= ses.rx
<1> DEFINE first == epOut[1]
<1>1. first \in Ours /\ first.seq \in Nat /\ first.body \in Nat /\ ses.rx \in Nat
  BY InPlayCommand, InPlayTypes, SideTypes DEF Ours
<1>2. SUFFICES ASSUME ses.rx < first.seq PROVE FALSE
  BY <1>1
<1>3. PICK w \in Ours : w.seq = ses.rx
  <2>1. ses.rx \in ses.rx..(rec.sseq - 1)
    BY <1>1, <1>2, SideTypes DEF Complete
  <2> QED
    BY <2>1 DEF Complete
<1>4. w \in InPlay /\ w.sess = first.sess /\ w.body \in Nat
  BY <1>3, InPlayTypes DEF Ours
<1>5. first.body <= w.body
  <2>1. CASE w = wire /\ Sending
    BY <2>1 DEF ChannelInv, WireCurrent, InOrder
  <2>2. ASSUME NEW i \in Commands, w = epOut[i]
        PROVE  first.body <= w.body
    <3>1. i = 1 \/ 1 < i
      BY NumberTypes DEF Commands
    <3> QED
      BY <1>1, <2>2, <3>1 DEF ChannelInv, InOrder
  <2> QED
    BY <1>4, <2>1, <2>2 DEF InPlay
<1>6. first \in InPlay
  BY <1>1 DEF Ours
<1>7. first.body # w.body
  BY <1>1, <1>2, <1>3, <1>4, <1>6 DEF ChannelInv, OneNumber
<1>8. first.seq <= w.seq
  BY <1>1, <1>3, <1>4, <1>5, <1>7 DEF Complete
<1> QED
  BY <1>1, <1>2, <1>3, <1>8

(* The sensor accepts the record it expects, and no other moves it.        *)
LEMMA LockstepExecute ==
    ASSUME TypeOK, ChannelInv, LockstepInv, HostStill, broken' = broken,
           epOut # <<>>, epOut' = Tail(epOut), SensorExecute
    PROVE  LockstepInv'
<1>1. /\ Incoming.kind = "data" /\ Incoming.sess = ses.sess
      /\ Incoming.seq = ses.rx /\ Incoming.iv = ses.chain
  BY DEF SensorExecute, Acceptable
<1>2. ses'.sess = ses.sess /\ ses'.rx = ses.rx + 1 /\ ses'.chain = TailOf(Incoming)
  <2>1. ses' = [AfterAccept(Incoming) EXCEPT !.tx = AfterAccept(Incoming).tx + 1]
    BY DEF SensorExecute, SecureReply
  <2> QED
    BY <2>1 DEF AfterAccept
<1>3. /\ rec' = rec /\ wire' = wire /\ Sending' = Sending
  BY DEF HostStill, Sending, InHandshake
<1>4. /\ Waiting' \subseteq Waiting /\ Waiting \subseteq Waiting' \cup {Incoming}
      /\ Incoming \in Waiting
  BY <1>1, WaitingTaken
<1>5. SUFFICES ASSUME Live PROVE Complete' /\ Chained' /\ Undelivered'
  BY <1>2, <1>3 DEF Live, SessionLive, LockstepInv
<1>6. /\ Ours' \subseteq Ours /\ Ours \subseteq Ours' \cup {Incoming} /\ Incoming \in Ours
  <2>1. Incoming.sess = rec.sess
    BY <1>1, <1>5 DEF Live, SessionLive
  <2> QED
    BY <1>3, <1>4, <2>1, InPlayParts DEF Ours
<1>7. Complete /\ Chained /\ Undelivered
  BY <1>5 DEF LockstepInv
<1>8. ses.rx \in Nat /\ rec.sseq \in Nat /\ \A w \in Ours : w.seq \in Nat
  BY SideTypes, InPlayTypes DEF Ours
<1>9. Complete'
  <2>1. ses'.rx <= rec.sseq
    BY <1>1, <1>2, <1>6, <1>7, <1>8 DEF Complete
  <2>2. ASSUME NEW n \in (ses.rx + 1)..(rec.sseq - 1)
        PROVE  \E w \in Ours' : w.seq = n
    <3>1. n \in ses.rx..(rec.sseq - 1) /\ n # ses.rx
      BY <1>8
    <3>2. PICK w \in Ours : w.seq = n
      BY <1>7, <3>1 DEF Complete
    <3> QED
      BY <1>1, <1>6, <3>1, <3>2
  <2> QED
    BY <1>2, <1>3, <1>6, <1>7, <2>1, <2>2 DEF Complete
<1>10. Chained'
  <2>1. ASSUME NEW v \in Ours', NEW w \in Ours', ses.rx + 1 <= v.seq, w.seq = v.seq + 1
        PROVE  w.iv = TailOf(v)
    BY <1>6, <1>7, <1>8, <2>1 DEF Chained
  <2>2. \A w \in Ours' : w.seq = ses.rx + 1 => w.iv = TailOf(Incoming)
    BY <1>1, <1>6, <1>7, <1>8 DEF Chained
  <2>3. \A w \in Ours' : ses.rx + 1 <= w.seq /\ rec.sseq = w.seq + 1 => TailOf(w) = rec.civ
    BY <1>6, <1>7, <1>8 DEF Chained
  <2>4. ses.rx + 1 = rec.sseq => TailOf(Incoming) = rec.civ
    BY <1>1, <1>6, <1>7, <1>8 DEF Chained
  <2> QED
    BY <1>2, <1>3, <2>1, <2>2, <2>3, <2>4 DEF Chained
<1>11. Undelivered'
  <2>1. Incoming.sess = rec.sess
    BY <1>6 DEF Ours
  <2> QED
    BY <1>1, <1>2, <1>3, <1>4, <1>7, <1>8, <2>1, SideTypes DEF Undelivered
<1> QED
  BY <1>9, <1>10, <1>11

(* What the sensor refuses of the live session it has executed before.     *)
LEMMA LockstepAlert ==
    ASSUME TypeOK, ChannelInv, LockstepInv, HostStill, broken' = broken,
           epOut # <<>>, epOut' = Tail(epOut), SensorAlert
    PROVE  LockstepInv'
<1>1. /\ Incoming.kind = "data" /\ ~Acceptable(Incoming)
      /\ ses'.sess = ses.sess /\ ses'.rx = ses.rx /\ ses'.chain = ses.chain
  BY SideTypes DEF SensorAlert, SecureReply, SensorSession
<1>2. /\ rec' = rec /\ wire' = wire /\ Sending' = Sending
  BY DEF HostStill, Sending, InHandshake
<1>3. /\ Waiting' \subseteq Waiting /\ Waiting \subseteq Waiting' \cup {Incoming}
      /\ 1 \in Commands /\ Incoming = epOut[1] /\ Incoming \in InPlay
  BY <1>1, WaitingTaken, TakeFirst, InPlayCommand
<1>4. SUFFICES ASSUME Live PROVE Complete' /\ Chained' /\ Undelivered'
  BY <1>1, <1>2 DEF Live, SessionLive, LockstepInv
<1>5. Complete /\ Chained /\ Undelivered
  BY <1>4 DEF LockstepInv
<1>6. /\ Ours' \subseteq Ours /\ Ours \subseteq Ours' \cup {Incoming}
  BY <1>2, <1>3, InPlayParts DEF Ours
<1>7. Incoming \in Ours => Incoming.seq < ses.rx
  <2> SUFFICES ASSUME Incoming \in Ours PROVE Incoming.seq < ses.rx
    OBVIOUS
  <2>1. Incoming.sess = rec.sess /\ Incoming.sess = ses.sess
    BY <1>4 DEF Ours, Live, SessionLive
  <2>2. Incoming.seq <= ses.rx
    BY <1>3, <1>5, <2>1, NotAhead
  <2>3. Incoming.seq = ses.rx => Acceptable(Incoming)
    BY <1>5, <2>1 DEF Chained, Acceptable
  <2> QED
    BY <1>1, <1>3, <2>2, <2>3, SideTypes, InPlayTypes
<1>8. ses.rx \in Nat /\ rec.sseq \in Nat /\ \A w \in Ours : w.seq \in Nat
  BY SideTypes, InPlayTypes DEF Ours
<1>9. Complete'
  <2>1. ASSUME NEW n \in ses.rx..(rec.sseq - 1)
        PROVE  \E w \in Ours' : w.seq = n
    <3>1. PICK w \in Ours : w.seq = n
      BY <1>5 DEF Complete
    <3>2. w # Incoming
      BY <1>7, <1>8, <3>1
    <3> QED
      BY <1>6, <3>1, <3>2
  <2> QED
    BY <1>1, <1>2, <1>5, <1>6, <2>1 DEF Complete
<1>10. Chained'
  BY <1>1, <1>2, <1>5, <1>6 DEF Chained
<1>11. Undelivered'
  BY <1>1, <1>2, <1>3, <1>5 DEF Undelivered
<1> QED
  BY <1>9, <1>10, <1>11

LEMMA LockstepSensor ==
    ASSUME TypeOK, ChannelInv, AgreementInv, LockstepInv, HostStill, broken' = broken,
           SensorStep
    PROVE  LockstepInv'
<1>1. epOut # <<>> /\ epOut' = Tail(epOut)
  BY DEF SensorStep
<1>2. CASE SensorInitStep \/ SensorHello \/ SensorFlightBad
  <2>1. Incoming.kind # "data" /\ ses' = ses
    BY <1>2 DEF SensorInitStep, SensorHello, SensorFlightBad
  <2>2. SameSide /\ Sending' = Sending /\ wire' = wire
    BY DEF HostStill, SameSide, Sending, InHandshake
  <2>3. Waiting' = Waiting /\ InPlay' = InPlay
    BY <1>1, <2>1, <2>2, WaitingTaken, InPlayParts
  <2> QED
    BY <2>1, <2>2, <2>3, LockstepKept DEF SameSensor
<1>3. CASE SensorZeros
  <2>1. ses'.sess = NoSession
    BY <1>3 DEF SensorZeros
  <2> QED
    BY <2>1, LockstepGone DEF Live, SessionLive
<1>4. CASE SensorFlightGood
  BY <1>4, NewSessionUnknown, LockstepGone
<1> QED
  BY <1>1, <1>2, <1>3, <1>4, LockstepExecute, LockstepAlert DEF SensorStep

LEMMA LockstepNext ==
    ASSUME ~HpResume \/ ~AmbiguousWrite,
           TypeOK, ChannelInv, AgreementInv, HostInv, LockstepInv, [Next]_vars
    PROVE  LockstepInv'
<1>1. CASE HostStep
  BY <1>1, LockstepHandshake, LockstepSendCmd, LockstepWrite, LockstepRollback,
     LockstepOther DEF HostStep
<1>2. CASE LinkStep /\ UNCHANGED <<pc, hostVars, budgets>>
  <2>1. HostStill /\ broken' = broken
    BY <1>2 DEF HostStill, hostVars
  <2> QED
    BY <1>2, <2>1, LockstepBus, LockstepSensor DEF LinkStep
<1>3. CASE UNCHANGED vars
  <2>1. UNCHANGED <<pc, hs, rec, wire, broken, ses, epOut>>
    BY <1>3 DEF vars, hostVars, linkVars, sensorVars
  <2>2. SameSide /\ SameSensor /\ Sending' = Sending
    BY <2>1 DEF SameSide, SameSensor, Sending, InHandshake
  <2>3. Waiting' = Waiting /\ InPlay' = InPlay
    BY <2>1, <2>2, WaitingSame, InPlayParts
  <2> QED
    BY <2>1, <2>2, <2>3, LockstepKept
<1> QED
  BY <1>1, <1>2, <1>3 DEF Next, Finished

LEMMA HostHolds == Spec => [](TypeOK /\ ChannelInv /\ AgreementInv /\ HostInv)
<1>1. TypeOK /\ ChannelInv /\ AgreementInv /\ HostInv /\ [Next]_vars => HostInv'
  BY HostNext
<1> QED
  BY <1>1, HostInit, AgreementHolds, PTL DEF Spec

LEMMA LockstepHolds ==
    ASSUME ~HpResume \/ ~AmbiguousWrite
    PROVE  Spec => []LockstepInv
<1>1. TypeOK /\ ChannelInv /\ AgreementInv /\ HostInv /\ LockstepInv /\ [Next]_vars
        => LockstepInv'
  BY LockstepNext
<1> QED
  BY <1>1, LockstepInit, HostHolds, PTL DEF Spec

LEMMA LockstepShows == TypeOK /\ LockstepInv => SendLockstep
<1> SUFFICES ASSUME TypeOK, LockstepInv, pc \in {"idle", "collect"}, Live, epOut = <<>>
             PROVE  rec.sseq = ses.rx /\ rec.civ = ses.chain
  BY DEF SendLockstep, Live
<1>1. Ours = {}
  BY DEF Ours, InPlay, Commands, Sending, InHandshake
<1>2. Complete /\ Chained
  BY DEF LockstepInv
<1>3. rec.sseq = ses.rx
  <2>1. ses.rx \in Nat /\ rec.sseq \in Nat
    BY SideTypes
  <2>2. ~(ses.rx \in ses.rx..(rec.sseq - 1))
    BY <1>1, <1>2 DEF Complete
  <2> QED
    BY <1>2, <2>1, <2>2 DEF Complete
<1> QED
  BY <1>2, <1>3 DEF Chained

(* Between commands the two ends agree on what comes next, whatever was    *)
(* retried, reset or rolled back (capture.rs:211-262).  A rollback needs a *)
(* write that failed to have failed: with VFS_HP_RESUME a record that was  *)
(* delivered all the same is rolled back although the sensor is past it.   *)
THEOREM LockstepKeeps ==
    ASSUME ~HpResume \/ ~AmbiguousWrite
    PROVE  Spec => []SendLockstep
BY LockstepHolds, HostHolds, LockstepShows, PTL

-----------------------------------------------------------------------------
(* The chaining values name the command they come from.                    *)
HostAtCommand == rec.sseq > 1 => rec.civ[2] = cmd
SensorAtCommand ==
    ses.sess # NoSession /\ ses.rx > 1 =>
        log # <<>> /\ Last = [sess |-> ses.sess, cmd |-> ses.chain[2]]

CommandInv == HostAtCommand /\ SensorAtCommand

LEMMA CommandInit == Init => CommandInv
BY DEF Init, LinkInit, NoSensorSession, CommandInv, HostAtCommand, SensorAtCommand,
       NoRecord, NewRecord

LEMMA HostAtCommandStep ==
    ASSUME ~HpResume, TypeOK, AgreementInv, HostAtCommand, HostStep
    PROVE  HostAtCommand'
<1> USE DEF HostAtCommand
<1>1. ASSUME rec'.sseq = rec.sseq, rec'.civ = rec.civ, cmd' = cmd
      PROVE  HostAtCommand'
  BY <1>1
<1>2. ASSUME Die PROVE HostAtCommand'
  BY <1>2 DEF Die, NoRecord, NewRecord
<1>3. CASE HandshakeErr
  BY <1>1, <1>2, <1>3 DEF HandshakeErr
<1>4. CASE \/ Boot \/ HsWrite \/ Write \/ WriteErr \/ WriteNoDevice \/ ReopenOk
           \/ ReopenFails \/ GiveUp \/ Return \/ RebuildReopen \/ RebuildOpen \/ RebuildFails
  <2>1. rec' = rec /\ cmd' = cmd
    BY <1>4 DEF Boot, HsWrite, Write, WriteErr, WriteNoDevice, ReopenOk, ReopenFails,
       GiveUp, Return, RebuildReopen, RebuildOpen, RebuildFails, NextAttempt, hostVars
  <2> QED
    BY <1>1, <2>1
<1>5. CASE SendCmd
  BY <1>5 DEF SendCmd, AfterEncrypt
<1>6. CASE ReadReply
  <2>1. CASE Die
    BY <1>2, <2>1
  <2>2. CASE rec' = AfterDecrypt(rec, Head(epIn))
    BY <1>1, <1>6, <2>2, SideTypes DEF ReadReply, AfterDecrypt, Record
  <2> QED
    BY <1>6, <2>1, <2>2 DEF ReadReply
<1>7. CASE HsRead
  <2>1. pc = "hsRead" /\ epIn # <<>> /\ epIn' = Tail(epIn)
    BY <1>7 DEF HsRead
  <2>2. CASE HsReadInit(Head(epIn)) \/ HsReadServerHello(Head(epIn))
    BY <1>1, <2>2 DEF HsReadInit, HsReadServerHello
  <2>3. CASE HsReadFlight(Head(epIn)) /\ Head(epIn).kind = "flight"
    <3> DEFINE new == AfterDecrypt(hs.rec, Head(epIn))
    <3>1. HandshakeOk(new) /\ new.sseq = 1
      BY <2>1, <2>3, HandshakeDone
    <3> HIDE DEF new
    <3> QED
      BY <3>1 DEF HandshakeOk, AfterEncrypt
  <2> QED
    BY <1>2, <1>3, <1>7, <2>2, <2>3 DEF HsRead, HsReadShortHello, HsReadFlight
<1> QED
  BY <1>3, <1>4, <1>5, <1>6, <1>7 DEF HostStep, HsWriteErr, HsReadErr

LEMMA SensorAtCommandStep ==
    ASSUME TypeOK, SensorAtCommand, LinkStep
    PROVE  SensorAtCommand'
<1> USE DEF SensorAtCommand
<1>1. ASSUME log' = log,
             \/ ses'.sess = NoSession
             \/ ses'.sess = ses.sess /\ ses'.rx = ses.rx /\ ses'.chain = ses.chain
      PROVE  SensorAtCommand'
  BY <1>1 DEF Last
<1>2. CASE Reset \/ Enumerate
  BY <1>1, <1>2 DEF Reset, Enumerate, sensorVars, NoSensorSession
<1>3. CASE SensorStep
  <2>1. epOut # <<>> /\ epOut' = Tail(epOut)
    BY <1>3 DEF SensorStep
  <2>2. CASE SensorInitStep \/ SensorHello \/ SensorFlightBad \/ SensorAlert \/ SensorZeros
    <3>1. ses' = ses \/ ses' = [ses EXCEPT !.tx = ses.tx + 1]
      BY <2>2 DEF SensorInitStep, SensorHello, SensorFlightBad, SensorAlert, SensorZeros,
                  SecureReply
    <3>2. log' = log
      BY <2>2 DEF SensorInitStep, SensorHello, SensorFlightBad, SensorAlert, SensorZeros
    <3> QED
      BY <1>1, <3>1, <3>2, SideTypes DEF SensorSession
  <2>3. CASE SensorFlightGood
    <3> DEFINE st == [sess |-> neg, rx |-> 1, chain |-> TailOf(Incoming), tx |-> 0]
    <3>1. ses' = [st EXCEPT !.tx = st.tx + 1]
      BY <2>3 DEF SensorFlightGood, SecureReply
    <3>2. ses'.rx = 1
      BY <3>1
    <3> QED
      BY <3>2
  <2>4. CASE SensorExecute
    <3> DEFINE e == [sess |-> ses.sess, cmd |-> Incoming.body]
    <3>1. /\ ses' = [AfterAccept(Incoming) EXCEPT !.tx = AfterAccept(Incoming).tx + 1]
          /\ log' = Append(log, e)
      BY <2>4 DEF SensorExecute, SecureReply
    <3>2. ses'.sess = ses.sess /\ ses'.chain = <<Incoming.seq + 1, Incoming.body>>
      BY <3>1 DEF AfterAccept, TailOf
    <3>3. log \in Seq(Executed) /\ e \in Executed
      <4>1. Incoming \in Wire
        BY <2>1, NumberTypes, Taken DEF Incoming
      <4> QED
        BY <4>1 DEF Executed, Wire, TypeOK, LinkTypeOK, SensorSession
    <3> HIDE DEF e
    <3>4. log' # <<>> /\ log'[Len(log')] = e
      BY <3>1, <3>3
    <3> QED
      BY <3>2, <3>4 DEF e, Last
  <2> QED
    BY <1>3, <2>2, <2>3, <2>4 DEF SensorStep
<1> QED
  BY <1>2, <1>3 DEF LinkStep

LEMMA CommandNext ==
    ASSUME ~HpResume, TypeOK, AgreementInv, CommandInv, [Next]_vars
    PROVE  CommandInv'
<1> USE DEF CommandInv
<1>1. CASE HostStep
  <2>1. UNCHANGED <<ses, log>>
    BY <1>1 DEF HostStep, Boot, HsWrite, HsWriteErr, HsRead, HsReadErr, SendCmd, Write,
       WriteErr, WriteNoDevice, ReopenOk, ReopenFails, GiveUp, ReadReply, Return,
       RebuildReopen, RebuildOpen, RebuildFails, linkVars, sensorVars
  <2>2. SensorAtCommand'
    BY <2>1 DEF SensorAtCommand, Last
  <2> QED
    BY <1>1, <2>2, HostAtCommandStep
<1>2. CASE LinkStep /\ UNCHANGED <<pc, hostVars, budgets>>
  BY <1>2, SensorAtCommandStep DEF HostAtCommand, hostVars
<1>3. CASE UNCHANGED vars
  BY <1>3 DEF vars, hostVars, linkVars, sensorVars, HostAtCommand, SensorAtCommand, Last
<1> QED
  BY <1>1, <1>2, <1>3 DEF Next, Finished

LEMMA CommandShows ==
    TypeOK /\ HostInv /\ LockstepInv /\ CommandInv => NoCommandLost
<1> SUFFICES ASSUME TypeOK, HostInv, LockstepInv, CommandInv,
                    pc = "idle", SessionLive, ~broken, epOut = <<>>, Used
             PROVE  log # <<>> /\ Last = [sess |-> rec.sess, cmd |-> cmd]
  BY DEF NoCommandLost, Last
<1>1. rec.sseq = ses.rx /\ rec.civ = ses.chain
  BY LockstepShows DEF SendLockstep
<1>2. rec.sess = ses.sess /\ ses.sess # NoSession
  BY DEF SessionLive
<1>3. rec.sseq > 1
  BY <1>2, SideTypes DEF Used, HostInv, Started
<1> QED
  BY <1>1, <1>2, <1>3 DEF CommandInv, HostAtCommand, SensorAtCommand

(* Under a live session the command send_cmd returns from is the last one  *)
(* the sensor executed (capture.rs:206-319), however often it was written  *)
(* or encrypted again.  VFS_HP_RESUME gives up the command on purpose.     *)
THEOREM CommandsArrive ==
    ASSUME ~HpResume
    PROVE  Spec => []NoCommandLost
<1>1. Spec => []LockstepInv
  BY LockstepHolds
<1>2. TypeOK /\ AgreementInv /\ CommandInv /\ [Next]_vars => CommandInv'
  BY CommandNext
<1>3. Spec => []CommandInv
  BY <1>2, CommandInit, HostHolds, PTL DEF Spec
<1> QED
  BY <1>1, <1>3, HostHolds, CommandShows, PTL

-----------------------------------------------------------------------------
(* While a session lives that does not survive a reset, the pipes hold     *)
(* nothing but its commands and the answers not read yet.                  *)
Answers ==
    Live =>
      /\ Attached /\ pc \in {"idle", "write", "collect"}
      /\ \A k \in 1..Len(epOut) : epOut[k].kind = "data"
      /\ rec.siv[1] = rec.sess
      /\ ses.tx = rec.siv[2] + Len(epIn)
      /\ \A k \in 1..Len(epIn) : epIn[k].sess = rec.sess /\ epIn[k].n = rec.siv[2] + k

LEMMA AnswersInit == Init => Answers
BY NoRecordSide DEF Init, Answers, Live, SessionLive

LEMMA AnswersGone == ASSUME ~Live' PROVE Answers'
BY DEF Answers

LEMMA AnswersNoSession == ASSUME rec'.sess = NoSession \/ broken' PROVE Answers'
BY NoSessionGone, AnswersGone

(* A step that makes no session live leaves one that was not live so.      *)
LEMMA AnswersStill ==
    ASSUME Answers, ~Attached \/ pc \notin {"idle", "write", "collect"},
           rec'.sess = rec.sess, broken' = broken, ses'.sess = ses.sess
    PROVE  Answers'
BY AnswersGone DEF Answers, Live, SessionLive

LEMMA AnswersHsErr ==
    ASSUME TypeOK, Answers, InHandshake, HandshakeErr, ses' = ses
    PROVE  Answers'
<1>1. CASE Die
  BY <1>1, NoRecordSide, AnswersNoSession DEF Die
<1>2. CASE ~Die
  BY <1>2, AnswersStill DEF HandshakeErr, InHandshake
<1> QED
  BY <1>1, <1>2

(* The answer to the flight was the last item in the pipe.                 *)
LEMMA AnswersHandshake ==
    ASSUME TypeOK, AgreementInv, HostInv, Answers,
           HsWrite \/ HsWriteErr \/ HsRead \/ HsReadErr
    PROVE  Answers'
<1>1. CASE HsWrite
  BY <1>1, AnswersStill DEF HsWrite, sensorVars
<1>2. CASE HsWriteErr \/ HsReadErr
  BY <1>2, AnswersHsErr DEF HsWriteErr, HsReadErr, InHandshake, linkVars, sensorVars
<1>3. CASE HsRead
  <2> DEFINE item == Head(epIn)
             new == AfterDecrypt(hs.rec, item)
  <2>1. /\ pc = "hsRead" /\ InHandshake /\ epIn # <<>> /\ epIn' = Tail(epIn) /\ Attached
        /\ UNCHANGED <<epOut, ses, present, epoch>>
    BY <1>3 DEF HsRead, InHandshake, sensorVars, busVars
  <2>2. CASE HsReadInit(item) \/ HsReadServerHello(item)
    BY <2>1, <2>2, AnswersStill DEF HsReadInit, HsReadServerHello
  <2>3. CASE HandshakeErr
    BY <2>1, <2>3, AnswersHsErr
  <2>4. CASE Die
    BY <2>4, NoRecordSide, AnswersNoSession DEF Die
  <2>5. CASE HsReadFlight(item) /\ item.kind = "flight"
    <3>1. /\ HandshakeOk(new) /\ new.sess = hs.rec.sess /\ new.siv = <<hs.rec.sess, 1>>
          /\ epOut = <<>> /\ epIn' = <<>> /\ ses.tx = 1
      BY <2>1, <2>5, HandshakeDone
    <3> HIDE DEF new
    <3>2. pc' \in {"idle", "write"} /\ Attached'
      BY <2>1, <3>1 DEF HandshakeOk, Attached
    <3>3. rec'.sess = hs.rec.sess /\ rec'.siv = <<hs.rec.sess, 1>>
      BY <3>1 DEF HandshakeOk, AfterEncrypt
    <3>4. rec'.siv[1] = rec'.sess /\ rec'.siv[2] = 1
      BY <3>3
    <3>5. Len(epIn') = 0 /\ Len(epOut') = 0 /\ ses'.tx = 1
      BY <2>1, <3>1
    <3>6. ses'.tx = rec'.siv[2] + Len(epIn')
      BY <3>4, <3>5
    <3>7. (\A k \in 1..Len(epOut') : FALSE) /\ (\A k \in 1..Len(epIn') : FALSE)
      BY <3>5
    <3> QED
      BY <3>2, <3>4, <3>6, <3>7 DEF Answers
  <2> QED
    BY <1>3, <2>2, <2>3, <2>4, <2>5 DEF HsRead, HsReadShortHello, HsReadFlight
<1> QED
  BY <1>1, <1>2, <1>3

LEMMA AnswersStart ==
    ASSUME TypeOK, HostInv, Answers,
           \/ Boot \/ RebuildReopen \/ RebuildOpen \/ RebuildFails \/ GiveUp
           \/ ReopenOk \/ ReopenFails \/ WriteNoDevice
    PROVE  Answers'
<1>1. CASE Boot \/ RebuildReopen \/ RebuildOpen \/ RebuildFails \/ GiveUp
  <2>1. rec'.sess = NoSession \/ broken'
    BY <1>1
       DEF Boot, RebuildReopen, RebuildOpen, RebuildFails, GiveUp, hostVars, HostInv, Standing
  <2> QED
    BY <2>1, AnswersNoSession
<1>2. CASE ReopenOk
  <2>1. rec'.sess = rec.sess /\ UNCHANGED <<broken, ses>> /\ pc = "reopen"
    BY <1>2 DEF ReopenOk, RolledBack, HostInv, SnapBefore, Sending, linkVars, sensorVars
  <2> QED
    BY <2>1, AnswersStill
<1>3. CASE ReopenFails \/ WriteNoDevice
  <2>1. UNCHANGED <<rec, broken, ses>> /\ (pc = "reopen" \/ ~Attached)
    BY <1>3 DEF ReopenFails, WriteNoDevice, linkVars, sensorVars, hostVars
  <2> QED
    BY <2>1, AnswersStill
<1> QED
  BY <1>1, <1>2, <1>3

LEMMA AnswersSend ==
    ASSUME TypeOK, ChannelInv, Answers, SendCmd \/ Write \/ WriteErr \/ Return
    PROVE  Answers'
<1>1. /\ UNCHANGED <<ses, epIn, present, epoch, handle, broken>>
      /\ pc' \in {"write", "collect", "idle"}
      /\ rec'.sess = rec.sess /\ rec'.siv = rec.siv
  BY DEF SendCmd, Write, WriteErr, Return, NextAttempt, AfterEncrypt, hostVars, linkVars,
         busVars, sensorVars
<1>2. epOut' = epOut \/ (pc = "write" /\ Put(wire))
  BY DEF SendCmd, Write, WriteErr, WriteFault, Return, linkVars
<1>3. pc = "write" => wire \in Wire /\ wire.kind = "data"
  BY DEF ChannelInv, WireCurrent, Sending, TypeOK, HostTypeOK
<1>4. Live' = Live /\ Attached' = Attached
  BY <1>1 DEF Live, SessionLive, Attached
<1>5. ASSUME Live PROVE \A k \in 1..Len(epOut') : epOut'[k].kind = "data"
  <2>1. \A k \in 1..Len(epOut) : epOut[k].kind = "data"
    BY <1>5 DEF Answers
  <2>2. CASE epOut' = epOut
    BY <2>1, <2>2
  <2>3. CASE pc = "write" /\ Put(wire)
    BY <1>3, <2>1, <2>3, NumberTypes, Added DEF Put
  <2> QED
    BY <1>2, <2>2, <2>3
<1> QED
  BY <1>1, <1>4, <1>5 DEF Answers

(* The item that is read is the next of the session.                       *)
LEMMA AnswersReadReply ==
    ASSUME TypeOK, Answers, ReadReply
    PROVE  Answers'
<1>1. CASE Die
  BY <1>1, NoRecordSide, AnswersNoSession DEF Die
<1>2. CASE ~Die
  <2> DEFINE item == Head(epIn)
  <2>1. /\ epIn # <<>> /\ epIn' = Tail(epIn) /\ rec' = AfterDecrypt(rec, item)
        /\ UNCHANGED <<pc, handle, broken, present, epoch, ses, epOut>>
    BY <1>2 DEF ReadReply, busVars, sensorVars
  <2>2. rec \in Record /\ rec.siv \in ServerBlock /\ rec'.sess = rec.sess
    BY <2>1, SideTypes, AfterDecryptSession DEF Record
  <2>3. Live' = Live /\ Attached' = Attached
    BY <2>1, <2>2 DEF Live, SessionLive, Attached
  <2>4. /\ epIn \in Seq(Item) /\ Len(epIn) \in Nat \ {0} /\ Len(epIn') = Len(epIn) - 1
        /\ item = epIn[1] /\ 1 \in 1..Len(epIn)
        /\ \A k \in 1..Len(epIn') : k + 1 \in 2..Len(epIn) /\ epIn'[k] = epIn[k + 1]
    BY <2>1, NumberTypes, Taken
  <2>5. rec.siv[2] \in Nat
    BY <2>2 DEF ServerBlock
  <2>6. SUFFICES ASSUME Live
                 PROVE  /\ rec'.siv[1] = rec.sess
                        /\ ses.tx = rec'.siv[2] + Len(epIn')
                        /\ \A k \in 1..Len(epIn') :
                              epIn'[k].sess = rec.sess /\ epIn'[k].n = rec'.siv[2] + k
    BY <2>1, <2>2, <2>3 DEF Answers
  <2>7. /\ ses.tx = rec.siv[2] + Len(epIn)
        /\ \A k \in 1..Len(epIn) : epIn[k].sess = rec.sess /\ epIn[k].n = rec.siv[2] + k
    BY <2>6 DEF Answers
  <2>8. item.sess = rec.sess /\ item.n = rec.siv[2] + 1
    BY <2>4, <2>7
  <2>9. rec'.siv = <<item.sess, item.n>>
    BY <2>1, <2>2, <2>5, <2>8 DEF AfterDecrypt, IsCiphertext, Record
  <2>10. rec'.siv[1] = rec.sess /\ rec'.siv[2] = rec.siv[2] + 1
    BY <2>8, <2>9
  <2>11. ses.tx = rec'.siv[2] + Len(epIn')
    <3>1. Len(epIn) \in Nat /\ Len(epIn') = Len(epIn) - 1
      BY <2>4
    <3> QED
      BY <2>5, <2>7, <2>10, <3>1
  <2>12. ASSUME NEW k \in 1..Len(epIn')
         PROVE  epIn'[k].sess = rec.sess /\ epIn'[k].n = rec'.siv[2] + k
    <3>1. k \in Nat /\ k + 1 \in 1..Len(epIn) /\ epIn'[k] = epIn[k + 1]
      <4>1. k + 1 \in 2..Len(epIn) /\ epIn'[k] = epIn[k + 1]
        BY <2>4
      <4>2. k \in Nat
        BY <2>4
      <4> QED
        BY <2>4, <4>1, <4>2
    <3>2. epIn[k + 1].sess = rec.sess /\ epIn[k + 1].n = rec.siv[2] + (k + 1)
      BY <2>7, <3>1
    <3>3. rec.siv[2] + (k + 1) = rec'.siv[2] + k
      BY <2>5, <2>10, <3>1, SMTT(20)
    <3> QED
      BY <3>1, <3>2, <3>3
  <2> QED
    BY <2>10, <2>11, <2>12
<1> QED
  BY <1>1, <1>2

LEMMA AnswersBus ==
    ASSUME ~SessionSurvivesReset, Answers, UNCHANGED hostVars, Reset \/ Enumerate
    PROVE  Answers'
<1>1. CASE Reset
  <2>1. ses'.sess = NoSession
    BY <1>1 DEF Reset, NoSensorSession
  <2> QED
    BY <2>1, AnswersGone DEF Live, SessionLive
<1>2. CASE Enumerate
  BY <1>2, AnswersStill DEF Enumerate, Attached, hostVars, sensorVars
<1> QED
  BY <1>1, <1>2

(* The sensor counts the records it answers with.                          *)
LEMMA AnswersSensor ==
    ASSUME TypeOK, AgreementInv, Answers, UNCHANGED <<pc, hostVars>>, SensorStep
    PROVE  Answers'
<1>1. /\ epOut # <<>> /\ epOut' = Tail(epOut)
      /\ UNCHANGED <<pc, rec, broken, handle, present, epoch>> /\ HostStill
  BY DEF SensorStep, busVars, hostVars, HostStill
<1>2. CASE SensorExecute \/ SensorAlert
  <2>1. Incoming \in Wire /\ Incoming.body \in Nat
    <3>1. Incoming \in Wire
      BY <1>1, NumberTypes, Taken DEF Incoming
    <3> QED
      BY <3>1 DEF Wire
  <2>2. PICK k \in {"data", "alert"}, b \in Nat, st \in {ses, AfterAccept(Incoming)} :
           SecureReply(k, st, b)
    BY <1>2, <2>1 DEF SensorExecute, SensorAlert
  <2>3. st.sess = ses.sess /\ st.tx = ses.tx /\ st \in SensorSession
    BY <2>1, SideTypes, TailOfType DEF AfterAccept, SensorSession
  <2> DEFINE m == [kind |-> k, sess |-> ses.sess, n |-> ses.tx + 1, body |-> b]
  <2>4. m \in Item /\ m.sess = ses.sess /\ m.n = ses.tx + 1 /\ Reply(m)
    BY <2>2, <2>3, SideTypes, ItemType DEF SecureReply, SensorSession
  <2>5. ses'.sess = ses.sess /\ ses'.tx = ses.tx + 1
    BY <2>2, <2>3 DEF SecureReply, SensorSession
  <2> HIDE DEF m
  <2>6. Live' = Live /\ Attached' = Attached
    BY <1>1, <2>5 DEF Live, SessionLive, Attached
  <2>7. SUFFICES ASSUME Live PROVE Answers'
    BY <2>6, AnswersGone
  <2>8. rec.sess = ses.sess /\ rec.siv[2] \in Nat
    BY <2>7, SideTypes DEF Live, SessionLive, Record, ServerBlock
  <2>9. \A i \in 1..Len(epOut') : epOut'[i].kind = "data"
    BY <1>1, <2>4, <2>7, Answered DEF Answers
  <2>10. ses'.tx = rec.siv[2] + Len(epIn')
    <3>1. ses.tx = rec.siv[2] + Len(epIn)
      BY <2>7 DEF Answers
    <3>2. Len(epIn) \in Nat /\ Len(epIn') = Len(epIn) + 1
      BY <1>1, <2>4, Answered, NumberTypes
    <3> QED
      BY <2>5, <2>8, <3>1, <3>2
  <2>11. ASSUME NEW i \in 1..Len(epIn')
         PROVE  epIn'[i].sess = rec.sess /\ epIn'[i].n = rec.siv[2] + i
    <3>1. i = Len(epIn') \/ (i \in 1..Len(epIn) /\ epIn'[i] = epIn[i])
      BY <1>1, <2>4, Answered
    <3>2. CASE i = Len(epIn')
      <4>1. epIn'[i].sess = ses.sess /\ epIn'[i].n = ses.tx + 1
        BY <1>1, <2>4, <3>2, Answered
      <4> QED
        BY <2>5, <2>8, <2>10, <3>2, <4>1
    <3>3. CASE i \in 1..Len(epIn) /\ epIn'[i] = epIn[i]
      BY <2>7, <3>3 DEF Answers
    <3> QED
      BY <3>1, <3>2, <3>3
  <2> QED
    BY <1>1, <2>6, <2>7, <2>9, <2>10, <2>11 DEF Answers
<1>3. CASE SensorFlightGood
  BY <1>1, <1>3, NewSessionUnknown, AnswersGone
<1>4. CASE SensorZeros
  BY <1>4, AnswersGone DEF SensorZeros, Live, SessionLive
<1>5. CASE SensorInitStep \/ SensorHello \/ SensorFlightBad
  <2>1. Incoming.kind # "data" /\ ses' = ses
    BY <1>5 DEF SensorInitStep, SensorHello, SensorFlightBad
  <2>2. Len(epOut) \in Nat \ {0} /\ Incoming = epOut[1]
    BY <1>1, NumberTypes, Taken DEF Incoming
  <2>3. ~Live
    BY <2>1, <2>2 DEF Answers
  <2> QED
    BY <1>1, <2>1, <2>3, AnswersGone DEF Live, SessionLive
<1> QED
  BY <1>2, <1>3, <1>4, <1>5 DEF SensorStep

LEMMA AnswersNext ==
    ASSUME ~SessionSurvivesReset,
           TypeOK, ChannelInv, AgreementInv, HostInv, Answers, [Next]_vars
    PROVE  Answers'
<1>1. CASE HostStep
  BY <1>1, AnswersHandshake, AnswersStart, AnswersSend, AnswersReadReply DEF HostStep
<1>2. CASE LinkStep /\ UNCHANGED <<pc, hostVars, budgets>>
  <2>1. UNCHANGED <<pc, hostVars>> /\ UNCHANGED hostVars
    BY <1>2
  <2> QED
    BY <1>2, <2>1, AnswersBus, AnswersSensor DEF LinkStep
<1>3. CASE UNCHANGED vars
  BY <1>3 DEF vars, hostVars, linkVars, sensorVars, busVars, Answers, Live, SessionLive,
              Attached
<1> QED
  BY <1>1, <1>2, <1>3 DEF Next, Finished

LEMMA AnswersShow == TypeOK /\ Answers => ReceiveAligned
<1> SUFFICES ASSUME TypeOK, Answers, Live
             PROVE  /\ rec.siv[1] = rec.sess
                    /\ IF epIn = <<>> THEN rec.siv[2] = ses.tx
                       ELSE IsCiphertext(Head(epIn)) => Head(epIn).n = rec.siv[2] + 1
  BY DEF ReceiveAligned, Live
<1>1. /\ rec.siv[1] = rec.sess /\ ses.tx = rec.siv[2] + Len(epIn)
      /\ \A k \in 1..Len(epIn) : epIn[k].n = rec.siv[2] + k
  BY DEF Answers
<1>2. rec.siv[2] \in Nat
  BY SideTypes DEF Record, ServerBlock
<1>3. CASE epIn = <<>>
  BY <1>1, <1>2, <1>3
<1>4. CASE epIn # <<>>
  <2>1. 1 \in 1..Len(epIn) /\ Head(epIn) = epIn[1]
    BY <1>4, NumberTypes, Taken
  <2> QED
    BY <1>1, <1>4, <2>1
<1> QED
  BY <1>1, <1>3, <1>4

(* The next record to be read of a live session is the one the receive     *)
(* chain stands before, whatever was left unread when a reply was late     *)
(* (usb.rs:90-91, session.rs:194-214).  This is about sensors whose        *)
(* session ends with a reset: one that outlives it has counted the answers *)
(* the reset took from the pipe.                                           *)
THEOREM RepliesAligned ==
    ASSUME ~SessionSurvivesReset
    PROVE  Spec => []ReceiveAligned
<1>1. TypeOK /\ ChannelInv /\ AgreementInv /\ HostInv /\ Answers /\ [Next]_vars => Answers'
  BY AnswersNext
<1>2. Spec => []Answers
  BY <1>1, AnswersInit, HostHolds, PTL DEF Spec
<1> QED
  BY <1>2, HostHolds, AnswersShow, PTL
=============================================================================
