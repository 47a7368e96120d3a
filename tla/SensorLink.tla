----------------------------- MODULE SensorLink -----------------------------
(***************************************************************************)
(* The sensor and the two EP1 pipes between it and the host.  None of it   *)
(* is in the repository: it is modelled from how src/src/session.rs,       *)
(* src/src/usb.rs and src/src/capture.rs use it and from the behaviour     *)
(* their comments report (what a reset leaves behind, zero bytes from a    *)
(* dead session, alerts from a live one that was fed a wrong record).      *)
(*                                                                         *)
(* The sensor executes an in-session command only when its record decrypts *)
(* and its MAC verifies, so only the next record of the session in force.  *)
(* A reset takes the device off the bus with everything queued in the      *)
(* pipes; when it comes back it is a new device for the host's handle.     *)
(***************************************************************************)
EXTENDS RecordLayer, Sequences

CONSTANTS
    NInit,                 \* steps of the recorded init sequence
    LongInit,              \* the steps whose reply is as long as a ServerHello
    LongData,              \* the commands with such a reply
    SessionSurvivesReset,  \* whether the SSL session outlives a reset
    MaxResets              \* bound: resets in a behaviour

ASSUME NInitAssumption == NInit \in Nat \ {0}
\* The reply to the last init step is 38 bytes: shorter than a ServerHello.
ASSUME LongInitAssumption == LongInit \subseteq 1..(NInit - 1)
ASSUME LongDataAssumption == LongData \subseteq Nat
ASSUME SurviveAssumption == SessionSurvivesReset \in BOOLEAN
ASSUME ResetsAssumption == MaxResets \in Nat

VARIABLES
    present,      \* the device is on the bus
    epoch,        \* how often it enumerated: an older handle is dead
    ses,          \* the sensor's end of the session
    neg,          \* the session being negotiated, NoSession if none
    srv,          \* ServerHellos sent so far: the next server nonce
    epOut, epIn,  \* the pipes, oldest first
    log,          \* history: the commands executed, in order
    established,  \* history: the sessions the sensor agreed to
    resets        \* resets so far

busVars    == <<present, epoch, resets>>
sensorVars == <<ses, neg, srv, log, established>>
linkVars   == <<busVars, sensorVars, epOut, epIn>>

(* The sensor's end: session, the next sequence number and chaining value  *)
(* it will accept, and the number of records it has encrypted.             *)
SensorSession == [sess : Session, rx : Nat, chain : Block, tx : Nat]
NoSensorSession == [sess |-> NoSession, rx |-> 0, chain |-> KeyIV, tx |-> 0]

Executed == [sess : Session, cmd : Nat]

LinkTypeOK ==
    /\ present \in BOOLEAN
    /\ epoch \in Nat
    /\ ses \in SensorSession
    /\ neg \in Session
    /\ srv \in Nat
    /\ epOut \in Seq(Wire)
    /\ epIn \in Seq(Item)
    /\ log \in Seq(Executed)
    /\ established \subseteq Session
    /\ resets \in Nat

LinkInit ==
    /\ present = TRUE
    /\ epoch = 1
    /\ ses = NoSensorSession
    /\ neg = NoSession
    /\ srv = 0
    /\ epOut = <<>> /\ epIn = <<>>
    /\ log = <<>>
    /\ established = {}
    /\ resets = 0

-----------------------------------------------------------------------------
(* A device fault or a soft reset.  A session can only survive a reset the *)
(* sensor was told to make, by a command it executed, so nothing sent      *)
(* before it is left unread.                                               *)
Reset ==
    /\ present
    /\ resets < MaxResets
    /\ SessionSurvivesReset => epOut = <<>>
    /\ present' = FALSE
    /\ resets' = resets + 1
    /\ epOut' = <<>> /\ epIn' = <<>>
    /\ neg' = NoSession
    /\ ses' = IF SessionSurvivesReset THEN ses ELSE NoSensorSession
    /\ UNCHANGED <<epoch, srv, log, established>>

Enumerate ==
    /\ ~present
    /\ present' = TRUE
    /\ epoch' = epoch + 1
    /\ UNCHANGED <<resets, sensorVars, epOut, epIn>>

-----------------------------------------------------------------------------
Reply(item) == epIn' = Append(epIn, item)

PlainReply(kind, s, body) ==
    Reply([kind |-> kind, sess |-> s, n |-> 0, body |-> body])

(* A reply encrypted under the session st, which counts it.                *)
SecureReply(kind, st, body) ==
    /\ Reply([kind |-> kind, sess |-> st.sess, n |-> st.tx + 1, body |-> body])
    /\ ses' = [st EXCEPT !.tx = @ + 1]

Incoming == Head(epOut)

SensorInitStep ==
    /\ Incoming.kind = "init"
    /\ PlainReply("init", NoSession, Incoming.body)
    /\ UNCHANGED <<ses, neg, srv, log, established>>

SensorHello ==
    /\ Incoming.kind = "hello"
    /\ srv' = srv + 1
    /\ neg' = <<Incoming.sess[1], srv + 1>>
    /\ PlainReply("hello", <<Incoming.sess[1], srv + 1>>, 0)
    /\ UNCHANGED <<ses, log, established>>

(* The client's Finished verifies only if both ends derived the same keys. *)
SensorFlightGood ==
    /\ Incoming.kind = "flight"
    /\ neg # NoSession /\ Incoming.sess = neg
    /\ SecureReply("flight",
           [sess |-> neg, rx |-> 1, chain |-> TailOf(Incoming), tx |-> 0], 0)
    /\ established' = established \cup {neg}
    /\ neg' = NoSession
    /\ UNCHANGED <<srv, log>>

SensorFlightBad ==
    /\ Incoming.kind = "flight"
    /\ neg = NoSession \/ Incoming.sess # neg
    /\ PlainReply("alert", NoSession, 0)
    /\ neg' = NoSession
    /\ UNCHANGED <<ses, srv, log, established>>

Acceptable(w) ==
    /\ w.sess = ses.sess
    /\ w.seq = ses.rx
    /\ w.iv = ses.chain

AfterAccept(w) ==
    [sess |-> ses.sess, rx |-> ses.rx + 1, chain |-> TailOf(w), tx |-> ses.tx]

SensorExecute ==
    /\ Incoming.kind = "data"
    /\ ses.sess # NoSession
    /\ Acceptable(Incoming)
    /\ SecureReply("data", AfterAccept(Incoming), Incoming.body)
    /\ log' = Append(log, [sess |-> ses.sess, cmd |-> Incoming.body])
    /\ UNCHANGED <<neg, srv, established>>

SensorAlert ==
    /\ Incoming.kind = "data"
    /\ ses.sess # NoSession
    /\ ~Acceptable(Incoming)
    /\ SecureReply("alert", ses, 0)
    /\ UNCHANGED <<neg, srv, log, established>>

SensorZeros ==
    /\ Incoming.kind = "data"
    /\ ses.sess = NoSession
    /\ PlainReply("zeros", NoSession, 0)
    /\ UNCHANGED <<ses, neg, srv, log, established>>

(* The sensor takes the oldest message off EP1 OUT and answers it.         *)
SensorStep ==
    /\ present
    /\ epOut # <<>>
    /\ epOut' = Tail(epOut)
    /\ \/ SensorInitStep \/ SensorHello
       \/ SensorFlightGood \/ SensorFlightBad
       \/ SensorExecute \/ SensorAlert \/ SensorZeros
    /\ UNCHANGED busVars

LinkStep == Reset \/ Enumerate \/ SensorStep
=============================================================================
