------------------------------ MODULE Exchange ------------------------------
(***************************************************************************)
(* The host's end of EP1: session::handshake, capture::send_cmd_draining,  *)
(* usb::Sensor::{open, reopen, write, read, read_record} and what their    *)
(* caller does with a failure (main.rs: reestablish).  One action per      *)
(* write, read or handle operation, so that resets, re-enumerations and    *)
(* the sensor's answers fall between any two of them.                      *)
(*                                                                         *)
(* Commands are named by issue number: the n-th call of send_cmd sends     *)
(* command n.  A command repeated by a later call has a new number, a      *)
(* resent or re-encrypted one keeps its number.                            *)
(***************************************************************************)
EXTENDS SensorLink

CONSTANTS
    WriteTries,      \* write attempts of one command (4 in the code)
    ReplyReads,      \* reply reads of one command (4 in the code)
    HpResume,        \* VFS_HP_RESUME: roll back instead of re-handshaking
    Recover,         \* FALSE with VFS_NO_REHANDSHAKE
    AmbiguousWrite,  \* a write that reports an error may have been delivered
    MaxCmds,         \* bound: commands issued
    MaxFaults,       \* bound: write errors
    MaxLate          \* bound: answers that miss the deadline of a read

ASSUME TriesAssumption == WriteTries \in Nat \ {0} /\ ReplyReads \in Nat \ {0}
ASSUME FlagsAssumption == {HpResume, Recover, AmbiguousWrite} \subseteq BOOLEAN
ASSUME BoundsAssumption == MaxCmds \in Nat /\ MaxFaults \in Nat /\ MaxLate \in Nat

VARIABLES
    pc,      \* where the host stands
    handle,  \* the enumeration the USB handle belongs to, 0 = none
    rec,     \* the Record the caller holds
    snap,    \* pre_encrypt
    wire,    \* the record being sent
    cmd,     \* the number of the command being sent
    tries,   \* write attempts made for it
    got,     \* the replies read for it: the command answered, or Garbled
    hs,      \* the handshake in progress: its step, new Record, return point
    nonce,   \* client nonces drawn
    faults,  \* write errors so far
    lates,   \* late answers so far
    broken   \* history: a send was given up under rec

hostVars == <<handle, rec, snap, wire, cmd, tries, got, hs, nonce, broken>>
budgets == <<faults, lates>>
vars == <<linkVars, pc, hostVars, budgets>>

Garbled == 0
NoRecord == NewRecord(NoSession)
Plain(kind, s, body) ==
    [kind |-> kind, sess |-> s, seq |-> 0, iv |-> KeyIV, body |-> body]
NoWire == Plain("data", NoSession, 0)

(* Steps of the handshake: the NInit init steps, then ClientHello, then    *)
(* the client's flight.                                                    *)
HelloStep == NInit + 1
FlightStep == NInit + 2

Handshake == [step : 1..FlightStep, rec : Record, ret : {"boot", "send", "rebuild"}]

HostTypeOK ==
    /\ pc \in {"boot", "hsWrite", "hsRead", "idle", "write", "reopen",
               "collect", "failed"}
    /\ handle \in Nat
    /\ rec \in Record /\ snap \in Record
    /\ wire \in Wire
    /\ cmd \in Nat
    /\ tries \in 0..WriteTries
    /\ got \in Seq(Nat)
    /\ hs \in Handshake
    /\ nonce \in Nat
    /\ faults \in Nat /\ lates \in Nat
    /\ broken \in BOOLEAN

TypeOK == LinkTypeOK /\ HostTypeOK

Init ==
    /\ LinkInit
    /\ pc = "boot"
    /\ handle = 0
    /\ rec = NoRecord /\ snap = NoRecord
    /\ wire = NoWire
    /\ cmd = 0 /\ tries = 0 /\ got = <<>>
    /\ hs = [step |-> 1, rec |-> NoRecord, ret |-> "boot"]
    /\ nonce = 0 /\ faults = 0 /\ lates = 0 /\ broken = FALSE

Attached == present /\ handle = epoch

(* A bulk write while the handle is good: the sensor gets the message.     *)
Put(w) == epOut' = Append(epOut, w)

-----------------------------------------------------------------------------
(* The daemon process starts, or systemd restarts it: Sensor::open, which  *)
(* sets the configuration and so empties the pipes, then the handshake.    *)
StartHandshake(ret) ==
    /\ hs' = [step |-> 1, rec |-> NoRecord, ret |-> ret]
    /\ pc' = "hsWrite"

Boot ==
    /\ pc = "boot"
    /\ present
    /\ handle' = epoch
    /\ epOut' = <<>> /\ epIn' = <<>>
    /\ StartHandshake("boot")
    /\ UNCHANGED <<busVars, sensorVars, rec, snap, wire, cmd, tries, got, nonce, budgets, broken>>

(* The process ends: a panic, or an error `main` returns.                  *)
Die ==
    /\ pc' = "boot"
    /\ handle' = 0
    /\ rec' = NoRecord /\ snap' = NoRecord /\ wire' = NoWire
    /\ got' = <<>> /\ tries' = 0
    /\ broken' = FALSE

(* handshake returns Err: at start-up `main` exits with it; in             *)
(* send_cmd_draining it is a warning and the next attempt writes the old   *)
(* record again; in run_daemon it is a warning and the old Record stays.   *)
HandshakeErr ==
    /\ IF hs.ret = "boot"
         THEN Die
         ELSE /\ pc' = IF hs.ret = "send" THEN "write" ELSE "idle"
              /\ UNCHANGED <<handle, rec, snap, wire, got, tries, broken>>
    /\ UNCHANGED <<hs, cmd>>

(* Variant: the command is sent on as it was encrypted before.             *)
HandshakeOkOldWire(new) ==
    /\ pc' = IF hs.ret = "send" THEN "write" ELSE "idle"
    /\ rec' = new
    /\ broken' = FALSE
    /\ UNCHANGED <<hs, handle, snap, wire, cmd, tries, got>>

(* handshake returns the new Record; send_cmd_draining encrypts its        *)
(* command again under it.                                                 *)
HandshakeOk(new) ==
    /\ IF hs.ret = "send"
         THEN /\ wire' = Encrypted(new, "data", cmd)
              /\ rec' = AfterEncrypt(new, cmd)
              /\ pc' = "write"
         ELSE /\ rec' = new
              /\ pc' = "idle"
              /\ UNCHANGED wire
    /\ broken' = FALSE
    /\ UNCHANGED <<hs, handle, snap, cmd, tries, got>>

HsMessage ==
    CASE hs.step <= NInit     -> Plain("init", NoSession, hs.step)
      [] hs.step = HelloStep  -> Plain("hello", <<nonce + 1, 0>>, 0)
      [] hs.step = FlightStep -> Encrypted(hs.rec, "flight", 0)

(* The nonce of a ClientHello is drawn before it is written.               *)
NonceDrawn == nonce' = IF hs.step = HelloStep THEN nonce + 1 ELSE nonce

HsWrite ==
    /\ pc = "hsWrite"
    /\ Attached
    /\ Put(HsMessage)
    /\ pc' = "hsRead"
    /\ NonceDrawn
    /\ hs' = IF hs.step = FlightStep
               THEN [hs EXCEPT !.rec = AfterEncrypt(@, 0)] ELSE hs
    /\ UNCHANGED <<busVars, sensorVars, epIn, handle, rec, snap, wire, cmd, tries,
                   got, budgets, broken>>

(* A write the library reports as failed; whether the message went out all *)
(* the same is beyond the host's knowledge when AmbiguousWrite.            *)
WriteFault(w) ==
    /\ faults < MaxFaults
    /\ faults' = faults + 1
    /\ UNCHANGED lates
    /\ \/ UNCHANGED epOut
       \/ AmbiguousWrite /\ Put(w)

HsWriteErr ==
    /\ pc = "hsWrite"
    /\ \/ ~Attached /\ UNCHANGED <<epOut, budgets>>
       \/ Attached /\ WriteFault(HsMessage)
    /\ HandshakeErr
    /\ NonceDrawn
    /\ UNCHANGED <<busVars, sensorVars, epIn>>

(* A read that ends without data: the handle is dead, nothing is on its    *)
(* way, or the answer comes after the deadline.                            *)
ReadFails ==
    /\ UNCHANGED faults
    /\ \/ ~Attached /\ UNCHANGED lates
       \/ Attached /\ epIn = <<>> /\ epOut = <<>> /\ UNCHANGED lates
       \/ Attached /\ epIn = <<>> /\ epOut # <<>>
            /\ lates < MaxLate /\ lates' = lates + 1

HsReadErr ==
    /\ pc = "hsRead"
    /\ ReadFails
    /\ HandshakeErr
    /\ UNCHANGED <<linkVars, nonce>>

(* At least 43 bytes: what passes for a ServerHello.  A bare status is a   *)
(* record of 37, an alert no longer, the zeros of a dead session are 5.    *)
Long(item) ==
    \/ item.kind \in {"hello", "flight"}
    \/ item.kind = "init" /\ item.body \in LongInit
    \/ item.kind = "data" /\ item.body \in LongData

(* The server nonce at its place in the bytes read, junk if they are none. *)
ServerNonce(item) == IF item.kind = "hello" THEN item.sess[2] ELSE 0

Advance(new) ==
    hs' = [step |-> hs.step + 1, rec |-> new, ret |-> hs.ret]

HsReadInit(item) ==
    /\ hs.step <= NInit
    /\ Advance(hs.rec)
    /\ pc' = "hsWrite"
    /\ UNCHANGED <<handle, rec, snap, wire, cmd, tries, got, broken>>

HsReadServerHello(item) ==
    /\ hs.step = HelloStep
    /\ Long(item)
    /\ Advance(NewRecord(<<nonce, ServerNonce(item)>>))
    /\ pc' = "hsWrite"
    /\ UNCHANGED <<handle, rec, snap, wire, cmd, tries, got, broken>>

HsReadShortHello(item) ==
    /\ hs.step = HelloStep
    /\ ~Long(item)
    /\ HandshakeErr

(* Variants: whatever answers the flight will do; the records in the       *)
(* answer are not decrypted.                                               *)
HsReadFlightUnchecked(item) ==
    /\ hs.step = FlightStep
    /\ HandshakeOk(AfterDecrypt(hs.rec, item))

HsReadFlightSkipped(item) ==
    /\ hs.step = FlightStep
    /\ IF item.kind = "flight" THEN HandshakeOk(hs.rec) ELSE HandshakeErr

(* The answer to the flight is judged by its first byte; the records in it *)
(* go through decrypt, so that the receive chain stands behind them.       *)
HsReadFlight(item) ==
    /\ hs.step = FlightStep
    /\ CASE item.kind = "flight" -> HandshakeOk(AfterDecrypt(hs.rec, item))
         [] item.kind = "hello" -> Die /\ UNCHANGED <<hs, cmd>>
         [] OTHER -> HandshakeErr

HsRead ==
    /\ pc = "hsRead"
    /\ Attached
    /\ epIn # <<>>
    /\ epIn' = Tail(epIn)
    /\ \/ HsReadInit(Head(epIn)) \/ HsReadServerHello(Head(epIn))
       \/ HsReadShortHello(Head(epIn)) \/ HsReadFlight(Head(epIn))
    /\ UNCHANGED <<busVars, sensorVars, epOut, nonce, budgets>>

-----------------------------------------------------------------------------
(* send_cmd is called with the next command of the sequence.               *)
SendCmd ==
    /\ pc = "idle"
    /\ cmd < MaxCmds
    /\ cmd' = cmd + 1
    /\ snap' = rec
    /\ wire' = Encrypted(rec, "data", cmd + 1)
    /\ rec' = AfterEncrypt(rec, cmd + 1)
    /\ tries' = 0
    /\ got' = <<>>
    /\ pc' = "write"
    /\ UNCHANGED <<linkVars, handle, hs, nonce, budgets, broken>>

(* Variant: one attempt too many.                                          *)
TriesLeftOneMore == tries <= WriteTries

TriesLeft == tries < WriteTries

(* Variant: an attempt that finds no device is not counted.                *)
AttemptUncounted == tries' = IF Attached THEN tries + 1 ELSE tries

Attempt == tries' = tries + 1

(* Variant: the command is encrypted again for the next attempt.           *)
NextAttemptEncrypted ==
    /\ wire' = Encrypted(rec, "data", cmd)
    /\ rec' = AfterEncrypt(rec, cmd)

NextAttempt == UNCHANGED <<wire, rec>>

Write ==
    /\ pc = "write"
    /\ TriesLeft
    /\ Attached
    /\ Put(wire)
    /\ pc' = "collect"
    /\ UNCHANGED <<busVars, sensorVars, epIn, hostVars, budgets>>

(* Any error but NoDevice: sleep, and write the same record once more.     *)
WriteErr ==
    /\ pc = "write"
    /\ TriesLeft
    /\ Attached
    /\ WriteFault(wire)
    /\ Attempt
    /\ NextAttempt
    /\ UNCHANGED <<busVars, sensorVars, epIn, pc, handle, snap, cmd, got, hs, nonce, broken>>

WriteNoDevice ==
    /\ pc = "write"
    /\ TriesLeft
    /\ ~Attached
    /\ Attempt
    /\ pc' = "reopen"
    /\ UNCHANGED <<linkVars, handle, rec, snap, wire, cmd, got, hs, nonce, budgets, broken>>

(* Variant: the sequence number is rolled back, the chaining value is not. *)
RolledBackNumber ==
    [sess |-> rec.sess, sseq |-> snap.sseq, civ |-> rec.civ, siv |-> snap.siv]

RolledBack == snap

(* The device is back: take a new handle to it, then roll back, start a    *)
(* handshake, or go on with the record as it is.                           *)
ReopenOk ==
    /\ pc = "reopen"
    /\ present
    /\ handle' = epoch
    /\ CASE HpResume -> /\ rec' = RolledBack
                        /\ pc' = "idle"
                        /\ UNCHANGED hs
         [] ~HpResume /\ Recover -> StartHandshake("send") /\ UNCHANGED rec
         [] OTHER -> pc' = "write" /\ UNCHANGED <<rec, hs>>
    /\ UNCHANGED <<linkVars, snap, wire, cmd, tries, got, nonce, budgets, broken>>

ReopenFails ==
    /\ pc = "reopen"
    /\ ~present
    /\ pc' = "write"
    /\ UNCHANGED <<linkVars, hostVars, budgets>>

(* Every attempt failed: send_cmd returns None, the capture bails out.     *)
GiveUp ==
    /\ pc = "write"
    /\ tries = WriteTries
    /\ pc' = "failed"
    /\ broken' = TRUE
    /\ UNCHANGED <<linkVars, handle, rec, snap, wire, cmd, tries, got, hs, nonce,
                   budgets>>

-----------------------------------------------------------------------------
(* read_record and decrypt of one reply.  A reply that cannot be decrypted *)
(* or read is logged and counts as Garbled.                                *)
ReadReply ==
    /\ pc = "collect"
    /\ Len(got) < ReplyReads
    /\ Attached
    /\ epIn # <<>>
    /\ epIn' = Tail(epIn)
    /\ LET item == Head(epIn) IN
       IF Panics(item)
         THEN Die
         ELSE /\ rec' = AfterDecrypt(rec, item)
              /\ got' = Append(got, IF Readable(rec, item) THEN item.body ELSE Garbled)
              /\ UNCHANGED <<pc, handle, snap, wire, tries, broken>>
    /\ UNCHANGED <<busVars, sensorVars, epOut, cmd, hs, nonce, budgets>>

(* send_cmd returns the status of the last reply: after a read that failed *)
(* or after the last read.                                                 *)
Return ==
    /\ pc = "collect"
    /\ IF Len(got) < ReplyReads THEN ReadFails ELSE UNCHANGED budgets
    /\ pc' = "idle"
    /\ UNCHANGED <<linkVars, hostVars>>

-----------------------------------------------------------------------------
(* main.rs reestablish after a capture error: reopen and shake hands.      *)
RebuildReopen ==
    /\ pc = "failed"
    /\ present
    /\ handle' = epoch
    /\ StartHandshake("rebuild")
    /\ UNCHANGED <<linkVars, rec, snap, wire, cmd, tries, got, nonce, budgets, broken>>

(* The device came back only after reopen gave up: Sensor::open finds it.  *)
RebuildOpen ==
    /\ pc = "failed"
    /\ present
    /\ handle' = epoch
    /\ epOut' = <<>> /\ epIn' = <<>>
    /\ StartHandshake("rebuild")
    /\ UNCHANGED <<busVars, sensorVars, rec, snap, wire, cmd, tries, got, nonce, budgets, broken>>

(* "session rebuild failed; will retry": the daemon serves the next        *)
(* request with the Record and the handle it has.                          *)
RebuildFails ==
    /\ pc = "failed"
    /\ ~present
    /\ pc' = "idle"
    /\ UNCHANGED <<linkVars, hostVars, budgets>>

(* The command sequence is over.                                           *)
Finished ==
    /\ pc = "idle"
    /\ cmd = MaxCmds
    /\ UNCHANGED vars

HostStep ==
    \/ Boot
    \/ HsWrite \/ HsWriteErr \/ HsRead \/ HsReadErr
    \/ SendCmd \/ Write \/ WriteErr \/ WriteNoDevice
    \/ ReopenOk \/ ReopenFails \/ GiveUp
    \/ ReadReply \/ Return
    \/ RebuildReopen \/ RebuildOpen \/ RebuildFails

Next ==
    \/ HostStep
    \/ LinkStep /\ UNCHANGED <<pc, hostVars, budgets>>
    \/ Finished

Spec == Init /\ [][Next]_vars

(* The host runs until it returns, and a sensor that is there answers; the *)
(* device need not come back.                                              *)
Fairness == WF_vars(HostStep) /\ WF_vars(SensorStep /\ UNCHANGED <<pc, hostVars, budgets>>)
FairSpec == Spec /\ Fairness

-----------------------------------------------------------------------------
SessionLive == rec.sess # NoSession /\ rec.sess = ses.sess

(* A Record is only ever the outcome of a handshake the sensor completed   *)
(* with the same keys, whatever replies an earlier, broken-off exchange    *)
(* left in the pipe for the handshake to read (session.rs:150-217).        *)
SessionAgreed == rec.sess # NoSession => rec.sess \in established

(* Between commands of a live session, once the sensor has read what was   *)
(* sent, both ends agree on the next sequence number and chaining value,   *)
(* unless a command was given up (capture.rs:211-262): retries, repeated   *)
(* resets and rollbacks leave the send side where the sensor expects it.   *)
SendLockstep ==
    pc \in {"idle", "collect"} /\ SessionLive /\ ~broken /\ epOut = <<>>
        => rec.sseq = ses.rx /\ rec.civ = ses.chain

(* The session in force has carried a command or was set up for one.       *)
Used == rec.sseq > 1 \/ hs.ret = "send"

(* When send_cmd returns under a live session, the command it was asked to *)
(* send is the last one the sensor executed (capture.rs:245-263): none is  *)
(* lost by a retry or by the change to a fresh session.                    *)
NoCommandLost ==
    pc = "idle" /\ SessionLive /\ ~broken /\ epOut = <<>> /\ Used
        => log # <<>> /\ log[Len(log)] = [sess |-> rec.sess, cmd |-> cmd]

(* The next record of the live session to be read is the one the receive   *)
(* chain stands before (usb.rs:90-91, session.rs:194-214).                 *)
ReceiveAligned ==
    SessionLive /\ ~broken /\ pc \in {"idle", "write", "collect"} =>
        /\ rec.siv[1] = rec.sess
        /\ IF epIn = <<>> THEN rec.siv[2] = ses.tx
           ELSE IsCiphertext(Head(epIn)) => Head(epIn).n = rec.siv[2] + 1

(* Every send comes back to its caller, in spite of resets, a device that  *)
(* stays away, and answers that do not come (capture.rs:215-317).          *)
SendReturns == pc \in {"write", "reopen", "collect"} ~> pc \in {"idle", "boot"}

(* What the exchange promises the capture above it.                        *)
LogOf == [i \in 1..Len(log) |-> [sess |-> log[i].sess[2], cmd |-> log[i].cmd]]
Channel == INSTANCE CommandChannel WITH sessions <- srv, issued <- cmd, log <- LogOf
ImplementsChannel == Channel!Spec

(***************************************************************************)
(* Why the exchange implements the channel: the strengthening of it that   *)
(* is inductive.  A record is in play when it is on its way to the sensor  *)
(* or may still be written.                                                *)
(***************************************************************************)
InHandshake == pc \in {"hsWrite", "hsRead"}
Sending == pc \in {"write", "reopen"} \/ (InHandshake /\ hs.ret = "send")

Commands == {i \in 1..Len(epOut) : epOut[i].kind = "data"}
InPlay == {epOut[i] : i \in Commands} \cup (IF Sending THEN {wire} ELSE {})
Last == log[Len(log)]

(* The record being sent is the one made for the current command.          *)
WireCurrent == Sending => wire.kind = "data" /\ wire.body = cmd /\ cmd > 0

(* Commands travel in the order they were issued, behind those executed.   *)
InOrder ==
    /\ \A i \in Commands : epOut[i].body \in 1..cmd
    /\ \A i, j \in Commands : i < j => epOut[i].body <= epOut[j].body
    /\ log # <<>> => Last.cmd \in 1..cmd /\ \A i \in Commands : Last.cmd <= epOut[i].body

(* Within a session a command has one sequence number ...                  *)
OneNumber ==
    \A v, w \in InPlay : v.sess = w.sess /\ v.body = w.body => v.seq = w.seq

(* ... which the sensor is past once it has executed the command.          *)
NotAgain ==
    log # <<>> =>
        \A w \in InPlay :
            Last.sess = ses.sess /\ w.sess = ses.sess /\ w.body = Last.cmd
                => w.seq < ses.rx

(* Client nonces do not come back: what a handshake is about to set up is  *)
(* no session anything in play or executed belongs to.                     *)
NonceUnused ==
    /\ \A w \in InPlay : w.sess[1] < nonce
    /\ log # <<>> => Last.sess[1] < nonce

FreshNonce ==
    /\ rec.sess[1] <= nonce /\ snap.sess[1] <= nonce
    /\ \A w \in InPlay : w.sess[1] <= nonce
    /\ log # <<>> => Last.sess[1] <= nonce
    /\ pc = "hsRead" /\ hs.step = HelloStep => NonceUnused
    /\ InHandshake /\ hs.step = FlightStep =>
         hs.rec.sess[1] = nonce /\ NonceUnused

(* Nor do server nonces.                                                   *)
FreshServerNonce ==
    /\ ses.sess # NoSession => ses.sess[2] \in 1..srv
    /\ log # <<>> => Last.sess[2] \in 1..srv
    /\ log # <<>> /\ ses.sess # NoSession =>
         Last.sess = ses.sess \/ Last.sess[2] < ses.sess[2]
    /\ neg # NoSession =>
         /\ neg[2] = srv /\ srv > 0
         /\ ses.sess # NoSession => ses.sess[2] < srv
         /\ log # <<>> => Last.sess[2] < srv

ChannelInv ==
    /\ WireCurrent /\ InOrder /\ OneNumber /\ NotAgain
    /\ FreshNonce /\ FreshServerNonce

(* main.rs:396-397: "A capture error rebuilds the session and continues,   *)
(* so the daemon survives a re-enumeration".                               *)
SurvivesReplies == [][pc = "collect" => pc' # "boot"]_vars
=============================================================================
