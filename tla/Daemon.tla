------------------------------- MODULE Daemon -------------------------------
(***************************************************************************)
(* The feeder process: main.rs run_daemon, serve_request and reestablish,  *)
(* virtimage.rs wait_for_request, still_wanted and send_on, and the        *)
(* capture calls they make (capture.rs prepare, window, finish) with the   *)
(* LED cue.  A capture call is abstracted to what it returns and to what   *)
(* it leaves of the SSL session, which module Exchange models in detail.   *)
(*                                                                         *)
(* Around it, and not in the repository: libfprint, which listens while    *)
(* its device is open and hands an image to the scan in progress (an image *)
(* that arrives outside a scan is dropped, NOTES.md 1721-1723); the        *)
(* program that opens the device and scans; the USB bus; systemd.          *)
(***************************************************************************)
EXTENDS Naturals, Sequences

CONSTANTS
    Modes,       \* --fprintd, or not: a request is a scan, or an open device
    Once,        \* --once
    SkipLatch,   \* VFS_SKIP_17: the command after the imaging one is left out
    MaxWindows,  \* MAX_WINDOWS_PER_REQUEST (30 in the code)
    MaxOpens,    \* bound: times a program opens the device
    MaxScans,    \* bound: scans started
    MaxFaults,   \* bound: USB faults and failed handshakes
    MaxCrashes   \* bound: times the process is killed

ASSUME ModesAssumption == Modes \subseteq BOOLEAN /\ Modes # {}
ASSUME FlagsAssumption == {Once, SkipLatch} \subseteq BOOLEAN
ASSUME WindowsAssumption == MaxWindows \in Nat \ {0}
ASSUME BoundsAssumption == {MaxOpens, MaxScans, MaxFaults, MaxCrashes} \subseteq Nat

VARIABLES
    fprintd,    \* the mode this daemon was installed with
    pc,         \* where the daemon stands
    conn,       \* the device opening its connection belongs to, 0 = none
    session,    \* "good"; "dead": the sensor refuses or does not understand
                \* what the host sends; "stale": the USB handle is invalid
    windows,    \* windows opened for this request
    fed,        \* swipes fed for this request
    img,        \* the swipe to be sent: the opening and the scan it was made for
    led,        \* the cue LED is lit
    open, opens,   \* the current opening of the libfprint device, 0 = closed
    scan, scans,   \* the scan in progress, 0 = none
    delivered,  \* history: images handed to scans
    sent,       \* history: images fed since the process started, at most 2 counted
    idle,       \* history: windows opened since nothing was wanted any more
    present,    \* the sensor is on the bus
    faults, crashes

request == <<open, opens, scan, scans, delivered>>
daemon == <<conn, windows, fed, img, led, sent>>
world == <<fprintd, present, faults, crashes>>
vars == <<pc, daemon, session, request, idle, world>>

NoImage == [open |-> 0, scan |-> 0]
Image == [open : Nat, scan : Nat]

TypeOK ==
    /\ fprintd \in Modes
    /\ pc \in {"boot", "poll", "connect", "reconnect", "prepare", "check", "poll26",
               "image27", "close28", "decide", "next", "finish", "rebuild", "exit"}
    /\ conn \in 0..MaxOpens
    /\ session \in {"good", "dead", "stale"}
    /\ windows \in 0..MaxWindows
    /\ fed \in 0..windows
    /\ img \in Image
    /\ led \in BOOLEAN
    /\ open \in 0..opens /\ opens \in 0..MaxOpens
    /\ scan \in 0..scans /\ scans \in 0..MaxScans
    /\ delivered \in Seq([img : Image, open : Nat, scan : Nat])
    /\ sent \in 0..2
    /\ idle \in 0..2
    /\ present \in BOOLEAN
    /\ faults \in 0..MaxFaults
    /\ crashes \in 0..MaxCrashes

Init ==
    /\ fprintd \in Modes
    /\ pc = "boot"
    /\ conn = 0 /\ windows = 0 /\ fed = 0 /\ img = NoImage
    /\ led = FALSE
    /\ session = "stale"
    /\ open = 0 /\ opens = 0 /\ scan = 0 /\ scans = 0
    /\ delivered = <<>> /\ sent = 0 /\ idle = 0
    /\ present = TRUE /\ faults = 0 /\ crashes = 0

(* Something waits for a finger, as far as the daemon asks.                *)
Wanted == open # 0 /\ (fprintd => scan # 0)

(* Variant: asked only of the connection, not of the scan.                 *)
StillWantedIfOpen == conn = open

(* still_wanted: the connection is open and Wanted holds for it.           *)
StillWanted == conn = open /\ Wanted

Fault == faults < MaxFaults /\ faults' = faults + 1

-----------------------------------------------------------------------------
(* The programs and libfprint.                                             *)
OpenDevice ==
    /\ open = 0 /\ opens < MaxOpens
    /\ opens' = opens + 1 /\ open' = opens + 1
    /\ UNCHANGED <<scan, scans, delivered>>

CloseDevice ==
    /\ open # 0
    /\ open' = 0 /\ scan' = 0
    /\ UNCHANGED <<opens, scans, delivered>>

StartScan ==
    /\ open # 0 /\ scan = 0 /\ scans < MaxScans
    /\ scans' = scans + 1 /\ scan' = scans + 1
    /\ UNCHANGED <<open, opens, delivered>>

(* Cancelled or timed out.                                                 *)
EndScan ==
    /\ scan # 0
    /\ scan' = 0
    /\ UNCHANGED <<open, opens, scans, delivered>>

RequestStep ==
    /\ OpenDevice \/ CloseDevice \/ StartScan \/ EndScan
    /\ UNCHANGED <<pc, daemon, session, world>>
    /\ idle' = IF Wanted' THEN 0 ELSE idle

(* The sensor drops off the bus and comes back.                            *)
Leave ==
    /\ present /\ Fault
    /\ present' = FALSE
    /\ session' = "stale"
    /\ UNCHANGED <<fprintd, pc, daemon, request, idle, crashes>>

Return ==
    /\ ~present
    /\ present' = TRUE
    /\ UNCHANGED <<fprintd, pc, daemon, session, request, idle, faults, crashes>>

-----------------------------------------------------------------------------
(* What a capture call may do to the session and still return Ok.  With a  *)
(* stale handle the first write reopens it and shakes hands; when that     *)
(* fails, the old record is written to the new device, which accepts the   *)
(* bytes, and the call returns Ok with every command rejected.             *)
CaptureOk ==
    \/ session # "stale" /\ UNCHANGED <<session, faults>>
    \/ session = "stale" /\ present /\ session' = "good" /\ UNCHANGED faults
    \/ session = "stale" /\ present /\ session' = "dead" /\ Fault

(* Err: a write failed four times.  Its record was encrypted but never     *)
(* sent, so a session that was good is out of step.                        *)
CaptureErr ==
    \/ session # "stale" /\ session' = "dead" /\ Fault
    \/ session = "stale" /\ UNCHANGED session
         /\ IF present THEN Fault ELSE UNCHANGED faults

(* handshake, on a handle just opened.                                     *)
Established(ok) ==
    IF ok THEN session' = "good" /\ UNCHANGED faults
          ELSE session' = "dead" /\ Fault

-----------------------------------------------------------------------------
(* Sensor::open and the first handshake; if either fails the process exits *)
(* and systemd starts it again.                                            *)
Boot ==
    /\ pc = "boot" /\ present
    /\ Established(TRUE)
    /\ pc' = "poll"
    /\ UNCHANGED <<daemon, request, idle, fprintd, present, crashes>>

(* wait_for_request without a timeout.  Asking whether a finger is needed  *)
(* and connecting are two steps.                                           *)
SeeRequest ==
    /\ pc = "poll" /\ Wanted
    /\ pc' = "connect"
    /\ UNCHANGED <<daemon, session, request, idle, world>>

Connect ==
    /\ pc = "connect"
    /\ IF open # 0 THEN conn' = open /\ pc' = "prepare"
                   ELSE pc' = "poll" /\ UNCHANGED conn
    /\ windows' = 0 /\ fed' = 0
    /\ UNCHANGED <<img, led, sent, session, request, idle, world>>

(* Variant: the cue is left as it is.                                      *)
CueLeftOn == UNCHANGED led

CueOff == led' = FALSE

(* Capture::new and prepare.                                               *)
Prepare ==
    /\ pc = "prepare"
    /\ CueOff
    /\ \/ CaptureOk /\ pc' = "check"
       \/ CaptureErr /\ pc' = "rebuild"
    /\ UNCHANGED <<conn, windows, fed, img, sent, request, idle, fprintd, present, crashes>>

(* Variant: one window too many.                                           *)
WindowsLeftOneMore == windows <= MaxWindows

WindowsLeft == windows < MaxWindows

Check ==
    /\ pc = "check"
    /\ pc' = IF WindowsLeft /\ StillWanted THEN "poll26" ELSE "finish"
    /\ UNCHANGED <<daemon, session, request, idle, world>>

(* window: the poll, then the imaging command under the LED, then the two  *)
(* commands that close it, of which SkipLatch leaves out the first and     *)
(* with it the cue that belongs to it.                                     *)
WindowPoll ==
    /\ pc = "poll26"
    /\ windows' = windows + 1
    /\ idle' = IF Wanted \/ idle = 2 THEN idle ELSE idle + 1
    /\ \/ CaptureOk /\ pc' = "image27" /\ led' = TRUE
       \/ CaptureErr /\ pc' = "rebuild" /\ CueOff
    /\ UNCHANGED <<conn, fed, img, sent, request, fprintd, present, crashes>>

(* The user swipes, or does not; a swipe shows only in a live session.     *)
WindowImage ==
    /\ pc = "image27"
    /\ \/ /\ CaptureOk
          /\ pc' = "close28"
          /\ led' = SkipLatch
          /\ img' \in {NoImage} \cup
                (IF session = "good" THEN {[open |-> conn, scan |-> scan]} ELSE {})
       \/ CaptureErr /\ pc' = "rebuild" /\ CueOff /\ img' = NoImage
    /\ UNCHANGED <<conn, windows, fed, sent, request, idle, fprintd, present, crashes>>

WindowClose ==
    /\ pc = "close28"
    /\ CueOff
    /\ \/ CaptureOk /\ pc' = "decide" /\ UNCHANGED img
       \/ CaptureErr /\ pc' = "rebuild" /\ img' = NoImage
    /\ UNCHANGED <<conn, windows, fed, sent, request, idle, fprintd, present, crashes>>

-----------------------------------------------------------------------------
(* swipe_from_window found nothing: the next window.                       *)
NoSwipe ==
    /\ pc = "decide" /\ img = NoImage
    /\ pc' = "check"
    /\ UNCHANGED <<daemon, session, request, idle, world>>

AfterSend == pc' = IF Once THEN "finish" ELSE "next"

(* Variant: a connection is made anew for the image.                       *)
ConnectedAnew == open # 0

Connected == conn = open

(* send_on: libfprint hands the image to the scan in progress.             *)
SendOn ==
    /\ pc = "decide" /\ img # NoImage
    /\ Connected
    /\ fed' = fed + 1 /\ sent' = IF sent = 2 THEN 2 ELSE sent + 1
    /\ IF scan # 0
         THEN /\ delivered' = Append(delivered, [img |-> img, open |-> open, scan |-> scan])
              /\ scan' = 0
         ELSE UNCHANGED <<delivered, scan>>
    /\ img' = NoImage
    /\ AfterSend
    /\ UNCHANGED <<conn, windows, led, session, open, opens, scans, idle, world>>

(* The request was gone: the image is lost.                                *)
SendFails ==
    /\ pc = "decide" /\ img # NoImage
    /\ ~Connected
    /\ img' = NoImage
    /\ AfterSend
    /\ UNCHANGED <<conn, windows, fed, led, sent, session, request, idle, world>>

(* wait_for_request for NEXT_SCAN_WAIT.                                    *)
SeeNextScan ==
    /\ pc = "next" /\ Wanted
    /\ pc' = "reconnect"
    /\ UNCHANGED <<daemon, session, request, idle, world>>

Reconnect ==
    /\ pc = "reconnect"
    /\ IF open # 0 THEN conn' = open /\ pc' = "check"
                   ELSE pc' = "next" /\ UNCHANGED conn
    /\ UNCHANGED <<windows, fed, img, led, sent, session, request, idle, world>>

(* Variant: the wait has no end.                                           *)
NoNextScanEver == pc = "next" /\ ~Wanted /\ UNCHANGED vars

NoNextScan ==
    /\ pc = "next" /\ ~Wanted
    /\ pc' = "finish"
    /\ UNCHANGED <<daemon, session, request, idle, world>>

(* finish, and what run_daemon does with serve_request's result.           *)
Finish ==
    /\ pc = "finish"
    /\ CueOff
    /\ \/ CaptureOk /\ pc' = IF Once THEN "exit" ELSE "poll"
       \/ CaptureErr /\ pc' = "rebuild"
    /\ conn' = 0
    /\ UNCHANGED <<windows, fed, img, sent, request, idle, fprintd, present, crashes>>

(* Variant: the loop ends when the session is not restored.                *)
RebuildOrExit ==
    /\ pc = "rebuild"
    /\ IF present THEN Established(TRUE) /\ pc' = "poll"
                  ELSE pc' = "exit" /\ UNCHANGED <<session, faults>>
    /\ conn' = 0
    /\ UNCHANGED <<windows, fed, img, led, sent, request, idle, fprintd, present, crashes>>

(* reestablish; the loop continues whatever comes of it.                   *)
Rebuild ==
    /\ pc = "rebuild"
    /\ IF present THEN \E ok \in BOOLEAN : Established(ok)
                  ELSE session' = "stale" /\ UNCHANGED faults
    /\ pc' = "poll" /\ conn' = 0
    /\ UNCHANGED <<windows, fed, img, led, sent, request, idle, fprintd, present, crashes>>

DaemonStep ==
    \/ Boot \/ SeeRequest \/ Connect \/ Prepare \/ Check
    \/ WindowPoll \/ WindowImage \/ WindowClose
    \/ NoSwipe \/ SendOn \/ SendFails
    \/ SeeNextScan \/ Reconnect \/ NoNextScan \/ Finish \/ Rebuild

(* The process is killed and started again; the LED is the kernel's.       *)
Crash ==
    /\ pc \notin {"boot", "exit"}
    /\ crashes < MaxCrashes /\ crashes' = crashes + 1
    /\ pc' = "boot"
    /\ conn' = 0 /\ windows' = 0 /\ fed' = 0 /\ img' = NoImage /\ sent' = 0
    /\ session' = "stale"
    /\ UNCHANGED <<led, request, idle, fprintd, present, faults>>

(* Nobody asks any more, or the one frame was fed.                         *)
Quiet ==
    /\ pc \in {"poll", "exit"}
    /\ UNCHANGED vars

Next == DaemonStep \/ RequestStep \/ Leave \/ Return \/ Crash \/ Quiet

Spec == Init /\ [][Next]_vars

(* The daemon runs, and a device that dropped off comes back.              *)
FairSpec == Spec /\ WF_vars(DaemonStep) /\ WF_vars(Return)

-----------------------------------------------------------------------------
(* An image only reaches the opening of the device it was captured for     *)
(* (main.rs:376-379): a swipe whose request has gone is not saved for the  *)
(* next program that opens the device.                                     *)
NoImageAcrossOpenings ==
    \A i \in 1..Len(delivered) : delivered[i].img.open = delivered[i].open

(* Once nothing waits for a finger, the sensor is driven through at most   *)
(* the window that was about to open (main.rs:370-386, 416).               *)
IdleSensorStaysIdle == idle <= 1

(* The LED is lit only while an imaging command is on, whatever failed     *)
(* before; what a killed process leaves lit goes out when the next request *)
(* starts to prepare (capture.rs:493-498, 528-533, 562, 504).              *)
LedMeansImaging ==
    led => \/ pc = "image27"
           \/ crashes > 0 /\ pc \in {"boot", "poll", "connect", "prepare"}

(* A request that lasts gets a window, through faults of the session, the  *)
(* bus and the recovery (main.rs:415-447).                                 *)
RequestGetsWindow == Wanted ~> (~Wanted \/ pc = "image27")

(* Every request is over at some time: the capture is closed or given up,  *)
(* and the daemon waits again (main.rs:370-390).                           *)
RequestEnds == pc = "check" ~> pc \in {"poll", "exit", "boot"}

(* main.rs:396-397: "A capture error rebuilds the session and continues,   *)
(* so the daemon survives a re-enumeration or an fprintd restart".         *)
SessionRebuilt == session = "dead" /\ Wanted ~> session # "dead" \/ ~Wanted

(* main.rs:416-417: "Capture only while something is waiting for a         *)
(* fingerprint: ... no stale image is ever queued".                        *)
NoStaleImage ==
    \A i \in 1..Len(delivered) : delivered[i].img.scan = delivered[i].scan

(* main.rs:126: "Capture a single frame and feed it, then exit".           *)
OnceFeedsOne == Once => sent <= 1
=============================================================================
