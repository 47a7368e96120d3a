---------------------------- MODULE DaemonProofs ----------------------------
(***************************************************************************)
(* Proofs about Daemon, for any number of windows, openings, scans, faults *)
(* and crashes, with and without --fprintd.                                *)
(***************************************************************************)
EXTENDS Daemon, TLAPS

(* A request counts its windows and swipes: a window is only opened below  *)
(* the limit, and a swipe is only sent for a window not yet counted.       *)
Counted ==
    /\ pc = "poll26" => windows < MaxWindows
    /\ pc \in {"image27", "close28", "decide"} => fed < windows

TypeInv == TypeOK /\ Counted

(* A swipe is kept from its window to the decision what becomes of it, and *)
(* is of the opening the connection belongs to.                            *)
ImageOfConnection ==
    /\ pc \notin {"close28", "decide"} => img = NoImage
    /\ img # NoImage => img.open = conn

ImageInv == ImageOfConnection /\ NoImageAcrossOpenings

(* No window was opened for nothing while a finger is wanted, nor when a   *)
(* window is about to open: it was wanted when that was decided.           *)
IdleInv ==
    /\ IdleSensorStaysIdle
    /\ Wanted => idle = 0
    /\ pc = "poll26" => idle = 0

-----------------------------------------------------------------------------
(* Types.                                                                  *)
LEMMA InitType == Init => TypeInv
<1> SUFFICES ASSUME Init PROVE TypeInv
  OBVIOUS
<1> USE WindowsAssumption, BoundsAssumption DEF Init
<1>1. fprintd \in Modes /\ led \in BOOLEAN /\ present \in BOOLEAN
  BY Zenon
<1>2. img \in Image
  BY DEF NoImage, Image
<1>3. delivered \in Seq([img : Image, open : Nat, scan : Nat])
  OBVIOUS
<1>4. /\ conn \in 0..MaxOpens /\ windows \in 0..MaxWindows /\ fed \in 0..windows
      /\ open \in 0..opens /\ opens \in 0..MaxOpens
      /\ scan \in 0..scans /\ scans \in 0..MaxScans
      /\ sent \in 0..2 /\ idle \in 0..2
      /\ faults \in 0..MaxFaults /\ crashes \in 0..MaxCrashes
  OBVIOUS
<1> QED
  BY <1>1, <1>2, <1>3, <1>4 DEF TypeInv, TypeOK, Counted

(* What a capture call leaves of the session and the fault counter.        *)
LEMMA CaptureTypes ==
    ASSUME TypeOK, CaptureOk \/ CaptureErr
    PROVE  session' \in {"good", "dead", "stale"} /\ faults' \in 0..MaxFaults
BY BoundsAssumption DEF TypeOK, CaptureOk, CaptureErr, Fault

LEMMA WindowTypes ==
    ASSUME TypeInv, WindowPoll \/ WindowImage \/ WindowClose
    PROVE  TypeInv'
<1> USE WindowsAssumption, BoundsAssumption DEF TypeInv, TypeOK, Counted, request
<1>1. session' \in {"good", "dead", "stale"} /\ faults' \in 0..MaxFaults
  BY CaptureTypes DEF WindowPoll, WindowImage, WindowClose
<1>2. CASE WindowPoll
  <2>1. led' \in BOOLEAN
    BY <1>2, Zenon DEF WindowPoll, CueOff
  <2>2. windows' \in 0..MaxWindows /\ fed' \in 0..windows'
    BY <1>2 DEF WindowPoll
  <2>3. idle' \in 0..2
    BY <1>2 DEF WindowPoll
  <2>4. UNCHANGED <<fprintd, present, conn, fed, img, sent, request, crashes>>
    BY <1>2 DEF WindowPoll
  <2>5. pc' \in {"image27", "rebuild"}
    BY <1>2 DEF WindowPoll
  <2>6. Counted'
    BY <1>2, <2>2, <2>5 DEF WindowPoll
  <2> QED
    BY <1>1, <2>1, <2>2, <2>3, <2>4, <2>5, <2>6
<1>3. CASE WindowImage
  <2>1. led' \in BOOLEAN
    BY <1>3, FlagsAssumption, Zenon DEF WindowImage, CueOff
  <2>2. pc' \in {"close28", "rebuild"}
    BY <1>3 DEF WindowImage
  <2>3. img' \in Image
    BY <1>3 DEF WindowImage, Image, NoImage
  <2> QED
    BY <1>1, <1>3, <2>1, <2>2, <2>3 DEF WindowImage
<1>4. CASE WindowClose
  <2>1. led' \in BOOLEAN
    BY <1>4, Zenon DEF WindowClose, CueOff
  <2>2. pc' \in {"decide", "rebuild"}
    BY <1>4 DEF WindowClose
  <2>3. img' \in Image
    BY <1>4 DEF WindowClose, Image, NoImage
  <2> QED
    BY <1>1, <1>4, <2>1, <2>2, <2>3 DEF WindowClose
<1> QED
  BY <1>2, <1>3, <1>4

LEMMA Appended ==
    ASSUME NEW S, NEW s \in Seq(S), NEW e \in S
    PROVE  Append(s, e) \in Seq(S)
OBVIOUS

LEMMA SendTypes ==
    ASSUME TypeInv, SendOn
    PROVE  TypeInv'
<1> USE DEF TypeInv, TypeOK, Counted
<1>1. delivered' \in Seq([img : Image, open : Nat, scan : Nat])
  <2> DEFINE e == [img |-> img, open |-> open, scan |-> scan]
             S == [img : Image, open : Nat, scan : Nat]
  <2>1. e \in S /\ delivered \in Seq(S)
    BY BoundsAssumption
  <2>2. delivered' = Append(delivered, e) \/ delivered' = delivered
    BY DEF SendOn
  <2> HIDE DEF e, S
  <2>3. Append(delivered, e) \in Seq(S)
    BY <2>1, Appended
  <2>4. delivered' \in Seq(S)
    BY <2>1, <2>2, <2>3
  <2> QED
    BY <2>4 DEF S
<1>2. fed' \in 0..windows' /\ windows' = windows /\ sent' \in 0..2
  BY WindowsAssumption DEF SendOn
<1>3. img' \in Image
  BY DEF SendOn, Image, NoImage
<1>4. pc' \in {"finish", "next"}
  BY DEF SendOn, AfterSend
<1>5. scan' \in 0..scans'
  BY BoundsAssumption DEF SendOn
<1>6. UNCHANGED <<conn, led, session, open, opens, scans, idle,
                  fprintd, present, faults, crashes>>
  BY DEF SendOn, world
<1> QED
  BY <1>1, <1>2, <1>3, <1>4, <1>5, <1>6

LEMMA NextType == TypeInv /\ [Next]_vars => TypeInv'
<1> SUFFICES ASSUME TypeInv, [Next]_vars PROVE TypeInv'
  OBVIOUS
<1> USE WindowsAssumption, BoundsAssumption
        DEF TypeInv, TypeOK, Counted, request, daemon, world
<1>1. CASE Boot
  BY <1>1 DEF Boot, Established
<1>2. CASE SeeRequest
  BY <1>2 DEF SeeRequest
<1>3. CASE Connect
  BY <1>3 DEF Connect
<1>4. CASE Prepare
  BY <1>4, CaptureTypes DEF Prepare, CueOff
<1>5. CASE Check
  BY <1>5 DEF Check, WindowsLeft
<1>6. CASE WindowPoll \/ WindowImage \/ WindowClose
  BY <1>6, WindowTypes
<1>7. CASE NoSwipe
  BY <1>7 DEF NoSwipe
<1>8. CASE SendOn
  BY <1>8, SendTypes
<1>9. CASE SendFails
  BY <1>9 DEF SendFails, NoImage, Image, AfterSend
<1>10. CASE SeeNextScan
  BY <1>10 DEF SeeNextScan
<1>11. CASE Reconnect
  BY <1>11 DEF Reconnect
<1>12. CASE NoNextScan
  BY <1>12 DEF NoNextScan
<1>13. CASE Finish
  <2>1. led' \in BOOLEAN
    BY <1>13, Zenon DEF Finish, CueOff
  <2>2. session' \in {"good", "dead", "stale"} /\ faults' \in 0..MaxFaults
    BY <1>13, CaptureTypes DEF Finish
  <2>3. pc' \in {"exit", "poll", "rebuild"}
    BY <1>13 DEF Finish
  <2> QED
    BY <1>13, <2>1, <2>2, <2>3 DEF Finish
<1>14. CASE Rebuild
  BY <1>14 DEF Rebuild, Established, Fault
<1>15. CASE RequestStep
  BY <1>15, SMTT(20) DEF RequestStep, OpenDevice, CloseDevice, StartScan, EndScan
<1>16. CASE Leave
  <2>1. faults' \in 0..MaxFaults
    BY <1>16 DEF Leave, Fault
  <2>2. present' \in BOOLEAN
    BY <1>16 DEF Leave
  <2> QED
    BY <1>16, <2>1, <2>2 DEF Leave
<1>17. CASE Return
  BY <1>17 DEF Return
<1>18. CASE Crash
  BY <1>18 DEF Crash, NoImage, Image
<1>19. CASE UNCHANGED vars
  BY <1>19 DEF vars
<1> QED
  BY <1>1, <1>2, <1>3, <1>4, <1>5, <1>6, <1>7, <1>8, <1>9, <1>10, <1>11, <1>12, <1>13,
     <1>14, <1>15, <1>16, <1>17, <1>18, <1>19 DEF Next, DaemonStep, Quiet

(* The daemon's counters, swipe, connection and history stay in their      *)
(* ranges: no more windows than the limit, no more swipes than windows.    *)
THEOREM DaemonTypes == Spec => []TypeOK
<1>1. TypeInv => TypeOK
  BY DEF TypeInv
<1> QED
  BY <1>1, InitType, NextType, PTL DEF Spec

LEMMA TypesHold == Spec => []TypeInv
BY InitType, NextType, PTL DEF Spec

-----------------------------------------------------------------------------
(* Where a step takes the swipe and the connection.                        *)
LEMMA ImageSteps ==
    ASSUME [Next]_vars, ImageOfConnection
    PROVE  ImageOfConnection'
<1> USE DEF ImageOfConnection
<1>1. CASE Connect \/ Reconnect
  BY <1>1 DEF Connect, Reconnect
<1>2. CASE Finish \/ Rebuild \/ Crash
  BY <1>2 DEF Finish, Rebuild, Crash
<1>3. CASE WindowImage
  BY <1>3 DEF WindowImage
<1>4. CASE WindowClose
  BY <1>4 DEF WindowClose
<1>5. CASE SendOn \/ SendFails
  BY <1>5 DEF SendOn, SendFails, AfterSend
<1>6. CASE Boot \/ SeeRequest \/ Prepare \/ Check \/ WindowPoll \/ NoSwipe
  BY <1>6 DEF Boot, SeeRequest, Prepare, Check, WindowPoll, NoSwipe, daemon
<1>7. CASE SeeNextScan \/ NoNextScan
  BY <1>7 DEF SeeNextScan, NoNextScan, daemon
<1>8. CASE RequestStep \/ Leave \/ Return \/ UNCHANGED vars
  BY <1>8 DEF RequestStep, Leave, Return, vars, daemon
<1> QED
  BY <1>1, <1>2, <1>3, <1>4, <1>5, <1>6, <1>7, <1>8 DEF Next, DaemonStep, Quiet

(* Only send_on delivers an image.                                         *)
LEMMA DeliveredSame ==
    ASSUME [Next]_vars, ~SendOn
    PROVE  delivered' = delivered
<1>1. CASE RequestStep
  BY <1>1 DEF RequestStep, OpenDevice, CloseDevice, StartScan, EndScan
<1>2. CASE Leave \/ Return \/ Crash \/ UNCHANGED vars
  BY <1>2 DEF Leave, Return, Crash, vars, request
<1>3. CASE Boot \/ SeeRequest \/ Connect \/ Prepare \/ Check \/ Finish \/ Rebuild
  BY <1>3 DEF Boot, SeeRequest, Connect, Prepare, Check, Finish, Rebuild, request
<1>4. CASE WindowPoll \/ WindowImage \/ WindowClose
  BY <1>4 DEF WindowPoll, WindowImage, WindowClose, request
<1>5. CASE NoSwipe \/ SendFails \/ SeeNextScan \/ Reconnect \/ NoNextScan
  BY <1>5 DEF NoSwipe, SendFails, SeeNextScan, Reconnect, NoNextScan, request
<1> QED
  BY <1>1, <1>2, <1>3, <1>4, <1>5 DEF Next, DaemonStep, Quiet

LEMMA ImageNext == TypeInv /\ ImageInv /\ [Next]_vars => ImageInv'
<1> SUFFICES ASSUME TypeInv, ImageInv, [Next]_vars PROVE ImageInv'
  OBVIOUS
<1>1. ImageOfConnection'
  BY ImageSteps DEF ImageInv
<1>2. CASE SendOn
  <2>1. img.open = open
    BY <1>2 DEF SendOn, Connected, ImageInv, ImageOfConnection
  <2> DEFINE e == [img |-> img, open |-> open, scan |-> scan]
             S == [img : Image, open : Nat, scan : Nat]
  <2>2. e \in S /\ delivered \in Seq(S)
    BY BoundsAssumption DEF TypeInv, TypeOK
  <2>3. delivered' = Append(delivered, e) \/ delivered' = delivered
    BY <1>2 DEF SendOn
  <2>4. e.img.open = e.open
    BY <2>1
  <2> HIDE DEF e, S
  <2> QED
    BY <1>1, <2>2, <2>3, <2>4 DEF ImageInv, NoImageAcrossOpenings
<1>3. CASE ~SendOn
  BY <1>1, <1>3, DeliveredSame DEF ImageInv, NoImageAcrossOpenings
<1> QED
  BY <1>2, <1>3

(* An image reaches no opening of the device but the one it was captured   *)
(* for, although what is asked of libfprint before the window may have     *)
(* changed after it.                                                       *)
THEOREM ImagesStay == Spec => []NoImageAcrossOpenings
<1>1. Init => ImageInv
  BY DEF Init, ImageInv, ImageOfConnection, NoImageAcrossOpenings
<1>2. ImageInv => NoImageAcrossOpenings
  BY DEF ImageInv
<1> QED
  BY <1>1, <1>2, ImageNext, TypesHold, PTL DEF Spec

-----------------------------------------------------------------------------
LEMMA IdleNext == TypeInv /\ IdleInv /\ [Next]_vars => IdleInv'
<1> SUFFICES ASSUME TypeInv, IdleInv, [Next]_vars PROVE IdleInv'
  OBVIOUS
<1> USE DEF IdleInv, IdleSensorStaysIdle, Wanted
<1>1. CASE WindowPoll
  BY <1>1 DEF WindowPoll, request
<1>2. CASE Check
  BY <1>2 DEF Check, StillWanted, request, world
<1>3. CASE SendOn
  BY <1>3 DEF SendOn, AfterSend, world
<1>4. CASE RequestStep
  BY <1>4 DEF RequestStep
<1>5. CASE Boot \/ SeeRequest \/ Connect \/ Prepare \/ Finish \/ Rebuild
  BY <1>5 DEF Boot, SeeRequest, Connect, Prepare, Finish, Rebuild, request, world
<1>6. CASE WindowImage \/ WindowClose \/ NoSwipe \/ SendFails
  BY <1>6 DEF WindowImage, WindowClose, NoSwipe, SendFails, AfterSend, request, world
<1>7. CASE SeeNextScan \/ Reconnect \/ NoNextScan
  BY <1>7 DEF SeeNextScan, Reconnect, NoNextScan, request, world
<1>8. CASE Leave \/ Return \/ Crash \/ UNCHANGED vars
  BY <1>8 DEF Leave, Return, Crash, vars, request, world
<1> QED
  BY <1>1, <1>2, <1>3, <1>4, <1>5, <1>6, <1>7, <1>8 DEF Next, DaemonStep, Quiet

(* Once nothing waits for a finger, at most the window that was about to   *)
(* open is driven.                                                         *)
THEOREM IdleStays == Spec => []IdleSensorStaysIdle
<1>1. Init => IdleInv
  BY DEF Init, IdleInv, IdleSensorStaysIdle
<1>2. IdleInv => IdleSensorStaysIdle
  BY DEF IdleInv
<1> QED
  BY <1>1, <1>2, IdleNext, TypesHold, PTL DEF Spec

-----------------------------------------------------------------------------
LEMMA LedNext ==
    ASSUME ~SkipLatch
    PROVE  TypeInv /\ LedMeansImaging /\ [Next]_vars => LedMeansImaging'
<1> SUFFICES ASSUME TypeInv, LedMeansImaging, [Next]_vars PROVE LedMeansImaging'
  OBVIOUS
<1> USE DEF LedMeansImaging
<1>1. CASE Prepare \/ WindowPoll \/ WindowClose \/ Finish
  BY <1>1 DEF Prepare, WindowPoll, WindowClose, Finish, CueOff
<1>2. CASE WindowImage
  BY <1>2 DEF WindowImage, CueOff
<1>3. CASE Crash
  <2>1. crashes' > 0
    BY <1>3, BoundsAssumption DEF Crash, TypeInv, TypeOK
  <2> QED
    BY <1>3, <2>1 DEF Crash
<1>4. CASE Boot \/ SeeRequest \/ Connect
  BY <1>4 DEF Boot, SeeRequest, Connect, daemon, world
<1>5. CASE Check \/ NoSwipe \/ SendOn \/ SendFails
  BY <1>5 DEF Check, NoSwipe, SendOn, SendFails, AfterSend, daemon, world
<1>6. CASE SeeNextScan \/ Reconnect \/ NoNextScan \/ Rebuild
  BY <1>6 DEF SeeNextScan, Reconnect, NoNextScan, Rebuild, daemon, world
<1>7. CASE RequestStep \/ Leave \/ Return \/ UNCHANGED vars
  BY <1>7 DEF RequestStep, Leave, Return, vars, daemon, world
<1> QED
  BY <1>1, <1>2, <1>3, <1>4, <1>5, <1>6, <1>7 DEF Next, DaemonStep, Quiet

(* Unless VFS_SKIP_17 leaves out the command that carries the cue, the LED *)
(* is lit only while the imaging command is on; what a killed process left *)
(* lit is off when the next request has prepared.                          *)
THEOREM LedFollows ==
    ASSUME ~SkipLatch
    PROVE  Spec => []LedMeansImaging
<1>1. Init => LedMeansImaging
  BY DEF Init, LedMeansImaging
<1> QED
  BY <1>1, LedNext, TypesHold, PTL DEF Spec
=============================================================================
