# vfs495: models and proofs

TLA+ models of the vfs495 fingerprint driver (`src/src/*.rs`), checked with TLC,
and theorems about them proved with TLAPS. Line numbers refer to the files under
`src/src/`.

## The system

The driver talks to a Validity VFS495 sensor over USB. It replays a recorded
sequence of vendor commands inside an SSLv3-like session, collects the image the
sensor streams, rebuilds a fingerprint picture from it and hands that to
libfprint's `virtual_image` socket. `vfs495 daemon` does so whenever a finger is
asked for; systemd restarts it when it dies.

| Component | State | Operations | Talks to |
|---|---|---|---|
| Record layer (`crypto.rs`) | keys, send sequence number, CBC chain of each direction (`civ`, `siv`) | `new`, `encrypt`, `decrypt` | handshake, command exchange |
| USB transport (`usb.rs`) | the handle to one enumeration of the device, the kernel driver flag | `open`, `reopen`, `write`, `read`, `read_record_split`, `read_image`, `drop` | the sensor |
| Handshake (`session.rs`) | random strings, transcript, the new `Record` | `replay_init`, `handshake` | transport, record layer |
| Command exchange (`capture.rs`, `send_cmd_draining`) | the record being sent, the `Record` before it, attempts, replies | send, retry, reopen, roll back, re-handshake, collect | all of the above |
| Capture loop (`capture.rs`, `Capture`) | the command sequence, image key, image IV chain | `prepare`, `window`, `finish`, `run` | exchange, calibration, EP2 |
| Calibration (`calib.rs`) | none: patches the sequence | `validate`, `compute_*`, `patch_*`, `carry_forward` | capture loop |
| Image decoding (`image.rs`) | none | `decode_ep2`, `unpack_line`, `finger_segment`, ... | daemon, `decode` |
| Swipe reconstruction (`swipe.rs`) | none | `contact_runs`, `track`, `reconstruct_run`, `mask_background`, ... | daemon, `decode` |
| libfprint link (`virtimage.rs`) | one connection | `wait_for_request`, `still_wanted`, `send_on` | libfprint, fprintd |
| Feeder daemon (`main.rs`) | `Sensor`, `Record`, the request served | `run_daemon`, `serve_request`, `reestablish` | capture, libfprint link |

What is hard about it:

* The sensor drops off the bus in the middle of anything, and comes back as a new
  device. Recovery happens in two places (`send_cmd_draining` and `reestablish`),
  and each can fail half-way.
* Both ends of a session advance a sequence number and a chaining value per
  record. A retry, a roll-back or a command given up must leave them in step.
* Replies carry no number. What one exchange leaves unread, the next one reads.
* The request a swipe is captured for can end while the window is open.
* Two threads read the device while a command runs (EP1 replies and EP2 image).
* The image stream has no lengths and no checksums: where a command's part of it
  ends is a matter of silence, and where a line begins one of a two-byte mark.
* The picture is found by index arithmetic over runs, gaps, paths and sorted
  pointers, where an error by one shows as a slightly worse picture and nothing else.

What makes each component correct: a record is readable exactly by the end that
holds the same keys and stands at the same place (record layer, exchange); a
`Record` only comes from a handshake the sensor completed (handshake); commands
take effect in order and at most once in a session (exchange); replies are
returned whole and in order (transport); every image byte is decrypted under the
key and chain it was encrypted with (capture loop); a calibration result reaches
every later command and nothing else (calibration); the frames, bands, runs, lags and
rows picked are the ones meant, whatever the pixels (decoding, reconstruction); images
go only to the request they were captured for, and requests get served (daemon).

## The modules

| Module | Models | Role |
|---|---|---|
| `RecordLayer` | `crypto.rs` `Record` | operators: what `encrypt` and `decrypt` do to a `Record` |
| `SensorLink` | the sensor, EP1 IN and OUT (external) | extends `RecordLayer`; the other end of every exchange |
| `Exchange` | `session.rs`, `send_cmd_draining`, `open`/`reopen`/`write`/`read` | extends `SensorLink`; the core |
| `CommandChannel` | what sending commands promises | abstract; `Exchange` implements it |
| `Ep1Framing` | `read_record_split` | records out of bulk transfers |
| `Calibration` | `calib.rs`, its use in `Capture::run` | sweep frames to values to commands |
| `Collection` | reply loop, reader thread and drain of one command | the steps without the data |
| `Capture` | `Capture::run`: what the lines go through on the way to a window | extends `Collection`; the EP2 side of a capture |
| `CommandReads` | what the host reads for its commands from both endpoints | composes `Ep1Framing` and `Collection`, against a stream that need not end; liveness |
| `Frames` | `image.rs`: `decode_ep2`, `unpack_line`, `finger_segment` | operators |
| `Swipe` | `swipe.rs`: runs, lag track, measurements, positions, rows | operators |
| `Background` | the fill in `mask_background` | one action per pixel taken off the stack |
| `Imaging` | `swipe_from_window`, `finger_gate`, `reconstruct_swipe`, `decode --feed` | composes the last three: a stream becomes a picture |
| `Daemon` | `run_daemon`, `serve_request`, `reestablish`, `virtimage.rs`, the capture calls | libfprint, bus and systemd as environment |
| `ExchangeProofs` | types of `Exchange`, and that it implements `CommandChannel` | TLAPS |
| `SessionProofs` | that the two ends of `Exchange` agree; extends `ExchangeProofs` | TLAPS |
| `Ep1FramingProofs`, `CaptureProofs`, `CalibrationProofs`, `DaemonProofs` | each about its module | TLAPS |
| `SwipeProofs` | the operators of `Swipe`, and `Background` | TLAPS |
| `ImagingProofs` | the operators of `Frames`, and `Imaging`; extends `SwipeProofs` | TLAPS |
| `MC...` | instances for TLC | with one `.cfg` per question |

### RecordLayer, SensorLink, Exchange

Cryptography is symbolic. Keys are named by the pair of nonces they are derived
from (`sess`), a chaining value by the record it is the end of. A record on the wire
holds the keys, sequence number and chaining value it was made with; it is readable
exactly by a `Record` with the same ones. `decrypt` follows the code in the order it
changes state: `siv` is replaced before anything is verified, and a body that is no
whole number of blocks is a panic (`Panics`).

`Exchange` has one action per write, read or handle operation. `pc` says where the
host stands: `boot` (no process, or one about to open the device), `hsWrite` and
`hsRead` (inside `replay_init`/`handshake`, with `hs.ret` saying who called it),
`write` and `reopen` (the retry loop of `send_cmd_draining`), `collect` (its reply
loop), `idle`, and `failed` (an error the daemon answers with `reestablish`). Between
any two of these steps the sensor may answer, reset, leave the bus and return under a
new enumeration (`epoch`); a handle of an older one is dead. A write that reports an
error may have been delivered or not (`AmbiguousWrite`).
A ClientHello draws its nonce before it is written, so one that was not sent leaves a
nonce unused.

Init replies and a ServerHello are told apart by length alone, as in the code
(`session.rs:151`), so any long reply left in the pipe can be taken for a ServerHello,
an init reply or a reply with data: `LongInit` and `LongData` say which are long enough.
A reply longer than one read (1,024 bytes) is taken as one message. A reply with data
comes in the place of a ServerHello only behind as many unread answers as there are init
steps, which is beyond the bounds of the runs; `SessionsAgreed` is proved for it.

A reset empties both pipes on its way. One that the session survives
(`SessionSurvivesReset`) comes only when the sensor has taken all it was sent
(`epOut` is empty): an assumption about the sensor, for which the code has the reason
that such a reset is the effect of a command, executed before it. `SendLockstep` under
roll-back, in the run and in `LockstepKeeps`, rests on it.

Three modes are CONSTANTS: the default (re-handshake and resend), `VFS_HP_RESUME`
(roll the `Record` back, skip the command), and `VFS_NO_REHANDSHAKE` (`Recover` FALSE:
reopen and resend). TLC runs the first two; the theorems hold for all three, but for
the two that name `HpResume`.

### Ep1Framing

The unit is a 64-byte packet. In-session records are 5 + 16 k bytes, never a
multiple of 64, so each ends in a short packet that also ends the transfer: two
records never share one. A call that meets its deadline before the first byte loses
nothing; the deadline inside a record only passes when the sensor pauses, which
`Stalls` switches on and the runs leave off, because the code claims nothing then.

### Calibration

A command is the sequence of register writes in it; a frame is a sequence of lines
with their marker, counter and the sums of the two column groups. `Compute...` are
the loops of the three decision rules, `CarryForward` the patching. `Promised` says
declaratively what a step ought to pick, and the history variable `chosen` keeps it;
the invariant compares what is *sent* with the recording and `chosen`. Units are sent
as `prepare`, any number of `window`s, `finish`; a new capture (next request, or an
error anywhere) loads the recording again. Indices count from 1 (from 0 in the code).

### Capture

`Exchange` has the EP1 side of a command, `Capture` the EP2 side. The steps of the two
threads (when a reader starts and is told to stop, when replies and drains end) are in
`Collection`, and the actions of `Capture` add the lines to them. The unit is a scan
line; a line carries its number, the line it was encrypted behind and the command
whose key it was encrypted under. Every command sent is executed, rejected, or given
up (`failed`); an executed one ends the sensor's stream and may begin another
(`Execute`), and the sensor streams whenever it likes, also while the host is between
two commands. `reader` is the reader thread, `pc` the thread that waits for replies;
they share `done` and the pipe. `Join`, `Drain` and `Slice` are what follows a reply,
in that order. `img` is the slice under construction, `out` what `run` will return,
each line with the key and chaining value it was decrypted with. `New` is the next
capture, on the same handle (whatever is in the pipe stays) or on a new one.

A read that hits its limit in the middle of a line is not modelled: the code appends
bytes, so a line cut by two reads is whole again in the slice. A slice that ends in the
middle of a line or of a block is not modelled either.

The lines of `Capture` are numbered and bounded, so its stream comes to an end, which
the code may not count on: without a finger the sensor streams for ever
(`capture.rs:566-569`). Whether a command ends is therefore asked in `CommandReads`:
EP2 is only silent or not there, and the sensor may stream at any step, for ever, so
that nothing but its time is sure to end a drain.

### CommandReads

The wait for a reply is a call of `read_record_split`: `Collection`'s `Started` goes
with `Ep1Framing`'s `Call`, and `Answered` with its `Return` or `TimedOut`. Transfers,
the reader thread and the drain come between in any order.

### Frames, Swipe, Background, Imaging

`Frames` and `Swipe` are the algorithms as functions of small inputs; `Imaging` runs
them in the order of the program, one action per stage, and chooses at each stage what
the pixels could have said: which rows have contact, the correlation of two lines at
each lag, whether a line is culled, the pixels without finger, the rows of high energy.
A stream is made of pieces: whole lines, lines that lost bytes or the mark, and (in
`MCChancePieces`) a line with the mark among its pixels. `FramesFound` is stated
for streams without such a chance mark, and finding 5 says what they do.

Correlations are small integers. A refined lag is one of the two whole numbers around
the vertex of the parabola; positions are in units of which `Row` make an output row.
`BestPath`, `RunsRight`, `BandRight`, `MovesByMeasurement` and `RowsInPlace` define
declaratively (over all paths, runs, bands, ...) what the loops should have found.
In `Background` a pixel is its index in the row-major image, as in the code.

### Daemon

`fprintd` says whether it runs with `--fprintd`; both ways are initial states.
`pc` follows `run_daemon` and, inside it, `serve_request` and one imaging window
(`poll26`, `image27`, `close28` for the commands before, with and after the image).
A capture call is one step that works, fails, or finds a sensor that rejects
everything (`session = "dead"`), which is what `Exchange` shows can happen. `Wanted`
is "the device is open" or, with `--fprintd`, "a scan is in progress". A connection
belongs to one opening of the device. `Crash` is the process being killed and
restarted; only the LED survives it.

### Variants

A definition whose comment starts with "Variant" is no part of a model. It is the
definition after it as a plausible bug would have it (a guard dropped, a counter off
by one, a state not reset), kept to show that each property fails with it in place.

## What is checked

| Run | Shows | Bounds and why they do |
|---|---|---|
| `exchange` | `ChannelInv`, the refinement `ImplementsChannel`, `SessionAgreed`, `SendLockstep`, `NoCommandLost`, `ReceiveAligned`, `SendReturns` | 2 init steps (one long reply, one short), 2 commands, 2 write attempts, 2 resets, 1 write error, 1 late answer: a session broken in the middle of a retry, a handshake broken in the middle by the second reset, and a stale reply in front of it, all in one behaviour. 212,000 states |
| `exchange_hp` | `SendLockstep` under roll-back | 3 commands and 3 write errors, so a roll-back is followed by a send and another roll-back. 801,000 states |
| `exchange_panic` | **violated** `SurvivesReplies` | finding 1 |
| `command_reads` | `WholeInOrder`, `AllRead`, `WaitEnds`, `DrainEnds` | records of 1, 3, 2 and 5 packets with a buffer of 2: shorter than a transfer, as long, longer, and two transfers and a bit; 4 reply reads and 3 empty reads, as in the code; no bound on what EP2 streams. 3,400 states |
| `calibration` | `SentAsChosen` | 3, 2 and 3 swept values, every profile of sums over 3 or 4 levels (ties, both ends, rising and falling), frames cut, spliced and padded; commands with none, one, two and three writes of a register. 270 states, 46,000 steps |
| `capture` | `EveryLineKept`, `DecryptedRight`, `WindowsApart` | units of 1, 2 and 1 commands, the second of a window with a key; 2 reply reads, 2 empty reads to end a drain; 5 commands, 3 lines, 2 at most for one command, 1 reset: a chain that goes over two slices, a line that comes after its drain and meets the next key, lines left over for the next window and for the next capture. 1,117,000 states |
| `imaging` | `FramesFound`, `PixelsFromTheirBits`, `RunsRight`, `BestPath`, `MovesByMeasurement`, `RowsInPlace`, `BandRight`, `BackgroundRight`, `MaskEnds` | up to 6 lines of 5 bytes of which 4 are kept of a run, gaps of 1 and 2 lines to bridge, lags 1 to 5, images of 3 by 3: two runs with a gap that is and one that is not bridged, a lag that moves up, down and by more than a step, lines of no measurement at either end and between, a hole in the finger. 182,000 states |
| `decode` | **violated** `LongestRunFound` | finding 5 |
| `daemon` | `NoImageAcrossOpenings`, `IdleSensorStaysIdle`, `LedMeansImaging`, `RequestGetsWindow`, `RequestEnds` | with and without `--fprintd`; 2 openings, 2 scans, 3 windows, 2 faults, 1 crash: a request that ends and is replaced while a window is open, a session is being rebuilt or the process restarts. 559,000 states |
| `daemon_dead` | **violated** `SessionRebuilt` | finding 2 |
| `daemon_stale` | **violated** `NoStaleImage` | finding 3 |
| `daemon_once` | **violated** `OnceFeedsOne` | finding 4 |

Each run also checks, where it says so in its `.cfg`, the type invariant of the module.

Some of the properties need their conditions read:

* `SendLockstep`, `NoCommandLost` and `ReceiveAligned` speak of a session that is live
  and under which no command was given up (`broken`). After four failed attempts the
  `Record` has advanced and the sensor has not; the daemon then replaces the session.
* `NoCommandLost` says *executed*, not *executed once*: a write that reports an error
  may have been delivered, a reset may follow, and the command is then executed again
  under the new session. `CommandChannel` says exactly that.
* `DecryptedRight` speaks of lines that come to the key they were encrypted under. A
  line that arrives after its drain is decrypted with a later key and lost, and the
  chain it stands in front of starts behind the wrong block: `mixed` is the set of the
  chains that happened to.
* `WindowsApart` says when a line of an earlier window can be in a later one (`carried`:
  it was still coming or unread), because the code discards nothing between windows.
* Replies are not matched to commands by the code, and no property says they are.

### Fairness

* `Exchange`: weak fairness of the host (it is one thread that never waits without a
  timeout) and of the sensor answering while it is there. Nothing makes the device
  come back: `SendReturns` holds without, because every wait in the code is bounded.
* `CommandReads`: weak fairness of the thread that sends the commands and of the reader
  thread, since every read they wait in has a timeout, and of the two timeouts, each on
  its own: of the wait for a first byte (`NoRecord`) and of the drain (`DrainTimeout`),
  because the clock runs while they read (`usb.rs:121-136`, `capture.rs:103-106`).
  `WaitEnds` needs the first and `DrainEnds` the second. Of the sensor, weak fairness of
  sending its replies, and none of the stream. Strong fairness of a transfer: a call may
  end before the first byte any number of times, but not for ever with data in the pipe,
  since a pending transfer takes what is there before its timeout is looked at. Sending
  is fair only so that replies are asked for at all (`AllRead`).
* `Imaging`: weak fairness of the steps of the fill and of what follows it: one thread
  that waits for nothing.
* `Daemon`: weak fairness of the daemon and of the device's return. Windows, the wait
  for the next scan and rebuilding are all bounded in the code; a request that lasts
  gets a window only if the device is there.

## Findings

1. **A late handshake message ends the process.** `main.rs:396-397` says a capture
   error rebuilds the session so that the daemon survives a re-enumeration. When a
   handshake inside `send_cmd_draining` fails because a reply is late, the loop goes
   on, writes the old record and takes the late ServerHello for a reply; `decrypt`
   splits its body into 16-byte blocks and panics on the last (`crypto.rs:225`).
2. **A dead session need not be rebuilt.** A re-handshake that fails inside a command
   (`capture.rs:254`) is only logged. Writes go on to succeed, every command is
   rejected, no capture error is raised and `run_daemon` never calls `reestablish`.
3. **An image can reach the next scan.** `still_wanted` is asked before the window;
   the swipe is sent after it, to whichever scan of the same opening is then running.
4. **`--once` can feed twice**: an error of the closing commands, after the frame was
   fed, goes through `continue`, past the `if once` (`main.rs:438`).
5. **Pixels can hide frames.** `decode_ep2` follows its run from one `01 fe` to the
   next, whatever it is part of. Two adjacent pixels of these values split a run of
   whole frames, and only the longer part is returned, though `image.rs:251` promises
   the longest run of frames.

## What is proved

`tlapm` checks every proof; nothing is assumed but the named ASSUMEs about the
constants, which TLC evaluates in the runs, and the hypothesis a row names. Each
theorem holds for every value of the constants and the bounds. All but one state a
property that a run checks on a small instance, and every safety property of the
passing runs, action properties included, is stated by one.

| Theorem | `Spec => []...` | Of |
|---|---|---|
| `ExchangeProofs!TypeCorrect` | `TypeOK` | `Exchange` |
| `ExchangeProofs!ChannelCorrect` | `ChannelInv` | |
| `ExchangeProofs!Implementation` | `ImplementsChannel` (no `[]`) | |
| `SessionProofs!SessionsAgreed` | `SessionAgreed` | |
| `SessionProofs!LockstepKeeps` | `SendLockstep`, if `~HpResume \/ ~AmbiguousWrite` | |
| `SessionProofs!CommandsArrive` | `NoCommandLost`, if `~HpResume` | |
| `SessionProofs!RepliesAligned` | `ReceiveAligned`, if `~SessionSurvivesReset` | |
| `Ep1FramingProofs!FramingTypes` | `TypeOK` | `Ep1Framing` |
| `Ep1FramingProofs!RecordsWhole` | `WholeInOrder`, if `~Stalls` | |
| `CaptureProofs!CaptureTypes` | `TypeOK` | `Capture` |
| `CaptureProofs!LinesKept` | `EveryLineKept` | |
| `CaptureProofs!WindowsStayApart` | `WindowsApart` | |
| `CaptureProofs!LinesDecrypted` | `DecryptedRight` | |
| `CalibrationProofs!PicksAsPromised` | (a fact about the operators) | `Calibration` |
| `CalibrationProofs!CalibrationTypes` | `TypeOK` | |
| `CalibrationProofs!CalibrationCarried` | `SentAsChosen` | |
| `DaemonProofs!DaemonTypes` | `TypeOK` | `Daemon` |
| `DaemonProofs!ImagesStay` | `NoImageAcrossOpenings` | |
| `DaemonProofs!IdleStays` | `IdleSensorStaysIdle` | |
| `DaemonProofs!LedFollows` | `LedMeansImaging`, if `~SkipLatch` | |
| `SwipeProofs!BackgroundCorrect` | `BackgroundRight` | `Background` |
| `ImagingProofs!TypeCorrect` | `TypeOK` | `Imaging` |
| `ImagingProofs!FramesCorrect` | `FramesFound` | |
| `ImagingProofs!PixelsCorrect` | `PixelsFromTheirBits` | |
| `ImagingProofs!RunsCorrect` | `RunsRight` | |
| `ImagingProofs!PathCorrect` | `BestPath` | |
| `ImagingProofs!MovesCorrect` | `MovesByMeasurement` | |
| `ImagingProofs!RowsCorrect` | `RowsInPlace` | |
| `ImagingProofs!BandCorrect` | `BandRight` | |
| `ImagingProofs!FillCorrect` | `BackgroundRight` | |

### The hypotheses

Each is a way the program or the sensor can be in which the statement is false, and
the default of the driver satisfies all that are about the driver.

* `~HpResume \/ ~AmbiguousWrite` and `~HpResume`. `VFS_HP_RESUME` gives a command up
  and rolls the `Record` back. If the write that failed was delivered all the same, and
  the session outlives the reset, the sensor is one record ahead from then on: TLC
  finds `SendLockstep` violated with both switched on. That a command is given up is
  what `NoCommandLost` denies.
* `~SessionSurvivesReset`. A reset empties the EP1 pipe. A sensor whose session
  outlives it has counted the answers that were in it, and the host has not read them.
* `~Stalls`. A pause of `rest_ms` inside a record: the code claims nothing then
  (`usb.rs:123`).
* `~SkipLatch`. `VFS_SKIP_17` leaves out the command that ends the cue.

`SweepsAssumption` (a swept command is part of what prepares) is what the recorded
sequence says: were it sent again in a window, its result would be computed from
commands already patched. `Imaging!UnitsAssumption` says that the units positions are
counted in are fine enough for the longest measured lag to move by one; in the code
they are floating-point numbers.

### Exchange: the channel

The heart of `CommandChannel` is that the sensor executes a command only if it
`Follows` the last one executed. That is not inductive: it depends on what lies in the
pipe and on what may still be written to it. `ChannelInv` adds what is needed.

* `WireCurrent`: what is being sent is the record of the current command.
* `InOrder`: the pipe holds commands in order, behind the last executed one.
* `OneNumber`: all copies of a command in one session carry one sequence number.
  This is what makes resending an ambiguously written record safe, and what fails
  when a retry encrypts anew (variant `NextAttemptEncrypted`).
* `NotAgain`: the sensor is past the number of the command it executed last. With
  `OneNumber`, a second copy is refused.
* `FreshNonce`, `FreshServerNonce`: nonces do not come back, so no record in play is
  readable in a session set up later, and later sessions have higher numbers.

The proof splits `Next` into the kinds of effect a step has on these: *calm* steps
put nothing into play, *emptying* steps clear the pipes, and four steps (ClientHello,
encrypting a command, re-encrypting after a handshake, execution) get a lemma each.

### Exchange: the two ends agree

`SessionAgreed` does not follow from the code's checks: a ServerHello is known by its
length, and a flight's answer by nothing. `AgreementInv` shows why it holds all the
same. A session is numbered by the sensor when it is offered (`Offered`); the host's
own hello is the last message out, so the answer to it is the last message in
(`HelloLast`), and a host that took it has taken everything (`OwnAnswer`). A host that
took another answer holds a session the sensor is not negotiating, and its flight is
refused. A flight that will be accepted is therefore the first and only message
left and does not outlive the start of another handshake (`FlightFirst`).

`HostInv` says where the host stands when it holds a session: the record being sent is
the last it encrypted (`WireLast`), and with `VFS_HP_RESUME` the one it can roll back
(`SnapBefore`).

`LockstepInv` is about a live session, under which no command was given up. Every
number from the sensor's up to the host's is on its way, in the pipe or about to be
written (`Complete`), each behind the chaining value of the one before (`Chained`), and
a record that can be rolled back was not delivered (`Undelivered`). Between
commands nothing is on its way, so the two numbers are equal: `SendLockstep`.
`CommandInv` names the command a chaining value comes from, which turns equal
chaining values into equal commands: `NoCommandLost`.

`Answers` is the other direction: what lies in EP1 IN, and what the sensor has yet to
answer, are the numbers from the host's receive number on, in order.

### Ep1Framing

`FramingInv`: what the call has accumulated, the transfer in progress, the pipe and what
the sensor has yet to send are one run of packets without a gap (`Contiguous`), what was
accumulated is a beginning of one record (`Collected`), and a call that waits for its
first byte, or no call at all, holds nothing (`Waiting`).

### Capture

`Numbered`: the lines held by the slice under construction, the reader thread and the
pipe are together the last ones streamed, by number and without a gap. No step but a
reset and a slice takes any away, at the ends only: that is `EveryLineKept`. `Apart` adds
the window of each line.

`ChainInv` follows the encryption. A line of the host's chain is encrypted behind the
line before it unless it is the first (`Encrypted`); the host's IV is the last line it
decrypted (`InStep`); the sensor, if it is still in that chain, is where the lines end
(`SensorInStep`). A foreign line that the host decrypts in a chain breaks that, for good: `mixed` is the
*set* of the chains it happened to, and not a flag that each new key clears. Lines of
such a chain can come after the key has changed, which takes the 5 commands and the key
on the second of a window that the run has.

### Calibration

`CarriedInv`: the sequence as it stands is the recording with the values of `chosen` in
its overrides, and a choice was made by a step that lies behind (`AsChosen`). With it
go the loops of the three decision rules (`PicksAsPromised`), for slices of any length.

### Daemon

`ImageInv`: a swipe exists only between its window and the decision, and is of the
opening the connection belongs to. `IdleInv`: no window was opened for nothing while a
finger is wanted or a window is about to open. `LedMeansImaging` is inductive with
`~SkipLatch`.

### Imaging

`ImagingInv` says, stage by stage, what the values handed on are: `DecodeInv` and
`RunsInv` that they are the values of the operators applied to this stream and contact,
`TrackInv` that the scores so far are those of the best paths to each lag (`Scored`) and
the path is one no other beats, `PlaceInv` that the measurements are sorted and the
positions those of the pointer, `BandInv` that the band is right (`BandOf`), `FillInv`
that the fill is where `MaskInv` says, `FedInv` the bounds of what is handed over.

The work is in the operators: `DecodeEp2` (its chain of frames and the longest of
them), `UnpackLine` (the cursor over bits), `ContactRuns` and `FingerSegment` (folds
that carry an open run and bridge gaps), `Track` (the dynamic program: a best path
ends in a best path), `Positions` (a pointer that only moves on finds the nearest
measurement of a sorted list) and `Bracket`. They are folds and recursive functions;
`SwipeProofs!Least` (a set of numbers has a least element) replaces induction: if a loop
did not do what it should for some input, there would be a least one for which it does
not, and its step leads to a smaller one.

`BackgroundCorrect` holds for an image of any width and height and any set of open
pixels. Its inductive invariant `MaskInv` has three parts: `MaskTypeOK`;
`OnlyReachable`, that whatever is in the background, and every open pixel on the stack,
lies in every closed set; `NoneForgotten`, that every open pixel of the border, and
every open neighbour of the background, is in the background or still on the stack.
With an empty stack the second gives that nothing more is filled, the third that
nothing less is. Most of the proof is arithmetic: that `i - 1`, `i + 1`, `i - w`,
`i + w` with their guards are the neighbours in rows and columns. `FillCorrect` says the
same of each fill `Imaging` does, one after the other.

### Only model-checked

The liveness properties: `SendReturns`, `AllRead`, `WaitEnds`, `DrainEnds`, `MaskEnds`,
`RequestGetsWindow` and `RequestEnds`. They rest on fairness, hence on ENABLED, which the
installed provers do not treat. And the findings, which are counterexamples.

## What is not modelled

* Pixel arithmetic: correlation, contrast, blur, normalisation, interpolation, lateral
  drift, `ridge_peak`. What is decided with it (contact, peaks, open pixels) takes any
  value in `Imaging`. The last row of a stream stands for all when rows are unpacked.
* A `perm` with fewer entries than the width of a line, where the code panics
  (`image.rs:88`): both come from the dumped configuration, and `UnpackLine` takes `perm`
  as defined for every sample. What it maps outside the line is dropped, as in the code.
* `reconstruct_swipe` returns early for a picture with fewer than 264 columns
  (`swipe.rs:477`): the result is that of a picture without a swipe, which is modelled.
* How far a refined lag may lie from the peak it refines: the code sets no limit
  (`swipe.rs:379`), and no property claims one.
* `decode --no-crop`, `decode` without `--feed`, `decode-lines` (`load_lines_raw`), the
  diagnostic `poll-probe`, `ridge-probe` and `window-test`, and the other one-shot
  subcommands of `main.rs`: straight lines through what is modelled. The scripts.
* Sample values in calibration, except as sums; wording and logging everywhere.
* The bytes of the record layer (padding, MAC, PRF, RSA): it is symbolic.
* The sensor's own EP2 buffer, which overflows when the host pauses (`capture.rs:106`):
  firmware. What damaged frames do is in `Calibration` and `Frames`.
* `VFS_NO_CALIB`, which only switches `Calibration` off.
* The `reattach` flag of a kernel driver (`usb.rs:184`).

## Plan

1. What the bounded liveness properties rest on, as action properties: the variant
   functions of `WaitEnds` (reply reads) and `MaskEnds` (open pixels not yet
   in the background) decrease with every step of the loop.
2. That a `Record` given to the daemon's next window is one of an agreed session, from
   `Exchange` to `Daemon`.
3. A capture over `CommandChannel`, so that the image properties rest on the proved
   refinement.
