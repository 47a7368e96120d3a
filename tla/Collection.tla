----------------------------- MODULE Collection -----------------------------
(***************************************************************************)
(* How the image data of one command is collected: the two threads of      *)
(* read_reply_interleaved, once for every reply, and drain_image_bounded   *)
(* after the last (capture.rs).  These are the steps without the data; EP2 *)
(* comes in with the modules that extend this one: with lines in Capture,  *)
(* as a stream that need not end in CommandReads.                          *)
(***************************************************************************)
EXTENDS Naturals

CONSTANTS
    ReplyReads,  \* reply reads of one command (4 in the code)
    QuietReads   \* empty reads that end a drain (3 in the code)

ASSUME ReadsAssumption == {ReplyReads, QuietReads} \subseteq Nat \ {0}

VARIABLES
    pc,       \* where the capture stands
    attempt,  \* reply reads of this command
    reply,    \* the last of them got a record
    done,     \* tells the reader thread to stop
    reader,   \* the reader thread: "off", "check", "read"
    quiet     \* empty reads in a row

collection == <<pc, attempt, reply, done, reader, quiet>>

CollectionTypeOK ==
    /\ pc \in {"send", "spawn", "wait", "join", "drain", "slice", "failed"}
    /\ attempt \in 0..ReplyReads /\ reply \in BOOLEAN
    /\ done \in BOOLEAN /\ reader \in {"off", "check", "read"}
    /\ quiet \in 0..QuietReads - 1

CollectionInit ==
    /\ pc = "send" /\ attempt = 0 /\ reply = FALSE
    /\ done = FALSE /\ reader = "off" /\ quiet = 0

-----------------------------------------------------------------------------
(* The command is sent, or not.                                            *)
Sent(to) ==
    /\ pc = "send" /\ pc' = to
    /\ attempt' = 0
    /\ UNCHANGED <<reply, done, reader, quiet>>

(* read_reply_interleaved: the reader thread starts.                       *)
Started ==
    /\ pc = "spawn" /\ pc' = "wait"
    /\ done' = FALSE /\ reader' = "check"
    /\ UNCHANGED <<attempt, reply, quiet>>

ThreadChecks ==
    /\ reader = "check"
    /\ reader' = IF done THEN "off" ELSE "read"
    /\ UNCHANGED <<pc, attempt, reply, done, quiet>>

(* One read_image, which ends within 20 ms.                                *)
ThreadReads ==
    /\ reader = "read" /\ reader' = "check"
    /\ UNCHANGED <<pc, attempt, reply, done, quiet>>

(* Variant: an error is returned before the reader is told.                *)
DoneIfReply(got) == got

(* The flag goes up whatever read_record returned.                         *)
Done(got) == TRUE

(* read_record has a record, or times out.                                 *)
Answered(got) ==
    /\ pc = "wait" /\ pc' = "join"
    /\ reply' = got
    /\ done' = Done(got)
    /\ UNCHANGED <<attempt, reader, quiet>>

(* Variant: one read more.                                                 *)
OneMoreReadsLeft == attempt < ReplyReads

ReadsLeft == attempt + 1 < ReplyReads

(* The thread has ended.  Replies are read until one is missing.           *)
ThreadJoined ==
    /\ pc = "join" /\ reader = "off"
    /\ attempt' = attempt + 1
    /\ pc' = IF reply /\ ReadsLeft THEN "spawn" ELSE "drain"
    /\ quiet' = 0
    /\ UNCHANGED <<reply, done, reader>>

(* drain_image_bounded: a read of something, or of nothing.                *)
DrainReads(something) ==
    /\ pc = "drain"
    /\ IF something THEN quiet' = 0 /\ UNCHANGED pc
       ELSE IF quiet + 1 < QuietReads THEN quiet' = quiet + 1 /\ UNCHANGED pc
       ELSE quiet' = 0 /\ pc' = "slice"
    /\ UNCHANGED <<attempt, reply, done, reader>>

(* Variant: the time starts again with every chunk.                        *)
UpInSilence == quiet > 0

(* Whatever was read, max_ms may have passed since the drain began.        *)
TimeIsUp == TRUE

DrainStops ==
    /\ pc = "drain" /\ TimeIsUp /\ pc' = "slice"
    /\ quiet' = 0
    /\ UNCHANGED <<attempt, reply, done, reader>>

(* The slice goes to decryption, and the command is over.                  *)
Sliced ==
    /\ pc = "slice" /\ pc' = "send"
    /\ UNCHANGED <<attempt, reply, done, reader, quiet>>
=============================================================================
