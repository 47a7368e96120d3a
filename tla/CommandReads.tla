---------------------------- MODULE CommandReads ----------------------------
(***************************************************************************)
(* What the host reads for its commands, from both endpoints: records from *)
(* EP1 as in Ep1Framing, by the thread that waits for replies; the image   *)
(* stream from EP2, of which there is only whether there is something to   *)
(* read, by both threads of Collection.  The sensor streams whenever it    *)
(* likes and may never stop, which the lines of Capture do by its bounds:  *)
(* this is where liveness is checked.                                      *)
(***************************************************************************)
EXTENDS Ep1Framing, Collection

VARIABLE ready  \* there is something on EP2

readsVars == <<vars, collection, ready>>

ReadsInit == Init /\ CollectionInit /\ ready = FALSE

(* A read of EP2 takes all there is, or a part of it.                      *)
Take == IF ready THEN ready' \in BOOLEAN ELSE UNCHANGED ready

Stream == ready' = TRUE /\ UNCHANGED <<vars, collection>>

Reset == ready' = FALSE /\ UNCHANGED <<vars, collection>>

Send == Sent("spawn") /\ UNCHANGED <<vars, ready>>

(* The reader thread is started, and read_record called.                   *)
Ask == Started /\ Call /\ UNCHANGED ready

Record == Answered(TRUE) /\ Return /\ UNCHANGED ready

NoRecord == Answered(FALSE) /\ TimedOut /\ UNCHANGED ready

Drain == DrainReads(ready) /\ Take /\ UNCHANGED vars

(* The thread that sends the commands.                                     *)
Main ==
    \/ Send \/ Ask \/ Record \/ Drain
    \/ (ThreadJoined \/ Sliced) /\ UNCHANGED <<vars, ready>>

DrainTimeout == DrainStops /\ UNCHANGED <<vars, ready>>

Reader ==
    /\ \/ ThreadChecks /\ UNCHANGED ready
       \/ ThreadReads /\ Take
    /\ UNCHANGED vars

(* The records of EP1 come in.                                             *)
Sending == Emit /\ UNCHANGED <<collection, ready>>
Receiving == Transfer /\ UNCHANGED <<collection, ready>>
Part == PartTransferred /\ UNCHANGED <<collection, ready>>

ReadsNext ==
    \/ Main \/ NoRecord \/ DrainTimeout \/ Reader
    \/ Sending \/ Receiving \/ Part
    \/ Stream \/ Reset

(* Both threads run, since none of their reads waits without end, and time *)
(* passes: a wait that goes on meets its deadline, and so does a drain.    *)
(* The sensor goes on sending its records, and the host its commands; a    *)
(* call does not time out for ever while there is something to read.       *)
ReadsFairSpec ==
    /\ ReadsInit /\ [][ReadsNext]_readsVars
    /\ WF_readsVars(Main) /\ WF_readsVars(Reader)
    /\ WF_readsVars(NoRecord) /\ WF_readsVars(DrainTimeout)
    /\ WF_readsVars(Sending) /\ SF_readsVars(Receiving)

-----------------------------------------------------------------------------
(* Every record gets to the caller, whatever goes on on EP2 and however    *)
(* many calls give up before its first byte (usb.rs:90-91, 113-119).       *)
AllRead == <>(Len(got) = Len(Records))

(* The wait for replies ends: a reader thread is told to stop on every     *)
(* path, also when no reply came, and does, so that the join does not wait *)
(* for it for ever (capture.rs:334-348).                                   *)
WaitEnds == pc = "spawn" ~> pc = "drain"

(* A drain ends also when EP2 never falls silent (capture.rs:103-118).     *)
DrainEnds == pc = "drain" ~> pc = "slice"
=============================================================================
