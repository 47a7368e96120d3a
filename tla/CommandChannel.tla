--------------------------- MODULE CommandChannel ---------------------------
(***************************************************************************)
(* What sending commands to the sensor promises a capture, with sessions   *)
(* numbered in the order they were set up and no notion of pipes, retries  *)
(* or handshakes: commands take effect in the order they were issued, and  *)
(* never twice within a session.  A command may get lost; under a later    *)
(* session it may take effect once more, because the host cannot know      *)
(* whether the one that broke down had executed it.                        *)
(***************************************************************************)
EXTENDS Naturals, Sequences

VARIABLES
    sessions,  \* sessions the sensor has offered so far
    issued,    \* commands issued so far
    log        \* the commands executed, as [sess, cmd]

TypeOK ==
    /\ sessions \in Nat
    /\ issued \in Nat
    /\ log \in Seq([sess : Nat, cmd : Nat])

Init ==
    /\ sessions = 0
    /\ issued = 0
    /\ log = <<>>

Offer ==
    /\ sessions' = sessions + 1
    /\ UNCHANGED <<issued, log>>

Issue ==
    /\ issued' = issued + 1
    /\ UNCHANGED <<sessions, log>>

(* e may follow f in the log.                                              *)
Follows(e, f) ==
    /\ e.sess >= f.sess
    /\ e.cmd > f.cmd \/ (e.cmd = f.cmd /\ e.sess > f.sess)

Execute(e) ==
    /\ log # <<>> => Follows(e, log[Len(log)])
    /\ log' = Append(log, e)
    /\ UNCHANGED <<sessions, issued>>

Next ==
    \/ Offer
    \/ Issue
    \/ \E s \in 1..sessions, c \in 1..issued : Execute([sess |-> s, cmd |-> c])

Spec == Init /\ [][Next]_<<sessions, issued, log>>
=============================================================================
