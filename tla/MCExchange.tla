----------------------------- MODULE MCExchange -----------------------------
(* Instances of Exchange for TLC.  The init sequence has two steps, the    *)
(* first with a reply long enough to be taken for a ServerHello, as step 2 *)
(* of the recorded eight has; the first command may have a reply with      *)
(* data, the others have a status.                                         *)
EXTENDS Exchange
=============================================================================
