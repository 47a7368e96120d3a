----------------------------- MODULE MCCapture -----------------------------
(* An instance of Capture for TLC.                                         *)
EXTENDS Capture
=============================================================================
