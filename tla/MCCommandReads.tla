--------------------------- MODULE MCCommandReads ---------------------------
(* An instance of CommandReads for TLC: records of one packet, of as many  *)
(* as a transfer takes, and of more; the numbers of reads of the code.     *)
EXTENDS CommandReads

MCRecords == <<1, 3, 2, 5>>
=============================================================================
