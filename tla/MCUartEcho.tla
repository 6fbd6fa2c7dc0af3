----------------------------- MODULE MCUartEcho -----------------------------
(***************************************************************************)
(* Short lines, and characters typed at any moments, enough for a second   *)
(* line.  In a delay none, one or two characters are started.              *)
(***************************************************************************)
EXTENDS UartEcho
=============================================================================
