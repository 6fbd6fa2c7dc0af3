---------------------------- MODULE MCOneAtATime ----------------------------
(***************************************************************************)
(* OneAtATime with the addresses, writes and memory of MCCacheSystem.      *)
(***************************************************************************)
EXTENDS MCCacheSystem, OneAtATime
=============================================================================
