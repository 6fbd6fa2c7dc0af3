--------------------------- MODULE MCMemReadPort ---------------------------
(***************************************************************************)
(* Two words of two values: a fetch, the one behind it and a writer of     *)
(* both.  The register holds one request, so two outstanding fetches are   *)
(* all there can be.                                                       *)
(***************************************************************************)
EXTENDS MemReadPort
=============================================================================
