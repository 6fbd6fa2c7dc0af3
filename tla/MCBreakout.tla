----------------------------- MODULE MCBreakout -----------------------------
(***************************************************************************)
(* A screen of six columns and seven rows with a paddle of two pixels, and *)
(* a generator of three bits of which two are the colour.  The ball meets  *)
(* the paddle in every way: on it, on its corners from both sides, beside  *)
(* it after a miss, and at both borders.                                   *)
(***************************************************************************)
EXTENDS Breakout
=============================================================================
