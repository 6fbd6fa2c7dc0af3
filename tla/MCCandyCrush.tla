--------------------------- MODULE MCCandyCrush ---------------------------
(***************************************************************************)
(* Boards of three by three tiles of two kinds: matches in rows and in     *)
(* columns, overlapping, in the top row and below it, and tiles that fall  *)
(* one place and two.                                                      *)
(***************************************************************************)
EXTENDS CandyCrush, TLC

CONSTANTS red, green

Tiles == {red, green}

\* Nothing; swaps of all four kinds in one poll; moves with a swap.
Buttons == {{}, {"x", "y", "a", "b"}, {"left", "up", "a"}, {"right", "down", "b"}}

TileSymmetry == Permutations(Tiles)
=============================================================================
