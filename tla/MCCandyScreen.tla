--------------------------- MODULE MCCandyScreen ---------------------------
(***************************************************************************)
(* Two columns of five tiles: matches at the top and below it, in either   *)
(* column and in both, over the same rows and over different ones, boxes   *)
(* of three to five rows, and falls of up to two tiles.                    *)
(***************************************************************************)
EXTENDS CandyScreen

CONSTANTS red, green

Tiles == {red, green}

\* Nothing; a move and swaps of all four kinds, which take the cursor everywhere.
Buttons == {{}, {"down", "x", "y", "a", "b"}}

TileSymmetry == Permutations(Tiles)
=============================================================================
