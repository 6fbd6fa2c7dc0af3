--------------------------- MODULE MCLongDivision ---------------------------
(***************************************************************************)
(* Every pair of operands of five bits.                                    *)
(***************************************************************************)
EXTENDS LongDivision

PowersOfTwo == [k \in 0 .. WIDTH |-> 2^k]
=============================================================================
