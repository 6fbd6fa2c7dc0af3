---------------------------- MODULE LongDivision ----------------------------
(***************************************************************************)
(* The combinational divider of hw2a-divider/DividerUnsigned.sv.  Its      *)
(* generate loop chains WIDTH copies of DividerOneIter; a step here is the *)
(* passage through one copy, and `stage' is the loop's i.                  *)
(***************************************************************************)
EXTENDS Naturals

CONSTANTS
  WIDTH,     \* 32
  Pow2       \* the powers of two up to 2^WIDTH

ASSUME WidthAssumption == WIDTH \in Nat \ {0}
ASSUME Pow2Assumption ==
  /\ Pow2 \in [0 .. WIDTH -> Nat \ {0}]
  /\ Pow2[0] = 1
  /\ \A k \in 1 .. WIDTH : Pow2[k] = 2 * Pow2[k-1]

Word == 0 .. Pow2[WIDTH] - 1

VARIABLES
  i_dividend, i_divisor,           \* the inputs
  stage,
  dividend, remainder, quotient    \* the wires between the copies

vars == <<i_dividend, i_divisor, stage, dividend, remainder, quotient>>

\* x << 1 drops the top bit, x >> (WIDTH-1) is the top bit.
Shl(x) == (2 * x) % Pow2[WIDTH]
TopBit(x) == IF x >= Pow2[WIDTH-1] THEN 1 ELSE 0

-----------------------------------------------------------------------------
\* DividerOneIter.  The mutant subtracts only from a larger remainder.
new_remainder == Shl(remainder) + TopBit(dividend)

IsLarger == new_remainder > i_divisor
can_subtract == new_remainder >= i_divisor

o_quotient  == Shl(quotient) + (IF can_subtract THEN 1 ELSE 0)
o_remainder == IF can_subtract THEN new_remainder - i_divisor ELSE new_remainder
o_dividend  == Shl(dividend)

\* The first copy's inputs.  The mutant has dividend and remainder crossed.
CrossedWires == dividend = 0 /\ remainder = i_dividend /\ quotient = 0
FirstWires == dividend = i_dividend /\ remainder = 0 /\ quotient = 0

Init ==
  /\ i_dividend \in Word /\ i_divisor \in Word
  /\ stage = 0
  /\ FirstWires

Iterate ==
  /\ stage < WIDTH
  /\ stage' = stage + 1
  /\ quotient' = o_quotient /\ remainder' = o_remainder /\ dividend' = o_dividend
  /\ UNCHANGED <<i_dividend, i_divisor>>

Next == Iterate

Spec == Init /\ [][Next]_vars

-----------------------------------------------------------------------------
\* The outputs are quotient and remainder; a division by zero gives all ones
\* and the dividend, as the instructions DIVU and REMU do.
Divided ==
  stage = WIDTH =>
    IF i_divisor = 0
    THEN quotient = Pow2[WIDTH] - 1 /\ remainder = i_dividend
    ELSE i_dividend = quotient * i_divisor + remainder /\ remainder < i_divisor

\* The shifts of remainder and quotient, in registers no wider than the
\* operands, lose no bit: not even when the divisor has its top bit set.
NoBitLost ==
  stage < WIDTH => 2 * remainder < Pow2[WIDTH] /\ 2 * quotient < Pow2[WIDTH]
=============================================================================
