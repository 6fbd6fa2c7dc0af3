-------------------------------- MODULE Rng --------------------------------
(***************************************************************************)
(* The random number generator of hw6-cache/system/System.sv (MemoryMap,   *)
(* lines 257-268): a shift register whose feedback bit is itself a         *)
(* register, so the sum of the taps enters one cycle late.  A register is  *)
(* the set of its one bits.                                                *)
(***************************************************************************)
EXTENDS Naturals, FiniteSets

CONSTANTS
  WIDTH,     \* 32
  Taps,      \* {0, 1, 21, 31}
  Seed       \* the one bits of 12345

Bits == 0 .. WIDTH - 1
Top  == WIDTH - 1

\* The bit shifted out is a tap, which makes the generator reversible.
ASSUME WidthAssumption == WIDTH \in Nat \ {0}
ASSUME TapsAssumption == Taps \subseteq Bits /\ Top \in Taps
ASSUME SeedAssumption == Seed \subseteq Bits /\ Seed # {}

VARIABLES rng_state, feedback

rngVars == <<rng_state, feedback>>

\* The exclusive or of the taps, and the inclusive one of the mutant.
Or(reg)  == IF Taps \cap reg = {} THEN 0 ELSE 1
Xor(reg) == Cardinality(Taps \cap reg) % 2

\* {rng_state[30:0], feedback}.  The mutant does not insert feedback.
ShiftedOnly(reg, bit) == {b + 1 : b \in reg \ {Top}}
Shifted(reg, bit) == {b + 1 : b \in reg \ {Top}} \cup {b \in {0} : bit = 1}

\* The first reset edge.  feedback is neither initialised nor reset: it is
\* whatever the register powers up with.
RngInit == rng_state = Seed /\ feedback \in {0, 1}

ClockEdge ==
  /\ feedback' = Xor(rng_state)
  /\ rng_state' = Shifted(rng_state, feedback)

ResetEdge == rng_state' = Seed /\ UNCHANGED feedback

RngNext == ClockEdge \/ ResetEdge

RngSpec == RngInit /\ [][RngNext]_rngVars

-----------------------------------------------------------------------------
\* The registers have their types, and are never all zero together, the one
\* state the generator cannot leave: not from the seed, whatever feedback
\* powers up with, nor from a reset at any moment.
NeverAllZero ==
  /\ rng_state \subseteq Bits
  /\ feedback \in {0, 1}
  /\ rng_state # {} \/ feedback = 1

\* A program that draws until a number suits it (Tile::random) goes on seeing
\* even and odd numbers.
ParityChanges == []<>(0 \in rng_state) /\ []<>(0 \notin rng_state)
=============================================================================
