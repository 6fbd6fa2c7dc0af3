------------------------- MODULE LongDivisionProofs -------------------------
(***************************************************************************)
(* The divider divides, for every width.  After k copies the wires hold    *)
(* the division of the k upper bits of the dividend; DivInv says so with   *)
(* the dividend split into those bits and the lower ones.                  *)
(***************************************************************************)
EXTENDS LongDivision, Integers, TLAPS

\* The upper bits hi have been divided, the lower bits lo are at the upper end
\* of the wires `dividend'.
Split(hi, lo) ==
  /\ i_dividend = hi * Pow2[WIDTH - stage] + lo
  /\ lo < Pow2[WIDTH - stage]
  /\ dividend = lo * Pow2[stage]
  /\ hi < Pow2[stage]

\* The division of the upper bits.
Quotient(hi) ==
  /\ hi = quotient * i_divisor + remainder
  /\ remainder <= hi
  /\ quotient < Pow2[stage]
  /\ i_divisor # 0 => remainder < i_divisor
  /\ i_divisor = 0 => quotient = Pow2[stage] - 1

DivInv ==
  /\ i_dividend \in Word /\ i_divisor \in Word
  /\ stage \in 0 .. WIDTH
  /\ dividend \in Nat /\ remainder \in Nat /\ quotient \in Nat
  /\ Pow2[stage] * Pow2[WIDTH - stage] = Pow2[WIDTH]
  /\ \E hi, lo \in Nat : Split(hi, lo) /\ Quotient(hi)

-----------------------------------------------------------------------------
\* A factor of a product is no larger than the product.
LEMMA FactorBelow ==
  ASSUME NEW a \in Nat, NEW b \in Nat \ {0}
  PROVE  a <= a * b
  BY SMT

\* A common factor does not change an order.
LEMMA ScaledOrder ==
  ASSUME NEW a \in Nat, NEW b \in Nat, NEW s \in Nat \ {0}
  PROVE  a * s >= b * s <=> a >= b
  BY SMT

\* A shift that loses no bit doubles, and one that loses a bit loses just that.
LEMMA Doubled ==
  ASSUME NEW m \in Nat \ {0}, NEW x \in Nat, x < m
  PROVE  /\ 2 * x < m => (2 * x) % m = 2 * x
         /\ 2 * x >= m => (2 * x) % m = 2 * x - m
  BY SMT

\* Distributing a factor over the next bit of a number.
LEMMA Distribute ==
  ASSUME NEW a \in Nat, NEW b \in Int, NEW c \in Nat
  PROVE  /\ a * (2 * c) = (2 * a) * c
         /\ (2 * a + 1) * c = 2 * (a * c) + c
         /\ (a + b) * c = a * c + b * c
         /\ (a - b) * c = a * c - b * c
  BY SMT

\* One copy divides one more bit of the dividend.
LEMMA IterateKeeps ==
  ASSUME DivInv, Iterate
  PROVE  DivInv'
<1> DEFINE A == Pow2[stage]
           B == Pow2[WIDTH - (stage + 1)]
           M == Pow2[WIDTH]
           d == i_divisor
<1>1. stage \in 0 .. WIDTH - 1 /\ stage' = stage + 1 /\ stage + 1 \in 1 .. WIDTH
  BY WidthAssumption DEF DivInv, Iterate
<1>2. /\ A \in Nat \ {0} /\ B \in Nat \ {0} /\ M \in Nat \ {0}
      /\ Pow2[stage + 1] = 2 * A
      /\ Pow2[WIDTH - stage] = 2 * B
      /\ M = 2 * Pow2[WIDTH - 1] /\ Pow2[WIDTH - 1] \in Nat
  <2>1. Pow2[stage + 1] = 2 * Pow2[(stage + 1) - 1] /\ (stage + 1) - 1 = stage
    BY <1>1, Pow2Assumption
  <2>2. Pow2[WIDTH - stage] = 2 * Pow2[(WIDTH - stage) - 1] /\ (WIDTH - stage) - 1 = WIDTH - (stage + 1)
    BY <1>1, WidthAssumption, Pow2Assumption
  <2>3. M = 2 * Pow2[WIDTH - 1]
    BY WidthAssumption, Pow2Assumption
  <2>4. stage \in 0 .. WIDTH /\ WIDTH - (stage + 1) \in 0 .. WIDTH /\ WIDTH - 1 \in 0 .. WIDTH /\ WIDTH \in 0 .. WIDTH
    BY <1>1, WidthAssumption
  <2> QED
    BY <2>1, <2>2, <2>3, <2>4, Pow2Assumption
<1>3. A * (2 * B) = M /\ (2 * A) * B = M /\ A * B = Pow2[WIDTH - 1] /\ B * A = Pow2[WIDTH - 1]
  <2>1. A * (2 * B) = M
    BY <1>2 DEF DivInv
  <2> QED
    BY <2>1, <1>2, SMT
<1>4. PICK hi \in Nat, lo \in Nat : Split(hi, lo) /\ Quotient(hi)
  BY DEF DivInv
<1>5. /\ i_dividend \in Nat /\ d \in Nat
      /\ dividend \in Nat /\ remainder \in Nat /\ quotient \in Nat
      /\ i_dividend = hi * (2 * B) + lo
      /\ lo < 2 * B /\ hi < A
      /\ dividend = lo * A
      /\ remainder < A /\ quotient < A
  BY <1>2, <1>4 DEF DivInv, Word, Split, Quotient
<1>6. PICK bit \in {0, 1} : bit = TopBit(dividend) /\ (bit = 1 <=> lo >= B)
  BY <1>2, <1>3, <1>5, ScaledOrder DEF TopBit
<1>7. Shl(remainder) = 2 * remainder /\ Shl(quotient) = 2 * quotient
  <2>1. 2 * A <= M
    BY <1>2, <1>3, FactorBelow
  <2>2. 2 * remainder < M /\ 2 * quotient < M /\ remainder < M /\ quotient < M
    BY <2>1, <1>2, <1>5
  <2> QED
    BY <2>2, <1>2, <1>5, Doubled DEF Shl
<1>8. PICK hi1 \in Nat, lo1 \in Nat :
        /\ hi1 = 2 * hi + bit /\ hi1 < 2 * A
        /\ lo1 = (IF bit = 1 THEN lo - B ELSE lo) /\ lo1 < B
  BY <1>2, <1>5, <1>6
<1>9. i_dividend = hi1 * B + lo1
  <2>1. hi * (2 * B) = (2 * hi) * B /\ (2 * hi + 1) * B = (2 * hi) * B + B
    BY <1>2, Distribute
  <2>2. (2 * hi) * B \in Nat
    BY <1>2, SMT
  <2>3. CASE bit = 1
    BY <2>1, <2>2, <2>3, <1>2, <1>5, <1>8
  <2>4. CASE bit = 0
    BY <2>1, <2>2, <2>4, <1>2, <1>5, <1>8
  <2> QED
    BY <2>3, <2>4, <1>6
<1>10. dividend' = lo1 * (2 * A)
  <2>1. dividend < M
    BY <1>2, <1>3, <1>5, ScaledOrder
  <2>2. lo * (2 * A) = 2 * (lo * A) /\ (lo - B) * (2 * A) = lo * (2 * A) - B * (2 * A) /\ B * (2 * A) = M
    BY <1>2, <1>3, SMT
  <2>3. dividend' = (2 * dividend) % M
    BY DEF Iterate, o_dividend, Shl
  <2>4. 2 * dividend >= M <=> bit = 1
    BY <1>2, <1>5, <1>6 DEF TopBit
  <2> QED
    BY <2>1, <2>2, <2>3, <2>4, <1>2, <1>5, <1>6, <1>8, Doubled
<1>11. new_remainder = 2 * remainder + bit
  BY <1>6, <1>7 DEF new_remainder
<1>12. /\ quotient' \in Nat /\ remainder' \in Nat
       /\ hi1 = quotient' * d + remainder'
       /\ remainder' <= hi1
       /\ quotient' < 2 * A
       /\ d # 0 => remainder' < d
       /\ d = 0 => quotient' = 2 * A - 1
  <2>1. PICK p \in Nat : p = quotient * d /\ hi = p + remainder /\ remainder <= hi
    BY <1>4, <1>5, SMT DEF Quotient
  <2>2. (d # 0 => remainder < d) /\ (d = 0 => quotient = A - 1)
    BY <1>4 DEF Quotient
  <2>3. CASE can_subtract
    <3>1. quotient' = 2 * quotient + 1 /\ remainder' = 2 * remainder + bit - d /\ 2 * remainder + bit >= d
      BY <2>3, <1>5, <1>7, <1>11 DEF Iterate, o_quotient, o_remainder, can_subtract
    <3>2. quotient' * d = 2 * p + d
      BY <2>1, <3>1, <1>5, Distribute
    <3>3. hi1 = quotient' * d + remainder'
      BY <2>1, <3>1, <3>2, <1>5, <1>8
    <3>4. quotient' \in Nat /\ remainder' \in Nat /\ remainder' <= hi1 /\ quotient' < 2 * A
      BY <2>1, <3>1, <1>2, <1>5, <1>8
    <3>5. (d # 0 => remainder' < d) /\ (d = 0 => quotient' = 2 * A - 1)
      <4>1. A \in Nat /\ d \in Nat /\ remainder \in Nat /\ quotient \in Nat
        BY <1>2, <1>5
      <4> QED
        BY <2>2, <3>1, <4>1
    <3> QED
      BY <3>3, <3>4, <3>5
  <2>4. CASE ~can_subtract
    <3>1. quotient' = 2 * quotient + 0 /\ remainder' = 2 * remainder + bit /\ ~(2 * remainder + bit >= d)
      BY <2>4, <1>5, <1>7, <1>11 DEF Iterate, o_quotient, o_remainder, can_subtract
    <3>2. quotient' * d = 2 * p
      BY <2>1, <3>1, <1>5, SMT
    <3>3. hi1 = quotient' * d + remainder'
      BY <2>1, <3>1, <3>2, <1>5, <1>8
    <3>4. quotient' \in Nat /\ remainder' \in Nat /\ remainder' <= hi1 /\ quotient' < 2 * A
      BY <2>1, <3>1, <1>2, <1>5, <1>8
    <3> QED
      BY <2>2, <3>1, <3>3, <3>4, <1>2, <1>5
  <2> QED
    BY <2>3, <2>4
<1>13. stage' \in 0 .. WIDTH /\ Pow2[stage'] = 2 * A /\ Pow2[WIDTH - stage'] = B
  BY <1>1, <1>2
<1>14. UNCHANGED <<i_dividend, i_divisor>>
  BY DEF Iterate
<1>15. (Split(hi1, lo1) /\ Quotient(hi1))'
  BY <1>8, <1>9, <1>10, <1>12, <1>13, <1>14 DEF Split, Quotient
<1>16. dividend' \in Nat
  BY <1>2, <1>10
<1> QED
  BY <1>3, <1>12, <1>13, <1>14, <1>15, <1>16 DEF DivInv

\* Nothing has been divided when the first copy is entered.
LEMMA FirstWiresDivided == Init => DivInv
<1> SUFFICES ASSUME Init PROVE DivInv
  OBVIOUS
<1>1. i_dividend \in Nat /\ i_dividend < Pow2[WIDTH] /\ Pow2[0] = 1 /\ Pow2[WIDTH] \in Nat
  BY WidthAssumption, Pow2Assumption DEF Init, Word
<1>2. stage = 0 /\ WIDTH - stage = WIDTH
  BY WidthAssumption DEF Init
<1>3. Split(0, i_dividend) /\ Quotient(0)
  BY <1>1, <1>2 DEF Init, FirstWires, Split, Quotient, Word
<1> QED
  BY <1>1, <1>2, <1>3, WidthAssumption DEF DivInv, Init, FirstWires

\* What DivInv says when the last copy has been passed.
LEMMA AllDivided ==
  ASSUME DivInv
  PROVE  Divided
<1> SUFFICES ASSUME stage = WIDTH
             PROVE  IF i_divisor = 0
                    THEN quotient = Pow2[WIDTH] - 1 /\ remainder = i_dividend
                    ELSE i_dividend = quotient * i_divisor + remainder /\ remainder < i_divisor
  BY DEF Divided
<1>1. PICK hi \in Nat, lo \in Nat : Split(hi, lo) /\ Quotient(hi)
  BY DEF DivInv
<1>2. WIDTH - stage = 0 /\ Pow2[0] = 1
  BY WidthAssumption, Pow2Assumption
<1>3. hi = i_dividend
  BY <1>1, <1>2 DEF Split
<1> QED
  BY <1>1, <1>3 DEF Quotient, DivInv, Word

\* What is shifted is below the power of two of its copy.
LEMMA RoomForShift ==
  ASSUME DivInv
  PROVE  NoBitLost
<1> SUFFICES ASSUME stage < WIDTH
             PROVE  2 * remainder < Pow2[WIDTH] /\ 2 * quotient < Pow2[WIDTH]
  BY DEF NoBitLost
<1> DEFINE A == Pow2[stage]
           B == Pow2[WIDTH - (stage + 1)]
<1>1. A \in Nat \ {0} /\ B \in Nat \ {0} /\ Pow2[WIDTH] \in Nat /\ Pow2[WIDTH - stage] = 2 * B
  <2>1. /\ stage \in 0 .. WIDTH /\ WIDTH \in 0 .. WIDTH
        /\ WIDTH - (stage + 1) \in 0 .. WIDTH
        /\ WIDTH - stage \in 1 .. WIDTH /\ (WIDTH - stage) - 1 = WIDTH - (stage + 1)
    BY WidthAssumption DEF DivInv
  <2>2. Pow2[WIDTH - stage] = 2 * Pow2[(WIDTH - stage) - 1]
    BY <2>1, Pow2Assumption
  <2> QED
    BY <2>1, <2>2, Pow2Assumption
<1>2. (2 * A) * B = Pow2[WIDTH]
  <2>1. A * (2 * B) = Pow2[WIDTH]
    BY <1>1 DEF DivInv
  <2> QED
    BY <2>1, <1>1, Distribute
<1>3. 2 * A <= Pow2[WIDTH]
  BY <1>1, <1>2, FactorBelow
<1>4. PICK hi \in Nat, lo \in Nat : Split(hi, lo) /\ Quotient(hi)
  BY DEF DivInv
<1>5. remainder < A /\ quotient < A /\ remainder \in Nat /\ quotient \in Nat
  BY <1>1, <1>4 DEF Split, Quotient, DivInv
<1> QED
  BY <1>1, <1>3, <1>5

\* The invariant of the chain holds after every copy.
LEMMA Invariance == Spec => []DivInv
<1>1. DivInv /\ [Next]_vars => DivInv'
  <2>1. ASSUME DivInv, UNCHANGED vars PROVE DivInv'
    BY <2>1 DEF DivInv, vars, Split, Quotient
  <2> QED
    BY <2>1, IterateKeeps DEF Next
<1> QED
  BY <1>1, FirstWiresDivided, PTL DEF Spec

\* The circuit's outputs are the quotient and the remainder, and all ones and
\* the dividend for a divisor of zero.
THEOREM Division == Spec => []Divided
<1>1. DivInv => Divided
  BY AllDivided
<1> QED
  BY <1>1, Invariance, PTL

\* The registers of the chain are wide enough: no shift drops a one.
THEOREM ShiftsFit == Spec => []NoBitLost
<1>1. DivInv => NoBitLost
  BY RoomForShift
<1> QED
  BY <1>1, Invariance, PTL
=============================================================================
