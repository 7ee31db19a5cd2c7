---------------------------- MODULE FpMultiplier ----------------------------
(***************************************************************************)
(* fp_multiplier.sv, a combinational block: the exact product of the       *)
(* mantissas, rounded, with the cases for underflow, overflow, infinities, *)
(* zeros and NaNs.                                                         *)
(***************************************************************************)
EXTENDS FpWord

VARIABLES dataa, datab

-----------------------------------------------------------------------------
Product(s, e, m) == [sign |-> s, exponent |-> e, mantissa |-> m]
Bit(x, n) == (x \div 2 ^ n) % 2

(* intermediate_product, and final_mantissa: the product with its leading   *)
(* bit at the top, if the operands have hidden bits.                        *)
TopBit(a, b) == Bit(Mantissa(a) * Mantissa(b), 2 * ManBits + 1)

FinalMantissa(a, b) ==
  IF TopBit(a, b) = 1 THEN Mantissa(a) * Mantissa(b)
  ELSE (2 * Mantissa(a) * Mantissa(b)) % (4 * Hidden * Hidden)

\* Mutant of RoundUp: the mantissa is always rounded up.
RoundUpAlways(f) == 1

(* What is added to the upper bits: 1 if a bit below the upper two of the   *)
(* lower half is set, or both of these are.                                 *)
RoundUp(f) ==
  IF (Bit(f, ManBits) = 1 /\ Bit(f, ManBits - 1) = 1) \/ f % 2 ^ (ManBits - 1) # 0 THEN 1 ELSE 0

(* The sum has the width of the mantissa.                                   *)
OutMantissa(f) == (((f \div (2 * Hidden)) % Hidden) + RoundUp(f)) % Hidden

APlusB(a, b) == Exponent(a) + Exponent(b)

\* Mutant of IntermediateExponent: the top bit of the product is not counted.
IntermediateExponentLow(a, b) == (APlusB(a, b) - Bias) % (2 * (ExpMax + 1))

(* One bit more than an exponent.                                           *)
IntermediateExponent(a, b) == (APlusB(a, b) - Bias + TopBit(a, b)) % (2 * (ExpMax + 1))

\* Mutant of MultiplierOut: no test for underflow.
MultiplierOutNoUnderflow(a, b) ==
  LET s == (a.sign + b.sign) % 2   e == IntermediateExponent(a, b) IN
  IF e >= ExpMax THEN Inf(s) ELSE Product(s, e % (ExpMax + 1), OutMantissa(FinalMantissa(a, b)))

\* Mutant of MultiplierOut: no test for overflow.
MultiplierOutNoOverflow(a, b) ==
  LET s == (a.sign + b.sign) % 2   e == IntermediateExponent(a, b) IN
  IF APlusB(a, b) <= Bias THEN SignedZero(s)
  ELSE Product(s, e % (ExpMax + 1), OutMantissa(FinalMantissa(a, b)))

(* An exponent that is too small may have wrapped to one too large.         *)
MultiplierOut(a, b) ==
  LET s == (a.sign + b.sign) % 2   e == IntermediateExponent(a, b) IN
  IF APlusB(a, b) <= Bias THEN SignedZero(s)
  ELSE IF e >= ExpMax THEN Inf(s)
  ELSE Product(s, e % (ExpMax + 1), OutMantissa(FinalMantissa(a, b)))

(* The corner cases come before the product.                                *)
Multiply(a, b) ==
  IF IsNaN(a) THEN a
  ELSE IF IsNaN(b) THEN b
  ELSE IF IsInf(a) THEN Inf(a.sign)
  ELSE IF IsInf(b) THEN Inf(b.sign)
  ELSE IF IsZero(a) \/ IsZero(b) THEN SignedZero((a.sign + b.sign) % 2)
  ELSE MultiplierOut(a, b)

result == Multiply(dataa, datab)

-----------------------------------------------------------------------------
(* The result is a word: every field fits its bits.                         *)
TypeOK == dataa \in Float /\ datab \in Float /\ result \in Float

(* The exact product and values of words, in units of the smallest          *)
(* subnormal number times Unit.                                             *)
Unit == 2 ^ (Bias - 1 + ManBits)
Exact == Value(dataa) * Value(datab)
BothNormal == Normal(dataa) /\ Normal(datab)
InRange == Size(Exact) >= 2 * SmallestNormal * Unit /\ Size(Exact) <= LargestFinite * Unit

(* The upper bits are all ones and are to be rounded up.                    *)
RoundingCarries ==
  LET f == FinalMantissa(dataa, datab) IN (f \div (2 * Hidden)) % Hidden = Hidden - 1 /\ RoundUp(f) = 1

UnitInTheLastPlace == 2 ^ (Exponent(result) - 1) * Unit

(* The product of normal words differs from the exact one by less than a    *)
(* unit in the last place, unless the rounding carries.                     *)
ProductWithinUlp ==
  BothNormal /\ InRange /\ ~RoundingCarries
    => Finite(result) /\ Distance(Value(result) * Unit, Exact) < UnitInTheLastPlace

(* A product that is a word is that word.                                   *)
ExactWhenRepresentable ==
  BothNormal /\ (\E w \in Float : Normal(w) /\ w.exponent > 1 /\ Value(w) * Unit = Exact)
    => Finite(result) /\ Value(result) * Unit = Exact

(* Products of normal words below the normal numbers become zero, and only  *)
(* those below twice the smallest do: exponents that wrap are not taken for *)
(* large ones.                                                              *)
UnderflowsToZero ==
  BothNormal => /\ Size(Exact) < SmallestNormal * Unit => IsZero(result)
                /\ IsZero(result) => Size(Exact) < 2 * SmallestNormal * Unit

(* Products of normal words beyond the largest word become infinities with  *)
(* the sign of the product, and no others.                                  *)
OverflowsToInfinity ==
  BothNormal => (Size(Exact) >= 2 ^ (ExpMax - 1) * Hidden * Unit
                   <=> result = Inf((dataa.sign + datab.sign) % 2))
=============================================================================
