------------------------------ MODULE FpAdder -------------------------------
(***************************************************************************)
(* fp_adder.sv.  The block is meant to be combinational, but the           *)
(* normalizer's outputs are assigned in some cases only: they are a latch  *)
(* that keeps what an earlier pair of operands left in it.                 *)
(***************************************************************************)
EXTENDS FpWord

CONSTANT LowestBit   \* the lowest leading one the normalizer looks for: 3 in the code

AdderAssumption == WidthAssumption /\ LowestBit \in 0 .. ManBits - 1

VARIABLES dataa, datab,
          normalizer_out   \* normalizer_out_e and normalizer_out_m

Latch == [e : 0 .. ExpMax, m : 0 .. 4 * Hidden - 1]

-----------------------------------------------------------------------------
LargerExponent(a, b) == IF Exponent(a) >= Exponent(b) THEN Exponent(a) ELSE Exponent(b)
Sum(s, e, m) == [s |-> s, e |-> e, m |-> m]

(* Equal exponents and signs: the carry bit is set, whatever the sum is.    *)
AddMantissas(a, b) ==
  LET m == Mantissa(a) + Mantissa(b)
  IN  Sum(a.sign, Exponent(a), IF m >= 2 * Hidden THEN m ELSE m + 2 * Hidden)

SubtractMantissas(a, b) ==
  IF Mantissa(a) > Mantissa(b) THEN Sum(a.sign, Exponent(a), Mantissa(a) - Mantissa(b))
                               ELSE Sum(b.sign, Exponent(a), Mantissa(b) - Mantissa(a))

\* Mutant of AddShifted: the smaller operand is not aligned.
AddUnaligned(large, small) ==
  Sum(large.sign, Exponent(large),
      IF large.sign = small.sign THEN Mantissa(large) + Mantissa(small)
      ELSE (Mantissa(large) + 4 * Hidden - Mantissa(small)) % (4 * Hidden))

\* Mutant of AddShifted: the sign is that of the smaller operand.
AddSmallSign(large, small) ==
  LET intermediate_mantissa == Mantissa(small) \div 2 ^ (Exponent(large) - Exponent(small))
  IN  Sum(small.sign, Exponent(large),
          IF large.sign = small.sign THEN Mantissa(large) + intermediate_mantissa
                                     ELSE Mantissa(large) - intermediate_mantissa)

(* Different exponents: the smaller operand is shifted to the larger one.   *)
AddShifted(large, small) ==
  LET intermediate_mantissa == Mantissa(small) \div 2 ^ (Exponent(large) - Exponent(small))
  IN  Sum(large.sign, Exponent(large),
          IF large.sign = small.sign THEN Mantissa(large) + intermediate_mantissa
                                     ELSE Mantissa(large) - intermediate_mantissa)

AdderOut(a, b) ==
  IF Exponent(a) = Exponent(b)
  THEN IF a.sign = b.sign THEN AddMantissas(a, b) ELSE SubtractMantissas(a, b)
  ELSE IF Exponent(a) > Exponent(b) THEN AddShifted(a, b) ELSE AddShifted(b, a)

\* Mutant of LeadingOne: the chain of comparisons ends one bit too early.
LeadingOneShort(m, p) ==
  /\ p \in LowestBit + 1 .. ManBits - 1
  /\ m % (2 * Hidden) \in 2 ^ p .. 2 ^ (p + 1) - 1

(* normalizer_in_m[23:p] = 1: bit p is the leading one below the carry bit. *)
LeadingOne(m, p) ==
  /\ p \in LowestBit .. ManBits - 1
  /\ m % (2 * Hidden) \in 2 ^ p .. 2 ^ (p + 1) - 1

Normalized(out, latch) ==
  IF \E p \in 0 .. ManBits : LeadingOne(out.m, p)
  THEN LET p == CHOOSE p \in 0 .. ManBits : LeadingOne(out.m, p)
       IN  [e |-> (out.e - (ManBits - p)) % (ExpMax + 1),
            m |-> (out.m * 2 ^ (ManBits - p)) % (4 * Hidden)]
  ELSE latch

(* The shift and alignment logic; a sum without hidden bit is taken from    *)
(* the normalizer.                                                          *)
Aligned(out, latch) ==
  IF out.m >= 2 * Hidden THEN Sum(out.s, (out.e + 1) % (ExpMax + 1), out.m \div 2)
  ELSE IF out.m < Hidden /\ out.e # 0 THEN Sum(out.s, latch.e, latch.m)
  ELSE out

(* The corner cases come before the sum.                                    *)
Add(a, b, latch) ==
  LET out == Aligned(AdderOut(a, b), Normalized(AdderOut(a, b), latch)) IN
  IF IsNaN(a) \/ IsZero(b) THEN a
  ELSE IF IsNaN(b) \/ IsZero(a) THEN b
  ELSE IF IsInf(a) \/ IsInf(b) THEN Inf((a.sign + b.sign) % 2)
  ELSE [sign |-> out.s, exponent |-> out.e, mantissa |-> out.m % Hidden]

result == Add(dataa, datab, normalizer_out)

-----------------------------------------------------------------------------
(* normalizer_out holds what the block has before the operands change.      *)
Init ==
  /\ dataa \in Float /\ datab \in Float
  /\ normalizer_out = [e |-> 0, m |-> 0]

Operands(a, b) ==
  /\ dataa' = a /\ datab' = b
  /\ normalizer_out' = Normalized(AdderOut(dataa, datab), normalizer_out)

-----------------------------------------------------------------------------
(* The latch keeps its width and the result is a word.                      *)
TypeOK == normalizer_out \in Latch /\ result \in Float

Exact == Value(dataa) + Value(datab)
UnitInTheLastPlace == 2 ^ (LargerExponent(dataa, datab) - 1)
LargerUnit == LET r == 2 ^ (Exponent(result) - 1)
              IN  IF r > UnitInTheLastPlace THEN r ELSE UnitInTheLastPlace

(* Both operands are normal, and so is their sum; the leading one of the    *)
(* sum is among the bits the normalizer looks at.                           *)
Regular ==
  /\ Normal(dataa) /\ Normal(datab)
  /\ LargerExponent(dataa, datab) < ExpMax - 1
  /\ Size(Exact) >= SmallestNormal
  /\ Size(Exact) >= 2 ^ LowestBit * UnitInTheLastPlace

(* The sum of regular operands differs from the exact sum by less than one  *)
(* unit in the last place of the largest of the three: alignment, the carry *)
(* and the normalizer together lose no more than the bits shifted out.      *)
SumWithinUlp == Regular => Finite(result) /\ Distance(Value(result), Exact) < LargerUnit

(* Adding a word never moves a sum to the other side of where it was: what  *)
(* alignment cuts off makes the addend smaller, never of the other sign.    *)
MovesTheRightWay ==
  Regular => /\ Value(dataa) > 0 => Value(result) >= Value(datab)
             /\ Value(dataa) < 0 => Value(result) <= Value(datab)

(* For regular operands the block is a function of them, as the slaves that *)
(* contain it take for granted: the latch shows in no result.               *)
NoMemory == Regular => \A l \in [e : {0, 1, ExpMax}, m : {0, Hidden, 2 * Hidden - 1}] :
                          result = Add(dataa, datab, l)

-----------------------------------------------------------------------------
(* The header of fp_adder.sv: according to the IEEE754 Standards.  There, a *)
(* word and its opposite add up to zero.                                    *)
OppositesCancel ==
  Finite(dataa) /\ Finite(datab) /\ Exact = 0 => Finite(result) /\ Value(result) = 0
=============================================================================
