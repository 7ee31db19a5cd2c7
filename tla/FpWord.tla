------------------------------- MODULE FpWord -------------------------------
(***************************************************************************)
(* The words of fp_adder and fp_multiplier, with fewer bits: a sign, an    *)
(* exponent, a mantissa.  The blocks write out the widths 8 and 23; all    *)
(* that depends on them is written here in terms of ExpBits and ManBits.   *)
(***************************************************************************)
EXTENDS Integers

CONSTANTS ExpBits, ManBits   \* 8 and 23 in the code

WidthAssumption == ExpBits \in Nat /\ ExpBits >= 2 /\ ManBits \in Nat /\ ManBits >= 2

Hidden == 2 ^ ManBits        \* the hidden bit
ExpMax == 2 ^ ExpBits - 1    \* 8'hFF
Bias   == 2 ^ (ExpBits - 1) - 1

Float == [sign : 0 .. 1, exponent : 0 .. ExpMax, mantissa : 0 .. Hidden - 1]

Exponent(w) == IF w.exponent = 0 THEN 1 ELSE w.exponent
Mantissa(w) == IF w.exponent = 0 THEN w.mantissa ELSE Hidden + w.mantissa

IsNaN(w)  == w.exponent = ExpMax /\ w.mantissa # 0
IsInf(w)  == w.exponent = ExpMax /\ w.mantissa = 0
IsZero(w) == w.exponent = 0 /\ w.mantissa = 0
Finite(w) == w.exponent # ExpMax
Normal(w) == Finite(w) /\ w.exponent # 0

Inf(s)  == [sign |-> s, exponent |-> ExpMax, mantissa |-> 0]
SignedZero(s) == [sign |-> s, exponent |-> 0, mantissa |-> 0]

\* What a finite word stands for, in units of the smallest subnormal number.
Magnitude(w) == Mantissa(w) * 2 ^ (Exponent(w) - 1)
Value(w) == IF w.sign = 1 THEN -Magnitude(w) ELSE Magnitude(w)
Distance(x, y) == IF x >= y THEN x - y ELSE y - x
Size(x) == Distance(x, 0)

SmallestNormal == Hidden
LargestFinite  == (2 * Hidden - 1) * 2 ^ (ExpMax - 2)
=============================================================================
