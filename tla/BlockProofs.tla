---------------------------- MODULE BlockProofs ----------------------------
(***************************************************************************)
(* Proofs about the three blocks that have a test bench of their own, for  *)
(* every width and size, those of the code included.                       *)
(*                                                                         *)
(* The adder and the multiplier: results are words, accurate, and sums do  *)
(* not depend on earlier operands, under the conditions of the runs.       *)
(*                                                                         *)
(* The ring buffer: the type invariant under any client, and, under a      *)
(* disciplined client, that the pointers never overrun and that the buffer *)
(* implements BoundedFifo.                                                 *)
(***************************************************************************)
EXTENDS DataBufferClient, FpTb, NaturalLemmas, SequenceTheorems, TLAPS

-----------------------------------------------------------------------------
(* Words.                                                                   *)

LEMMA WidthType ==
    ASSUME WidthAssumption
    PROVE  /\ Hidden \in Nat /\ Hidden >= 4
           /\ 2 ^ (ManBits - 1) \in Nat /\ 2 ^ (ManBits - 1) >= 2
           /\ Hidden = 2 * 2 ^ (ManBits - 1)
           /\ ExpMax \in Nat /\ Bias \in Nat /\ Bias >= 1
           /\ ExpMax = 2 * Bias + 1 /\ 2 ^ ExpBits = ExpMax + 1
<1>1. PICK m \in Nat : ManBits = m + 1 /\ m >= 1
  <2>1. ManBits - 1 \in Nat /\ ManBits = (ManBits - 1) + 1 /\ ManBits - 1 >= 1
    BY DEF WidthAssumption
  <2>2. QED
    BY <2>1
<1>2. PICK e \in Nat : ExpBits = e + 1 /\ e >= 1
  <2>1. ExpBits - 1 \in Nat /\ ExpBits = (ExpBits - 1) + 1 /\ ExpBits - 1 >= 1
    BY DEF WidthAssumption
  <2>2. QED
    BY <2>1
<1>3. ASSUME NEW n \in Nat, n >= 1
      PROVE  2 ^ n \in Nat /\ 2 ^ n >= 2 /\ 2 ^ (n + 1) = 2 * 2 ^ n
  <2>1. PICK k \in Nat : n = k + 1
    <3>1. n - 1 \in Nat /\ n = (n - 1) + 1
      BY <1>3
    <3>2. QED
      BY <3>1
  <2>2. 2 ^ (k + 1) = 2 * 2 ^ k /\ 2 ^ k \in Nat /\ 2 ^ k >= 1
    BY PowerNext, PowerPositive
  <2>3. QED
    BY <1>3, <2>1, <2>2, PowerNext
<1>4. 2 ^ m \in Nat /\ 2 ^ m >= 2 /\ 2 ^ (m + 1) = 2 * 2 ^ m
  BY <1>1, <1>3
<1>5. 2 ^ e \in Nat /\ 2 ^ e >= 2 /\ 2 ^ (e + 1) = 2 * 2 ^ e
  BY <1>2, <1>3
<1>6. ManBits - 1 = m /\ ExpBits - 1 = e
  BY <1>1, <1>2
<1>7. Hidden = 2 * 2 ^ m /\ 2 ^ (ManBits - 1) = 2 ^ m
  BY <1>1, <1>4, <1>6 DEF Hidden
<1>8. ExpMax = 2 * 2 ^ e - 1 /\ 2 ^ ExpBits = 2 * 2 ^ e /\ Bias = 2 ^ e - 1
  BY <1>2, <1>5, <1>6 DEF ExpMax, Bias
<1>9. QED
  BY <1>4, <1>5, <1>7, <1>8

LEMMA WordFields ==
    ASSUME WidthAssumption, NEW w \in Float
    PROVE  /\ w.sign \in 0 .. 1
           /\ Exponent(w) \in 1 .. ExpMax /\ Mantissa(w) \in 0 .. 2 * Hidden - 1
           /\ Exponent(w) > 1 => Mantissa(w) >= Hidden
           /\ Normal(w) => /\ Exponent(w) = w.exponent /\ Exponent(w) < ExpMax
                           /\ Mantissa(w) >= Hidden
  BY WidthType DEF Float, Exponent, Mantissa, Normal, Finite

Signed(s, x) == IF s = 1 THEN -x ELSE x

LEMMA ValueType ==
    ASSUME WidthAssumption, NEW w \in Float
    PROVE  /\ 2 ^ (Exponent(w) - 1) \in Nat /\ 2 ^ (Exponent(w) - 1) >= 1
           /\ Magnitude(w) \in Nat
           /\ Value(w) = Signed(w.sign, Magnitude(w)) /\ Value(w) \in Int
<1>1. Exponent(w) - 1 \in Nat /\ Mantissa(w) \in Nat
  BY WordFields, WidthType
<1>2. PICK p \in Nat : p = 2 ^ (Exponent(w) - 1) /\ p >= 1
  BY <1>1, PowerPositive
<1>3. Magnitude(w) = Mantissa(w) * p
  BY <1>2 DEF Magnitude
<1>4. Magnitude(w) \in Nat
  BY <1>1, <1>3
<1>5. QED
  BY <1>2, <1>4 DEF Value, Signed

LEMMA WithoutHiddenBit ==
    ASSUME WidthAssumption, NEW m \in Hidden .. 2 * Hidden - 1
    PROVE  m % Hidden = m - Hidden
<1>1. PICK q \in Nat, r \in Nat : m = Hidden * q + r /\ r < Hidden /\ r = m % Hidden
  <2>1. m \in Nat /\ Hidden \in Nat /\ Hidden >= 1
    BY WidthType
  <2>2. /\ m \div Hidden \in Nat /\ m % Hidden \in Nat /\ m % Hidden < Hidden
        /\ m = Hidden * (m \div Hidden) + (m % Hidden)
    BY <2>1, Division
  <2>3. QED
    BY <2>2
<1>2. q = 1
  <2>1. CASE q = 0
    BY <1>1, <2>1, WidthType
  <2>2. CASE q >= 2
    <3>1. PICK k \in Nat : q = 2 + k
      <4>1. q - 2 \in Nat /\ q = 2 + (q - 2)
        BY <2>2
      <4>2. QED
        BY <4>1
    <3>2. Hidden * q = 2 * Hidden + Hidden * k /\ Hidden * k \in Nat
      BY <3>1, WidthType
    <3>3. QED
      BY <1>1, <3>2, WidthType
  <2>3. QED
    BY <2>1, <2>2
<1>3. QED
  BY <1>1, <1>2, WidthType

\* A word with a hidden bit, made from its fields.
LEMMA NormalWord ==
    ASSUME WidthAssumption, NEW s \in 0 .. 1, NEW e \in 1 .. ExpMax - 1,
           NEW m \in Hidden .. 2 * Hidden - 1,
           NEW w, w = [sign |-> s, exponent |-> e, mantissa |-> m % Hidden]
    PROVE  /\ w \in Float /\ Normal(w)
           /\ Exponent(w) = e /\ Mantissa(w) = m
           /\ Value(w) = Signed(s, m * 2 ^ (e - 1))
<1>1. m % Hidden = m - Hidden
  BY WithoutHiddenBit
<1>2. w \in Float /\ Normal(w) /\ Exponent(w) = e /\ Mantissa(w) = m
  BY <1>1, WidthType DEF Float, Normal, Finite, Exponent, Mantissa
<1>3. QED
  BY <1>2 DEF Value, Magnitude, Signed

\* The adder's instances of the operators on words are these operators.
LEMMA AdderWords ==
    ASSUME NEW w, NEW s, NEW x, NEW y
    PROVE  /\ add!Hidden = Hidden /\ add!ExpMax = ExpMax /\ add!Bias = Bias /\ add!Float = Float
           /\ add!Exponent(w) = Exponent(w) /\ add!Mantissa(w) = Mantissa(w)
           /\ add!Normal(w) = Normal(w) /\ add!Finite(w) = Finite(w)
           /\ add!IsNaN(w) = IsNaN(w) /\ add!IsInf(w) = IsInf(w) /\ add!IsZero(w) = IsZero(w)
           /\ add!Inf(s) = Inf(s) /\ add!SignedZero(s) = SignedZero(s)
           /\ add!Value(w) = Value(w) /\ add!Distance(x, y) = Distance(x, y)
           /\ add!Size(x) = Size(x)
           /\ add!SmallestNormal = SmallestNormal /\ add!LargestFinite = LargestFinite
<1>1. add!Hidden = Hidden /\ add!ExpMax = ExpMax /\ add!Bias = Bias
  BY DEF add!Hidden, Hidden, add!ExpMax, ExpMax, add!Bias, Bias
<1>2. add!Float = Float
  BY <1>1 DEF add!Float, Float
<1>3. add!Exponent(w) = Exponent(w) /\ add!Mantissa(w) = Mantissa(w)
  BY <1>1 DEF add!Exponent, Exponent, add!Mantissa, Mantissa
<1>4. add!Normal(w) = Normal(w) /\ add!Finite(w) = Finite(w)
  BY <1>1 DEF add!Normal, Normal, add!Finite, Finite
<1>5. add!IsNaN(w) = IsNaN(w) /\ add!IsInf(w) = IsInf(w) /\ add!IsZero(w) = IsZero(w)
  BY <1>1 DEF add!IsNaN, IsNaN, add!IsInf, IsInf, add!IsZero, IsZero
<1>6. add!Inf(s) = Inf(s) /\ add!SignedZero(s) = SignedZero(s)
  BY <1>1 DEF add!Inf, Inf, add!SignedZero, SignedZero
<1>7. add!Value(w) = Value(w)
  BY <1>3 DEF add!Value, Value, add!Magnitude, Magnitude
<1>8. add!Distance(x, y) = Distance(x, y) /\ add!Size(x) = Size(x)
  BY DEF add!Distance, Distance, add!Size, Size
<1>9. add!SmallestNormal = SmallestNormal /\ add!LargestFinite = LargestFinite
  BY <1>1 DEF add!SmallestNormal, SmallestNormal, add!LargestFinite, LargestFinite
<1>10. QED
  BY <1>1, <1>2, <1>3, <1>4, <1>5, <1>6, <1>7, <1>8, <1>9

\* The multiplier's instances of the operators on words are these operators.
LEMMA MultiplierWords ==
    ASSUME NEW w, NEW s, NEW x, NEW y
    PROVE  /\ mul!Hidden = Hidden /\ mul!ExpMax = ExpMax /\ mul!Bias = Bias /\ mul!Float = Float
           /\ mul!Exponent(w) = Exponent(w) /\ mul!Mantissa(w) = Mantissa(w)
           /\ mul!Normal(w) = Normal(w) /\ mul!Finite(w) = Finite(w)
           /\ mul!IsNaN(w) = IsNaN(w) /\ mul!IsInf(w) = IsInf(w) /\ mul!IsZero(w) = IsZero(w)
           /\ mul!Inf(s) = Inf(s) /\ mul!SignedZero(s) = SignedZero(s)
           /\ mul!Value(w) = Value(w) /\ mul!Distance(x, y) = Distance(x, y)
           /\ mul!Size(x) = Size(x)
           /\ mul!SmallestNormal = SmallestNormal /\ mul!LargestFinite = LargestFinite
<1>1. mul!Hidden = Hidden /\ mul!ExpMax = ExpMax /\ mul!Bias = Bias
  BY DEF mul!Hidden, Hidden, mul!ExpMax, ExpMax, mul!Bias, Bias
<1>2. mul!Float = Float
  BY <1>1 DEF mul!Float, Float
<1>3. mul!Exponent(w) = Exponent(w) /\ mul!Mantissa(w) = Mantissa(w)
  BY <1>1 DEF mul!Exponent, Exponent, mul!Mantissa, Mantissa
<1>4. mul!Normal(w) = Normal(w) /\ mul!Finite(w) = Finite(w)
  BY <1>1 DEF mul!Normal, Normal, mul!Finite, Finite
<1>5. mul!IsNaN(w) = IsNaN(w) /\ mul!IsInf(w) = IsInf(w) /\ mul!IsZero(w) = IsZero(w)
  BY <1>1 DEF mul!IsNaN, IsNaN, mul!IsInf, IsInf, mul!IsZero, IsZero
<1>6. mul!Inf(s) = Inf(s) /\ mul!SignedZero(s) = SignedZero(s)
  BY <1>1 DEF mul!Inf, Inf, mul!SignedZero, SignedZero
<1>7. mul!Value(w) = Value(w)
  BY <1>3 DEF mul!Value, Value, mul!Magnitude, Magnitude
<1>8. mul!Distance(x, y) = Distance(x, y) /\ mul!Size(x) = Size(x)
  BY DEF mul!Distance, Distance, mul!Size, Size
<1>9. mul!SmallestNormal = SmallestNormal /\ mul!LargestFinite = LargestFinite
  BY <1>1 DEF mul!SmallestNormal, SmallestNormal, mul!LargestFinite, LargestFinite
<1>10. QED
  BY <1>1, <1>2, <1>3, <1>4, <1>5, <1>6, <1>7, <1>8, <1>9

-----------------------------------------------------------------------------
(* The adder's sum, before it is aligned, for finite words with hidden bits. *)

\* The sum of x and y in units of u: cut off by less than a unit, away from zero
\* unless it has a hidden bit, and on the right side of both, even without its
\* lowest bit when it has the carry bit.
Sums(s, m, u, x, y) ==
  /\ Signed(s, m * u) - (x + y) < u /\ (x + y) - Signed(s, m * u) < u
  /\ m >= Hidden \/ m * u >= Size(x + y)
  /\ \A k \in {m, m - 1} : k = m \/ m >= 2 * Hidden =>
       /\ (x > 0 => Signed(s, k * u) >= y) /\ (x < 0 => Signed(s, k * u) <= y)
       /\ (y > 0 => Signed(s, k * u) >= x) /\ (y < 0 => Signed(s, k * u) <= x)

LEMMA SumsSymmetric ==
    ASSUME NEW s, NEW m, NEW u, NEW x \in Int, NEW y \in Int, Sums(s, m, u, x, y)
    PROVE  Sums(s, m, u, y, x)
<1>1. x + y = y + x
  OBVIOUS
<1>2. QED
  BY <1>1 DEF Sums

\* Different exponents.  l and i are the mantissas in units of w, c what is cut off.
LEMMA ShiftedSums ==
    ASSUME WidthAssumption, NEW w \in Nat, w >= 1, NEW c \in Nat, c < w,
           NEW l \in Hidden .. 2 * Hidden - 1, NEW i \in 0 .. Hidden - 1,
           NEW s \in 0 .. 1, NEW t \in 0 .. 1, i * w + c >= 1
    PROVE  Sums(s, IF s = t THEN l + i ELSE l - i, w, Signed(s, l * w), Signed(t, i * w + c))
<1>1. PICK L \in Nat, I \in Nat : L = l * w /\ I = i * w
  BY WidthType
<1>2. I + 2 * w <= L + I /\ 2 * w <= L
  <2>1. PICK k \in Nat : l = 2 + k
    <3>1. l - 2 \in Nat /\ l = 2 + (l - 2)
      BY WidthType
    <3>2. QED
      BY <3>1
  <2>2. L = 2 * w + k * w /\ k * w \in Nat
    BY <1>1, <2>1
  <2>3. QED
    BY <1>1, <2>2
<1>3. I + w <= L
  <2>1. PICK k \in Nat : l = i + 1 + k
    <3>1. l - i - 1 \in Nat /\ l = i + 1 + (l - i - 1)
      BY WidthType
    <3>2. QED
      BY <3>1
  <2>2. l * w = i * w + w + k * w /\ k * w \in Nat
    BY <2>1, WidthType
  <2>3. QED
    BY <1>1, <2>2
<1>4. (l + i) * w = L + I /\ (l - i) * w = L - I /\ (l + i - 1) * w = L + I - w
  BY <1>1, WidthType
<1>5. l + i >= 2 * Hidden => I >= w
  <2> SUFFICES ASSUME l + i >= 2 * Hidden PROVE I >= w
    OBVIOUS
  <2>1. PICK k \in Nat : i = 1 + k
    <3>1. i - 1 \in Nat /\ i = 1 + (i - 1)
      BY WidthType
    <3>2. QED
      BY <3>1
  <2>2. i * w = w + k * w /\ k * w \in Nat
    BY <2>1
  <2>3. QED
    BY <1>1, <2>2
<1>6. CASE s = t
  <2>1. \A k \in {l + i, l + i - 1} : k = l + i \/ l + i >= 2 * Hidden =>
          k * w \in Int /\ k * w >= L /\ k * w >= I + c
    BY <1>1, <1>2, <1>4, <1>5
  <2>2. l + i >= Hidden
    BY WidthType
  <2>3. QED
    BY <1>1, <1>2, <1>4, <1>6, <2>1, <2>2 DEF Sums, Signed
<1>7. CASE s # t
  <2>1. \A k \in {l - i, l - i - 1} : k = l - i \/ l - i >= 2 * Hidden => k = l - i
    BY WidthType
  <2>2. L - I >= L - I - c /\ L - I - c >= 0
    BY <1>3
  <2>3. (s = 1 /\ t = 0) \/ (s = 0 /\ t = 1)
    BY <1>7
  <2>4. CASE s = 1 /\ t = 0
    BY <1>1, <1>2, <1>3, <1>4, <2>1, <2>2, <2>4 DEF Sums, Signed, Size, Distance
  <2>5. CASE s = 0 /\ t = 1
    BY <1>1, <1>2, <1>3, <1>4, <2>1, <2>2, <2>5 DEF Sums, Signed, Size, Distance
  <2>6. QED
    BY <2>3, <2>4, <2>5
<1>8. QED
  BY <1>6, <1>7

\* Equal exponents.
LEMMA EqualSums ==
    ASSUME WidthAssumption, NEW u \in Nat, u >= 1,
           NEW p \in Hidden .. 2 * Hidden - 1, NEW q \in Hidden .. 2 * Hidden - 1,
           NEW s \in 0 .. 1, NEW t \in 0 .. 1
    PROVE  /\ s = t => Sums(s, p + q, u, Signed(s, p * u), Signed(t, q * u))
           /\ s # t => IF p > q THEN Sums(s, p - q, u, Signed(s, p * u), Signed(t, q * u))
                                ELSE Sums(t, q - p, u, Signed(s, p * u), Signed(t, q * u))
<1>1. PICK P \in Nat, Q \in Nat : P = p * u /\ Q = q * u
  BY WidthType
<1>2. u <= P /\ u <= Q
  <2>1. PICK j \in Nat, k \in Nat : p = 1 + j /\ q = 1 + k
    <3>1. p - 1 \in Nat /\ p = 1 + (p - 1) /\ q - 1 \in Nat /\ q = 1 + (q - 1)
      BY WidthType
    <3>2. QED
      BY <3>1
  <2>2. p * u = u + j * u /\ q * u = u + k * u /\ j * u \in Nat /\ k * u \in Nat
    BY <2>1
  <2>3. QED
    BY <1>1, <2>2
<1>3. (p + q) * u = P + Q /\ (p + q - 1) * u = P + Q - u
      /\ (p - q) * u = P - Q /\ (q - p) * u = Q - P
  BY <1>1, WidthType
<1>4. CASE s = t
  <2>1. p + q >= Hidden
    BY WidthType
  <2>2. QED
    BY <1>1, <1>2, <1>3, <1>4, <2>1 DEF Sums, Signed
<1>5. ASSUME s # t, p > q PROVE Sums(s, p - q, u, Signed(s, p * u), Signed(t, q * u))
  <2>1. \A k \in {p - q, p - q - 1} : k = p - q \/ p - q >= 2 * Hidden => k = p - q
    BY WidthType
  <2>2. PICK d \in Nat : p = q + d
    <3>1. p - q \in Nat /\ p = q + (p - q)
      BY <1>5, WidthType
    <3>2. QED
      BY <3>1
  <2>3. P = Q + d * u /\ d * u \in Nat
    BY <1>1, <2>2
  <2>4. CASE s = 1 /\ t = 0
    BY <1>1, <1>2, <1>3, <2>1, <2>3, <2>4 DEF Sums, Signed, Size, Distance
  <2>5. CASE s = 0 /\ t = 1
    BY <1>1, <1>2, <1>3, <2>1, <2>3, <2>5 DEF Sums, Signed, Size, Distance
  <2>6. QED
    BY <1>5, <2>4, <2>5
<1>6. ASSUME s # t, ~(p > q) PROVE Sums(t, q - p, u, Signed(s, p * u), Signed(t, q * u))
  <2>1. \A k \in {q - p, q - p - 1} : k = q - p \/ q - p >= 2 * Hidden => k = q - p
    BY WidthType
  <2>2. PICK d \in Nat : q = p + d
    <3>1. q - p \in Nat /\ q = p + (q - p)
      BY <1>6, WidthType
    <3>2. QED
      BY <3>1
  <2>3. Q = P + d * u /\ d * u \in Nat
    BY <1>1, <2>2
  <2>4. CASE s = 1 /\ t = 0
    BY <1>1, <1>2, <1>3, <2>1, <2>3, <2>4 DEF Sums, Signed, Size, Distance
  <2>5. CASE s = 0 /\ t = 1
    BY <1>1, <1>2, <1>3, <2>1, <2>3, <2>5 DEF Sums, Signed, Size, Distance
  <2>6. QED
    BY <1>6, <2>4, <2>5
<1>7. QED
  BY <1>4, <1>5, <1>6

\* AddShifted: the mantissa of the smaller word is cut off to a whole multiple of the
\* larger word's unit.
LEMMA ShiftedAdds ==
    ASSUME WidthAssumption, NEW a \in Float, NEW b \in Float, Normal(a), Normal(b),
           Exponent(a) > Exponent(b)
    PROVE  \E s \in 0 .. 1, m \in 0 .. 4 * Hidden - 1 :
              /\ add!AddShifted(a, b) = [s |-> s, e |-> Exponent(a), m |-> m]
              /\ Sums(s, m, 2 ^ (Exponent(a) - 1), Value(a), Value(b))
<1>1. /\ Exponent(b) \in Nat /\ Exponent(b) >= 1 /\ Exponent(a) \in Nat
      /\ Mantissa(a) \in Hidden .. 2 * Hidden - 1
      /\ Mantissa(b) \in Hidden .. 2 * Hidden - 1
      /\ a.sign \in 0 .. 1 /\ b.sign \in 0 .. 1
  BY WordFields, WidthType
<1>2. PICK x \in Nat, y \in Nat : /\ x = Exponent(b) - 1 /\ Exponent(a) = (x + y) + 2
                                  /\ y + 1 = Exponent(a) - Exponent(b)
  <2>1. /\ Exponent(b) - 1 \in Nat /\ Exponent(a) - Exponent(b) - 1 \in Nat
        /\ Exponent(a) = ((Exponent(b) - 1) + (Exponent(a) - Exponent(b) - 1)) + 2
        /\ (Exponent(a) - Exponent(b) - 1) + 1 = Exponent(a) - Exponent(b)
    BY <1>1
  <2>2. QED
    BY <2>1
<1>3. PICK d \in Nat, u \in Nat : /\ d = 2 ^ (y + 1) /\ u = 2 ^ x /\ u >= 1 /\ d >= 2
                                  /\ 2 ^ (x + (y + 1)) = u * d
  <2>1. 2 ^ (y + 1) = 2 * 2 ^ y /\ 2 ^ y \in Nat /\ 2 ^ y >= 1 /\ 2 ^ x \in Nat /\ 2 ^ x >= 1
    BY PowerNext, PowerPositive
  <2>2. 2 ^ (x + (y + 1)) = 2 ^ x * 2 ^ (y + 1)
    BY PowerSum
  <2>3. QED
    BY <2>1, <2>2
<1>4. Exponent(a) - 1 = x + (y + 1)
  BY <1>2
<1>5. 2 ^ (Exponent(a) - 1) = u * d /\ 2 ^ (Exponent(b) - 1) = u
      /\ 2 ^ (Exponent(a) - Exponent(b)) = d
  BY <1>2, <1>3, <1>4
<1>6. PICK i \in Nat, r \in Nat : /\ i = Mantissa(b) \div d /\ r < d
                                  /\ Mantissa(b) = d * i + r
  <2>1. Mantissa(b) \in Nat /\ d >= 1
    BY <1>1, <1>3, WidthType
  <2>2. /\ Mantissa(b) \div d \in Nat /\ Mantissa(b) % d \in Nat /\ Mantissa(b) % d < d
        /\ Mantissa(b) = d * (Mantissa(b) \div d) + (Mantissa(b) % d)
    BY <2>1, Division
  <2>3. QED
    BY <2>2
<1>7. i \in 0 .. Hidden - 1
  <2>1. PICK k \in Nat : d = 2 + k
    <3>1. d - 2 \in Nat /\ d = 2 + (d - 2)
      BY <1>3
    <3>2. QED
      BY <3>1
  <2>2. d * i = 2 * i + k * i /\ k * i \in Nat
    BY <2>1
  <2>3. QED
    BY <1>1, <1>6, <2>2, WidthType
<1>8. PICK w \in Nat, c \in Nat : w = u * d /\ c = u * r /\ c < w /\ w >= 1
  <2>1. u * r + u <= u * d
    BY <1>6, ProductStep
  <2>2. u * r \in Nat /\ u * d \in Nat
    OBVIOUS
  <2>3. QED
    BY <1>3, <2>1, <2>2
<1>9. Value(a) = Signed(a.sign, Mantissa(a) * w) /\ Value(b) = Signed(b.sign, i * w + c)
  <2>1. Magnitude(a) = Mantissa(a) * w
    BY <1>5, <1>8 DEF Magnitude
  <2>2. Mantissa(b) * u = i * (u * d) + u * r
    <3>1. (d * i + r) * u = i * (u * d) + u * r
      OBVIOUS
    <3>2. QED
      BY <1>6, <3>1
  <2>3. Magnitude(b) = i * w + c
    BY <1>5, <1>8, <2>2 DEF Magnitude
  <2>4. QED
    BY <2>1, <2>3, ValueType
<1>10. i * w + c >= 1
  <2>1. PICK k \in Nat : Mantissa(b) = 1 + k
    <3>1. Mantissa(b) - 1 \in Nat /\ Mantissa(b) = 1 + (Mantissa(b) - 1)
      BY <1>1, WidthType
    <3>2. QED
      BY <3>1
  <2>2. Mantissa(b) * u = u + k * u /\ k * u \in Nat
    BY <2>1
  <2>3. (d * i + r) * u = i * (u * d) + u * r
    OBVIOUS
  <2>4. QED
    BY <1>3, <1>6, <1>8, <2>2, <2>3
<1> DEFINE m == IF a.sign = b.sign THEN Mantissa(a) + i ELSE Mantissa(a) - i
<1>11. m \in 0 .. 4 * Hidden - 1
  BY <1>1, <1>7, WidthType
<1>12. add!AddShifted(a, b) = [s |-> a.sign, e |-> Exponent(a), m |-> m]
  <2>1. i = Mantissa(b) \div 2 ^ (Exponent(a) - Exponent(b))
    BY <1>5, <1>6
  <2>2. /\ add!Mantissa(a) = Mantissa(a) /\ add!Mantissa(b) = Mantissa(b)
        /\ add!Exponent(a) = Exponent(a) /\ add!Exponent(b) = Exponent(b)
    BY AdderWords
  <2>3. QED
    BY <2>1, <2>2 DEF add!AddShifted, add!Sum
<1>13. Sums(a.sign, m, w, Value(a), Value(b))
  <2>1. Sums(a.sign, m, w, Signed(a.sign, Mantissa(a) * w), Signed(b.sign, i * w + c))
    BY <1>1, <1>7, <1>8, <1>10, ShiftedSums
  <2>2. QED
    BY <1>9, <2>1
<1>14. QED
  <2> HIDE DEF m
  <2>1. QED
    BY <1>1, <1>5, <1>8, <1>11, <1>12, <1>13

\* adder_out of two normal words: the larger of their exponents, and their sum.
LEMMA AdderSums ==
    ASSUME WidthAssumption, NEW a \in Float, NEW b \in Float, Normal(a), Normal(b)
    PROVE  \E s \in 0 .. 1, m \in 0 .. 4 * Hidden - 1 :
              /\ add!AdderOut(a, b) = [s |-> s, e |-> add!LargerExponent(a, b), m |-> m]
              /\ Sums(s, m, 2 ^ (add!LargerExponent(a, b) - 1), Value(a), Value(b))
<1>1. /\ Exponent(b) \in Nat /\ Exponent(b) >= 1 /\ Exponent(a) \in Nat /\ Exponent(a) >= 1
      /\ Mantissa(a) \in Hidden .. 2 * Hidden - 1
      /\ Mantissa(b) \in Hidden .. 2 * Hidden - 1
      /\ a.sign \in 0 .. 1 /\ b.sign \in 0 .. 1
  BY WordFields, WidthType
<1>2. CASE Exponent(a) > Exponent(b)
  <2>1. add!AdderOut(a, b) = add!AddShifted(a, b) /\ add!LargerExponent(a, b) = Exponent(a)
    BY <1>1, <1>2, AdderWords DEF add!AdderOut, add!LargerExponent
  <2>2. QED
    BY <1>2, <2>1, ShiftedAdds
<1>3. CASE Exponent(b) > Exponent(a)
  <2>1. add!AdderOut(a, b) = add!AddShifted(b, a) /\ add!LargerExponent(a, b) = Exponent(b)
    BY <1>1, <1>3, AdderWords DEF add!AdderOut, add!LargerExponent
  <2>2. PICK s \in 0 .. 1, m \in 0 .. 4 * Hidden - 1 :
              /\ add!AddShifted(b, a) = [s |-> s, e |-> Exponent(b), m |-> m]
              /\ Sums(s, m, 2 ^ (Exponent(b) - 1), Value(b), Value(a))
    BY <1>3, ShiftedAdds
  <2>3. Value(a) \in Int /\ Value(b) \in Int
    BY ValueType
  <2>4. Sums(s, m, 2 ^ (Exponent(b) - 1), Value(a), Value(b))
    BY <2>2, <2>3, SumsSymmetric
  <2>5. QED
    BY <2>1, <2>2, <2>4
<1>4. CASE Exponent(a) = Exponent(b)
  <2>1. add!LargerExponent(a, b) = Exponent(a)
    BY <1>1 , <1>4, AdderWords DEF add!LargerExponent
  <2>2. PICK u \in Nat : u = 2 ^ (Exponent(a) - 1) /\ u >= 1
    BY ValueType
  <2>3. /\ Value(a) = Signed(a.sign, Mantissa(a) * u)
        /\ Value(b) = Signed(b.sign, Mantissa(b) * u)
    BY <1>4, <2>2, ValueType DEF Magnitude
  <2>4. CASE a.sign = b.sign
    <3>1. Mantissa(a) + Mantissa(b) \in 0 .. 4 * Hidden - 1
          /\ Mantissa(a) + Mantissa(b) >= 2 * Hidden
      BY <1>1, WidthType
    <3>2. add!AdderOut(a, b)
            = [s |-> a.sign, e |-> Exponent(a), m |-> Mantissa(a) + Mantissa(b)]
      BY <1>4, <2>4, <3>1, AdderWords DEF add!AdderOut, add!AddMantissas, add!Sum
    <3>3. Sums(a.sign, Mantissa(a) + Mantissa(b), u, Value(a), Value(b))
      BY <1>1, <2>2, <2>3, <2>4, EqualSums
    <3>4. QED
      BY <1>1, <2>1, <2>2, <3>1, <3>2, <3>3
  <2>5. CASE a.sign # b.sign
    <3>1. add!AdderOut(a, b) = add!SubtractMantissas(a, b)
      BY <1>4, <2>5, AdderWords DEF add!AdderOut
    <3>2. IF Mantissa(a) > Mantissa(b)
          THEN Sums(a.sign, Mantissa(a) - Mantissa(b), u, Value(a), Value(b))
          ELSE Sums(b.sign, Mantissa(b) - Mantissa(a), u, Value(a), Value(b))
      <4>1. /\ a.sign # b.sign =>
                IF Mantissa(a) > Mantissa(b)
                THEN Sums(a.sign, Mantissa(a) - Mantissa(b), u,
                          Signed(a.sign, Mantissa(a) * u), Signed(b.sign, Mantissa(b) * u))
                ELSE Sums(b.sign, Mantissa(b) - Mantissa(a), u,
                          Signed(a.sign, Mantissa(a) * u), Signed(b.sign, Mantissa(b) * u))
        BY <1>1, <2>2, EqualSums
      <4>2. QED
        BY <2>3, <2>5, <4>1
    <3>3. CASE Mantissa(a) > Mantissa(b)
      <4>1. Mantissa(a) - Mantissa(b) \in 0 .. 4 * Hidden - 1
        BY <1>1, <3>3, WidthType
      <4>2. add!AdderOut(a, b)
              = [s |-> a.sign, e |-> Exponent(a), m |-> Mantissa(a) - Mantissa(b)]
        BY <3>1, <3>3, AdderWords DEF add!SubtractMantissas, add!Sum
      <4>3. QED
        BY <1>1, <2>1, <2>2, <3>2, <3>3, <4>1, <4>2
    <3>4. CASE ~(Mantissa(a) > Mantissa(b))
      <4>1. Mantissa(b) - Mantissa(a) \in 0 .. 4 * Hidden - 1
        BY <1>1, <3>4, WidthType
      <4>2. add!AdderOut(a, b)
              = [s |-> b.sign, e |-> Exponent(a), m |-> Mantissa(b) - Mantissa(a)]
        BY <3>1, <3>4, AdderWords DEF add!SubtractMantissas, add!Sum
      <4>3. QED
        BY <1>1, <2>1, <2>2, <3>2, <3>4, <4>1, <4>2
    <3>5. QED
      BY <3>3, <3>4
  <2>6. QED
    BY <2>4, <2>5
<1>5. QED
  BY <1>1, <1>2, <1>3, <1>4

\* The normalizer: a sum without hidden bit is shifted until it has one.
LEMMA NormalizedSum ==
    ASSUME WidthAssumption, LowestBit \in 0 .. ManBits - 1,
           NEW s \in 0 .. 1, NEW e \in 1 .. ExpMax - 2, NEW m \in Nat,
           2 ^ LowestBit <= m, m < Hidden, m * 2 ^ (e - 1) >= Hidden
    PROVE  \E f \in 1 .. e, k \in Hidden .. 2 * Hidden - 1 :
              /\ k * 2 ^ (f - 1) = m * 2 ^ (e - 1)
              /\ \A latch : add!Normalized([s |-> s, e |-> e, m |-> m], latch)
                              = [e |-> f, m |-> k]
<1> DEFINE Leads(p) == add!LeadingOne(m, p)
           p == CHOOSE b \in 0 .. ManBits : Leads(b)
<1>1. ManBits \in Nat /\ ManBits >= 2 /\ LowestBit \in Nat
  BY DEF WidthAssumption
<1>2. m % (2 * Hidden) = m
  BY WidthType, SmallRemainder
<1>3. \E b \in 0 .. ManBits : Leads(b)
  <2>1. PICK b \in LowestBit .. ManBits - 1 : 2 ^ b <= m /\ m < 2 ^ (b + 1)
    BY <1>1, LeadingBit DEF Hidden
  <2>2. b \in Nat /\ 2 ^ (b + 1) \in Nat /\ 2 ^ b \in Nat
    BY <1>1, PowerPositive
  <2>3. m \in 2 ^ b .. 2 ^ (b + 1) - 1
    BY <2>1, <2>2
  <2>4. Leads(b)
    BY <1>2, <2>1, <2>3, AdderWords DEF add!LeadingOne
  <2>5. b \in 0 .. ManBits
    BY <1>1
  <2>6. QED
    BY <2>4, <2>5
<1>4. p \in 0 .. ManBits /\ Leads(p)
  BY <1>3
<1> HIDE DEF p
<1>5. p \in LowestBit .. ManBits - 1 /\ m \in 2 ^ p .. 2 ^ (p + 1) - 1
  BY <1>2, <1>4, AdderWords DEF add!LeadingOne
<1>6. PICK j \in Nat : ManBits - p = j /\ ManBits = p + j
  <2>1. ManBits - p \in Nat /\ ManBits = p + (ManBits - p)
    BY <1>1, <1>5
  <2>2. QED
    BY <2>1
<1>7. PICK P \in Nat, J \in Nat : P = 2 ^ p /\ J = 2 ^ j /\ P >= 1 /\ J >= 1 /\ Hidden = P * J
  <2>1. p \in Nat
    BY <1>1, <1>5
  <2>2. 2 ^ (p + j) = 2 ^ p * 2 ^ j
    BY <2>1, PowerSum
  <2>3. QED
    BY <1>6, <2>1, <2>2, PowerPositive DEF Hidden
<1>8. P <= m /\ m < 2 * P
  <2>1. p \in Nat
    BY <1>1, <1>5
  <2>2. QED
    BY <1>5, <1>7, <2>1, PowerNext
<1>9. PICK k \in Nat : k = m * J /\ k \in Hidden .. 2 * Hidden - 1
  <2>1. J * P <= J * m
    <3>1. CASE P = m
      BY <3>1
    <3>2. CASE P < m
      BY <1>7, <3>2, ProductStep
    <3>3. QED
      BY <1>8, <3>1, <3>2
  <2>2. J * m + J <= J * (2 * P)
    BY <1>8, ProductStep
  <2>3. J * P = Hidden /\ J * (2 * P) = 2 * Hidden /\ J * m = m * J /\ m * J \in Nat
    BY <1>7
  <2>4. QED
    BY <1>7, <2>1, <2>2, <2>3, WidthType
<1>10. j <= e - 1
  <2>1. PICK x \in Nat : x = e - 1
    BY WidthType
  <2>2. PICK X \in Nat : X = 2 ^ x /\ X >= 1
    BY PowerPositive
  <2>3. m * X >= P * J
    BY <1>7, <2>1, <2>2
  <2>4. X * m + X <= X * (2 * P)
    BY <1>8, ProductStep
  <2>5. P * J < P * (2 * X)
    <3>1. m * X = X * m /\ X * (2 * P) = P * (2 * X)
      OBVIOUS
    <3>2. P * J \in Nat /\ X * m \in Nat /\ P * (2 * X) \in Nat
      OBVIOUS
    <3>3. QED
      BY <2>2, <2>3, <2>4, <3>1, <3>2
  <2>6. J < 2 * X
    <3> SUFFICES ASSUME 2 * X <= J PROVE FALSE
      OBVIOUS
    <3>1. CASE 2 * X = J
      BY <2>5, <3>1
    <3>2. CASE 2 * X < J
      <4>1. P * (2 * X) + P <= P * J
        BY <3>2, ProductStep
      <4>2. P * (2 * X) \in Nat /\ P * J \in Nat
        OBVIOUS
      <4>3. QED
        BY <2>5, <4>1, <4>2
    <3>3. QED
      BY <3>1, <3>2
  <2>7. QED
    BY <1>7, <2>1, <2>2, <2>6, PowerOrder
<1>11. PICK f \in Nat : f = e - j /\ f \in 1 .. e
  BY <1>10, WidthType
<1>12. k * 2 ^ (f - 1) = m * 2 ^ (e - 1)
  <2>1. f - 1 \in Nat /\ e - 1 = j + (f - 1)
    BY <1>11, WidthType
  <2>2. 2 ^ (j + (f - 1)) = 2 ^ j * 2 ^ (f - 1) /\ 2 ^ (f - 1) \in Nat
    BY <2>1, PowerSum, PowerPositive
  <2>3. 2 ^ (e - 1) = J * 2 ^ (f - 1)
    BY <1>7, <2>1, <2>2
  <2>4. QED
    BY <1>9, <2>2, <2>3
<1>13. f % (ExpMax + 1) = f /\ k % (4 * Hidden) = k
  <2>1. ExpMax + 1 \in Nat /\ f < ExpMax + 1
    BY <1>11, WidthType
  <2>2. 4 * Hidden \in Nat /\ k < 4 * Hidden
    BY <1>9, WidthType
  <2>3. QED
    BY <2>1, <2>2, SmallRemainder
<1>14. ASSUME NEW latch
       PROVE  add!Normalized([s |-> s, e |-> e, m |-> m], latch) = [e |-> f, m |-> k]
  <2>1. add!Normalized([s |-> s, e |-> e, m |-> m], latch)
          = [e |-> (e - (ManBits - p)) % (ExpMax + 1),
             m |-> (m * 2 ^ (ManBits - p)) % (4 * Hidden)]
    BY <1>3, AdderWords DEF add!Normalized, p
  <2>2. QED
    BY <1>6, <1>7, <1>9, <1>11, <1>13, <2>1
<1>15. QED
  BY <1>9, <1>11, <1>12, <1>14

\* Aligned: the sum, without its lowest bit if it has the carry bit.
LEMMA AlignedSum ==
    ASSUME WidthAssumption, LowestBit \in 0 .. ManBits - 1,
           NEW s \in 0 .. 1, NEW e \in 1 .. ExpMax - 2, NEW m \in 0 .. 4 * Hidden - 1,
           2 ^ LowestBit <= m, m * 2 ^ (e - 1) >= Hidden
    PROVE  \E f \in 1 .. e + 1, k \in Hidden .. 2 * Hidden - 1, n \in {m, m - 1} :
              /\ n = m \/ (m >= 2 * Hidden /\ f = e + 1)
              /\ k * 2 ^ (f - 1) = n * 2 ^ (e - 1)
              /\ \A latch :
                   add!Aligned([s |-> s, e |-> e, m |-> m],
                               add!Normalized([s |-> s, e |-> e, m |-> m], latch))
                     = [s |-> s, e |-> f, m |-> k]
<1>1. /\ e \in Nat /\ e >= 1 /\ e - 1 \in Nat /\ m \in Nat
      /\ 2 ^ (e - 1) \in Nat /\ 2 ^ ((e - 1) + 1) = 2 * 2 ^ (e - 1)
  <2>1. e \in Nat /\ e >= 1 /\ e - 1 \in Nat /\ m \in Nat
    BY WidthType
  <2>2. QED
    BY <2>1, PowerNext
<1>2. CASE m >= 2 * Hidden
  <2>1. PICK q \in Nat, r \in Nat : m = 2 * q + r /\ r < 2 /\ q = m \div 2
    BY <1>1
  <2>2. (e + 1) % (ExpMax + 1) = e + 1
    <3>1. e + 1 \in Nat /\ ExpMax + 1 \in Nat /\ e + 1 < ExpMax + 1
      BY WidthType
    <3>2. QED
      BY <3>1, SmallRemainder
  <2>3. q \in Hidden .. 2 * Hidden - 1
    <3>1. Hidden \in Nat /\ m <= 4 * Hidden - 1
      BY WidthType
    <3>2. q >= Hidden /\ q <= 2 * Hidden - 1
      BY <1>1, <1>2, <2>1, <3>1
    <3>3. QED
      BY <3>1, <3>2
  <2>4. PICK n \in Nat : n = 2 * q
    OBVIOUS
  <2>5. n \in {m, m - 1}
    BY <2>1, <2>4
  <2>6. q * 2 ^ ((e + 1) - 1) = n * 2 ^ (e - 1)
    <3>1. (e + 1) - 1 = (e - 1) + 1
      BY <1>1
    <3>2. PICK u \in Nat : u = 2 ^ (e - 1) /\ 2 ^ ((e - 1) + 1) = 2 * u
      BY <1>1
    <3>3. q * (2 * u) = (2 * q) * u
      OBVIOUS
    <3>4. QED
      BY <2>4, <3>1, <3>2, <3>3
  <2>7. ASSUME NEW l
        PROVE  add!Aligned([s |-> s, e |-> e, m |-> m], l) = [s |-> s, e |-> e + 1, m |-> q]
    BY <1>2, <2>1, <2>2, AdderWords DEF add!Aligned, add!Sum
  <2>8. e + 1 \in 1 .. e + 1
    BY <1>1
  <2>9. n = m \/ (m >= 2 * Hidden /\ e + 1 = e + 1)
    BY <1>2
  <2>10. \A latch :
           add!Aligned([s |-> s, e |-> e, m |-> m],
                       add!Normalized([s |-> s, e |-> e, m |-> m], latch))
             = [s |-> s, e |-> e + 1, m |-> q]
    BY <2>7
  <2>11. QED
    BY <2>3, <2>5, <2>6, <2>8, <2>9, <2>10
<1>3. CASE m < 2 * Hidden /\ m >= Hidden
  <2>1. ASSUME NEW l
        PROVE  add!Aligned([s |-> s, e |-> e, m |-> m], l) = [s |-> s, e |-> e, m |-> m]
    <3>1. add!Hidden = Hidden /\ Hidden \in Nat
      BY AdderWords, WidthType
    <3>2. ~(m >= 2 * Hidden) /\ ~(m < Hidden)
      BY <1>1, <1>3, <3>1
    <3>3. QED
      BY <3>1, <3>2 DEF add!Aligned, add!Sum
  <2>2. e \in 1 .. e + 1 /\ m \in Hidden .. 2 * Hidden - 1 /\ m \in {m, m - 1}
    BY <1>1, <1>3, WidthType
  <2>3. QED
    BY <2>1, <2>2
<1>4. CASE m < Hidden
  <2>1. PICK f \in 1 .. e, k \in Hidden .. 2 * Hidden - 1 :
              /\ k * 2 ^ (f - 1) = m * 2 ^ (e - 1)
              /\ \A latch : add!Normalized([s |-> s, e |-> e, m |-> m], latch)
                              = [e |-> f, m |-> k]
    BY <1>1, <1>4, NormalizedSum
  <2>2. ASSUME NEW l, l.e = f, l.m = k
        PROVE  add!Aligned([s |-> s, e |-> e, m |-> m], l) = [s |-> s, e |-> f, m |-> k]
    BY <1>1, <1>4, <2>2, AdderWords, WidthType DEF add!Aligned, add!Sum
  <2>3. ASSUME NEW latch
        PROVE  add!Aligned([s |-> s, e |-> e, m |-> m],
                           add!Normalized([s |-> s, e |-> e, m |-> m], latch))
                 = [s |-> s, e |-> f, m |-> k]
    <3>1. PICK l : l = add!Normalized([s |-> s, e |-> e, m |-> m], latch)
      OBVIOUS
    <3>2. l = [e |-> f, m |-> k]
      BY <2>1, <3>1
    <3>3. l.e = f /\ l.m = k
      BY <3>2
    <3>4. QED
      BY <2>2, <3>1, <3>3
  <2>4. f \in 1 .. e + 1 /\ m \in {m, m - 1}
    BY <1>1
  <2>5. k \in Hidden .. 2 * Hidden - 1 /\ k * 2 ^ (f - 1) = m * 2 ^ (e - 1)
    BY <2>1
  <2> WITNESS f \in 1 .. e + 1, k \in Hidden .. 2 * Hidden - 1, m \in {m, m - 1}
  <2>6. QED
    BY <2>3, <2>5
<1>5. m >= 2 * Hidden \/ (m < 2 * Hidden /\ m >= Hidden) \/ m < Hidden
  BY <1>1, WidthType
<1>6. QED
  BY <1>2, <1>3, <1>4, <1>5, Zenon

\* Words whose sum is to be accurate, as in Regular of FpAdder.
RegularWords(a, b) ==
  /\ Normal(a) /\ Normal(b)
  /\ add!LargerExponent(a, b) < ExpMax - 1
  /\ Size(Value(a) + Value(b)) >= Hidden
  /\ Size(Value(a) + Value(b)) >= 2 ^ LowestBit * 2 ^ (add!LargerExponent(a, b) - 1)

\* A normal word r: near x + y, for a unit u of the larger one, and on the right side.
SumResult(r, x, y, u) ==
  /\ r \in Float /\ Normal(r)
  /\ \/ Distance(Value(r), x + y) < u
     \/ Distance(Value(r), x + y) < 2 ^ (Exponent(r) - 1)
  /\ (x > 0 => Value(r) >= y) /\ (x < 0 => Value(r) <= y)

LEMMA RegularSum ==
    ASSUME WidthAssumption, LowestBit \in 0 .. ManBits - 1,
           NEW a \in Float, NEW b \in Float, RegularWords(a, b)
    PROVE  \E r : /\ \A latch : add!Add(a, b, latch) = r
                  /\ SumResult(r, Value(a), Value(b), 2 ^ (add!LargerExponent(a, b) - 1))
<1>1. PICK e \in 1 .. ExpMax - 2 : e = add!LargerExponent(a, b)
  <2>1. /\ Exponent(a) \in Nat /\ Exponent(a) >= 1 /\ Exponent(b) \in Nat /\ Exponent(b) >= 1
    BY WordFields, WidthType
  <2>2. add!LargerExponent(a, b) \in {Exponent(a), Exponent(b)}
    BY AdderWords DEF add!LargerExponent
  <2>3. QED
    BY <2>1, <2>2, WidthType DEF RegularWords
<1>2. PICK s \in 0 .. 1, m \in 0 .. 4 * Hidden - 1 :
              /\ add!AdderOut(a, b) = [s |-> s, e |-> e, m |-> m]
              /\ Sums(s, m, 2 ^ (e - 1), Value(a), Value(b))
  BY <1>1, AdderSums DEF RegularWords
<1>3. PICK u \in Nat, x \in Int, y \in Int, l \in Nat :
        u = 2 ^ (e - 1) /\ u >= 1 /\ x = Value(a) /\ y = Value(b) /\ l = 2 ^ LowestBit
  <2>1. e - 1 \in Nat /\ LowestBit \in Nat
    BY WidthType
  <2>2. 2 ^ (e - 1) \in Nat /\ 2 ^ (e - 1) >= 1 /\ 2 ^ LowestBit \in Nat
    BY <2>1, PowerPositive
  <2>3. QED
    BY <2>2, ValueType
<1>4. Size(x + y) >= Hidden /\ Size(x + y) >= l * u /\ Size(x + y) \in Nat
  BY <1>1, <1>3, WidthType DEF RegularWords, Size, Distance
<1>5. PICK S \in Nat : S = m * u
  BY WidthType
<1>6. m \in Nat /\ m <= 4 * Hidden - 1 /\ Hidden \in Nat /\ Hidden >= 4
  BY WidthType
<1>7. S > Size(x + y) - u
  <2>1. Signed(s, S) - (x + y) < u /\ (x + y) - Signed(s, S) < u
    BY <1>2, <1>3, <1>5 DEF Sums
  <2>2. QED
    BY <2>1 DEF Signed, Size, Distance
<1>8. l <= m
  <2> SUFFICES ASSUME m < l PROVE FALSE
    BY <1>6
  <2>1. u * m + u <= u * l
    BY <1>6, ProductStep
  <2>2. u * m = S /\ u * l = l * u /\ l * u \in Nat
    BY <1>5, <1>6
  <2>3. QED
    BY <1>4, <1>7, <2>1, <2>2
<1>9. m * u >= Hidden
  <2>1. CASE m >= Hidden
    <3>1. PICK k \in Nat : u = 1 + k
      <4>1. u - 1 \in Nat /\ u = 1 + (u - 1)
        BY <1>3
      <4>2. QED
        BY <4>1
    <3>2. m * u = m + m * k /\ m * k \in Nat
      BY <1>6, <3>1
    <3>3. QED
      BY <1>6, <2>1, <3>2
  <2>2. CASE m * u >= Size(x + y)
    BY <1>4, <1>5, <1>6, <2>2
  <2>3. QED
    BY <1>2, <1>3, <2>1, <2>2 DEF Sums
<1>10. PICK f \in 1 .. e + 1, k \in Hidden .. 2 * Hidden - 1, n \in {m, m - 1} :
              /\ n = m \/ (m >= 2 * Hidden /\ f = e + 1)
              /\ k * 2 ^ (f - 1) = n * 2 ^ (e - 1)
              /\ \A latch :
                   add!Aligned([s |-> s, e |-> e, m |-> m],
                               add!Normalized([s |-> s, e |-> e, m |-> m], latch))
                     = [s |-> s, e |-> f, m |-> k]
  BY <1>3, <1>8, <1>9, AlignedSum
<1>11. PICK r : r = [sign |-> s, exponent |-> f, mantissa |-> k % Hidden]
  OBVIOUS
<1>12. f \in 1 .. ExpMax - 1
  BY WidthType
<1>13. r \in Float /\ Normal(r) /\ Exponent(r) = f /\ Value(r) = Signed(s, n * u)
  BY <1>3, <1>10, <1>11, <1>12, NormalWord
<1>14. ASSUME NEW latch PROVE add!Add(a, b, latch) = r
  <2>1. add!Aligned(add!AdderOut(a, b), add!Normalized(add!AdderOut(a, b), latch))
          = [s |-> s, e |-> f, m |-> k]
    BY <1>2, <1>10
  <2>2. ~IsNaN(a) /\ ~IsNaN(b) /\ ~IsZero(a) /\ ~IsZero(b) /\ ~IsInf(a) /\ ~IsInf(b)
    BY DEF RegularWords, Normal, Finite, IsNaN, IsZero, IsInf
  <2>3. /\ ~add!IsNaN(a) /\ ~add!IsNaN(b) /\ ~add!IsZero(a) /\ ~add!IsZero(b)
        /\ ~add!IsInf(a) /\ ~add!IsInf(b) /\ add!Hidden = Hidden
    BY <2>2, AdderWords
  <2>4. QED
    BY <1>11, <2>1, <2>3 DEF add!Add
<1>15. \/ Distance(Value(r), x + y) < u
       \/ Distance(Value(r), x + y) < 2 ^ (Exponent(r) - 1)
  <2>1. CASE n = m
    BY <1>2, <1>3, <1>5, <1>13, <2>1 DEF Sums, Signed, Distance
  <2>2. CASE n # m
    <3>1. n = m - 1 /\ f - 1 = (e - 1) + 1 /\ e - 1 \in Nat
      BY <1>10, <2>2, WidthType
    <3>2. 2 ^ (f - 1) = 2 * u
      BY <1>3, <3>1, PowerNext
    <3>3. n * u = S - u
      BY <1>5, <1>6, <3>1
    <3>4. Distance(Value(r), x + y) < 2 * u
      <4>1. Signed(s, S) - (x + y) < u /\ (x + y) - Signed(s, S) < u
        BY <1>2, <1>3, <1>5 DEF Sums
      <4>2. Value(r) = Signed(s, S - u)
        BY <1>13, <3>3
      <4>3. QED
        BY <4>1, <4>2 DEF Signed, Distance
    <3>5. QED
      BY <1>13, <3>2, <3>4
  <2>3. QED
    BY <2>1, <2>2
<1>16. (x > 0 => Value(r) >= y) /\ (x < 0 => Value(r) <= y)
  BY <1>2, <1>3, <1>10, <1>13 DEF Sums
<1>17. SumResult(r, x, y, u)
  BY <1>13, <1>15, <1>16 DEF SumResult
<1>18. QED
  BY <1>1, <1>3, <1>14, <1>17

-----------------------------------------------------------------------------
(* The types of the adder, for any words.                                   *)

LEMMA ShiftedType ==
    ASSUME WidthAssumption, NEW a \in Float, NEW b \in Float, Exponent(a) > Exponent(b)
    PROVE  \E s \in 0 .. 1, e \in 1 .. ExpMax, m \in 0 .. 4 * Hidden - 1 :
              add!AddShifted(a, b) = [s |-> s, e |-> e, m |-> m]
<1>1. /\ Exponent(b) \in Nat /\ Exponent(b) >= 1 /\ Exponent(a) \in 1 .. ExpMax
      /\ Mantissa(a) \in Hidden .. 2 * Hidden - 1
      /\ Mantissa(b) \in 0 .. 2 * Hidden - 1
      /\ a.sign \in 0 .. 1
  BY WordFields, WidthType
<1>2. PICK y \in Nat : Exponent(a) - Exponent(b) = y + 1
  <2>1. Exponent(a) - Exponent(b) - 1 \in Nat
        /\ Exponent(a) - Exponent(b) = (Exponent(a) - Exponent(b) - 1) + 1
    BY <1>1, WidthType
  <2>2. QED
    BY <2>1
<1>3. PICK k \in Nat : 2 ^ (Exponent(a) - Exponent(b)) = 2 + k
  <2>1. 2 ^ (y + 1) = 2 * 2 ^ y /\ 2 ^ y \in Nat /\ 2 ^ y >= 1
    BY PowerNext, PowerPositive
  <2>2. 2 * 2 ^ y = 2 + (2 * 2 ^ y - 2) /\ 2 * 2 ^ y - 2 \in Nat
    BY <2>1
  <2>3. QED
    BY <1>2, <2>1, <2>2
<1>4. PICK i \in Nat : i = Mantissa(b) \div 2 ^ (Exponent(a) - Exponent(b)) /\ i < Hidden
  <2>1. PICK n \in Nat : n = Mantissa(b) /\ n < 2 * Hidden
    BY <1>1, WidthType
  <2>2. PICK d \in Nat : d = 2 + k /\ d >= 1
    OBVIOUS
  <2>3. PICK q \in Nat, r \in Nat : q = n \div d /\ n = d * q + r
    <3>1. n \div d \in Nat /\ n % d \in Nat /\ n = d * (n \div d) + (n % d)
      BY <2>2, Division
    <3>2. QED
      BY <3>1
  <2>4. d * q = 2 * q + k * q /\ k * q \in Nat
    BY <2>2
  <2>5. q < Hidden
    BY <2>1, <2>3, <2>4, WidthType
  <2>6. QED
    BY <1>3, <2>1, <2>2, <2>3, <2>5
<1> DEFINE m == IF a.sign = b.sign THEN Mantissa(a) + i ELSE Mantissa(a) - i
<1>5. m \in 0 .. 4 * Hidden - 1
  BY <1>1, <1>4, WidthType
<1>6. add!AddShifted(a, b) = [s |-> a.sign, e |-> Exponent(a), m |-> m]
  <2>1. /\ add!Mantissa(a) = Mantissa(a) /\ add!Mantissa(b) = Mantissa(b)
        /\ add!Exponent(a) = Exponent(a) /\ add!Exponent(b) = Exponent(b)
    BY AdderWords
  <2>2. QED
    BY <1>4, <2>1 DEF add!AddShifted, add!Sum
<1>7. QED
  <2> HIDE DEF m
  <2>1. QED
    BY <1>1, <1>5, <1>6

LEMMA AdderOutType ==
    ASSUME WidthAssumption, NEW a \in Float, NEW b \in Float
    PROVE  \E s \in 0 .. 1, e \in 1 .. ExpMax, m \in 0 .. 4 * Hidden - 1 :
              add!AdderOut(a, b) = [s |-> s, e |-> e, m |-> m]
<1>1. /\ Exponent(a) \in 1 .. ExpMax /\ Exponent(b) \in 1 .. ExpMax
      /\ Mantissa(a) \in 0 .. 2 * Hidden - 1 /\ Mantissa(b) \in 0 .. 2 * Hidden - 1
      /\ a.sign \in 0 .. 1 /\ b.sign \in 0 .. 1
  BY WordFields
<1>2. CASE Exponent(a) > Exponent(b)
  <2>1. add!AdderOut(a, b) = add!AddShifted(a, b)
    BY <1>1, <1>2, WidthType, AdderWords DEF add!AdderOut
  <2>2. QED
    BY <1>2, <2>1, ShiftedType
<1>3. CASE Exponent(b) > Exponent(a)
  <2>1. add!AdderOut(a, b) = add!AddShifted(b, a)
    BY <1>1, <1>3, WidthType, AdderWords DEF add!AdderOut
  <2>2. QED
    BY <1>3, <2>1, ShiftedType
<1>4. CASE Exponent(a) = Exponent(b)
  <2>1. add!AdderOut(a, b)
          = IF a.sign = b.sign THEN add!AddMantissas(a, b) ELSE add!SubtractMantissas(a, b)
    BY <1>4, AdderWords DEF add!AdderOut
  <2>2. \E n \in 0 .. 4 * Hidden - 1 : add!AddMantissas(a, b) = add!Sum(a.sign, Exponent(a), n)
    <3>1. Mantissa(a) + Mantissa(b) >= 2 * Hidden
             => Mantissa(a) + Mantissa(b) \in 0 .. 4 * Hidden - 1
      BY <1>1, WidthType
    <3>2. ~(Mantissa(a) + Mantissa(b) >= 2 * Hidden)
             => Mantissa(a) + Mantissa(b) + 2 * Hidden \in 0 .. 4 * Hidden - 1
      BY <1>1, WidthType
    <3>3. add!Hidden = Hidden /\ add!Mantissa(a) = Mantissa(a) /\ add!Mantissa(b) = Mantissa(b)
          /\ add!Exponent(a) = Exponent(a)
      BY AdderWords
    <3>4. QED
      BY <3>1, <3>2, <3>3 DEF add!AddMantissas
  <2>3. \E t \in 0 .. 1, n \in 0 .. 4 * Hidden - 1 :
          add!SubtractMantissas(a, b) = add!Sum(t, Exponent(a), n)
    <3>1. CASE Mantissa(a) > Mantissa(b)
      <4>1. Mantissa(a) - Mantissa(b) \in 0 .. 4 * Hidden - 1
        BY <1>1, <3>1, WidthType
      <4>2. QED
        BY <1>1, <3>1, <4>1, AdderWords DEF add!SubtractMantissas
    <3>2. CASE ~(Mantissa(a) > Mantissa(b))
      <4>1. Mantissa(b) - Mantissa(a) \in 0 .. 4 * Hidden - 1
        BY <1>1, <3>2, WidthType
      <4>2. QED
        BY <1>1, <3>2, <4>1, AdderWords DEF add!SubtractMantissas
    <3>3. QED
      BY <3>1, <3>2
  <2>4. QED
    BY <1>1, <2>1, <2>2, <2>3 DEF add!Sum
<1>5. QED
  BY <1>1, <1>2, <1>3, <1>4, WidthType

LEMMA NormalizedType ==
    ASSUME WidthAssumption, LowestBit \in 0 .. ManBits - 1,
           NEW a \in Float, NEW b \in Float, NEW latch \in add!Latch
    PROVE  add!Normalized(add!AdderOut(a, b), latch) \in add!Latch
<1>1. PICK s \in 0 .. 1, e \in 1 .. ExpMax, m \in 0 .. 4 * Hidden - 1 :
              add!AdderOut(a, b) = [s |-> s, e |-> e, m |-> m]
  BY AdderOutType
<1> DEFINE p == CHOOSE q \in 0 .. ManBits : add!LeadingOne(m, q)
<1>2. CASE \E q \in 0 .. ManBits : add!LeadingOne(m, q)
  <2>1. p \in 0 .. ManBits
    BY <1>2
  <2>2. add!Normalized([s |-> s, e |-> e, m |-> m], latch)
          = [e |-> (e - (ManBits - p)) % (ExpMax + 1),
             m |-> (m * 2 ^ (ManBits - p)) % (4 * Hidden)]
    BY <1>2, AdderWords DEF add!Normalized
  <2> HIDE DEF p
  <2>3. ManBits - p \in Nat /\ e - (ManBits - p) \in Int
    BY <2>1, WidthType DEF WidthAssumption
  <2>4. PICK x \in Nat : x = 2 ^ (ManBits - p)
    BY <2>3, PowerPositive
  <2>5. m * x \in Int
    BY WidthType
  <2>6. /\ (e - (ManBits - p)) % (ExpMax + 1) \in 0 .. ExpMax
        /\ (m * x) % (4 * Hidden) \in 0 .. 4 * Hidden - 1
    <3>1. ExpMax + 1 \in Nat /\ ExpMax + 1 >= 1 /\ 4 * Hidden \in Nat /\ 4 * Hidden >= 1
          /\ (ExpMax + 1) - 1 = ExpMax
      BY WidthType
    <3>2. QED
      BY <2>3, <2>5, <3>1, RemainderType
  <2>7. add!Hidden = Hidden /\ add!ExpMax = ExpMax
    BY AdderWords
  <2>8. [e |-> (e - (ManBits - p)) % (ExpMax + 1), m |-> (m * x) % (4 * Hidden)] \in add!Latch
    BY <2>6, <2>7 DEF add!Latch
  <2>9. QED
    BY <1>1, <2>2, <2>4, <2>8
<1>3. CASE ~ \E q \in 0 .. ManBits : add!LeadingOne(m, q)
  BY <1>1, <1>3 DEF add!Normalized
<1>4. QED
  BY <1>2, <1>3

LEMMA AddType ==
    ASSUME WidthAssumption, LowestBit \in 0 .. ManBits - 1,
           NEW a \in Float, NEW b \in Float, NEW latch \in add!Latch
    PROVE  add!Add(a, b, latch) \in Float
<1>1. PICK s \in 0 .. 1, e \in 1 .. ExpMax, m \in 0 .. 4 * Hidden - 1 :
              add!AdderOut(a, b) = [s |-> s, e |-> e, m |-> m]
  BY AdderOutType
<1>2. PICK n : n = add!Normalized(add!AdderOut(a, b), latch)
  OBVIOUS
<1>3. n.e \in 0 .. ExpMax /\ n.m \in 0 .. 4 * Hidden - 1
  BY <1>2, NormalizedType, AdderWords DEF add!Latch
<1>4. PICK out : out = add!Aligned([s |-> s, e |-> e, m |-> m], n)
  OBVIOUS
<1>5. out.s \in 0 .. 1 /\ out.e \in 0 .. ExpMax /\ out.m \in Nat
  <2>1. add!Hidden = Hidden /\ add!ExpMax = ExpMax
    BY AdderWords
  <2>2. (e + 1) % (ExpMax + 1) \in 0 .. ExpMax
    <3>1. ExpMax + 1 \in Nat /\ ExpMax + 1 >= 1 /\ (ExpMax + 1) - 1 = ExpMax /\ e + 1 \in Int
      BY WidthType
    <3>2. QED
      BY <3>1, RemainderType
  <2>3. m \div 2 \in Nat /\ m \in Nat /\ n.m \in Nat /\ e \in 0 .. ExpMax
    BY <1>3, WidthType
  <2>4. QED
    BY <1>3, <1>4, <2>1, <2>2, <2>3 DEF add!Aligned, add!Sum
<1>6. out.m % Hidden \in 0 .. Hidden - 1
  <2>1. out.m \in Int /\ Hidden \in Nat /\ Hidden >= 1
    BY <1>5, WidthType
  <2>2. QED
    BY <2>1, RemainderType
<1>7. [sign |-> out.s, exponent |-> out.e, mantissa |-> out.m % Hidden] \in Float
  BY <1>5, <1>6 DEF Float
<1>8. Inf((a.sign + b.sign) % 2) \in Float
  BY WidthType DEF Inf, Float
<1>9. add!Add(a, b, latch) \in {a, b, Inf((a.sign + b.sign) % 2),
            [sign |-> out.s, exponent |-> out.e, mantissa |-> out.m % Hidden]}
  <2>1. add!Hidden = Hidden /\ add!Inf((a.sign + b.sign) % 2) = Inf((a.sign + b.sign) % 2)
    BY AdderWords
  <2>2. QED
    BY <1>1, <1>2, <1>4, <2>1 DEF add!Add
<1>10. QED
  BY <1>7, <1>8, <1>9

-----------------------------------------------------------------------------
(* The adder of the test bench.                                             *)

TbInv == A \in Float /\ B \in Float /\ normalizer_out \in add!Latch

LEMMA Widths == WidthAssumption /\ LowestBit \in 0 .. ManBits - 1
<1>1. add!WidthAssumption => WidthAssumption
  BY DEF add!WidthAssumption, WidthAssumption
<1>2. QED
  BY <1>1, TbAssumption DEF add!AdderAssumption

LEMMA TbInvHolds == TbSpec => []TbInv
<1>1. TbInit => TbInv
  <2>1. [e |-> 0, m |-> 0] \in add!Latch
    BY Widths, WidthType, AdderWords DEF add!Latch
  <2>2. QED
    BY <2>1, AdderWords DEF TbInit, add!Init, TbInv
<1>2. TbInv /\ [GenRands]_tbVars => TbInv'
  <2> SUFFICES ASSUME TbInv, [GenRands]_tbVars PROVE TbInv'
    OBVIOUS
  <2>1. CASE GenRands
    <3>1. PICK a \in Inputs, b \in Inputs : add!Operands(a, b)
      BY <2>1 DEF GenRands
    <3>2. a \in Float /\ b \in Float
      BY TbAssumption
    <3>3. add!Normalized(add!AdderOut(A, B), normalizer_out) \in add!Latch
      BY Widths, NormalizedType DEF TbInv
    <3>4. QED
      BY <3>1, <3>2, <3>3 DEF TbInv, add!Operands
  <2>2. CASE UNCHANGED tbVars
    BY <2>2 DEF TbInv, tbVars
  <2>3. QED
    BY <2>1, <2>2
<1>3. QED
  BY <1>1, <1>2, PTL DEF TbSpec

\* Regular of the adder, about its two operands.
LEMMA RegularMeans ==
    ASSUME TbInv, add!Regular
    PROVE  /\ RegularWords(A, B)
           /\ add!Exact = Value(A) + Value(B)
           /\ add!UnitInTheLastPlace = 2 ^ (add!LargerExponent(A, B) - 1)
<1>1. add!Value(A) = Value(A) /\ add!Value(B) = Value(B)
      /\ add!Normal(A) = Normal(A) /\ add!Normal(B) = Normal(B)
      /\ add!ExpMax = ExpMax /\ add!SmallestNormal = Hidden
  BY AdderWords DEF SmallestNormal
<1>2. add!Size(Value(A) + Value(B)) = Size(Value(A) + Value(B))
  BY AdderWords
<1>3. QED
  BY <1>1, <1>2 DEF add!Regular, RegularWords, add!Exact, add!UnitInTheLastPlace

\* fp_adder.sv: the sum of two normal words, when it is normal and its leading one is
\* among the bits that the normalizer looks at, is off by less than a unit in the last
\* place, and never on the wrong side.
THEOREM SumsAreAccurate == TbSpec => []SumWithinUlp
<1>1. TbInv => SumWithinUlp
  <2> SUFFICES ASSUME TbInv PROVE SumWithinUlp
    OBVIOUS
  <2>1. add!TypeOK
    BY Widths, AddType, AdderWords DEF TbInv, add!TypeOK, add!result
  <2>2. ASSUME add!Regular
        PROVE  /\ add!Finite(add!result)
               /\ add!Distance(add!Value(add!result), add!Exact) < add!LargerUnit
               /\ (add!Value(A) > 0 => add!Value(add!result) >= add!Value(B))
               /\ (add!Value(A) < 0 => add!Value(add!result) <= add!Value(B))
    <3>1. PICK r : /\ \A latch : add!Add(A, B, latch) = r
                   /\ SumResult(r, Value(A), Value(B), 2 ^ (add!LargerExponent(A, B) - 1))
      BY <2>2, Widths, RegularMeans, RegularSum DEF TbInv
    <3>2. add!result = r
      BY <3>1 DEF add!result
    <3>3. PICK u \in Nat, x \in Int, y \in Int, v \in Int, f \in Nat :
            /\ u = 2 ^ (add!LargerExponent(A, B) - 1) /\ f = 2 ^ (Exponent(r) - 1)
            /\ x = Value(A) /\ y = Value(B) /\ v = Value(r)
      <4>1. add!LargerExponent(A, B) \in {Exponent(A), Exponent(B)}
        BY AdderWords DEF add!LargerExponent
      <4>2. 2 ^ (add!LargerExponent(A, B) - 1) \in Nat
        BY <4>1, Widths, ValueType DEF TbInv
      <4>3. r \in Float
        BY <3>1 DEF SumResult
      <4>4. QED
        BY <4>2, <4>3, Widths, ValueType DEF TbInv
    <3>4. /\ add!Value(A) = x /\ add!Value(B) = y /\ add!Value(r) = v
          /\ add!Finite(r) = Finite(r) /\ add!Exponent(r) = Exponent(r)
          /\ add!Distance(v, x + y) = Distance(v, x + y)
      BY <3>3, AdderWords
    <3>5. add!Exact = x + y /\ add!UnitInTheLastPlace = u
      BY <2>2, <3>3, RegularMeans
    <3>6. add!LargerUnit = IF f > u THEN f ELSE u
      BY <3>2, <3>3, <3>4, <3>5 DEF add!LargerUnit
    <3>7. /\ Finite(r) /\ (Distance(v, x + y) < u \/ Distance(v, x + y) < f)
          /\ (x > 0 => v >= y) /\ (x < 0 => v <= y) /\ Distance(v, x + y) \in Nat
      BY <3>1, <3>3 DEF SumResult, Normal, Distance
    <3>8. Distance(v, x + y) < IF f > u THEN f ELSE u
      BY <3>7
    <3>9. QED
      BY <3>2, <3>4, <3>5, <3>6, <3>7, <3>8
  <2>3. QED
    BY <2>1, <2>2 DEF SumWithinUlp, add!SumWithinUlp, add!MovesTheRightWay
<1>2. QED
  BY <1>1, TbInvHolds, PTL

\* fp_adder.sv:97-176, the normalizer without an else: for such words the latch that it
\* becomes shows in no sum.
THEOREM SumsHaveNoMemory == TbSpec => []NoMemory
<1>1. TbInv => NoMemory
  <2> SUFFICES ASSUME TbInv, add!Regular,
                      NEW l \in [e : {0, 1, ExpMax}, m : {0, Hidden, 2 * Hidden - 1}]
               PROVE  add!result = add!Add(A, B, l)
    BY AdderWords DEF NoMemory, add!NoMemory
  <2>1. QED
    BY Widths, RegularMeans, RegularSum DEF TbInv, add!result
<1>2. QED
  BY <1>1, TbInvHolds, PTL

-----------------------------------------------------------------------------
(* The mantissa of a product.                                               *)

\* The product of two mantissas with hidden bits, and the bit at its top.
LEMMA MantissaProduct ==
    ASSUME WidthAssumption, NEW a \in Float, NEW b \in Float, Normal(a), Normal(b)
    PROVE  \E t \in 0 .. 1, f \in Nat :
              /\ mul!TopBit(a, b) = t /\ mul!FinalMantissa(a, b) = f
              /\ 2 * Hidden * Hidden <= f /\ f < 4 * Hidden * Hidden
              /\ IF t = 1 THEN f = Mantissa(a) * Mantissa(b)
                          ELSE f = 2 * (Mantissa(a) * Mantissa(b))
<1>1. PICK h \in Nat : h = Hidden /\ h >= 4
  BY WidthType
<1>2. PICK x \in Nat, y \in Nat : /\ x = Mantissa(a) /\ h <= x /\ x < 2 * h
                                  /\ y = Mantissa(b) /\ h <= y /\ y < 2 * h
  BY <1>1, WordFields
<1>3. PICK p \in Nat, hh \in Nat : p = x * y /\ hh = h * h /\ hh >= 1 /\ hh <= p /\ p < 4 * hh
  <2>1. h * h <= h * y
    BY <1>2, ProductOrder
  <2>2. y * h <= y * x
    BY <1>2, ProductOrder
  <2>3. y * x + y <= y * (2 * h)
    BY <1>2, ProductStep
  <2>4. (2 * h) * y + 2 * h <= (2 * h) * (2 * h)
    BY <1>2, ProductStep
  <2>5. /\ h * y = y * h /\ y * x = x * y /\ y * (2 * h) = (2 * h) * y
        /\ (2 * h) * (2 * h) = 4 * (h * h)
    OBVIOUS
  <2>6. PICK j \in Nat : h = 1 + j
    <3>1. h - 1 \in Nat /\ h = 1 + (h - 1)
      BY <1>1
    <3>2. QED
      BY <3>1
  <2>7. h * h = h + h * j /\ h * j \in Nat
    BY <2>6
  <2>8. x * y \in Nat /\ h * h \in Nat /\ h * y \in Nat /\ (2 * h) * y \in Nat
    OBVIOUS
  <2>9. QED
    BY <1>1, <2>1, <2>2, <2>3, <2>4, <2>5, <2>7, <2>8
<1>4. 2 ^ (2 * ManBits + 1) = 2 * hh
  <2>1. PICK m \in Nat : m = ManBits /\ h = 2 ^ m
    BY <1>1 DEF WidthAssumption, Hidden
  <2>2. 2 ^ (m + m) = h * h
    BY <2>1, PowerSum
  <2>3. m + m \in Nat /\ 2 ^ ((m + m) + 1) = 2 * 2 ^ (m + m)
    BY PowerNext
  <2>4. 2 * ManBits + 1 = (m + m) + 1
    BY <2>1
  <2>5. QED
    BY <1>3, <2>2, <2>3, <2>4
<1>5. PICK q \in Nat, r \in Nat : q = p \div (2 * hh) /\ r < 2 * hh /\ p = (2 * hh) * q + r
  <2>1. 2 * hh \in Nat /\ 2 * hh >= 1
    BY <1>3
  <2>2. /\ p \div (2 * hh) \in Nat /\ p % (2 * hh) \in Nat /\ p % (2 * hh) < 2 * hh
        /\ p = (2 * hh) * (p \div (2 * hh)) + (p % (2 * hh))
    BY <2>1, Division
  <2>3. QED
    BY <2>2
<1>6. q \in 0 .. 1 /\ (q = 1 <=> p >= 2 * hh)
  <2>1. CASE q = 0
    BY <1>5, <2>1
  <2>2. CASE q = 1
    BY <1>5, <2>2
  <2>3. CASE q >= 2
    <3>1. (2 * hh) * 2 <= (2 * hh) * q
      BY <2>3, ProductOrder
    <3>2. (2 * hh) * 2 = 4 * hh /\ (2 * hh) * q \in Nat
      OBVIOUS
    <3>3. QED
      BY <1>3, <1>5, <3>1, <3>2
  <2>4. QED
    BY <2>1, <2>2, <2>3
<1>7. /\ mul!Mantissa(a) = x /\ mul!Mantissa(b) = y /\ mul!Hidden = h
  BY <1>1, <1>2, MultiplierWords
<1>8. mul!TopBit(a, b) = q
  <2>1. q % 2 = q
    BY <1>6
  <2>2. QED
    BY <1>3, <1>4, <1>5, <1>7, <2>1 DEF mul!TopBit, mul!Bit
<1>9. /\ 2 * Hidden * Hidden = 2 * hh /\ 4 * Hidden * Hidden = 4 * hh
      /\ 4 * mul!Hidden * mul!Hidden = 4 * hh
  <2>1. 2 * h * h = 2 * (h * h) /\ 4 * h * h = 4 * (h * h)
    OBVIOUS
  <2>2. QED
    BY <1>1, <1>3, <1>7, <2>1
<1>10. CASE q = 1
  <2>1. mul!FinalMantissa(a, b) = p
    BY <1>3, <1>7, <1>8, <1>10 DEF mul!FinalMantissa
  <2>2. QED
    BY <1>2, <1>3, <1>6, <1>8, <1>9, <1>10, <2>1
<1>11. CASE q = 0
  <2>1. 2 * p < 4 * hh /\ 2 * hh <= 2 * p
    BY <1>3, <1>6, <1>11
  <2>2. (2 * p) % (4 * hh) = 2 * p
    BY <2>1, SmallRemainder
  <2>3. 2 * mul!Mantissa(a) * mul!Mantissa(b) = 2 * p
    <3>1. 2 * x * y = 2 * (x * y)
      OBVIOUS
    <3>2. QED
      BY <1>3, <1>7, <3>1
  <2>4. mul!FinalMantissa(a, b) = 2 * p
    BY <1>8, <1>9, <1>11, <2>2, <2>3 DEF mul!FinalMantissa
  <2>5. QED
    BY <1>2, <1>3, <1>8, <1>9, <1>11, <2>1, <2>4
<1>12. QED
  BY <1>6, <1>10, <1>11

\* The upper half q of the product, its lower half r, and the rounding c.
LEMMA RoundedProduct ==
    ASSUME WidthAssumption, NEW f \in Nat,
           2 * Hidden * Hidden <= f, f < 4 * Hidden * Hidden
    PROVE  \E q \in Hidden .. 2 * Hidden - 1, r \in 0 .. 2 * Hidden - 1, c \in 0 .. 1 :
              /\ f = (2 * Hidden) * q + r
              /\ (f \div (2 * Hidden)) % Hidden = q - Hidden
              /\ mul!RoundUp(f) = c /\ (r = 0 => c = 0)
              /\ mul!OutMantissa(f) = (q - Hidden + c) % Hidden
<1>1. PICK h \in Nat : h = Hidden /\ h >= 4
  BY WidthType
<1>2. PICK d \in Nat : d = 2 * h /\ d >= 1
  BY <1>1
<1>3. PICK q \in Nat, r \in Nat : /\ q = f \div d /\ r < d /\ f = d * q + r
  <2>1. /\ f \div d \in Nat /\ f % d \in Nat /\ f % d < d
        /\ f = d * (f \div d) + (f % d)
    BY <1>2, Division
  <2>2. QED
    BY <2>1
<1>4. 2 * Hidden * Hidden = d * h /\ 4 * Hidden * Hidden = d * (2 * h)
  <2>1. 2 * h * h = (2 * h) * h /\ 4 * h * h = (2 * h) * (2 * h)
    OBVIOUS
  <2>2. QED
    BY <1>1, <1>2, <2>1
<1>5. h <= q
  <2> SUFFICES ASSUME q < h PROVE FALSE
    OBVIOUS
  <2>1. d * q + d <= d * h
    BY ProductStep
  <2>2. d * q \in Nat /\ d * h \in Nat
    OBVIOUS
  <2>3. QED
    BY <1>3, <1>4, <2>1, <2>2
<1>6. q < 2 * h
  <2> SUFFICES ASSUME 2 * h <= q PROVE FALSE
    OBVIOUS
  <2>1. d * (2 * h) <= d * q
    BY ProductOrder
  <2>2. d * q \in Nat /\ d * (2 * h) \in Nat
    OBVIOUS
  <2>3. QED
    BY <1>3, <1>4, <2>1, <2>2
<1>7. q % h = q - h
  <2>1. PICK x \in Nat, y \in Nat : y = q - h /\ y < h /\ x = 1 /\ q = h * x + y
    <3>1. q - h \in Nat /\ q - h < h /\ q = h * 1 + (q - h)
      BY <1>5, <1>6
    <3>2. QED
      BY <3>1
  <2>2. q \div h \in Nat /\ q % h \in Nat /\ q % h < h /\ q = h * (q \div h) + (q % h)
    BY <1>1, Division
  <2>3. h * x + y = h * (q \div h) + (q % h)
    BY <2>1, <2>2
  <2>4. QED
    BY <2>1, <2>2, <2>3, QuotientUnique
<1>8. mul!RoundUp(f) \in 0 .. 1
  BY DEF mul!RoundUp
<1>9. r = 0 => mul!RoundUp(f) = 0
  <2> SUFFICES ASSUME r = 0 PROVE mul!RoundUp(f) = 0
    OBVIOUS
  <2>1. PICK g \in Nat : g = 2 ^ (ManBits - 1) /\ h = 2 * g /\ g >= 2
    BY <1>1, WidthType
  <2>2. mul!Bit(f, ManBits) = 0
    <3>1. PICK x \in Nat : x = 2 * q
      OBVIOUS
    <3>2. f = h * x + 0
      <4>1. (2 * h) * q = h * (2 * q) /\ h * (2 * q) \in Nat
        OBVIOUS
      <4>2. QED
        BY <1>2, <1>3, <3>1, <4>1
    <3>3. f \div h \in Nat /\ f % h \in Nat /\ f % h < h /\ f = h * (f \div h) + (f % h)
      BY <1>1, Division
    <3>4. 0 \in Nat /\ 0 < h /\ h * x + 0 = h * (f \div h) + (f % h)
      BY <1>1, <3>2, <3>3
    <3>5. f \div h = x
      BY <3>3, <3>4, QuotientUnique
    <3>6. x % 2 = 0
      BY <3>1
    <3>7. QED
      BY <1>1, <3>5, <3>6 DEF mul!Bit, Hidden
  <2>3. f % g = 0
    <3>1. PICK x \in Nat : x = 4 * q
      OBVIOUS
    <3>2. f = g * x + 0
      <4>1. (2 * (2 * g)) * q = g * (4 * q) /\ g * (4 * q) \in Nat
        OBVIOUS
      <4>2. QED
        BY <1>2, <1>3, <2>1, <3>1, <4>1
    <3>3. f \div g \in Nat /\ f % g \in Nat /\ f % g < g /\ f = g * (f \div g) + (f % g)
      BY <2>1, Division
    <3>4. 0 \in Nat /\ 0 < g /\ g * x + 0 = g * (f \div g) + (f % g)
      BY <2>1, <3>2, <3>3
    <3>5. QED
      BY <3>3, <3>4, QuotientUnique
  <2>4. QED
    BY <2>1, <2>2, <2>3 DEF mul!RoundUp
<1>10. (f \div (2 * Hidden)) % Hidden = q - Hidden
  BY <1>1, <1>2, <1>3, <1>7
<1>11. mul!OutMantissa(f) = (q - Hidden + mul!RoundUp(f)) % Hidden
  BY <1>10, MultiplierWords DEF mul!OutMantissa
<1>12. q \in Hidden .. 2 * Hidden - 1 /\ r \in 0 .. 2 * Hidden - 1 /\ f = (2 * Hidden) * q + r
  BY <1>1, <1>2, <1>3, <1>5, <1>6
<1>13. QED
  BY <1>8, <1>9, <1>10, <1>11, <1>12

-----------------------------------------------------------------------------
(* The value and the exponent of a product.                                 *)

\* The exact product x of two words is half of w * f: w is a power of two, and f the
\* normalized mantissa.
Factors(x, n, w, f) ==
  /\ n \in Nat /\ w = 2 ^ n /\ x \in Nat /\ 2 * x = w * f
  /\ f \in Nat /\ 2 * Hidden * Hidden <= f /\ f < 4 * Hidden * Hidden

\* The size of the product against powers of two is the sum of exponents.
LEMMA FactorsOrder ==
    ASSUME WidthAssumption, NEW x, NEW n, NEW w, NEW f, Factors(x, n, w, f), NEW k \in Nat
    PROVE  2 ^ k * (Hidden * Hidden) <= x <=> k <= n
<1>1. PICK hh \in Nat : /\ hh = Hidden * Hidden /\ hh >= 1
                        /\ 2 * Hidden * Hidden = 2 * hh /\ 4 * Hidden * Hidden = 4 * hh
  <2>1. PICK h \in Nat, j \in Nat : h = Hidden /\ h = 1 + j
    <3>1. Hidden \in Nat /\ Hidden - 1 \in Nat /\ Hidden = 1 + (Hidden - 1)
      BY WidthType
    <3>2. QED
      BY <3>1
  <2>2. h * h = h + h * j /\ h * j \in Nat
    BY <2>1
  <2>3. 2 * h * h = 2 * (h * h) /\ 4 * h * h = 4 * (h * h) /\ h * h \in Nat
    OBVIOUS
  <2>4. QED
    BY <2>1, <2>2, <2>3
<1>2. /\ n \in Nat /\ w = 2 ^ n /\ x \in Nat /\ 2 * x = w * f
      /\ f \in Nat /\ 2 * hh <= f /\ f < 4 * hh
  BY <1>1 DEF Factors
<1>3. PICK K \in Nat, W \in Nat : K = 2 ^ k /\ W = w /\ W >= 1
  BY <1>2, PowerPositive
<1>4. /\ k <= n => K <= W
      /\ n < k => 2 * W <= K
  BY <1>2, <1>3, PowerOrder
<1>5. K * hh \in Nat /\ W * f = 2 * x
  BY <1>2, <1>3
<1>6. CASE k <= n
  <2>1. hh * (2 * K) <= hh * (2 * W)
    BY <1>4, <1>6, ProductOrder
  <2>2. W * (2 * hh) <= W * f
    BY <1>2, ProductOrder
  <2>3. hh * (2 * K) = 2 * (K * hh) /\ hh * (2 * W) = W * (2 * hh) /\ W * (2 * hh) \in Nat
    OBVIOUS
  <2>4. K * hh <= x
    BY <1>2, <1>5, <2>1, <2>2, <2>3
  <2>5. QED
    BY <1>1, <1>3, <1>6, <2>4
<1>7. CASE n < k
  <2>1. W * f + W <= W * (4 * hh)
    BY <1>2, ProductStep
  <2>2. (2 * hh) * (2 * W) <= (2 * hh) * K
    BY <1>4, <1>7, ProductOrder
  <2>3. /\ W * (4 * hh) = (2 * hh) * (2 * W) /\ (2 * hh) * K = 2 * (K * hh)
        /\ W * (4 * hh) \in Nat
    OBVIOUS
  <2>4. x < K * hh
    BY <1>2, <1>3, <1>5, <2>1, <2>2, <2>3
  <2>5. QED
    BY <1>1, <1>2, <1>3, <1>5, <1>7, <2>4
<1>8. QED
  BY <1>2, <1>6, <1>7

\* The exact product of two normal words in terms of what the multiplier computes.
LEMMA ExactProduct ==
    ASSUME WidthAssumption, NEW a \in Float, NEW b \in Float, Normal(a), Normal(b)
    PROVE  \E t \in 0 .. 1, x \in Nat, w \in Nat, f \in Nat :
              /\ mul!TopBit(a, b) = t /\ mul!FinalMantissa(a, b) = f
              /\ Factors(x, Exponent(a) + Exponent(b) + t - 2, w, f)
              /\ Value(a) * Value(b) = Signed((a.sign + b.sign) % 2, x)
<1>1. PICK t \in 0 .. 1, f \in Nat :
              /\ mul!TopBit(a, b) = t /\ mul!FinalMantissa(a, b) = f
              /\ 2 * Hidden * Hidden <= f /\ f < 4 * Hidden * Hidden
              /\ IF t = 1 THEN f = Mantissa(a) * Mantissa(b)
                          ELSE f = 2 * (Mantissa(a) * Mantissa(b))
  BY MantissaProduct
<1>2. PICK i \in Nat, j \in Nat : i = Exponent(a) - 1 /\ j = Exponent(b) - 1
  BY WordFields, WidthType
<1>3. PICK m \in Nat, n \in Nat : m = Mantissa(a) /\ n = Mantissa(b)
  BY WordFields, WidthType
<1>4. PICK I \in Nat, J \in Nat : /\ I = 2 ^ i /\ J = 2 ^ j /\ 2 ^ (i + j) = I * J
                                  /\ 2 ^ ((i + j) + 1) = 2 * (I * J)
  <2>1. 2 ^ i \in Nat /\ 2 ^ j \in Nat /\ 2 ^ (i + j) = 2 ^ i * 2 ^ j
    BY PowerPositive, PowerSum
  <2>2. i + j \in Nat /\ 2 ^ ((i + j) + 1) = 2 * 2 ^ (i + j)
    BY PowerNext
  <2>3. QED
    BY <2>1, <2>2
<1>5. PICK x \in Nat : x = (m * n) * (I * J)
  OBVIOUS
<1>6. Value(a) * Value(b) = Signed((a.sign + b.sign) % 2, x)
  <2>1. PICK y \in Nat, z \in Nat : y = m * I /\ z = n * J
    OBVIOUS
  <2>2. Value(a) = Signed(a.sign, y) /\ Value(b) = Signed(b.sign, z)
    BY <1>2, <1>3, <1>4, <2>1, ValueType DEF Magnitude
  <2>3. y * z = x
    <3>1. (m * I) * (n * J) = (m * n) * (I * J)
      OBVIOUS
    <3>2. QED
      BY <1>5, <2>1, <3>1
  <2>4. /\ (-y) * z = -(y * z) /\ y * (-z) = -(y * z) /\ (-y) * (-z) = y * z
    OBVIOUS
  <2>5. a.sign \in 0 .. 1 /\ b.sign \in 0 .. 1
    BY WordFields
  <2>6. CASE a.sign = b.sign
    <3>1. (a.sign + b.sign) % 2 = 0
      BY <2>5, <2>6
    <3>2. QED
      BY <2>2, <2>3, <2>4, <2>5, <2>6, <3>1 DEF Signed
  <2>7. CASE a.sign # b.sign
    <3>1. (a.sign + b.sign) % 2 = 1
      BY <2>5, <2>7
    <3>2. QED
      BY <2>2, <2>3, <2>4, <2>5, <2>7, <3>1 DEF Signed
  <2>8. QED
    BY <2>6, <2>7
<1>7. CASE t = 1
  <2>1. PICK w \in Nat : w = 2 * (I * J)
    OBVIOUS
  <2>2. Exponent(a) + Exponent(b) + t - 2 = (i + j) + 1 /\ (i + j) + 1 \in Nat
    BY <1>2, <1>7, WordFields, WidthType
  <2>3. 2 * x = w * f
    <3>1. 2 * ((m * n) * (I * J)) = (2 * (I * J)) * (m * n)
      OBVIOUS
    <3>2. QED
      BY <1>1, <1>3, <1>5, <1>7, <2>1, <3>1
  <2>4. Factors(x, Exponent(a) + Exponent(b) + t - 2, w, f)
    BY <1>1, <1>4, <2>1, <2>2, <2>3 DEF Factors
  <2>5. QED
    BY <1>1, <1>6, <2>4
<1>8. CASE t = 0
  <2>1. PICK w \in Nat : w = I * J
    OBVIOUS
  <2>2. Exponent(a) + Exponent(b) + t - 2 = i + j /\ i + j \in Nat
    BY <1>2, <1>8, WordFields, WidthType
  <2>3. 2 * x = w * f
    <3>1. 2 * ((m * n) * (I * J)) = (I * J) * (2 * (m * n))
      OBVIOUS
    <3>2. QED
      BY <1>1, <1>3, <1>5, <1>8, <2>1, <3>1
  <2>4. Factors(x, Exponent(a) + Exponent(b) + t - 2, w, f)
    BY <1>1, <1>4, <2>1, <2>2, <2>3 DEF Factors
  <2>5. QED
    BY <1>1, <1>6, <2>4
<1>9. QED
  BY <1>7, <1>8

\* The product of normal words by the sum of the exponents.
LEMMA ProductCases ==
    ASSUME WidthAssumption, NEW a \in Float, NEW b \in Float, Normal(a), Normal(b),
           NEW t \in 0 .. 1, mul!TopBit(a, b) = t,
           NEW n \in Nat, n = Exponent(a) + Exponent(b) + t - 2,
           NEW s, s = (a.sign + b.sign) % 2
    PROVE  /\ n + 1 < Bias => mul!Multiply(a, b) = SignedZero(s)
           /\ mul!Multiply(a, b) = SignedZero(s) => n < Bias
           /\ n + 2 >= ExpMax + Bias => mul!Multiply(a, b) = Inf(s)
           /\ n >= Bias /\ n + 2 < ExpMax + Bias =>
                mul!Multiply(a, b) = mul!Product(s, n + 2 - Bias,
                                                 mul!OutMantissa(mul!FinalMantissa(a, b)))
           /\ n + 2 < ExpMax + Bias => mul!Multiply(a, b).exponent # ExpMax
           /\ IsZero(mul!Multiply(a, b)) => n < Bias
<1>1. PICK i \in Nat, j \in Nat : /\ i = Exponent(a) /\ j = Exponent(b) /\ i >= 1 /\ j >= 1
                                  /\ i < ExpMax /\ j < ExpMax
  BY WordFields, WidthType
<1>2. PICK x \in Nat, z \in Nat : x = ExpMax /\ z = Bias /\ z >= 1 /\ x = 2 * z + 1
  BY WidthType
<1>3. mul!Multiply(a, b) = mul!MultiplierOut(a, b)
  <2>1. ~IsNaN(a) /\ ~IsNaN(b) /\ ~IsZero(a) /\ ~IsZero(b) /\ ~IsInf(a) /\ ~IsInf(b)
    BY DEF Normal, Finite, IsNaN, IsZero, IsInf
  <2>2. /\ ~mul!IsNaN(a) /\ ~mul!IsNaN(b) /\ ~mul!IsZero(a) /\ ~mul!IsZero(b)
        /\ ~mul!IsInf(a) /\ ~mul!IsInf(b)
    BY <2>1, MultiplierWords
  <2>3. QED
    BY <2>2 DEF mul!Multiply
<1>4. mul!APlusB(a, b) = i + j /\ mul!Bias = z /\ mul!ExpMax = x
  BY <1>1, <1>2, MultiplierWords DEF mul!APlusB
<1>5. i + j > z => mul!IntermediateExponent(a, b) = n + 2 - z /\ n + 2 - z >= 1
  <2> SUFFICES ASSUME i + j > z
               PROVE  mul!IntermediateExponent(a, b) = n + 2 - z /\ n + 2 - z >= 1
    OBVIOUS
  <2>1. PICK e \in Nat : e = n + 2 - z /\ e >= 1 /\ e = i + j - z + t
    BY <1>1, <1>2
  <2>2. e < 2 * (x + 1) /\ 2 * (x + 1) \in Nat
    BY <1>1, <1>2, <2>1
  <2>3. e % (2 * (x + 1)) = e
    BY <2>2, SmallRemainder
  <2>4. QED
    BY <1>4, <2>1, <2>3 DEF mul!IntermediateExponent
<1>6. i + j > z <=> n + 2 > z + t
  BY <1>1, <1>2
<1>7. CASE i + j <= z
  <2>1. mul!MultiplierOut(a, b) = SignedZero(s)
    BY <1>4, <1>7, MultiplierWords DEF mul!MultiplierOut
  <2>2. n < z /\ n + 2 < x + z
    BY <1>1, <1>2, <1>7
  <2>3. SignedZero(s).exponent # ExpMax
    BY <1>2 DEF SignedZero
  <2>4. QED
    BY <1>2, <1>3, <2>1, <2>2, <2>3
<1>8. CASE i + j > z /\ n + 2 - z >= x
  <2>1. mul!MultiplierOut(a, b) = Inf(s)
    BY <1>4, <1>5, <1>8, MultiplierWords DEF mul!MultiplierOut
  <2>2. Inf(s).exponent # 0 /\ Inf(s) # SignedZero(s)
    <3>1. Inf(s).exponent = x /\ SignedZero(s).exponent = 0 /\ x # 0
      BY <1>2 DEF Inf, SignedZero
    <3>2. QED
      BY <3>1
  <2>3. ~(n + 1 < z) /\ ~(n + 2 < x + z) /\ n + 2 >= x + z
    BY <1>1, <1>2, <1>8
  <2>4. QED
    BY <1>2, <1>3, <2>1, <2>2, <2>3 DEF IsZero
<1>9. CASE i + j > z /\ n + 2 - z < x
  <2>1. PICK e \in Nat : e = n + 2 - z /\ e >= 1 /\ e < x
    BY <1>2, <1>5, <1>9
  <2>2. e % (x + 1) = e
    BY <2>1, SmallRemainder
  <2>3. mul!MultiplierOut(a, b)
          = mul!Product(s, e, mul!OutMantissa(mul!FinalMantissa(a, b)))
    BY <1>4, <1>5, <1>9, <2>1, <2>2, MultiplierWords DEF mul!MultiplierOut
  <2>4. PICK p : p = mul!Product(s, e, mul!OutMantissa(mul!FinalMantissa(a, b)))
    OBVIOUS
  <2>5. p.exponent = e
    BY <2>4 DEF mul!Product
  <2>6. p # SignedZero(s) /\ ~IsZero(p) /\ p.exponent # x
    <3>1. SignedZero(s).exponent = 0 /\ e # 0 /\ e # x
      BY <2>1 DEF SignedZero
    <3>2. QED
      BY <2>5, <3>1 DEF IsZero
  <2>7. ~(n + 1 < z) /\ ~(n + 2 >= x + z)
    BY <1>1, <1>2, <1>6, <1>9
  <2>8. QED
    BY <1>2, <1>3, <2>1, <2>3, <2>4, <2>6, <2>7
<1>10. QED
  BY <1>1, <1>2, <1>7, <1>8, <1>9

LEMMA RoundingError ==
    ASSUME NEW w \in Nat, w >= 1, NEW h \in Nat, NEW q \in Nat, NEW r \in Nat, r < 2 * h,
           NEW c \in 0 .. 1, r = 0 => c = 0, NEW x \in Nat, 2 * x = w * ((2 * h) * q + r)
    PROVE  (w * h) * (q + c) - x < w * h /\ x - (w * h) * (q + c) < w * h
<1>1. PICK y \in Nat, z \in Nat, v \in Nat : y = (w * h) * q /\ z = w * r /\ v = w * h
  OBVIOUS
<1>2. 2 * x = 2 * y + z
  <2>1. w * ((2 * h) * q + r) = 2 * ((w * h) * q) + w * r
    OBVIOUS
  <2>2. QED
    BY <1>1, <2>1
<1>3. z < 2 * v
  <2>1. w * r + w <= w * (2 * h)
    BY ProductStep
  <2>2. w * (2 * h) = 2 * (w * h)
    OBVIOUS
  <2>3. QED
    BY <1>1, <2>1, <2>2
<1>4. CASE c = 0
  <2>1. (w * h) * (q + c) = y
    BY <1>1, <1>4
  <2>2. QED
    BY <1>1, <1>2, <1>3, <2>1
<1>5. CASE c = 1
  <2>1. (w * h) * (q + c) = y + v
    BY <1>1, <1>5
  <2>2. z >= 1
    <3>1. PICK k \in Nat : r = 1 + k
      <4>1. r - 1 \in Nat /\ r = 1 + (r - 1)
        BY <1>5
      <4>2. QED
        BY <4>1
    <3>2. w * r = w + w * k /\ w * k \in Nat
      BY <3>1
    <3>3. QED
      BY <1>1, <3>2
  <2>3. QED
    BY <1>1, <1>2, <1>3, <2>1, <2>2
<1>6. QED
  BY <1>4, <1>5

LEMMA UnitType ==
    ASSUME WidthAssumption
    PROVE  /\ 2 ^ (Bias - 1) \in Nat /\ 2 ^ (Bias - 1) >= 1
           /\ mul!Unit = 2 ^ (Bias - 1) * Hidden /\ mul!Unit \in Nat /\ mul!Unit >= 1
<1>1. PICK b \in Nat, m \in Nat : b = Bias - 1 /\ m = ManBits
  BY WidthType DEF WidthAssumption
<1>2. PICK B1 \in Nat, h \in Nat : B1 = 2 ^ b /\ B1 >= 1 /\ h = 2 ^ m /\ 2 ^ (b + m) = B1 * h
  BY PowerPositive, PowerSum
<1>3. b + m \in Nat /\ 2 ^ (b + m) \in Nat /\ 2 ^ (b + m) >= 1
  BY PowerPositive
<1>4. mul!Unit = 2 ^ (b + m)
  BY <1>1, MultiplierWords DEF mul!Unit
<1>5. Hidden = h
  BY <1>1, <1>2 DEF Hidden
<1>6. QED
  BY <1>1, <1>2, <1>3, <1>4, <1>5

\* A product within range whose rounding does not carry.
LEMMA ProductInRange ==
    ASSUME WidthAssumption, NEW n \in Nat, Bias <= n, n + 2 < ExpMax + Bias,
           NEW w \in Nat, w = 2 ^ n, NEW s \in 0 .. 1,
           NEW k \in Hidden .. 2 * Hidden - 1,
           NEW v, v = mul!Product(s, n + 2 - Bias, k - Hidden)
    PROVE  /\ Finite(v) /\ Exponent(v) = n + 2 - Bias
           /\ Value(v) * mul!Unit = Signed(s, (w * Hidden) * k)
           /\ 2 ^ (Exponent(v) - 1) * mul!Unit = w * Hidden
<1>1. PICK e \in 1 .. ExpMax - 1 : e = n + 2 - Bias
  BY WidthType
<1>2. v = [sign |-> s, exponent |-> e, mantissa |-> k % Hidden]
  BY <1>1, WithoutHiddenBit DEF mul!Product
<1>3. Finite(v) /\ Exponent(v) = e /\ Value(v) = Signed(s, k * 2 ^ (e - 1))
  BY <1>2, NormalWord DEF Normal
<1>4. PICK i \in Nat, b \in Nat : i = e - 1 /\ b = Bias - 1 /\ n = i + b
  BY <1>1, WidthType
<1>5. PICK I \in Nat, B1 \in Nat : I = 2 ^ i /\ B1 = 2 ^ b /\ w = I * B1
  <2>1. 2 ^ (i + b) = 2 ^ i * 2 ^ b /\ 2 ^ i \in Nat /\ 2 ^ b \in Nat
    BY PowerPositive, PowerSum
  <2>2. QED
    BY <1>4, <2>1
<1>6. PICK h \in Nat, u \in Nat : h = Hidden /\ u = mul!Unit /\ u = B1 * h
  BY <1>4, <1>5, UnitType, WidthType
<1>7. I * u = w * h
  <2>1. I * (B1 * h) = (I * B1) * h
    OBVIOUS
  <2>2. QED
    BY <1>5, <1>6, <2>1
<1>8. PICK m \in Nat : m = k
  BY WidthType
<1>9. (m * I) * u = (w * h) * m /\ (-(m * I)) * u = -((w * h) * m)
  <2>1. (m * I) * u = (I * u) * m /\ (-(m * I)) * u = -((I * u) * m)
    OBVIOUS
  <2>2. QED
    BY <1>7, <2>1
<1>10. QED
  BY <1>1, <1>3, <1>4, <1>5, <1>6, <1>7, <1>8, <1>9 DEF Signed

\* What the properties of the multiplier compare the product with.
LEMMA ProductBounds ==
    ASSUME WidthAssumption, NEW x, NEW n, NEW w, NEW f, Factors(x, n, w, f)
    PROVE  /\ x < SmallestNormal * mul!Unit <=> n + 1 < Bias
           /\ x >= 2 * SmallestNormal * mul!Unit <=> n >= Bias
           /\ x >= 2 ^ (ExpMax - 1) * Hidden * mul!Unit <=> n + 2 >= ExpMax + Bias
           /\ x <= LargestFinite * mul!Unit => n + 2 < ExpMax + Bias
<1>1. PICK h \in Nat, z \in Nat, l \in Nat : h = Hidden /\ h >= 1 /\ z = Bias - 1 /\ l = ExpMax - 2
                                             /\ z + 1 = Bias /\ l + 1 = ExpMax - 1
  BY WidthType
<1>2. PICK Z \in Nat, L \in Nat : /\ Z = 2 ^ z /\ Z >= 1 /\ 2 ^ (z + 1) = 2 * Z
                                  /\ L = 2 ^ l /\ L >= 1 /\ 2 ^ (l + 1) = 2 * L
                                  /\ 2 ^ ((l + 1) + z) = (2 * L) * Z
  <2>1. 2 ^ z \in Nat /\ 2 ^ z >= 1 /\ 2 ^ (z + 1) = 2 * 2 ^ z
    BY PowerPositive, PowerNext
  <2>2. 2 ^ l \in Nat /\ 2 ^ l >= 1 /\ 2 ^ (l + 1) = 2 * 2 ^ l
    BY PowerPositive, PowerNext
  <2>3. l + 1 \in Nat /\ 2 ^ ((l + 1) + z) = 2 ^ (l + 1) * 2 ^ z
    BY PowerSum
  <2>4. QED
    BY <2>1, <2>2, <2>3
<1>3. PICK u \in Nat : u = mul!Unit /\ u = Z * h
  BY <1>1, <1>2, UnitType
<1>4. x \in Nat /\ n \in Nat
  BY DEF Factors
<1>5. /\ Z * (h * h) <= x <=> z <= n
      /\ (2 * Z) * (h * h) <= x <=> z + 1 <= n
      /\ ((2 * L) * Z) * (h * h) <= x <=> (l + 1) + z <= n
  <2>1. z + 1 \in Nat /\ (l + 1) + z \in Nat
    OBVIOUS
  <2>2. 2 ^ z * (Hidden * Hidden) <= x <=> z <= n
    BY FactorsOrder
  <2>3. 2 ^ (z + 1) * (Hidden * Hidden) <= x <=> z + 1 <= n
    BY <2>1, FactorsOrder
  <2>4. 2 ^ ((l + 1) + z) * (Hidden * Hidden) <= x <=> (l + 1) + z <= n
    BY <2>1, FactorsOrder
  <2>5. QED
    BY <1>1, <1>2, <2>2, <2>3, <2>4
<1>6. SmallestNormal * mul!Unit = Z * (h * h) /\ 2 * SmallestNormal * mul!Unit = (2 * Z) * (h * h)
  <2>1. h * (Z * h) = Z * (h * h) /\ 2 * h * (Z * h) = (2 * Z) * (h * h)
    OBVIOUS
  <2>2. QED
    BY <1>1, <1>3, <2>1 DEF SmallestNormal
<1>7. 2 ^ (ExpMax - 1) * Hidden * mul!Unit = ((2 * L) * Z) * (h * h)
  <2>1. (2 * L) * h * (Z * h) = ((2 * L) * Z) * (h * h)
    OBVIOUS
  <2>2. QED
    BY <1>1, <1>2, <1>3, <2>1
<1>8. LargestFinite * mul!Unit < ((2 * L) * Z) * (h * h)
  <2>1. PICK g \in Nat : g = (L * Z) * h /\ g >= 1
    <3>1. PICK i \in Nat, j \in Nat, k \in Nat : L = 1 + i /\ Z = 1 + j /\ h = 1 + k
      <4>1. /\ L - 1 \in Nat /\ L = 1 + (L - 1) /\ Z - 1 \in Nat /\ Z = 1 + (Z - 1)
            /\ h - 1 \in Nat /\ h = 1 + (h - 1)
        BY <1>1, <1>2
      <4>2. QED
        BY <4>1
    <3>2. L * Z = 1 + i + j + i * j /\ i * j \in Nat
      BY <3>1
    <3>3. PICK y \in Nat : L * Z = 1 + y
      BY <3>2
    <3>4. (L * Z) * h = 1 + y + k + y * k /\ y * k \in Nat
      BY <3>1, <3>3
    <3>5. QED
      BY <3>4
  <2>2. ((2 * h - 1) * L) * (Z * h) = ((2 * L) * Z) * (h * h) - (L * Z) * h
    OBVIOUS
  <2>3. LargestFinite * mul!Unit = ((2 * h - 1) * L) * (Z * h)
    BY <1>1, <1>2, <1>3 DEF LargestFinite
  <2>4. ((2 * L) * Z) * (h * h) \in Nat
    OBVIOUS
  <2>5. QED
    BY <2>1, <2>2, <2>3, <2>4
<1>9. PICK s1 \in Nat, s2 \in Nat, s3 \in Nat, s4 \in Int :
        /\ s1 = Z * (h * h) /\ s2 = (2 * Z) * (h * h) /\ s3 = ((2 * L) * Z) * (h * h)
        /\ s4 = LargestFinite * mul!Unit /\ s4 < s3
  <2>1. LargestFinite * mul!Unit \in Int
    <3>1. (2 * h - 1) * L \in Int /\ LargestFinite = (2 * h - 1) * L
      BY <1>1, <1>2 DEF LargestFinite
    <3>2. QED
      BY <1>3, <3>1
  <2>2. Z * (h * h) \in Nat /\ (2 * Z) * (h * h) \in Nat /\ ((2 * L) * Z) * (h * h) \in Nat
    OBVIOUS
  <2>3. QED
    BY <1>8, <2>1, <2>2
<1>10. /\ x < s1 <=> n + 1 < Bias
       /\ x >= s2 <=> n >= Bias
       /\ x >= s3 <=> n + 2 >= ExpMax + Bias
       /\ x <= s4 => n + 2 < ExpMax + Bias
  <2>1. (s1 <= x <=> z <= n) /\ (s2 <= x <=> z + 1 <= n) /\ (s3 <= x <=> (l + 1) + z <= n)
    BY <1>5, <1>9
  <2>2. QED
    BY <1>1, <1>4, <1>9, <2>1, WidthType
<1>11. QED
  BY <1>6, <1>7, <1>9, <1>10

LEMMA MultiplyType ==
    ASSUME WidthAssumption, NEW a \in Float, NEW b \in Float
    PROVE  mul!Multiply(a, b) \in Float
<1>1. PICK s \in 0 .. 1 : s = (a.sign + b.sign) % 2
  <2>1. a.sign \in 0 .. 1 /\ b.sign \in 0 .. 1
    BY WordFields
  <2>2. a.sign + b.sign \in Int
    BY <2>1
  <2>3. QED
    BY <2>2
<1>2. ASSUME NEW t \in 0 .. 1 PROVE SignedZero(t) \in Float /\ Inf(t) \in Float
  BY WidthType DEF Float, SignedZero, Inf
<1>3. PICK f \in Nat : f = mul!FinalMantissa(a, b)
  <2>1. PICK m \in Nat, n \in Nat : m = mul!Mantissa(a) /\ n = mul!Mantissa(b)
    <3>1. Mantissa(a) \in Nat /\ Mantissa(b) \in Nat
      BY WordFields, WidthType
    <3>2. mul!Mantissa(a) = Mantissa(a) /\ mul!Mantissa(b) = Mantissa(b)
      BY MultiplierWords
    <3>3. QED
      BY <3>1, <3>2
  <2>2. m * n \in Nat /\ 2 * m * n \in Nat /\ 4 * Hidden * Hidden \in Nat
        /\ 4 * Hidden * Hidden >= 1
    <3>1. PICK h \in Nat, k \in Nat : h = Hidden /\ h = 1 + k
      <4>1. Hidden \in Nat /\ Hidden - 1 \in Nat /\ Hidden = 1 + (Hidden - 1)
        BY WidthType
      <4>2. QED
        BY <4>1
    <3>2. 4 * h * h = 4 * h + (4 * h) * k /\ 4 * h >= 1 /\ (4 * h) * k \in Nat
      BY <3>1
    <3>3. m * n \in Nat /\ 2 * m * n \in Nat
      OBVIOUS
    <3>4. QED
      BY <3>1, <3>2, <3>3
  <2>3. (2 * m * n) % (4 * Hidden * Hidden) \in Nat
    <3>1. PICK x \in Nat, d \in Nat : x = 2 * m * n /\ d = 4 * Hidden * Hidden /\ d >= 1
      BY <2>2
    <3>2. x % d \in Nat
      BY <3>1, Division
    <3>3. QED
      BY <3>1, <3>2
  <2>4. QED
    BY <2>1, <2>2, <2>3, MultiplierWords DEF mul!FinalMantissa
<1>4. mul!OutMantissa(f) \in 0 .. Hidden - 1
  <2>1. f \div (2 * Hidden) \in Nat
    <3>1. 2 * Hidden \in Nat /\ 2 * Hidden >= 1
      BY WidthType
    <3>2. QED
      BY <3>1, Division
  <2>2. Hidden \in Nat /\ Hidden >= 1
    BY WidthType
  <2>3. (f \div (2 * Hidden)) % Hidden \in 0 .. Hidden - 1
    BY <2>1, <2>2, RemainderType
  <2>4. mul!RoundUp(f) \in 0 .. 1
    BY DEF mul!RoundUp
  <2>5. ((f \div (2 * Hidden)) % Hidden) + mul!RoundUp(f) \in Int
    BY <2>2, <2>3, <2>4
  <2>6. (((f \div (2 * Hidden)) % Hidden) + mul!RoundUp(f)) % Hidden \in 0 .. Hidden - 1
    BY <2>2, <2>5, RemainderType
  <2>7. QED
    BY <2>6, MultiplierWords DEF mul!OutMantissa
<1>5. PICK e \in 0 .. ExpMax : e = mul!IntermediateExponent(a, b) % (ExpMax + 1)
  <2>1. PICK i \in Nat, j \in Nat : i = mul!Exponent(a) /\ j = mul!Exponent(b)
    BY WordFields, WidthType, MultiplierWords
  <2>2. PICK t \in Int : t = mul!TopBit(a, b)
    <3>1. PICK m \in Nat : m = mul!Mantissa(a) * mul!Mantissa(b)
      <4>1. PICK x \in Nat, y \in Nat : x = mul!Mantissa(a) /\ y = mul!Mantissa(b)
        <5>1. Mantissa(a) \in Nat /\ Mantissa(b) \in Nat
          BY WordFields, WidthType
        <5>2. mul!Mantissa(a) = Mantissa(a) /\ mul!Mantissa(b) = Mantissa(b)
          BY MultiplierWords
        <5>3. QED
          BY <5>1, <5>2
      <4>2. x * y \in Nat
        OBVIOUS
      <4>3. QED
        BY <4>1, <4>2
    <3>2. PICK d \in Nat : d = 2 ^ (2 * ManBits + 1) /\ d >= 1
      <4>1. 2 * ManBits + 1 \in Nat
        BY DEF WidthAssumption
      <4>2. QED
        BY <4>1, PowerPositive
    <3>3. m \div d \in Nat
      BY <3>2, Division
    <3>4. QED
      BY <3>1, <3>2, <3>3 DEF mul!TopBit, mul!Bit
  <2>3. i + j - Bias + t \in Int /\ 2 * (ExpMax + 1) \in Nat /\ 2 * (ExpMax + 1) >= 1
        /\ ExpMax + 1 \in Nat /\ ExpMax + 1 >= 1 /\ (ExpMax + 1) - 1 = ExpMax
    BY WidthType
  <2>4. PICK x \in Int : x = (i + j - Bias + t) % (2 * (ExpMax + 1))
    BY <2>3
  <2>5. x % (ExpMax + 1) \in 0 .. ExpMax
    BY <2>3, RemainderType
  <2>6. mul!IntermediateExponent(a, b) = x
    <3>1. mul!Bias = Bias /\ mul!ExpMax = ExpMax
      BY MultiplierWords
    <3>2. mul!APlusB(a, b) = i + j
      BY <2>1 DEF mul!APlusB
    <3>3. QED
      BY <2>2, <2>3, <2>4, <3>1, <3>2, WidthType DEF mul!IntermediateExponent
  <2>7. QED
    BY <2>5, <2>6
<1>6. mul!Product(s, e, mul!OutMantissa(f)) \in Float
  BY <1>4 DEF mul!Product, Float
<1>7. mul!MultiplierOut(a, b) \in {SignedZero(s), Inf(s), mul!Product(s, e, mul!OutMantissa(f))}
  BY <1>1, <1>3, <1>5, MultiplierWords DEF mul!MultiplierOut
<1>8. mul!Multiply(a, b) \in {a, b, Inf(a.sign), Inf(b.sign), SignedZero(s), mul!MultiplierOut(a, b)}
  BY <1>1, MultiplierWords DEF mul!Multiply
<1>9. a.sign \in 0 .. 1 /\ b.sign \in 0 .. 1
  BY WordFields
<1>10. QED
  BY <1>2, <1>6, <1>7, <1>8, <1>9

\* The comparisons of the multiplier's properties, for two normal operands.
LEMMA NormalProducts ==
    ASSUME TbInv, mul!BothNormal
    PROVE  /\ mul!ProductWithinUlp /\ mul!ExactWhenRepresentable
           /\ mul!UnderflowsToZero /\ mul!OverflowsToInfinity
<1>1. WidthAssumption /\ A \in Float /\ B \in Float /\ Normal(A) /\ Normal(B)
  BY Widths, MultiplierWords DEF TbInv, mul!BothNormal
<1>2. PICK t \in 0 .. 1, x \in Nat, w \in Nat, f \in Nat :
              /\ mul!TopBit(A, B) = t /\ mul!FinalMantissa(A, B) = f
              /\ Factors(x, Exponent(A) + Exponent(B) + t - 2, w, f)
              /\ Value(A) * Value(B) = Signed((A.sign + B.sign) % 2, x)
  BY <1>1, ExactProduct
<1>3. PICK n \in Nat : n = Exponent(A) + Exponent(B) + t - 2 /\ Factors(x, n, w, f)
  BY <1>2 DEF Factors
<1>4. w = 2 ^ n /\ w >= 1 /\ 2 * x = w * f
      /\ 2 * Hidden * Hidden <= f /\ f < 4 * Hidden * Hidden
  BY <1>3, PowerPositive DEF Factors
<1>5. PICK s \in 0 .. 1 : s = (A.sign + B.sign) % 2
  <2>1. A.sign + B.sign \in Int
    BY <1>1, WordFields
  <2>2. QED
    BY <2>1
<1>6. PICK r : r = mul!Multiply(A, B) /\ r = mul!result
  BY DEF mul!result
<1>7. mul!Exact = Signed(s, x) /\ mul!Size(mul!Exact) = x
  <2>1. mul!Exact = Signed(s, x)
    BY <1>2, <1>5, MultiplierWords DEF mul!Exact
  <2>2. Size(Signed(s, x)) = x
    BY DEF Size, Distance, Signed
  <2>3. QED
    BY <2>1, <2>2, MultiplierWords
<1>8. PICK u \in Nat : u = mul!Unit /\ u >= 1
  BY <1>1, UnitType
<1>9. /\ x < SmallestNormal * u <=> n + 1 < Bias
      /\ x >= 2 * SmallestNormal * u <=> n >= Bias
      /\ x >= 2 ^ (ExpMax - 1) * Hidden * u <=> n + 2 >= ExpMax + Bias
      /\ x <= LargestFinite * u => n + 2 < ExpMax + Bias
  BY <1>1, <1>3, <1>8, ProductBounds
<1>10. /\ mul!SmallestNormal = SmallestNormal /\ mul!LargestFinite = LargestFinite
       /\ mul!Hidden = Hidden /\ mul!ExpMax = ExpMax /\ mul!IsZero(r) = IsZero(r)
       /\ mul!Inf(s) = Inf(s) /\ mul!Finite(r) = Finite(r) /\ mul!Value(r) = Value(r)
       /\ mul!Exponent(r) = Exponent(r)
  BY MultiplierWords
<1>11. PICK z \in Nat, m \in Nat : z = Bias /\ m = ExpMax
  BY <1>1, WidthType
<1>12. /\ n + 1 < z => r = SignedZero(s)
       /\ n + 2 >= m + z => r = Inf(s)
       /\ n >= z /\ n + 2 < m + z => r = mul!Product(s, n + 2 - z, mul!OutMantissa(f))
       /\ n + 2 < m + z => r.exponent # m
       /\ IsZero(r) => n < z
  <2>1. /\ n + 1 < Bias => mul!Multiply(A, B) = SignedZero(s)
        /\ n + 2 >= ExpMax + Bias => mul!Multiply(A, B) = Inf(s)
        /\ n >= Bias /\ n + 2 < ExpMax + Bias =>
             mul!Multiply(A, B) = mul!Product(s, n + 2 - Bias,
                                              mul!OutMantissa(mul!FinalMantissa(A, B)))
        /\ n + 2 < ExpMax + Bias => mul!Multiply(A, B).exponent # ExpMax
        /\ IsZero(mul!Multiply(A, B)) => n < Bias
    BY <1>1, <1>2, <1>3, <1>5, ProductCases
  <2>2. QED
    BY <1>2, <1>6, <1>11, <2>1
<1>13. mul!UnderflowsToZero
  <2>1. x < SmallestNormal * u => IsZero(r)
    BY <1>9, <1>11, <1>12 DEF SignedZero, IsZero
  <2>2. IsZero(r) => x < 2 * SmallestNormal * u
    <3>1. 2 * SmallestNormal * u \in Nat
      BY <1>1, WidthType DEF SmallestNormal
    <3>2. QED
      BY <1>9, <1>11, <1>12, <3>1
  <2>3. QED
    BY <1>6, <1>7, <1>8, <1>10, <2>1, <2>2 DEF mul!UnderflowsToZero
<1>14. mul!OverflowsToInfinity
  <2>1. Inf(s).exponent = m
    BY <1>11 DEF Inf
  <2>2. x >= 2 ^ (ExpMax - 1) * Hidden * u <=> r = Inf(s)
    BY <1>9, <1>11, <1>12, <2>1
  <2>3. QED
    BY <1>5, <1>6, <1>7, <1>8, <1>10, <2>2 DEF mul!OverflowsToInfinity
<1>15. PICK h \in Nat : h = Hidden /\ h >= 4
  BY <1>1, WidthType
<1>16. PICK q \in Hidden .. 2 * Hidden - 1, l \in 0 .. 2 * Hidden - 1, c \in 0 .. 1 :
              /\ f = (2 * Hidden) * q + l
              /\ (f \div (2 * Hidden)) % Hidden = q - Hidden
              /\ mul!RoundUp(f) = c /\ (l = 0 => c = 0)
              /\ mul!OutMantissa(f) = (q - Hidden + c) % Hidden
  BY <1>1, <1>4, RoundedProduct
<1>17. PICK Q \in Nat, L \in Nat : Q = q /\ L = l /\ h <= Q /\ Q < 2 * h /\ L < 2 * h
  BY <1>15
<1>18. ASSUME n >= z, n + 2 < m + z, ~(q = 2 * Hidden - 1 /\ c = 1)
       PROVE  /\ Finite(r)
              /\ Value(r) * u = Signed(s, (w * h) * (Q + c))
              /\ 2 ^ (Exponent(r) - 1) * u = w * h
  <2>1. PICK k \in Hidden .. 2 * Hidden - 1 : k = Q + c
    BY <1>15, <1>17, <1>18
  <2>2. (q - Hidden + c) % Hidden = k - Hidden
    <3>1. k - Hidden \in Nat /\ k - Hidden < Hidden /\ q - Hidden + c = k - Hidden
      BY <1>15, <1>17, <2>1
    <3>2. QED
      BY <1>15, <3>1, SmallRemainder
  <2>3. r = mul!Product(s, n + 2 - Bias, k - Hidden)
    BY <1>11, <1>12, <1>16, <1>18, <2>2
  <2>4. /\ Finite(r) /\ Exponent(r) = n + 2 - Bias
        /\ Value(r) * mul!Unit = Signed(s, (w * Hidden) * k)
        /\ 2 ^ (Exponent(r) - 1) * mul!Unit = w * Hidden
    <3>1. Bias <= n /\ n + 2 < ExpMax + Bias
      BY <1>11, <1>18
    <3>2. WidthAssumption /\ w = 2 ^ n
      BY <1>1, <1>4
    <3> HIDE <1>18
    <3>3. QED
      BY <2>3, <3>1, <3>2, ProductInRange
  <2>5. QED
    BY <1>8, <1>15, <2>1, <2>4
<1>19. mul!ProductWithinUlp
  <2> SUFFICES ASSUME mul!InRange, ~mul!RoundingCarries
               PROVE  /\ mul!Finite(mul!result)
                      /\ mul!Distance(mul!Value(mul!result) * mul!Unit, mul!Exact)
                           < mul!UnitInTheLastPlace
    BY DEF mul!ProductWithinUlp
  <2>1. n >= z /\ n + 2 < m + z
    BY <1>7, <1>8, <1>9, <1>10, <1>11 DEF mul!InRange
  <2>2. ~(q = 2 * Hidden - 1 /\ c = 1)
    <3> SUFFICES ASSUME q = 2 * Hidden - 1, c = 1 PROVE mul!RoundingCarries
      OBVIOUS
    <3>1. (f \div (2 * Hidden)) % Hidden = Hidden - 1
      BY <1>15, <1>16
    <3>2. QED
      BY <1>2, <1>10, <1>16, <3>1 DEF mul!RoundingCarries
  <2>3. Finite(r) /\ Value(r) * u = Signed(s, (w * h) * (Q + c))
        /\ 2 ^ (Exponent(r) - 1) * u = w * h
    BY <1>18, <2>1, <2>2
  <2>4. PICK y \in Nat, g \in Nat : y = (w * h) * (Q + c) /\ g = w * h
    OBVIOUS
  <2>5. y - x < g /\ x - y < g
    <3>1. 2 * x = w * ((2 * h) * Q + L) /\ (L = 0 => c = 0)
      BY <1>4, <1>15, <1>16, <1>17
    <3>2. QED
      BY <1>4, <1>17, <2>4, <3>1, RoundingError
  <2>6. Distance(Signed(s, y), Signed(s, x)) < g
    BY <2>5 DEF Distance, Signed
  <2>7. mul!Distance(Signed(s, y), Signed(s, x)) = Distance(Signed(s, y), Signed(s, x))
    BY MultiplierWords
  <2>8. mul!UnitInTheLastPlace = g
    BY <1>6, <1>8, <1>10, <2>3, <2>4 DEF mul!UnitInTheLastPlace
  <2>9. QED
    BY <1>6, <1>7, <1>8, <1>10, <2>3, <2>4, <2>6, <2>7, <2>8
<1>20. mul!ExactWhenRepresentable
  <2> SUFFICES ASSUME NEW v \in Float, Normal(v), v.exponent > 1, Value(v) * u = Signed(s, x)
               PROVE  Finite(r) /\ Value(r) * u = Signed(s, x)
    BY <1>6, <1>7, <1>8, <1>10, MultiplierWords DEF mul!ExactWhenRepresentable
  <2>1. PICK M \in Nat, e \in Nat : /\ M = Mantissa(v) /\ e = Exponent(v) /\ e > 1 /\ e < m
                                    /\ h <= M /\ M < 2 * h
    BY <1>1, <1>11, <1>15, WordFields
  <2>2. PICK i \in Nat : i = e - 1
    BY <2>1
  <2>3. PICK I \in Nat, Z \in Nat : /\ I = 2 ^ i /\ Z = 2 ^ (z - 1) /\ u = Z * h
    <3>1. 2 ^ i \in Nat
      BY PowerPositive
    <3>2. QED
      BY <1>1, <1>8, <1>11, <1>15, <3>1, UnitType
  <2>4. PICK p \in Nat : p = i + (z - 1) /\ p + 2 = e + z
    BY <1>1, <1>11, <2>1, <2>2, WidthType
  <2>5. PICK y \in Nat : y = I * Z /\ y = 2 ^ p /\ 2 ^ (p + 1) = 2 * y
    <3>1. PICK j \in Nat : j = z - 1
      BY <1>1, <1>11, WidthType
    <3>2. 2 ^ (i + j) = 2 ^ i * 2 ^ j
      BY PowerSum
    <3>3. 2 ^ (p + 1) = 2 * 2 ^ p
      BY PowerNext
    <3>4. QED
      BY <2>3, <2>4, <3>1, <3>2, <3>3
  <2>6. x = (M * y) * h
    <3>1. Value(v) = Signed(v.sign, M * I)
      BY <1>1, <2>1, <2>2, <2>3, ValueType DEF Magnitude
    <3>2. (M * I) * (Z * h) = (M * (I * Z)) * h /\ (-(M * I)) * (Z * h) = -((M * (I * Z)) * h)
      OBVIOUS
    <3>3. PICK g \in Nat : g = (M * y) * h
      OBVIOUS
    <3>4. Value(v) * u = Signed(v.sign, g)
      BY <2>3, <2>5, <3>1, <3>2, <3>3 DEF Signed
    <3>5. Signed(v.sign, g) = Signed(s, x)
      BY <3>4
    <3>6. g = x
      BY <3>5 DEF Signed
    <3>7. QED
      BY <3>3, <3>6
  <2>7. n = p
    <3>1. /\ y * (h * h) <= x <=> p <= n
          /\ (2 * y) * (h * h) <= x <=> p + 1 <= n
      <4>1. 2 ^ p * (Hidden * Hidden) <= x <=> p <= n
        BY <1>1, <1>3, FactorsOrder
      <4>2. p + 1 \in Nat
        OBVIOUS
      <4>3. 2 ^ (p + 1) * (Hidden * Hidden) <= x <=> p + 1 <= n
        BY <1>1, <1>3, <4>2, FactorsOrder
      <4>4. QED
        BY <1>15, <2>5, <4>1, <4>3
    <3>2. y >= 1
      BY <2>5, PowerPositive
    <3>3. PICK g \in Nat : g = y * h /\ g >= 1
      <4>1. PICK j \in Nat : y = 1 + j
        <5>1. y - 1 \in Nat /\ y = 1 + (y - 1)
          BY <3>2
        <5>2. QED
          BY <5>1
      <4>2. y * h = h + j * h /\ j * h \in Nat
        BY <4>1
      <4>3. QED
        BY <1>15, <4>2
    <3>4. x = g * M /\ y * (h * h) = g * h /\ (2 * y) * (h * h) = g * (2 * h)
      <4>1. /\ (M * y) * h = (y * h) * M /\ y * (h * h) = (y * h) * h
            /\ (2 * y) * (h * h) = (y * h) * (2 * h)
        OBVIOUS
      <4>2. QED
        BY <2>6, <3>3, <4>1
    <3>5. g * h <= g * M
      BY <2>1, ProductOrder
    <3>6. g * M + g <= g * (2 * h)
      BY <2>1, ProductStep
    <3>7. g * M \in Nat /\ g * (2 * h) \in Nat
      OBVIOUS
    <3>8. p <= n /\ ~(p + 1 <= n)
      BY <3>1, <3>3, <3>4, <3>5, <3>6, <3>7
    <3>9. QED
      BY <3>8
  <2>8. w = y
    BY <1>4, <2>5, <2>7
  <2>9. f = (2 * h) * M
    <3>1. PICK g \in Nat : g = (2 * h) * M
      OBVIOUS
    <3>2. w * f = w * g
      <4>1. 2 * ((M * y) * h) = y * ((2 * h) * M)
        OBVIOUS
      <4>2. QED
        BY <1>4, <2>6, <2>8, <3>1, <4>1
    <3>3. w * f \in Nat /\ w * g \in Nat
      OBVIOUS
    <3>4. ~(f < g)
      BY <1>4, <3>2, <3>3, ProductStep
    <3>5. ~(g < f)
      BY <1>4, <3>2, <3>3, ProductStep
    <3>6. QED
      BY <3>1, <3>4, <3>5
  <2>10. Q = M /\ L = 0
    <3>1. PICK d \in Nat : d = 2 * h /\ d >= 1
      BY <1>15
    <3>2. d * Q + L = d * M + 0 /\ 0 \in Nat /\ 0 < d /\ L < d
      <4>1. d * M \in Nat
        OBVIOUS
      <4>2. QED
        BY <1>15, <1>16, <1>17, <2>9, <3>1, <4>1
    <3>3. QED
      BY <3>2, QuotientUnique
  <2>11. c = 0 /\ n >= z /\ n + 2 < m + z
    BY <1>16, <1>17, <2>1, <2>4, <2>7, <2>10
  <2>12. Finite(r) /\ Value(r) * u = Signed(s, (w * h) * (Q + c))
    BY <1>18, <2>11
  <2>13. (w * h) * (Q + c) = x
    <3>1. (w * h) * M = (M * w) * h /\ Q + c = M
      BY <2>10, <2>11
    <3>2. QED
      BY <2>6, <2>8, <3>1
  <2>14. QED
    BY <2>12, <2>13
<1>21. QED
  BY <1>13, <1>14, <1>19, <1>20

\* fp_multiplier.sv: the product of two normal words is off by less than a unit in the
\* last place when it is in range and its rounding does not carry, exact when the exact
\* product is a word, zero below the normal numbers, infinite beyond the largest.
THEOREM ProductsAreAccurate == TbSpec => []ProductWithinUlp
<1>1. TbInv => mul!TypeOK
  BY Widths, MultiplyType, MultiplierWords DEF TbInv, mul!TypeOK, mul!result
<1>2. TbInv => ProductWithinUlp
  <2>1. CASE mul!BothNormal
    BY <1>1, <2>1, NormalProducts DEF ProductWithinUlp
  <2>2. CASE ~mul!BothNormal
    BY <1>1, <2>2 DEF ProductWithinUlp, mul!ProductWithinUlp, mul!ExactWhenRepresentable,
                      mul!UnderflowsToZero, mul!OverflowsToInfinity
  <2>3. QED
    BY <2>1, <2>2
<1>3. QED
  BY <1>2, TbInvHolds, PTL

-----------------------------------------------------------------------------
(* The ring buffer.                                                         *)

USE BufferSizeAssumption, ZeroAssumption

LEMMA NextStateType ==
    ASSUME NEW ptr \in Pointer
    PROVE  NextState(ptr) \in Pointer
  BY DEF Pointer, Index, NextState

LEMMA ResetStateType == ResetState \in Pointer
  BY DEF Pointer, Index, ResetState

LEMMA InitType == Init => TypeOK
  BY ResetStateType DEF Init, TypeOK

LEMMA ResetType == Reset => TypeOK'
  BY ResetStateType DEF Reset, TypeOK

\* One clock edge keeps the types, whatever the client asks for.
LEMMA ClockType ==
    ASSUME TypeOK,
           NEW read_enable \in BOOLEAN, NEW write_enable \in BOOLEAN,
           NEW write_data \in Word,
           Clock(read_enable, write_enable, write_data)
    PROVE  TypeOK'
<1>1. write_ptr' \in Pointer
  BY NextStateType DEF TypeOK, Clock, Write
<1>2. read_ptr' \in Pointer
  BY NextStateType DEF TypeOK, Clock, Read
<1>3. data_buffer_array' \in [Index -> Word]
  BY DEF TypeOK, Clock, Write, Pointer
<1>4. QED
  BY <1>1, <1>2, <1>3 DEF TypeOK

\* Whatever its client does, overruns included, the buffer keeps its pointers
\* inside the array (data_buffer.sv:24-51).
THEOREM TypeCorrect == Spec => []TypeOK
<1>1. TypeOK /\ [Next]_vars => TypeOK'
  BY ResetType, ClockType DEF Next, vars, TypeOK
<1>2. QED
  BY <1>1, InitType, PTL DEF Spec
-----------------------------------------------------------------------------
ClientInv == TypeOK /\ NoOverrun

LEMMA OccupancyType ==
    ASSUME TypeOK
    PROVE  Occupancy \in Int
  BY DEF TypeOK, Occupancy, Pointer, Index

\* The flags seen from the distance between the pointers.
LEMMA FlagsExact ==
    ASSUME ClientInv
    PROVE  /\ buffer_full <=> Occupancy = BufferSize
           /\ buffer_empty <=> Occupancy = 0
  BY DEF ClientInv, TypeOK, NoOverrun, Occupancy, Pointer, Index,
         buffer_full, buffer_empty

\* How a disciplined clock edge moves the distance between the pointers.
LEMMA ClockOccupancy ==
    ASSUME ClientInv,
           NEW read_enable \in BOOLEAN, NEW write_enable \in BOOLEAN,
           NEW write_data \in Word,
           Disciplined(read_enable, write_enable),
           Clock(read_enable, write_enable, write_data)
    PROVE  Occupancy' = Occupancy + (IF write_enable THEN 1 ELSE 0)
                                  - (IF read_enable THEN 1 ELSE 0)
<1> USE DEF ClientInv, TypeOK
<1>1. /\ write_ptr.wrap \in {0, 1} /\ write_ptr.index \in 0 .. BufferSize - 1
      /\ read_ptr.wrap \in {0, 1} /\ read_ptr.index \in 0 .. BufferSize - 1
  BY DEF Pointer, Index
<1>2. read_enable => Occupancy # 0
  BY FlagsExact DEF Disciplined
<1>3. write_ptr' = IF write_enable THEN NextState(write_ptr) ELSE write_ptr
  BY DEF Clock, Write
<1>4. read_ptr' = IF read_enable THEN NextState(read_ptr) ELSE read_ptr
  BY DEF Clock, Read
<1>5. CASE ~write_enable /\ ~read_enable
  BY <1>1, <1>3, <1>4, <1>5 DEF Occupancy
<1>6. CASE write_enable /\ ~read_enable
  <2>1. Occupancy # BufferSize
    BY <1>6, FlagsExact DEF Disciplined
  <2>2. QED
    BY <1>1, <1>3, <1>4, <1>6, <2>1 DEF Occupancy, NextState, NoOverrun
<1>7. CASE ~write_enable /\ read_enable
  BY <1>1, <1>2, <1>3, <1>4, <1>7 DEF Occupancy, NextState, NoOverrun
<1>8. CASE write_enable /\ read_enable
  BY <1>1, <1>2, <1>3, <1>4, <1>8 DEF Occupancy, NextState, NoOverrun
<1>9. QED
  BY <1>5, <1>6, <1>7, <1>8

LEMMA InitClientInv == Init => ClientInv
  BY InitType DEF Init, ClientInv, NoOverrun, Occupancy, ResetState

LEMMA ResetOccupancy == Reset => Occupancy' = 0
  BY DEF Reset, Occupancy, ResetState

LEMMA ClientInvStep == ClientInv /\ [ClientNext]_vars => ClientInv'
<1> SUFFICES ASSUME ClientInv, [ClientNext]_vars PROVE ClientInv'
  OBVIOUS
<1>1. CASE Reset
  BY <1>1, ResetType, ResetOccupancy DEF ClientInv, NoOverrun
<1>2. CASE ClientClock
  <2>1. PICK read_enable \in BOOLEAN, write_enable \in BOOLEAN,
             write_data \in Word :
               /\ Disciplined(read_enable, write_enable)
               /\ Clock(read_enable, write_enable, write_data)
    BY <1>2 DEF ClientClock
  <2>2. TypeOK'
    BY <2>1, ClockType DEF ClientInv
  <2>3. Occupancy' = Occupancy + (IF write_enable THEN 1 ELSE 0)
                               - (IF read_enable THEN 1 ELSE 0)
    BY <2>1, ClockOccupancy
  <2>4. /\ read_enable => Occupancy # 0
        /\ write_enable => Occupancy # BufferSize \/ read_enable
    BY <2>1, FlagsExact DEF Disciplined
  <2>5. NoOverrun'
    BY <2>3, <2>4 DEF ClientInv, NoOverrun
  <2>6. QED
    BY <2>2, <2>5 DEF ClientInv
<1>3. CASE UNCHANGED vars
  BY <1>3 DEF vars, ClientInv, TypeOK, NoOverrun, Occupancy
<1>4. QED
  BY <1>1, <1>2, <1>3 DEF ClientNext

\* A disciplined client never makes one pointer pass the other, over any
\* number of laps of a buffer of any size (data_buffer.sv:24-53).
THEOREM ClientNoOverrun == ClientSpec => [](TypeOK /\ NoOverrun)
<1>1. ClientSpec => []ClientInv
  BY InitClientInv, ClientInvStep, PTL DEF ClientSpec
<1>2. QED
  BY <1>1, PTL DEF ClientInv
-----------------------------------------------------------------------------
\* The stored words are a sequence as long as the distance between the
\* pointers.
ContentsShape == /\ Contents \in Seq(Word)
                 /\ Len(Contents) = Occupancy
                 /\ \A n \in 1 .. Occupancy :
                        Contents[n] = data_buffer_array[Cell(n - 1)]

LEMMA ContentsSeq == ClientInv => ContentsShape
<1> SUFFICES ASSUME ClientInv PROVE ContentsShape
  OBVIOUS
<1>1. Occupancy \in Nat /\ Occupancy <= BufferSize
  BY DEF ClientInv, NoOverrun
<1>2. \A n \in 1 .. Occupancy : Cell(n - 1) \in Index
  BY <1>1 DEF ClientInv, TypeOK, Pointer, Index, Cell
<1>3. Contents \in [1 .. Occupancy -> Word]
  BY <1>2 DEF Contents, ClientInv, TypeOK
<1>4. Contents \in Seq(Word)
  BY <1>1, <1>3, SeqDef
<1>5. Len(Contents) = Occupancy
  BY <1>1, <1>3, <1>4, LenProperties
<1>6. QED
  BY <1>4, <1>5 DEF Contents, ContentsShape

LEMMA ContentsSeqPrime == ClientInv' => ContentsShape'
  BY ContentsSeq, PTL

\* The output is the oldest stored word and the flags are those of the queue.
LEMMA ContentsShown ==
    ClientInv => Fifo!Shows(Contents, buffer_full, buffer_empty, read_data)
<1> SUFFICES ASSUME ClientInv
             PROVE  Fifo!Shows(Contents, buffer_full, buffer_empty, read_data)
  OBVIOUS
<1>1. Len(Contents) = Occupancy
  BY ContentsSeq DEF ContentsShape
<1>2. (buffer_full = (Len(Contents) = BufferSize))
      /\ (buffer_empty = (Len(Contents) = 0))
  BY <1>1, FlagsExact DEF buffer_full, buffer_empty
<1>3. ASSUME Len(Contents) > 0
      PROVE  read_data = Head(Contents)
  <2>1. Contents[1] = data_buffer_array[Cell(0)]
    BY <1>1, <1>3, ContentsSeq DEF ContentsShape, ClientInv, NoOverrun
  <2>2. Cell(0) = read_ptr.index
    BY DEF Cell, ClientInv, TypeOK, Pointer, Index
  <2>3. QED
    BY <2>1, <2>2 DEF read_data
<1>4. QED
  BY <1>2, <1>3 DEF Fifo!Shows

LEMMA ContentsShownPrime ==
    ClientInv' => Fifo!Shows(Contents, buffer_full, buffer_empty, read_data)'
  BY ContentsShown, PTL

\* The next write goes to the cell after the newest word.
LEMMA WriteCell ==
    ASSUME ClientInv, NEW n \in 0 .. BufferSize
    PROVE  Cell(n) = write_ptr.index <=>
              \/ n = Occupancy
              \/ n = 0 /\ Occupancy = BufferSize
              \/ n = BufferSize /\ Occupancy = 0
  BY DEF ClientInv, TypeOK, NoOverrun, Occupancy, Pointer, Index, Cell

LEMMA CellType ==
    ASSUME ClientInv, NEW n \in 0 .. BufferSize
    PROVE  Cell(n) \in Index
  BY DEF ClientInv, TypeOK, Pointer, Index, Cell

\* A read renumbers the cells by one.
LEMMA ReadCell ==
    ASSUME ClientInv, NEW k \in {0, 1}, NEW n \in Nat, n + k <= BufferSize,
           n < BufferSize,
           read_ptr' = IF k = 1 THEN NextState(read_ptr) ELSE read_ptr
    PROVE  Cell(n)' = Cell(n + k)
  BY DEF ClientInv, TypeOK, Pointer, Index, Cell, NextState

\* What a disciplined clock edge does to the stored words.
LEMMA ClockContents ==
    ASSUME ClientInv, ClientInv',
           NEW read_enable \in BOOLEAN, NEW write_enable \in BOOLEAN,
           NEW write_data \in Word,
           Disciplined(read_enable, write_enable),
           Clock(read_enable, write_enable, write_data),
           NEW k, k = (IF read_enable THEN 1 ELSE 0)
    PROVE  /\ Occupancy' = Occupancy + (IF write_enable THEN 1 ELSE 0) - k
           /\ k <= Occupancy
           /\ \A n \in 1 .. Occupancy - k : Contents'[n] = Contents[n + k]
           /\ write_enable => Contents'[Occupancy - k + 1] = write_data
<1>1. Occupancy \in Nat /\ Occupancy <= BufferSize /\ k \in {0, 1}
  BY DEF ClientInv, NoOverrun
<1>2. Occupancy' = Occupancy + (IF write_enable THEN 1 ELSE 0) - k
  BY ClockOccupancy
<1>3. k <= Occupancy
  BY <1>1, FlagsExact DEF Disciplined
<1>4. Occupancy' <= BufferSize
  BY DEF ClientInv, NoOverrun
<1>5. read_ptr' = IF k = 1 THEN NextState(read_ptr) ELSE read_ptr
  BY DEF Clock, Read
<1>6. ASSUME NEW n \in 1 .. Occupancy - k
      PROVE  Contents'[n] = Contents[n + k]
  <2>1. Contents'[n] = data_buffer_array'[Cell(n - 1)']
    BY <1>1, <1>2, <1>3, ContentsSeqPrime DEF ContentsShape
  <2>2. Cell(n - 1)' = Cell(n - 1 + k)
    BY <1>1, <1>5, ReadCell
  <2>3. write_enable => Cell(n - 1 + k) # write_ptr.index
    BY <1>1, <1>2, <1>3, <1>4, WriteCell
  <2>4. data_buffer_array'[Cell(n - 1 + k)] = data_buffer_array[Cell(n - 1 + k)]
    <3>1. Cell(n - 1 + k) \in Index
      BY <1>1, CellType
    <3>2. QED
      BY <2>3, <3>1 DEF Clock, Write, ClientInv, TypeOK
  <2>5. Contents[n + k] = data_buffer_array[Cell(n - 1 + k)]
    BY <1>1, ContentsSeq DEF ContentsShape
  <2>6. QED
    BY <2>1, <2>2, <2>4, <2>5
<1>7. ASSUME write_enable
      PROVE  Contents'[Occupancy - k + 1] = write_data
  <2>1. PICK m \in Nat : m = Occupancy - k
    BY <1>1, <1>3
  <2>2. Contents'[m + 1] = data_buffer_array'[Cell(m)']
    BY <1>1, <1>2, <1>3, <1>7, <2>1, ContentsSeqPrime DEF ContentsShape
  <2>3. Cell(m)' = Cell(m + k)
    <3>1. Occupancy' = m + 1
      BY <1>1, <1>2, <1>7, <2>1
    <3>2. m < BufferSize /\ m + k <= BufferSize
      BY <1>1, <1>4, <2>1, <3>1
    <3>3. QED
      BY <1>1, <1>5, <3>2, ReadCell
  <2>4. Cell(m + k) = write_ptr.index
    <3>1. m + k \in 0 .. BufferSize /\ m + k = Occupancy
      BY <1>1, <2>1
    <3>2. QED
      BY <3>1, WriteCell
  <2>5. data_buffer_array'[write_ptr.index] = write_data
    BY <1>7 DEF Clock, Write, ClientInv, TypeOK, Pointer
  <2>6. QED
    BY <2>1, <2>2, <2>3, <2>4, <2>5
<1>8. QED
  BY <1>2, <1>3, <1>6, <1>7

\* Every step of a disciplined client is a step of the bounded FIFO queue, or
\* changes nothing the client can see.
LEMMA ClientStepSimulation ==
    ASSUME ClientInv, ClientInv', [ClientNext]_vars
    PROVE  [Fifo!Next]_Fifo!vars
<1>1. Fifo!Shows(Contents, buffer_full, buffer_empty, read_data)'
  BY ContentsShownPrime
<1>2. CASE Reset
  <2>1. Contents' \in Seq(Word) /\ Len(Contents') = 0
    BY <1>2, ResetOccupancy, ContentsSeqPrime DEF ContentsShape
  <2>2. Contents' = <<>>
    BY <2>1, EmptySeq
  <2>3. QED
    BY <1>1, <2>2 DEF Fifo!Next, Fifo!Flush
<1>3. CASE UNCHANGED vars
  <2>1. /\ Occupancy' = Occupancy
        /\ \A n : Cell(n)' = Cell(n)
        /\ data_buffer_array' = data_buffer_array
    BY <1>3 DEF vars, Occupancy, Cell
  <2>2. Contents' = Contents
    BY <2>1 DEF Contents
  <2>3. QED
    BY <1>3, <2>2 DEF vars, Fifo!vars, buffer_full, buffer_empty, read_data
<1>4. CASE ClientClock
  <2>1. PICK read_enable \in BOOLEAN, write_enable \in BOOLEAN,
             write_data \in Word :
               /\ Disciplined(read_enable, write_enable)
               /\ Clock(read_enable, write_enable, write_data)
    BY <1>4 DEF ClientClock
  <2> DEFINE k == IF read_enable THEN 1 ELSE 0
  <2>2. /\ Occupancy' = Occupancy + (IF write_enable THEN 1 ELSE 0) - k
        /\ k <= Occupancy
        /\ \A n \in 1 .. Occupancy - k : Contents'[n] = Contents[n + k]
        /\ write_enable => Contents'[Occupancy - k + 1] = write_data
    BY <2>1, ClockContents
  <2>3. /\ Contents \in Seq(Word) /\ Len(Contents) = Occupancy
        /\ Contents' \in Seq(Word) /\ Len(Contents') = Occupancy'
        /\ Occupancy \in Nat /\ Occupancy' \in Nat
        /\ Occupancy <= BufferSize /\ Occupancy' <= BufferSize
    BY ContentsSeq, ContentsSeqPrime DEF ContentsShape, ClientInv, NoOverrun
  <2> DEFINE kept == IF read_enable THEN Tail(Contents) ELSE Contents
  <2>4. /\ kept \in Seq(Word) /\ Len(kept) = Occupancy - k
        /\ \A n \in 1 .. Occupancy - k : kept[n] = Contents[n + k]
    <3>1. CASE read_enable
      <4>1. Contents # <<>>
        BY <2>2, <2>3, <3>1
      <4>2. QED
        BY <2>2, <2>3, <3>1, <4>1, HeadTailProperties
    <3>2. CASE ~read_enable
      BY <2>2, <2>3, <3>2
    <3>3. QED
      BY <3>1, <3>2
  <2>5. CASE write_enable
    <3>1. /\ Append(kept, write_data) \in Seq(Word)
          /\ Len(Append(kept, write_data)) = Occupancy - k + 1
          /\ \A n \in 1 .. Occupancy - k :
                Append(kept, write_data)[n] = kept[n]
          /\ Append(kept, write_data)[Occupancy - k + 1] = write_data
      BY <2>3, <2>4
    <3>2. Contents' = Append(kept, write_data)
      <4>0. k \in Nat /\ k <= Occupancy
        BY <2>2
      <4> HIDE DEF kept, k
      <4>1. Len(Contents') = Occupancy - k + 1
        BY <2>2, <2>3, <2>5, <4>0
      <4>2. \A n \in 1 .. Occupancy - k + 1 :
              Contents'[n] = Append(kept, write_data)[n]
        <5>1. TAKE n \in 1 .. Occupancy - k + 1
        <5>2. CASE n = Occupancy - k + 1
          BY <2>2, <2>5, <3>1, <5>2
        <5>3. CASE n # Occupancy - k + 1
          <6>1. n \in 1 .. Occupancy - k
            BY <2>3, <4>0, <5>3
          <6>2. QED
            BY <2>2, <2>4, <3>1, <6>1
        <5>4. QED
          BY <5>2, <5>3
      <4>3. QED
        BY <2>3, <3>1, <4>1, <4>2, SeqEqual
    <3>3. CASE read_enable
      BY <1>1, <2>2, <2>3, <3>2, <3>3 DEF Fifo!Next, Fifo!PutGet
    <3>4. CASE ~read_enable
      BY <1>1, <2>2, <2>3, <2>5, <3>2, <3>4 DEF Fifo!Next, Fifo!Put
    <3>5. QED
      BY <3>3, <3>4
  <2>6. CASE ~write_enable
    <3>1. Contents' = kept
      BY <2>2, <2>3, <2>4, <2>6, SeqEqual
    <3>2. CASE read_enable
      BY <1>1, <2>2, <2>3, <3>1, <3>2 DEF Fifo!Next, Fifo!Get
    <3>3. CASE ~read_enable
      BY <2>1, <2>6, <3>1, <3>3
         DEF Clock, Write, Read, Fifo!vars, buffer_full, buffer_empty, read_data
    <3>4. QED
      BY <3>2, <3>3
  <2>7. QED
    BY <2>5, <2>6
<1>5. QED
  BY <1>2, <1>3, <1>4 DEF ClientNext

\* Whatever the size of the buffer, a disciplined client gets back exactly
\* the words it put, in order, with exact flags (data_buffer.sv:24-55).
THEOREM ClientImplementsFifo == ClientSpec => ImplementsFifo
<1>1. Init => Fifo!Init
  <2> SUFFICES ASSUME Init PROVE Fifo!Init
    OBVIOUS
  <2>1. ClientInv /\ Occupancy = 0
    BY InitClientInv DEF Init, Occupancy, ResetState
  <2>2. Contents = <<>>
    BY <2>1, ContentsSeq, EmptySeq DEF ContentsShape
  <2>3. QED
    BY <2>1, <2>2, ContentsShown DEF Fifo!Init
<1>2. ClientInv /\ ClientInv' /\ [ClientNext]_vars => [Fifo!Next]_Fifo!vars
  BY ClientStepSimulation
<1>3. ClientSpec => []ClientInv
  BY InitClientInv, ClientInvStep, PTL DEF ClientSpec
<1>4. QED
  BY <1>1, <1>2, <1>3, PTL DEF ClientSpec, ImplementsFifo, Fifo!Spec
=============================================================================
