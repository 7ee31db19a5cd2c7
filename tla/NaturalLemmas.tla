--------------------------- MODULE NaturalLemmas ---------------------------
(***************************************************************************)
(* Lemmas about natural numbers.  First, induction for the members of a    *)
(* set: the induction theorems of the library take an operator as a        *)
(* parameter; this one takes a set, and follows from the order of the      *)
(* finite sets, which is well-founded.  Then recursion, powers of two, and *)
(* division.                                                               *)
(***************************************************************************)
EXTENDS Integers, FiniteSetTheorems, TLAPS

\* A set that holds 0, and with every number the next, holds all of them.
LEMMA NatSetInduction ==
    ASSUME NEW S, 0 \in S, \A n \in Nat : n \in S => n + 1 \in S
    PROVE  Nat \subseteq S
<1> SUFFICES ASSUME NEW m \in Nat, m \notin S PROVE FALSE
  OBVIOUS
<1> DEFINE Below == {b \in SUBSET Nat : \E n \in Nat : n \notin S /\ b = 0 .. n}
<1>1. Below \subseteq FiniteSubsetsOf(Nat)
  BY FS_Interval DEF FiniteSubsetsOf
<1>2. 0 .. m \in Below
  OBVIOUS
<1>3. PICK b \in Below : \A c \in Below : <<c, b>> \notin StrictSubsetOrdering(Nat)
  <2> HIDE DEF Below
  <2>1. QED
    BY <1>1, <1>2, FS_StrictSubsetOrderingWellFounded, WFMin
<1>4. PICK n \in Nat : n \notin S /\ b = 0 .. n
  OBVIOUS
<1>5. n # 0 /\ n - 1 \in Nat /\ n - 1 \notin S
  BY <1>4
<1>6. 0 .. n - 1 \in Below
  BY <1>5
<1>7. <<0 .. n - 1, b>> \in StrictSubsetOrdering(Nat)
  BY <1>4, <1>5, <1>6 DEF StrictSubsetOrdering
<1>8. QED
  BY <1>3, <1>6, <1>7

\* f begins with base, and each further value is step of the one before.
Iterates(f, base, step, L) == f[0] = base /\ \A n \in 1 .. L : f[n] = step[<<f[n - 1], n>>]

\* A function defined by recursion over 0 .. L exists when its step is a function
\* on a set of states.
LEMMA RecursionExists ==
    ASSUME NEW State, NEW base \in State, NEW L \in Nat,
           NEW step \in [State \X (1 .. L) -> State]
    PROVE  \E f \in [0 .. L -> State] : Iterates(f, base, step, L)
<1> DEFINE Upto(f, l) == /\ f \in [0 .. l -> State]
                         /\ f = [n \in 0 .. l |-> IF n = 0 THEN base ELSE step[<<f[n - 1], n>>]]
           S == {l \in Nat : l <= L => \E f : Upto(f, l)}
<1>1. 0 \in S
  <2>1. Upto([n \in 0 .. 0 |-> base], 0)
    OBVIOUS
  <2>2. QED
    BY <2>1
<1>2. ASSUME NEW l \in Nat, l \in S PROVE l + 1 \in S
  <2> SUFFICES ASSUME l + 1 <= L PROVE \E f : Upto(f, l + 1)
    OBVIOUS
  <2>1. PICK f : Upto(f, l)
    BY <1>2
  <2> DEFINE next == step[<<f[l], l + 1>>]
             g == [n \in 0 .. l + 1 |-> IF n = l + 1 THEN next ELSE f[n]]
  <2>2. f[l] \in State /\ next \in State
    BY <2>1
  <2>3. g \in [0 .. l + 1 -> State]
    BY <2>1, <2>2
  <2>4. ASSUME NEW n \in 0 .. l + 1
        PROVE  g[n] = IF n = 0 THEN base ELSE step[<<g[n - 1], n>>]
    <3>1. CASE n = l + 1
      <4>1. g[n] = next /\ g[n - 1] = f[l] /\ n # 0
        BY <3>1
      <4>2. QED
        BY <3>1, <4>1
    <3>2. CASE n # l + 1
      <4>1. n \in 0 .. l /\ g[n] = f[n]
        BY <3>2
      <4>2. CASE n = 0
        BY <2>1, <4>1, <4>2
      <4>3. CASE n # 0
        <5>1. g[n - 1] = f[n - 1]
          BY <4>1, <4>3
        <5>2. QED
          BY <2>1, <4>1, <4>3, <5>1
      <4>4. QED
        BY <4>2, <4>3
    <3>3. QED
      BY <3>1, <3>2
  <2>5. Upto(g, l + 1)
    <3>1. g = [n \in 0 .. l + 1 |-> g[n]]
      OBVIOUS
    <3> HIDE DEF g
    <3>2. g = [n \in 0 .. l + 1 |-> IF n = 0 THEN base ELSE step[<<g[n - 1], n>>]]
      BY <2>4, <3>1
    <3>3. QED
      BY <2>3, <3>2
  <2>6. QED
    BY <2>5
<1>3. L \in S
  <2> HIDE DEF S
  <2>1. QED
    BY <1>1, <1>2, NatSetInduction
<1>4. PICK f : Upto(f, L)
  BY <1>3
<1>5. \A n \in 0 .. L : f[n] = IF n = 0 THEN base ELSE step[<<f[n - 1], n>>]
  BY <1>4
<1>6. Iterates(f, base, step, L)
  <2>1. 0 \in 0 .. L /\ \A n \in 1 .. L : n \in 0 .. L /\ n # 0
    OBVIOUS
  <2> HIDE DEF Upto, S
  <2>2. QED
    BY <1>5, <2>1 DEF Iterates
<1>7. f \in [0 .. L -> State]
  BY <1>4
<1> HIDE DEF Upto
<1>8. QED
  BY <1>6, <1>7

\* What holds of the first value and is kept by each step holds of the last.
LEMMA LoopKeeps ==
    ASSUME NEW f, NEW Good, NEW L \in Nat, f[0] \in Good[0],
           \A n \in 0 .. L - 1 : f[n] \in Good[n] => f[n + 1] \in Good[n + 1]
    PROVE  f[L] \in Good[L]
<1> DEFINE S == {n \in Nat : n <= L => f[n] \in Good[n]}
<1>1. 0 \in S
  OBVIOUS
<1>2. ASSUME NEW n \in Nat, n \in S PROVE n + 1 \in S
  BY <1>2
<1>3. L \in S
  <2> HIDE DEF S
  <2>1. QED
    BY <1>1, <1>2, NatSetInduction
<1>4. QED
  BY <1>3

\* rule gives each member of D a value from those of smaller members.
LooksBelow(rule, S, L, D) ==
  \A f, h \in [1 .. L -> S] : \A i \in D :
    (\A j \in 1 .. i - 1 : f[j] = h[j]) => rule[<<f, i>>] = rule[<<h, i>>]

\* s is a loop over 1 .. L that gives the members of D their values.
Fills(s, base, rule, L, D) ==
  /\ s[0] = base
  /\ \A n \in 1 .. L : s[n] = IF n \in D THEN [s[n - 1] EXCEPT ![n] = rule[<<s[n - 1], n>>]]
                                         ELSE s[n - 1]

\* f is what it leaves.
Follows(f, base, rule, L, D) ==
  \A i \in 1 .. L : f[i] = IF i \in D THEN rule[<<f, i>>] ELSE base[i]

LEMMA LoopFollowsRule ==
    ASSUME NEW S, NEW L \in Nat, NEW base \in [1 .. L -> S], NEW D \in SUBSET (1 .. L),
           NEW rule \in [[1 .. L -> S] \X (1 .. L) -> S],
           LooksBelow(rule, S, L, D), NEW s, Fills(s, base, rule, L, D)
    PROVE  s[L] \in [1 .. L -> S] /\ Follows(s[L], base, rule, L, D)
<1> DEFINE Good == [n \in 0 .. L |->
               {f \in [1 .. L -> S] : \A i \in 1 .. L :
                  f[i] = IF i \in D /\ i <= n THEN rule[<<f, i>>] ELSE base[i]}]
<1>1. s[0] \in Good[0]
  BY DEF Good, Fills
<1>2. ASSUME NEW n \in 0 .. L - 1, s[n] \in Good[n] PROVE s[n + 1] \in Good[n + 1]
  <2>1. /\ n \in 0 .. L /\ n + 1 \in 1 .. L /\ n + 1 \in 0 .. L /\ (n + 1) - 1 = n
        /\ \A i \in 1 .. L : i <= n + 1 <=> i <= n \/ i = n + 1
        /\ \A i \in 1 .. L : i <= n => i # n + 1
    OBVIOUS
  <2>2. PICK f \in [1 .. L -> S] : /\ f = s[n]
           /\ \A i \in 1 .. L : f[i] = IF i \in D /\ i <= n THEN rule[<<f, i>>] ELSE base[i]
    BY <1>2, <2>1
  <2>3. CASE n + 1 \in D
    <3>1. PICK h \in [1 .. L -> S] : h = [f EXCEPT ![n + 1] = rule[<<f, n + 1>>]]
      BY <2>1
    <3>2. s[n + 1] = h
      BY <2>1, <2>2, <2>3, <3>1 DEF Fills
    <3>3. h[n + 1] = rule[<<f, n + 1>>] /\ \A i \in 1 .. L : i # n + 1 => h[i] = f[i]
      BY <2>1, <3>1
    <3>4. ASSUME NEW i \in D, i <= n + 1 PROVE rule[<<f, i>>] = rule[<<h, i>>]
      <4>1. \A j \in 1 .. i - 1 : j \in 1 .. L /\ j # n + 1
        BY <3>4
      <4>2. \A j \in 1 .. i - 1 : f[j] = h[j]
        BY <3>3, <4>1
      <4>3. QED
        BY <4>2 DEF LooksBelow
    <3>5. ASSUME NEW i \in 1 .. L
          PROVE  h[i] = IF i \in D /\ i <= n + 1 THEN rule[<<h, i>>] ELSE base[i]
      <4>1. CASE i = n + 1
        BY <2>1, <2>3, <3>3, <3>4, <4>1
      <4>2. CASE i # n + 1
        BY <2>1, <2>2, <3>3, <3>4, <4>2
      <4>3. QED
        BY <4>1, <4>2
    <3>6. QED
      BY <2>1, <3>2, <3>5
  <2>4. CASE n + 1 \notin D
    BY <2>1, <2>2, <2>4 DEF Fills
  <2>5. QED
    BY <2>3, <2>4
<1>3. s[L] \in Good[L]
  <2> HIDE DEF Good
  <2>1. QED
    BY <1>1, <1>2, LoopKeeps
<1>4. L \in 0 .. L /\ \A i \in 1 .. L : i <= L
  OBVIOUS
<1>5. s[L] \in {f \in [1 .. L -> S] : \A i \in 1 .. L :
                  f[i] = IF i \in D /\ i <= L THEN rule[<<f, i>>] ELSE base[i]}
  BY <1>3, <1>4
<1> HIDE DEF Good
<1>6. QED
  BY <1>4, <1>5 DEF Follows

\* A function defined by such a rule exists.
IsSolution(f, rule, L) == \A i \in 1 .. L : f[i] = rule[<<f, i>>]

LEMMA RuleHasSolution ==
    ASSUME NEW S, NEW L \in Nat, NEW base \in [1 .. L -> S],
           NEW rule \in [[1 .. L -> S] \X (1 .. L) -> S],
           LooksBelow(rule, S, L, 1 .. L)
    PROVE  \E f \in [1 .. L -> S] : IsSolution(f, rule, L)
<1> DEFINE State == [1 .. L -> S]
           step == [p \in State \X (1 .. L) |-> [p[1] EXCEPT ![p[2]] = rule[p]]]
<1>1. step \in [State \X (1 .. L) -> State]
  <2>1. ASSUME NEW p \in State \X (1 .. L) PROVE [p[1] EXCEPT ![p[2]] = rule[p]] \in State
    <3>1. p[1] \in State /\ p[2] \in 1 .. L /\ rule[p] \in S
      OBVIOUS
    <3>2. QED
      BY <3>1
  <2>2. QED
    BY <2>1
<1>2. PICK s \in [0 .. L -> State] : Iterates(s, base, step, L)
  <2> HIDE DEF step
  <2>1. base \in State
    OBVIOUS
  <2> HIDE DEF State
  <2>2. QED
    BY <1>1, <2>1, RecursionExists
<1>3. \A n \in 1 .. L : s[n] = [s[n - 1] EXCEPT ![n] = rule[<<s[n - 1], n>>]]
  <2> SUFFICES ASSUME NEW n \in 1 .. L
               PROVE  s[n] = [s[n - 1] EXCEPT ![n] = rule[<<s[n - 1], n>>]]
    OBVIOUS
  <2>1. n - 1 \in 0 .. L
    OBVIOUS
  <2>2. s[n - 1] \in State
    BY <1>2, <2>1
  <2>3. s[n] = step[<<s[n - 1], n>>]
    BY <1>2 DEF Iterates
  <2>4. QED
    BY <2>2, <2>3
<1>4. s[0] = base
  BY <1>2 DEF Iterates
<1>5. \A i \in 1 .. L : s[L][i] = rule[<<s[L], i>>]
  <2>1. Fills(s, base, rule, L, 1 .. L)
    BY <1>3, <1>4 DEF Fills
  <2>2. (1 .. L) \in SUBSET (1 .. L)
    OBVIOUS
  <2> HIDE DEF step
  <2>3. Follows(s[L], base, rule, L, 1 .. L)
    BY <2>1, <2>2, LoopFollowsRule
  <2>4. QED
    BY <2>3 DEF Follows
<1>6. s[L] \in [1 .. L -> S]
  BY <1>2
<1>7. QED
  BY <1>5, <1>6 DEF IsSolution

-----------------------------------------------------------------------------
(* Powers of two.                                                           *)

\* Powers of two count subsets: one more element doubles them.
LEMMA PowerNext ==
    ASSUME NEW n \in Nat
    PROVE  2 ^ n \in Nat /\ 2 ^ (n + 1) = 2 * 2 ^ n
<1> DEFINE S == 0 .. n - 1
           T == 0 .. n
           With == {b \in SUBSET T : n \in b}
           add == [b \in SUBSET S |-> b \cup {n}]
<1>1. /\ IsFiniteSet(S) /\ Cardinality(S) = n
      /\ IsFiniteSet(T) /\ Cardinality(T) = n + 1
  BY FS_Interval
<1>2. /\ IsFiniteSet(SUBSET S) /\ Cardinality(SUBSET S) = 2 ^ n
      /\ IsFiniteSet(SUBSET T) /\ Cardinality(SUBSET T) = 2 ^ (n + 1)
  <2> HIDE DEF S, T
  <2>1. QED
    BY <1>1, FS_SUBSET
<1>3. n \notin S /\ T = S \cup {n}
  OBVIOUS
<1> HIDE DEF S, T
<1>4. add \in Bijection(SUBSET S, With)
  <2>1. add \in [SUBSET S -> With]
    BY <1>3
  <2>2. ASSUME NEW b \in SUBSET S, NEW c \in SUBSET S, add[b] = add[c] PROVE b = c
    BY <1>3, <2>2
  <2>3. ASSUME NEW d \in With PROVE \E b \in SUBSET S : add[b] = d
    <3>1. d \ {n} \in SUBSET S /\ add[d \ {n}] = d
      BY <1>3
    <3>2. QED
      BY <3>1
  <2> HIDE DEF With, add
  <2>4. QED
    BY <2>1, <2>2, <2>3 DEF Bijection, Injection, Surjection, IsInjective
<1>5. IsFiniteSet(With) /\ Cardinality(With) = 2 ^ n
  <2> HIDE DEF With, add
  <2>1. ExistsBijection(SUBSET S, With)
    BY <1>4 DEF ExistsBijection
  <2>2. QED
    BY <1>2, <2>1, FS_Bijection
<1>6. SUBSET T = (SUBSET S) \cup With /\ (SUBSET S) \cap With = {}
  BY <1>3
<1>7. 2 ^ n \in Nat
  BY <1>2, FS_CardinalityType
<1>8. 2 ^ (n + 1) = 2 ^ n + 2 ^ n
  <2> HIDE DEF With, add
  <2>1. Cardinality(SUBSET T)
          = Cardinality(SUBSET S) + Cardinality(With) - Cardinality((SUBSET S) \cap With)
    BY <1>2, <1>5, <1>6, FS_Union
  <2>2. Cardinality((SUBSET S) \cap With) = 0
    BY <1>6, FS_EmptySet
  <2>3. QED
    BY <1>2, <1>5, <1>7, <2>1, <2>2
<1>9. QED
  BY <1>7, <1>8

LEMMA PowerZero == 2 ^ 0 = 1
  OBVIOUS

LEMMA PowerPositive ==
    ASSUME NEW n \in Nat
    PROVE  2 ^ n \in Nat /\ 2 ^ n >= 1
<1> DEFINE S == {k \in Nat : 2 ^ k >= 1}
<1>1. 0 \in S
  BY PowerZero
<1>2. ASSUME NEW k \in Nat, k \in S PROVE k + 1 \in S
  BY <1>2, PowerNext
<1>3. n \in S
  <2> HIDE DEF S
  <2>1. QED
    BY <1>1, <1>2, NatSetInduction
<1>4. QED
  BY <1>3, PowerNext

LEMMA PowerSum ==
    ASSUME NEW k \in Nat, NEW n \in Nat
    PROVE  2 ^ (k + n) = 2 ^ k * 2 ^ n
<1> DEFINE S == {j \in Nat : 2 ^ (k + j) = 2 ^ k * 2 ^ j}
<1>1. 0 \in S
  BY PowerZero, PowerPositive
<1>2. ASSUME NEW j \in Nat, j \in S PROVE j + 1 \in S
  <2>1. 2 ^ (k + (j + 1)) = 2 * 2 ^ (k + j)
    <3>1. k + (j + 1) = (k + j) + 1 /\ k + j \in Nat
      OBVIOUS
    <3>2. QED
      BY <3>1, PowerNext
  <2>2. 2 ^ (j + 1) = 2 * 2 ^ j /\ 2 ^ j \in Nat /\ 2 ^ k \in Nat
    BY PowerNext
  <2>3. 2 ^ (k + j) = 2 ^ k * 2 ^ j
    BY <1>2
  <2>4. QED
    BY <2>1, <2>2, <2>3
<1>3. n \in S
  <2> HIDE DEF S
  <2>1. QED
    BY <1>1, <1>2, NatSetInduction
<1>4. QED
  BY <1>3

\* The order of exponents is that of the powers, with a factor of two at least.
LEMMA PowerOrder ==
    ASSUME NEW k \in Nat, NEW n \in Nat
    PROVE  /\ k <= n => 2 ^ k <= 2 ^ n
           /\ k < n => 2 * 2 ^ k <= 2 ^ n
           /\ 2 ^ k < 2 * 2 ^ n => k <= n
<1>1. ASSUME NEW i \in Nat, NEW j \in Nat, i <= j PROVE 2 ^ i <= 2 ^ j
  <2>1. PICK d \in Nat : j = i + d
    <3>1. j - i \in Nat /\ j = i + (j - i)
      BY <1>1
    <3>2. QED
      BY <3>1
  <2>2. 2 ^ j = 2 ^ i * 2 ^ d
    BY <2>1, PowerSum
  <2>3. 2 ^ i \in Nat /\ 2 ^ d \in Nat /\ 2 ^ d >= 1
    BY PowerPositive
  <2>4. QED
    BY <2>2, <2>3
<1>2. ASSUME NEW i \in Nat, NEW j \in Nat, i < j PROVE 2 * 2 ^ i <= 2 ^ j
  BY <1>1, <1>2, PowerNext
<1>3. QED
  BY <1>1, <1>2, PowerPositive

\* A number from 2 ^ l on has a leading one at l or above.
LEMMA LeadingBit ==
    ASSUME NEW l \in Nat, NEW h \in Nat, NEW m \in Nat, 2 ^ l <= m, m < 2 ^ h
    PROVE  \E p \in l .. h - 1 : 2 ^ p <= m /\ m < 2 ^ (p + 1)
<1> DEFINE S == {k \in Nat : 2 ^ l <= m /\ m < 2 ^ k
                               => \E p \in l .. k - 1 : 2 ^ p <= m /\ m < 2 ^ (p + 1)}
<1>1. 0 \in S
  BY PowerZero, PowerPositive
<1>2. ASSUME NEW k \in Nat, k \in S PROVE k + 1 \in S
  <2> SUFFICES ASSUME m < 2 ^ (k + 1)
               PROVE  \E p \in l .. (k + 1) - 1 : 2 ^ p <= m /\ m < 2 ^ (p + 1)
    OBVIOUS
  <2>1. CASE m < 2 ^ k
    <3>1. PICK p \in l .. k - 1 : 2 ^ p <= m /\ m < 2 ^ (p + 1)
      BY <1>2, <2>1
    <3>2. QED
      BY <3>1
  <2>2. CASE ~(m < 2 ^ k)
    <3>1. 2 ^ k <= m
      BY <2>2, PowerPositive
    <3>2. l <= k
      BY PowerPositive, PowerNext, PowerOrder
    <3>3. k \in l .. (k + 1) - 1
      BY <3>2
    <3>4. QED
      BY <3>1, <3>3
  <2>3. QED
    BY <2>1, <2>2
<1>3. h \in S
  <2> HIDE DEF S
  <2>1. QED
    BY <1>1, <1>2, NatSetInduction
<1>4. QED
  BY <1>3

-----------------------------------------------------------------------------
(* Products, quotients and remainders.                                      *)

LEMMA Division ==
    ASSUME NEW m \in Nat, NEW d \in Nat, d >= 1
    PROVE  /\ m \div d \in Nat /\ m % d \in Nat /\ m % d < d
           /\ m = d * (m \div d) + (m % d)
  OBVIOUS

\* A product with a larger factor is larger by the other factor at least.
LEMMA ProductStep ==
    ASSUME NEW d \in Nat, NEW x \in Int, NEW y \in Int, x < y
    PROVE  d * x + d <= d * y
<1>1. PICK k \in Nat : y = x + 1 + k
  <2>1. y - x - 1 \in Nat /\ y = x + 1 + (y - x - 1)
    OBVIOUS
  <2>2. QED
    BY <2>1
<1>2. d * y = d * x + d + d * k
  BY <1>1
<1>3. d * k \in Nat /\ d * x \in Int
  OBVIOUS
<1>4. QED
  BY <1>2, <1>3

LEMMA QuotientUnique ==
    ASSUME NEW d \in Nat, NEW q \in Nat, NEW r \in Nat, r < d,
           NEW x \in Nat, NEW y \in Nat, y < d, d * q + r = d * x + y
    PROVE  q = x /\ r = y
<1>1. d * q \in Nat /\ d * x \in Nat
  OBVIOUS
<1>2. CASE q < x
  BY <1>1, <1>2, ProductStep
<1>3. CASE x < q
  BY <1>1, <1>3, ProductStep
<1>4. CASE q = x
  BY <1>1, <1>4
<1>5. QED
  BY <1>2, <1>3, <1>4

LEMMA QuotientIs ==
    ASSUME NEW d \in Nat, NEW q \in Nat, NEW r \in Nat, r < d
    PROVE  (d * q + r) \div d = q /\ (d * q + r) % d = r
<1>1. PICK m \in Nat : m = d * q + r
  BY d * q \in Nat
<1>2. d >= 1
  OBVIOUS
<1>3. m \div d = q /\ m % d = r
  BY <1>1, <1>2, Division, QuotientUnique
<1>4. QED
  BY <1>1, <1>3

LEMMA SmallRemainder ==
    ASSUME NEW m \in Nat, NEW d \in Nat, m < d
    PROVE  m % d = m
<1>1. d >= 1
  OBVIOUS
<1>2. PICK q \in Nat, r \in Nat : m = d * q + r /\ r < d /\ r = m % d
  <2>1. /\ m \div d \in Nat /\ m % d \in Nat /\ m % d < d
        /\ m = d * (m \div d) + (m % d)
    BY <1>1, Division
  <2>2. QED
    BY <2>1
<1>3. q = 0
  <2> SUFFICES ASSUME q # 0 PROVE FALSE
    OBVIOUS
  <2>1. PICK k \in Nat : q = 1 + k
    <3>1. q - 1 \in Nat /\ q = 1 + (q - 1)
      OBVIOUS
    <3>2. QED
      BY <3>1
  <2>2. d * q = d + d * k /\ d * k \in Nat
    BY <2>1
  <2>3. QED
    BY <1>2, <2>2
<1>4. QED
  BY <1>2, <1>3

LEMMA RemainderType ==
    ASSUME NEW m \in Int, NEW d \in Nat, d >= 1
    PROVE  m % d \in 0 .. d - 1
  OBVIOUS

LEMMA ProductOrder ==
    ASSUME NEW d \in Nat, NEW x \in Int, NEW y \in Int, x <= y
    PROVE  d * x <= d * y
<1>1. CASE x = y
  BY <1>1
<1>2. CASE x < y
  <2>1. d * x \in Int /\ d * y \in Int
    OBVIOUS
  <2>2. QED
    BY <1>2, <2>1, ProductStep
<1>3. QED
  BY <1>1, <1>2

-----------------------------------------------------------------------------
(* Congruence.                                                              *)

Cong(m, n, d) == \E z \in Int : m = n + d * z

LEMMA CongRemainder ==
    ASSUME NEW m \in Int, NEW d \in Nat, d >= 1
    PROVE  Cong(m % d, m, d) /\ Cong(m, m % d, d)
<1>1. m \div d \in Int /\ m % d \in Int /\ m = d * (m \div d) + (m % d)
  OBVIOUS
<1>2. PICK q \in Int, r \in Int : q = m \div d /\ r = m % d /\ m = d * q + r
  BY <1>1
<1>3. -q \in Int /\ r = m + d * (-q) /\ m = r + d * q
  BY <1>2
<1>4. QED
  BY <1>2, <1>3 DEF Cong

LEMMA CongEquals ==
    ASSUME NEW m \in Int, NEW d \in Nat
    PROVE  Cong(m, m, d)
<1>1. m = m + d * 0
  OBVIOUS
<1>2. QED
  BY <1>1 DEF Cong

LEMMA CongTrans ==
    ASSUME NEW l \in Int, NEW m \in Int, NEW n \in Int, NEW d \in Nat, Cong(l, m, d), Cong(m, n, d)
    PROVE  Cong(l, n, d)
<1>1. PICK y \in Int, z \in Int : l = m + d * y /\ m = n + d * z
  BY DEF Cong
<1>2. y + z \in Int /\ l = n + d * (y + z)
  BY <1>1
<1>3. QED
  BY <1>2 DEF Cong

LEMMA CongSwap ==
    ASSUME NEW m \in Int, NEW n \in Int, NEW d \in Nat, Cong(m, n, d)
    PROVE  Cong(n, m, d)
<1>1. PICK z \in Int : m = n + d * z
  BY DEF Cong
<1>2. -z \in Int /\ n = m + d * (-z)
  BY <1>1
<1>3. QED
  BY <1>2 DEF Cong

LEMMA CongSum ==
    ASSUME NEW k \in Int, NEW l \in Int, NEW m \in Int, NEW n \in Int, NEW d \in Nat,
           Cong(k, l, d), Cong(m, n, d)
    PROVE  Cong(k + m, l + n, d)
<1>1. PICK y \in Int, z \in Int : k = l + d * y /\ m = n + d * z
  BY DEF Cong
<1>2. y + z \in Int /\ k + m = (l + n) + d * (y + z)
  BY <1>1
<1>3. QED
  BY <1>2 DEF Cong

LEMMA CongProduct ==
    ASSUME NEW k \in Int, NEW m \in Int, NEW n \in Int, NEW d \in Nat, Cong(m, n, d)
    PROVE  Cong(k * m, k * n, d) /\ Cong(m * k, n * k, d)
<1>1. PICK z \in Int : m = n + d * z
  BY DEF Cong
<1>2. k * z \in Int /\ k * m = k * n + d * (k * z) /\ m * k = n * k + d * (k * z)
  BY <1>1
<1>3. QED
  BY <1>2 DEF Cong

\* Congruent remainders are the same.
LEMMA CongUnique ==
    ASSUME NEW d \in Nat, NEW m \in 0 .. d - 1, NEW n \in 0 .. d - 1, Cong(m, n, d)
    PROVE  m = n
<1>1. PICK z \in Int : m = n + d * z
  BY DEF Cong
<1>2. CASE z = 0
  BY <1>1, <1>2
<1>3. CASE z > 0
  <2>1. d * 0 + d <= d * z
    BY <1>3, ProductStep
  <2>2. d * z \in Int
    OBVIOUS
  <2>3. QED
    BY <1>1, <2>1, <2>2
<1>4. CASE z < 0
  <2>1. d * z + d <= d * 0
    BY <1>4, ProductStep
  <2>2. d * z \in Int
    OBVIOUS
  <2>3. QED
    BY <1>1, <2>1, <2>2
<1>5. QED
  BY <1>2, <1>3, <1>4

-----------------------------------------------------------------------------
(* Sums.                                                                    *)

\* s is the sums of the first terms of f.
AddsUp(s, f, L) == s[0] = 0 /\ \A n \in 1 .. L : s[n] = s[n - 1] + f[n]

Partials(f, L) == CHOOSE s \in [0 .. L -> Int] : AddsUp(s, f, L)
SumTo(f, L) == Partials(f, L)[L]

LEMMA PartialsAre ==
    ASSUME NEW L \in Nat, NEW f \in [1 .. L -> Int]
    PROVE  /\ Partials(f, L) \in [0 .. L -> Int] /\ AddsUp(Partials(f, L), f, L)
           /\ SumTo(f, L) \in Int
<1> DEFINE step == [p \in Int \X (1 .. L) |-> p[1] + f[p[2]]]
<1>1. step \in [Int \X (1 .. L) -> Int]
  <2>1. ASSUME NEW p \in Int \X (1 .. L) PROVE p[1] + f[p[2]] \in Int
    OBVIOUS
  <2>2. QED
    BY <2>1
<1>2. \A m \in Int : \A n \in 1 .. L : step[<<m, n>>] = m + f[n]
  OBVIOUS
<1> HIDE DEF step
<1>3. PICK s \in [0 .. L -> Int] : Iterates(s, 0, step, L)
  <2> DEFINE State == Int
             zero == 0
  <2>1. zero \in State /\ step \in [State \X (1 .. L) -> State]
    BY <1>1
  <2> HIDE DEF State, zero
  <2>2. \E s \in [0 .. L -> State] : Iterates(s, zero, step, L)
    BY <2>1, RecursionExists
  <2>3. QED
    BY <2>2 DEF State, zero
<1>4. AddsUp(s, f, L)
  <2>1. \A n \in 1 .. L : s[n - 1] \in Int
    BY <1>3
  <2>2. QED
    BY <1>2, <1>3, <2>1 DEF Iterates, AddsUp
<1>5. Partials(f, L) \in [0 .. L -> Int] /\ AddsUp(Partials(f, L), f, L)
  BY <1>3, <1>4 DEF Partials
<1>6. L \in 0 .. L
  OBVIOUS
<1>7. QED
  BY <1>5, <1>6 DEF SumTo

\* One term changed changes the sum by the difference.
LEMMA SumChange ==
    ASSUME NEW L \in Nat, NEW f \in [1 .. L -> Int], NEW h \in [1 .. L -> Int],
           NEW q \in 1 .. L, \A n \in 1 .. L : n # q => f[n] = h[n]
    PROVE  SumTo(h, L) = SumTo(f, L) + h[q] - f[q]
<1> DEFINE r == Partials(f, L)
           s == Partials(h, L)
           S == {n \in Nat : n <= L => s[n] = r[n] + (IF q <= n THEN h[q] - f[q] ELSE 0)}
<1>1. /\ r \in [0 .. L -> Int] /\ r[0] = 0 /\ \A n \in 1 .. L : r[n] = r[n - 1] + f[n]
      /\ s \in [0 .. L -> Int] /\ s[0] = 0 /\ \A n \in 1 .. L : s[n] = s[n - 1] + h[n]
  BY PartialsAre DEF AddsUp
<1> HIDE DEF r, s
<1>2. 0 \in S
  BY <1>1
<1>3. ASSUME NEW n \in Nat, n \in S PROVE n + 1 \in S
  <2> SUFFICES ASSUME n + 1 <= L
               PROVE  s[n + 1] = r[n + 1] + (IF q <= n + 1 THEN h[q] - f[q] ELSE 0)
    OBVIOUS
  <2>1. n + 1 \in 1 .. L /\ n \in 0 .. L /\ (n + 1) - 1 = n
    OBVIOUS
  <2>2. r[n + 1] = r[n] + f[n + 1] /\ s[n + 1] = s[n] + h[n + 1]
    BY <1>1, <2>1
  <2>3. PICK a \in Int, b \in Int, u \in Int, w \in Int, y \in Int, z \in Int :
          a = r[n] /\ b = s[n] /\ u = f[n + 1] /\ w = h[n + 1] /\ y = f[q] /\ z = h[q]
    BY <1>1, <2>1
  <2>4. b = a + (IF q <= n THEN z - y ELSE 0)
    BY <1>3, <2>1, <2>3
  <2>5. (q # n + 1 => u = w) /\ (q = n + 1 => u = y /\ w = z)
    BY <2>1, <2>3
  <2>6. b + w = (a + u) + (IF q <= n + 1 THEN z - y ELSE 0)
    BY <2>4, <2>5
  <2>7. QED
    BY <2>2, <2>3, <2>6
<1>4. L \in S
  <2> HIDE DEF S
  <2>1. QED
    BY <1>2, <1>3, NatSetInduction
<1>5. s[L] = r[L] + (h[q] - f[q]) /\ s[L] \in Int /\ r[L] \in Int
  BY <1>1, <1>4
<1>6. QED
  BY <1>5 DEF SumTo, r, s

LEMMA SumEmpty ==
    ASSUME NEW L \in Nat, NEW f \in [1 .. L -> Int], \A n \in 1 .. L : f[n] = 0
    PROVE  SumTo(f, L) = 0
<1> DEFINE r == Partials(f, L)
           S == {n \in Nat : n <= L => r[n] = 0}
<1>1. r \in [0 .. L -> Int] /\ r[0] = 0 /\ \A n \in 1 .. L : r[n] = r[n - 1] + f[n]
  BY PartialsAre DEF AddsUp
<1> HIDE DEF r
<1>2. 0 \in S
  BY <1>1
<1>3. ASSUME NEW n \in Nat, n \in S PROVE n + 1 \in S
  <2> SUFFICES ASSUME n + 1 <= L PROVE r[n + 1] = 0
    OBVIOUS
  <2>1. n + 1 \in 1 .. L /\ (n + 1) - 1 = n
    OBVIOUS
  <2>2. QED
    BY <1>1, <1>3, <2>1
<1>4. L \in S
  <2> HIDE DEF S
  <2>1. QED
    BY <1>2, <1>3, NatSetInduction
<1>5. QED
  BY <1>4 DEF SumTo, r

\* All terms but one are zero.
LEMMA SumSingle ==
    ASSUME NEW L \in Nat, NEW f \in [1 .. L -> Int], NEW q \in 1 .. L,
           \A n \in 1 .. L : n # q => f[n] = 0
    PROVE  SumTo(f, L) = f[q]
<1> DEFINE zero == [n \in 1 .. L |-> 0]
<1>1. zero \in [1 .. L -> Int] /\ \A n \in 1 .. L : zero[n] = 0
  OBVIOUS
<1> HIDE DEF zero
<1>2. SumTo(zero, L) = 0
  BY <1>1, SumEmpty
<1>3. SumTo(f, L) = SumTo(zero, L) + f[q] - zero[q]
  BY <1>1, SumChange
<1>4. f[q] \in Int /\ zero[q] = 0
  BY <1>1
<1>5. QED
  BY <1>2, <1>3, <1>4

LEMMA SumOfTwo ==
    ASSUME NEW f \in [1 .. 2 -> Int]
    PROVE  SumTo(f, 2) = f[1] + f[2]
<1> DEFINE r == Partials(f, 2)
<1>1. r[0] = 0 /\ \A n \in 1 .. 2 : r[n] = r[n - 1] + f[n]
  BY PartialsAre DEF AddsUp
<1>2. f[1] \in Int /\ f[2] \in Int
  OBVIOUS
<1> HIDE DEF r
<1>3. r[1] = r[0] + f[1] /\ r[2] = r[1] + f[2]
  BY <1>1
<1>4. QED
  BY <1>1, <1>2, <1>3 DEF SumTo, r
=============================================================================
