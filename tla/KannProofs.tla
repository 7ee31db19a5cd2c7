--------------------------- MODULE KannProofs ----------------------------
(***************************************************************************)
(* Proofs about three parts of the library.  The linearization of a graph, *)
(* for every graph and every list of roots: Kahn's algorithm as            *)
(* kad_compile_array runs it, with the flags of kad_mark_back.  Training,  *)
(* for every number of rows, batch size and sequence of costs.             *)
(* Unrolling, for every recurrent network and every length.                *)
(***************************************************************************)
EXTENDS KadCompile, KannTrain, KannUnroll, NaturalLemmas, SequenceTheorems, TLAPS

-----------------------------------------------------------------------------
(***************************************************************************)
(* The inductive invariant.                                                *)
(***************************************************************************)
GraphInv ==
  /\ child \in Seq(Seq(Nat))
  /\ \A p \in Node : Operands(p) \subseteq 1 .. p - 1
  /\ vars0 \subseteq Leaves(child)
  /\ roots \in Seq(Node) /\ roots # <<>> /\ IsInjective(roots)
  /\ tmp \in [Node -> Nat]
  /\ stack \in Seq(Node) /\ a \in Seq(Node)
  /\ back \subseteq Node /\ \A p \in Leaves(child) : p \in back <=> p \in vars0
  /\ phase \in {"ready", "count", "sort", "done"}
  /\ pivot \in Nat

\* tmp holds twice the number of operand positions in S, and the bit of the roots.
RootBit(q) == IF q \in ToSet(roots) THEN 1 ELSE 0
Tally(S) == \A q \in Node : /\ IsFiniteSet(Uses(S, q))
                            /\ tmp[q] = 2 * Cardinality(Uses(S, q)) + RootBit(q)

\* Counting: a node is marked when it is pushed, and counts when it is popped.
Marked == {q \in Node : tmp[q] # 0}
Visited == Marked \ ToSet(stack)
CountInv ==
  phase = "count" =>
    /\ a = <<>>
    /\ ToSet(stack) \subseteq Marked /\ IsInjective(stack)
    /\ Marked \subseteq Reachable
    /\ Tally(Visited)

\* Sorting: a node is put out when every node that uses it has been.
Open == Reachable \ ToSet(a)
UsersFirst == \A k \in DOMAIN a : \A p \in Reachable :
                a[k] \in Operands(p) => \E j \in 1 .. k - 1 : a[j] = p
SortInv ==
  phase = "sort" =>
    /\ Tally(Open)
    /\ ToSet(stack) = {q \in Open : Uses(Open, q) = {}} /\ IsInjective(stack)
    /\ ToSet(a) \subseteq Reachable /\ IsInjective(a) /\ UsersFirst

CompileInv == GraphInv /\ CountInv /\ SortInv /\ Linearized /\ FlagsFollowVariables /\ TmpIsZeroOutside
-----------------------------------------------------------------------------
(* Sequences used as stacks.                                               *)

LEMMA PushSet ==
    ASSUME NEW T, NEW s \in Seq(T), NEW x \in T
    PROVE  /\ Append(s, x) \in Seq(T)
           /\ ToSet(Append(s, x)) = ToSet(s) \cup {x}
           /\ IsInjective(s) /\ x \notin ToSet(s) => IsInjective(Append(s, x))
<1> DEFINE t == Append(s, x)
<1>1. /\ t \in Seq(T) /\ Len(t) = Len(s) + 1 /\ Len(s) \in Nat
      /\ DOMAIN s = 1 .. Len(s) /\ DOMAIN t = 1 .. Len(s) + 1
      /\ \A k \in 1 .. Len(s) : t[k] = s[k]
      /\ t[Len(s) + 1] = x
  OBVIOUS
<1> HIDE DEF t
<1>2. ToSet(t) = ToSet(s) \cup {x}
  BY <1>1 DEF ToSet
<1>3. ASSUME IsInjective(s), x \notin ToSet(s) PROVE IsInjective(t)
  <2> SUFFICES ASSUME NEW k \in DOMAIN t, NEW l \in DOMAIN t, t[k] = t[l] PROVE k = l
    BY DEF IsInjective
  <2>1. \A m \in 1 .. Len(s) : s[m] # x
    BY <1>1, <1>3 DEF ToSet
  <2>2. \A m, n \in 1 .. Len(s) : s[m] = s[n] => m = n
    BY <1>1, <1>3 DEF IsInjective
  <2>3. QED
    BY <1>1, <2>1, <2>2
<1>4. QED
  BY <1>1, <1>2, <1>3 DEF t

LEMMA PopSet ==
    ASSUME NEW T, NEW s \in Seq(T), s # <<>>
    PROVE  /\ Front(s) \in Seq(T) /\ Last(s) \in T /\ Last(s) \in ToSet(s)
           /\ ToSet(s) = ToSet(Front(s)) \cup {Last(s)}
           /\ IsInjective(s) => IsInjective(Front(s)) /\ Last(s) \notin ToSet(Front(s))
<1> DEFINE t == Front(s)
           n == Len(s)
<1>1. /\ n \in Nat /\ n > 0 /\ DOMAIN s = 1 .. n
      /\ t \in Seq(T) /\ DOMAIN t = 1 .. n - 1 /\ \A k \in 1 .. n - 1 : t[k] = s[k]
      /\ Last(s) = s[n]
  BY DEF Front, Last
<1> HIDE DEF t, n
<1>2. Last(s) \in T /\ Last(s) \in ToSet(s)
  <2>1. s[n] \in T
    BY <1>1 DEF n
  <2>2. QED
    BY <1>1, <2>1 DEF ToSet
<1>3. ToSet(s) = ToSet(t) \cup {Last(s)}
  BY <1>1 DEF ToSet
<1>4. ASSUME IsInjective(s) PROVE IsInjective(t) /\ Last(s) \notin ToSet(t)
  <2>1. \A k, l \in 1 .. n : s[k] = s[l] => k = l
    BY <1>1, <1>4 DEF IsInjective
  <2>2. QED
    BY <1>1, <2>1 DEF IsInjective, ToSet
<1>5. QED
  BY <1>1, <1>2, <1>3, <1>4 DEF t

LEMMA ToSetType ==
    ASSUME NEW T, NEW s \in Seq(T)
    PROVE  /\ ToSet(s) \subseteq T /\ DOMAIN s = 1 .. Len(s) /\ Len(s) \in Nat
           /\ \A k \in DOMAIN s : s[k] \in T /\ s[k] \in ToSet(s)
           /\ (ToSet(s) = {} <=> s = <<>>)
<1>1. /\ DOMAIN s = 1 .. Len(s) /\ Len(s) \in Nat
      /\ \A k \in DOMAIN s : s[k] \in T
  OBVIOUS
<1>2. \A k \in DOMAIN s : s[k] \in ToSet(s)
  BY DEF ToSet
<1>3. s # <<>> => 1 \in DOMAIN s
  OBVIOUS
<1>4. ToSet(<<>>) = {}
  BY DEF ToSet
<1>5. ToSet(s) \subseteq T
  BY <1>1 DEF ToSet
<1>6. QED
  BY <1>1, <1>2, <1>3, <1>4, <1>5

LEMMA EmptySet == ToSet(<<>>) = {} /\ IsInjective(<<>>)
  BY DEF ToSet, IsInjective
-----------------------------------------------------------------------------
(* The nodes that are needed, those that depend on a variable, the uses of a *)
(* node.                                                                   *)

LEMMA NodeNumbers ==
    ASSUME GraphInv
    PROVE  /\ Node = 1 .. Len(child) /\ Len(child) \in Nat
           /\ \A p \in Node : /\ child[p] \in Seq(Node) /\ Operands(p) \subseteq Node
                              /\ \A q \in Operands(p) : q \in Nat /\ p \in Nat /\ q < p
<1>1. Node = 1 .. Len(child) /\ Len(child) \in Nat
  BY DEF GraphInv, Node
<1>2. ASSUME NEW p \in Node
      PROVE  /\ child[p] \in Seq(Node) /\ Operands(p) \subseteq Node
             /\ \A q \in Operands(p) : q \in Nat /\ p \in Nat /\ q < p
  <2>1. child[p] \in Seq(Nat) /\ Operands(p) \subseteq 1 .. p - 1 /\ p \in Nat
    BY <1>1 DEF GraphInv, Node
  <2>2. Operands(p) \subseteq Node
    BY <1>1, <2>1
  <2>3. child[p] \in Seq(Node)
    <3>1. \A k \in 1 .. Len(child[p]) : child[p][k] \in Operands(p)
      BY <2>1 DEF Operands, ToSet
    <3>2. QED
      BY <2>1, <2>2, <3>1
  <2>4. QED
    BY <2>1, <2>2, <2>3
<1>3. QED
  BY <1>1, <1>2

LEMMA ReachableNeeded ==
    ASSUME GraphInv
    PROVE  Needed(Reachable) /\ Reachable \subseteq Node
<1>1. ToSet(roots) \subseteq Reachable
  <2>1. ToSet(roots) \subseteq Node
    BY ToSetType DEF GraphInv
  <2>2. QED
    BY <2>1 DEF Reachable, Needed
<1>2. ASSUME NEW p \in Reachable, NEW q \in Operands(p) PROVE q \in Reachable
  <2>1. p \in Node /\ q \in Node
    BY <1>2, NodeNumbers DEF Reachable
  <2>2. ASSUME NEW S \in SUBSET Node, Needed(S) PROVE q \in S
    BY <1>2, <2>2 DEF Reachable, Needed
  <2>3. QED
    BY <2>1, <2>2 DEF Reachable
<1>3. QED
  BY <1>1, <1>2 DEF Needed, Reachable

LEMMA ReachableLeast ==
    ASSUME NEW S, S \subseteq Node, Needed(S)
    PROVE  Reachable \subseteq S
  BY DEF Reachable

\* A node depends on a variable if it is one or an operand of it does.
LEMMA DependsNext ==
    ASSUME GraphInv, NEW p \in Node
    PROVE  p \in Depends <=> p \in vars0 \/ Operands(p) \cap Depends # {}
<1>1. vars0 \subseteq Node
  BY DEF GraphInv, Leaves, Node
<1>2. Varying(Depends)
  <2>1. vars0 \subseteq Depends
    BY <1>1 DEF Depends, Varying
  <2>2. ASSUME NEW r \in Node, Operands(r) \cap Depends # {} PROVE r \in Depends
    <3>1. PICK q \in Operands(r) : q \in Depends
      BY <2>2
    <3>2. ASSUME NEW S \in SUBSET Node, Varying(S) PROVE r \in S
      BY <3>1, <3>2 DEF Depends, Varying
    <3>3. QED
      BY <3>2 DEF Depends
  <2>3. QED
    BY <2>1, <2>2 DEF Varying
<1>3. ASSUME p \in Depends, p \notin vars0, Operands(p) \cap Depends = {} PROVE FALSE
  <2> DEFINE S == Depends \ {p}
  <2>1. S \in SUBSET Node
    BY DEF Depends
  <2>2. Varying(S)
    BY <1>2, <1>3 DEF Varying
  <2>3. QED
    BY <1>3, <2>1, <2>2 DEF Depends
<1>4. QED
  BY <1>2, <1>3 DEF Varying

LEMMA UsesOf ==
    ASSUME NEW S, NEW q
    PROVE  \A u : u \in Uses(S, q) <=>
             \E p \in S : \E k \in DOMAIN child[p] : u = <<p, k>> /\ child[p][k] = q
  BY DEF Uses

LEMMA NoUses ==
    ASSUME NEW S, NEW q
    PROVE  Uses(S, q) = {} <=> \A p \in S : q \notin Operands(p)
<1>1. ASSUME Uses(S, q) = {}, NEW p \in S PROVE q \notin Operands(p)
  <2> SUFFICES ASSUME NEW k \in DOMAIN child[p], child[p][k] = q PROVE FALSE
    BY DEF Operands, ToSet
  <2>1. <<p, k>> \in Uses(S, q)
    BY UsesOf
  <2>2. QED
    BY <1>1, <2>1
<1>2. ASSUME \A p \in S : q \notin Operands(p), NEW u \in Uses(S, q) PROVE FALSE
  <2>1. PICK p \in S : \E k \in DOMAIN child[p] : child[p][k] = q
    BY UsesOf
  <2>2. QED
    BY <1>2, <2>1 DEF Operands, ToSet
<1>3. QED
  BY <1>1, <1>2

\* The uses in S and at the first n operands of p.
With(S, p, n, q) == Uses(S, q) \cup {<<p, k>> : k \in {k \in 1 .. n : child[p][k] = q}}

LEMMA WithNext ==
    ASSUME NEW S, NEW p, p \notin S, NEW n \in Nat, NEW q, IsFiniteSet(With(S, p, n, q))
    PROVE  /\ IsFiniteSet(With(S, p, n + 1, q))
           /\ Cardinality(With(S, p, n + 1, q)) =
                IF child[p][n + 1] = q THEN Cardinality(With(S, p, n, q)) + 1
                                       ELSE Cardinality(With(S, p, n, q))
<1>1. <<p, n + 1>> \notin With(S, p, n, q)
  <2>1. <<p, n + 1>> \notin Uses(S, q)
    BY UsesOf
  <2>2. QED
    BY <2>1 DEF With
<1>2. CASE child[p][n + 1] = q
  <2>1. With(S, p, n + 1, q) = With(S, p, n, q) \cup {<<p, n + 1>>}
    BY <1>2 DEF With
  <2>2. QED
    BY <1>1, <1>2, <2>1, FS_AddElement
<1>3. CASE child[p][n + 1] # q
  <2>1. With(S, p, n + 1, q) = With(S, p, n, q)
    BY <1>3 DEF With
  <2>2. QED
    BY <1>3, <2>1
<1>4. QED
  BY <1>2, <1>3

LEMMA WithEnds ==
    ASSUME GraphInv, NEW S, NEW p \in Node, NEW q
    PROVE  /\ With(S, p, 0, q) = Uses(S, q)
           /\ With(S, p, Len(child[p]), q) = Uses(S \cup {p}, q)
<1>1. DOMAIN child[p] = 1 .. Len(child[p])
  BY NodeNumbers
<1>2. With(S, p, 0, q) = Uses(S, q)
  BY DEF With
<1>3. \A u : u \in With(S, p, Len(child[p]), q) <=> u \in Uses(S \cup {p}, q)
  <2>1. \A u : u \in With(S, p, Len(child[p]), q) <=>
          u \in Uses(S, q) \/ \E k \in DOMAIN child[p] : u = <<p, k>> /\ child[p][k] = q
    BY <1>1 DEF With
  <2>2. QED
    BY <2>1, UsesOf
<1>4. QED
  BY <1>2, <1>3

\* The uses in S without those at the first n operands of p.
Without(S, p, n, q) == Uses(S, q) \ {<<p, k>> : k \in {k \in 1 .. n : child[p][k] = q}}

LEMMA WithoutNext ==
    ASSUME GraphInv, NEW S, NEW p \in S, p \in Node, NEW n \in 0 .. Len(child[p]) - 1, NEW q,
           IsFiniteSet(Without(S, p, n, q))
    PROVE  /\ IsFiniteSet(Without(S, p, n + 1, q))
           /\ Cardinality(Without(S, p, n, q)) =
                IF child[p][n + 1] = q THEN Cardinality(Without(S, p, n + 1, q)) + 1
                                       ELSE Cardinality(Without(S, p, n + 1, q))
<1>0. DOMAIN child[p] = 1 .. Len(child[p]) /\ n \in Nat /\ n + 1 \in DOMAIN child[p]
  BY NodeNumbers
<1>2. CASE child[p][n + 1] = q
  <2>1. Without(S, p, n + 1, q) = Without(S, p, n, q) \ {<<p, n + 1>>}
    BY <1>2, <1>0 DEF Without
  <2>2. <<p, n + 1>> \in Without(S, p, n, q)
    <3>1. <<p, n + 1>> \in Uses(S, q)
      BY <1>0, <1>2, UsesOf
    <3>2. QED
      BY <1>0, <3>1 DEF Without
  <2>3. /\ IsFiniteSet(Without(S, p, n, q) \ {<<p, n + 1>>})
        /\ Cardinality(Without(S, p, n, q) \ {<<p, n + 1>>}) = Cardinality(Without(S, p, n, q)) - 1
    BY <2>2, FS_RemoveElement
  <2>4. Cardinality(Without(S, p, n, q)) \in Nat
    BY FS_CardinalityType
  <2>5. /\ IsFiniteSet(Without(S, p, n + 1, q))
        /\ Cardinality(Without(S, p, n + 1, q)) = Cardinality(Without(S, p, n, q)) - 1
    BY <2>1, <2>3
  <2>6. Cardinality(Without(S, p, n, q)) = Cardinality(Without(S, p, n + 1, q)) + 1
    BY <2>4, <2>5
  <2>7. QED
    BY <1>2, <2>5, <2>6
<1>3. CASE child[p][n + 1] # q
  <2>1. Without(S, p, n + 1, q) = Without(S, p, n, q)
    BY <1>0, <1>3 DEF Without
  <2>2. QED
    BY <1>3, <2>1
<1>4. QED
  BY <1>2, <1>3

LEMMA WithoutEnds ==
    ASSUME GraphInv, NEW S, NEW p \in S, p \in Node, NEW q
    PROVE  /\ Without(S, p, 0, q) = Uses(S, q)
           /\ Without(S, p, Len(child[p]), q) = Uses(S \ {p}, q)
<1>1. DOMAIN child[p] = 1 .. Len(child[p])
  BY NodeNumbers
<1>2. Without(S, p, 0, q) = Uses(S, q)
  BY DEF Without
<1>3. \A u : u \in Without(S, p, Len(child[p]), q) <=> u \in Uses(S \ {p}, q)
  <2>1. \A u : u \in Without(S, p, Len(child[p]), q) <=>
          u \in Uses(S, q) /\ ~\E k \in DOMAIN child[p] : u = <<p, k>> /\ child[p][k] = q
    BY <1>1 DEF Without
  <2>2. \A u : u \in Uses(S, q) <=>
          \E r \in S : \E k \in DOMAIN child[r] : u = <<r, k>> /\ child[r][k] = q
    BY UsesOf
  <2>3. \A u : u \in Uses(S \ {p}, q) <=>
          \E r \in S \ {p} : \E k \in DOMAIN child[r] : u = <<r, k>> /\ child[r][k] = q
    BY UsesOf
  <2>4. ASSUME NEW u, u \in Without(S, p, Len(child[p]), q) PROVE u \in Uses(S \ {p}, q)
    <3>1. PICK r \in S : \E k \in DOMAIN child[r] : u = <<r, k>> /\ child[r][k] = q
      BY <2>1, <2>2, <2>4
    <3>2. r # p
      BY <2>1, <2>4, <3>1
    <3>3. QED
      BY <2>3, <3>1, <3>2
  <2>5. ASSUME NEW u, u \in Uses(S \ {p}, q) PROVE u \in Without(S, p, Len(child[p]), q)
    <3>1. PICK r \in S \ {p} : \E k \in DOMAIN child[r] : u = <<r, k>> /\ child[r][k] = q
      BY <2>3, <2>5
    <3>2. u \in Uses(S, q) /\ \A l : u # <<p, l>>
      BY <2>2, <3>1
    <3>3. QED
      BY <2>1, <3>2
  <2>6. QED
    BY <2>4, <2>5
<1>4. QED
  BY <1>2, <1>3
-----------------------------------------------------------------------------
(* Counting the operands of the node that is popped.                       *)

\* tmp and the stack after n of the operands.
CountStates == [tmp : [Node -> Nat], stack : Seq(Node)]
CountsUpto(s, p, n) ==
  /\ s \in CountStates
  /\ \A q \in Node : /\ IsFiniteSet(With(Visited, p, n, q))
                     /\ s.tmp[q] = 2 * Cardinality(With(Visited, p, n, q)) + RootBit(q)
                     /\ tmp[q] # 0 => s.tmp[q] # 0
                     /\ s.tmp[q] # 0 => q \in Reachable
  /\ IsInjective(s.stack)
  /\ ToSet(s.stack) = ToSet(Front(stack)) \cup {q \in Node : s.tmp[q] # 0 /\ tmp[q] = 0}

LEMMA CountChildType ==
    ASSUME NEW s \in CountStates, NEW q \in Node
    PROVE  /\ CountChild(s, q) \in CountStates
           /\ CountChild(s, q).tmp = [s.tmp EXCEPT ![q] = @ + 2]
           /\ CountChild(s, q).stack = IF s.tmp[q] = 0 THEN Append(s.stack, q) ELSE s.stack
<1>1. [s.tmp EXCEPT ![q] = @ + 2] \in [Node -> Nat]
  BY DEF CountStates
<1>2. Append(s.stack, q) \in Seq(Node) /\ s.stack \in Seq(Node)
  BY PushSet DEF CountStates
<1>3. QED
  BY <1>1, <1>2 DEF CountChild, CountStates

LEMMA CountOne ==
    ASSUME GraphInv, NEW p \in Reachable, p \notin Visited, NEW n \in 0 .. Len(child[p]) - 1,
           ToSet(Front(stack)) \subseteq Marked, NEW s, CountsUpto(s, p, n)
    PROVE  CountsUpto(CountChild(s, child[p][n + 1]), p, n + 1)
<1> DEFINE c == child[p][n + 1]
           t == CountChild(s, c)
<1> SUFFICES CountsUpto(t, p, n + 1)
  OBVIOUS
<1>1. p \in Node /\ n \in Nat /\ n + 1 \in DOMAIN child[p] /\ c \in Node /\ c \in Operands(p)
  <2>1. p \in Node
    BY ReachableNeeded
  <2>2. child[p] \in Seq(Node) /\ DOMAIN child[p] = 1 .. Len(child[p]) /\ Len(child[p]) \in Nat
    BY <2>1, NodeNumbers, ToSetType
  <2>3. n \in Nat /\ n + 1 \in DOMAIN child[p]
    BY <2>2
  <2>4. QED
    BY <2>1, <2>2, <2>3 DEF Operands, ToSet
<1>2. c \in Reachable
  BY <1>1, ReachableNeeded DEF Needed
<1>3. s \in CountStates /\ t \in CountStates /\ s.tmp \in [Node -> Nat] /\ s.stack \in Seq(Node)
  BY <1>1, CountChildType DEF CountsUpto, CountStates
<1>4. /\ t.tmp = [s.tmp EXCEPT ![c] = @ + 2]
      /\ t.stack = IF s.tmp[c] = 0 THEN Append(s.stack, c) ELSE s.stack
  BY <1>1, <1>3, CountChildType
<1> HIDE DEF t, c
<1>5. \A q \in Node : t.tmp[q] = (IF q = c THEN s.tmp[q] + 2 ELSE s.tmp[q]) /\ s.tmp[q] \in Nat
  BY <1>3, <1>4
<1>6. ASSUME NEW q \in Node
      PROVE  /\ IsFiniteSet(With(Visited, p, n + 1, q))
             /\ t.tmp[q] = 2 * Cardinality(With(Visited, p, n + 1, q)) + RootBit(q)
             /\ tmp[q] # 0 => t.tmp[q] # 0
             /\ t.tmp[q] # 0 => q \in Reachable
  <2>1. /\ IsFiniteSet(With(Visited, p, n, q))
        /\ s.tmp[q] = 2 * Cardinality(With(Visited, p, n, q)) + RootBit(q)
        /\ tmp[q] # 0 => s.tmp[q] # 0
        /\ s.tmp[q] # 0 => q \in Reachable
    BY DEF CountsUpto
  <2>2. /\ IsFiniteSet(With(Visited, p, n + 1, q))
        /\ Cardinality(With(Visited, p, n + 1, q)) =
             IF c = q THEN Cardinality(With(Visited, p, n, q)) + 1
                      ELSE Cardinality(With(Visited, p, n, q))
    BY <1>1, <2>1, WithNext DEF c
  <2>3. Cardinality(With(Visited, p, n, q)) \in Nat /\ RootBit(q) \in Nat
    BY <2>1, FS_CardinalityType DEF RootBit
  <2>4. t.tmp[q] = (IF q = c THEN s.tmp[q] + 2 ELSE s.tmp[q]) /\ s.tmp[q] \in Nat
    BY <1>5
  <2>5. QED
    BY <1>2, <2>1, <2>2, <2>3, <2>4
<1>7. CASE s.tmp[c] = 0
  <2>1. c \notin ToSet(s.stack)
    <3>1. ToSet(s.stack) = ToSet(Front(stack)) \cup {q \in Node : s.tmp[q] # 0 /\ tmp[q] = 0}
      BY DEF CountsUpto
    <3>2. c \notin ToSet(Front(stack))
      <4>1. \A q \in ToSet(Front(stack)) : s.tmp[q] # 0
        BY DEF CountsUpto, Marked
      <4>2. QED
        BY <1>7, <4>1
    <3>3. QED
      BY <1>7, <3>1, <3>2
  <2>2. ToSet(t.stack) = ToSet(s.stack) \cup {c} /\ IsInjective(t.stack)
    BY <1>1, <1>3, <1>4, <1>7, <2>1, PushSet DEF CountsUpto
  <2>3. tmp[c] = 0 /\ t.tmp[c] # 0
    BY <1>1, <1>5, <1>6, <1>7 DEF CountsUpto
  <2>4. {q \in Node : t.tmp[q] # 0 /\ tmp[q] = 0} = {q \in Node : s.tmp[q] # 0 /\ tmp[q] = 0} \cup {c}
    BY <1>1, <1>5, <2>3
  <2>5. QED
    BY <1>3, <1>6, <2>2, <2>4 DEF CountsUpto
<1>8. CASE s.tmp[c] # 0
  <2>1. {q \in Node : t.tmp[q] # 0 /\ tmp[q] = 0} = {q \in Node : s.tmp[q] # 0 /\ tmp[q] = 0}
    BY <1>1, <1>5, <1>8
  <2>2. t.stack = s.stack
    BY <1>4, <1>8
  <2>3. QED
    BY <1>3, <1>6, <2>1, <2>2 DEF CountsUpto
<1>9. QED
  BY <1>7, <1>8

LEMMA CountLoop ==
    ASSUME GraphInv, NEW p \in Reachable, p \notin Visited, ToSet(Front(stack)) \subseteq Marked,
           CountsUpto([tmp |-> tmp, stack |-> Front(stack)], p, 0)
    PROVE  CountsUpto(Counted(p), p, Len(child[p]))
<1> DEFINE L == Len(child[p])
           base == [tmp |-> tmp, stack |-> Front(stack)]
           Solves(f) == f = [k \in 0 .. L |-> IF k = 0 THEN base ELSE CountChild(f[k - 1], child[p][k])]
           step == [u \in CountStates \X (1 .. L) |-> CountChild(u[1], child[p][u[2]])]
           Good == [n \in 0 .. L |-> {s \in CountStates : CountsUpto(s, p, n)}]
<1>1. p \in Node /\ L \in Nat /\ \A k \in 1 .. L : child[p][k] \in Node
  <2>1. p \in Node
    BY ReachableNeeded
  <2>2. QED
    BY <2>1, NodeNumbers
<1>2. step \in [CountStates \X (1 .. L) -> CountStates]
  BY <1>1, CountChildType
<1>3. base \in CountStates
  BY DEF CountsUpto
<1>4. \E f : Solves(f)
  <2>1. PICK f \in [0 .. L -> CountStates] : Iterates(f, base, step, L)
    <3> HIDE DEF step, base, L, Solves, Good
    <3>1. L \in Nat /\ base \in CountStates /\ step \in [CountStates \X (1 .. L) -> CountStates]
      BY <1>1, <1>2, <1>3
    <3>2. QED
      BY <3>1, RecursionExists
  <2>2. ASSUME NEW k \in 1 .. L PROVE f[k] = CountChild(f[k - 1], child[p][k])
    <3>1. <<f[k - 1], k>> \in CountStates \X (1 .. L)
      <4> HIDE DEF step, base, L
      <4>1. QED
        BY <1>1, <2>1
    <3>2. step[<<f[k - 1], k>>] = CountChild(f[k - 1], child[p][k])
      BY <3>1
    <3>3. QED
      <4> HIDE DEF step, base, L
      <4>1. QED
        BY <2>1, <3>2 DEF Iterates
  <2>4. Solves(f)
    <3> HIDE DEF step, base, L
    <3>1. f = [k \in 0 .. L |-> f[k]]
      OBVIOUS
    <3>2. ASSUME NEW k \in 0 .. L
          PROVE  f[k] = IF k = 0 THEN base ELSE CountChild(f[k - 1], child[p][k])
      <4>1. k # 0 => k \in 1 .. L
        BY <1>1
      <4>2. QED
        BY <2>1, <2>2, <4>1 DEF Iterates
    <3>3. QED
      BY <3>1, <3>2
  <2>5. QED
    BY <2>4
<1>5. ASSUME NEW f, Solves(f) PROVE CountsUpto(f[L], p, L)
  <2>1. f[0] \in Good[0]
    BY <1>1, <1>3, <1>5
  <2>2. ASSUME NEW n \in 0 .. L - 1, f[n] \in Good[n] PROVE f[n + 1] \in Good[n + 1]
    <3>1. n \in 0 .. L /\ n + 1 \in 0 .. L /\ n + 1 # 0 /\ n + 1 - 1 = n
      BY <1>1
    <3>2. CountsUpto(f[n], p, n)
      BY <2>2, <3>1
    <3>3. f[n + 1] = CountChild(f[n], child[p][n + 1])
      <4> DEFINE m == n + 1
      <4>1. m \in 0 .. L /\ m # 0 /\ m - 1 = n
        BY <3>1
      <4> HIDE DEF m, base, L
      <4>2. f[m] = IF m = 0 THEN base ELSE CountChild(f[m - 1], child[p][m])
        BY <1>5, <4>1
      <4>3. QED
        BY <4>1, <4>2 DEF m
    <3>4. CountsUpto(f[n + 1], p, n + 1)
      BY <3>2, <3>3, CountOne
    <3>5. QED
      BY <3>1, <3>4 DEF CountsUpto
  <2>3. f[L] \in Good[L]
    <3> HIDE DEF Good, L
    <3>1. QED
      BY <1>1, <2>1, <2>2, LoopKeeps
  <2>4. QED
    BY <1>1, <2>3
<1>6. Counted(p) = (CHOOSE f : Solves(f))[L]
  BY DEF Counted
<1>7. QED
  <2> HIDE DEF Solves
  <2>1. Solves(CHOOSE f : Solves(f))
    BY <1>4
  <2>2. QED
    BY <1>5, <1>6, <2>1
-----------------------------------------------------------------------------
(* The actions before the sort.                                            *)

LEMMA SameGraph ==
    ASSUME UNCHANGED <<child, vars0, roots>>
    PROVE  /\ Node' = Node /\ Reachable' = Reachable /\ Depends' = Depends
           /\ \A q : RootBit(q)' = RootBit(q) /\ Operands(q)' = Operands(q)
           /\ \A S, q : Uses(S, q)' = Uses(S, q)
<1>1. Node' = Node /\ \A q : RootBit(q)' = RootBit(q) /\ Operands(q)' = Operands(q)
  BY DEF Node, RootBit, Operands
<1>2. Reachable' = Reachable
  BY DEF Reachable, Needed, Node, Operands
<1>3. Depends' = Depends
  BY DEF Depends, Varying, Node, Operands
<1>4. \A S, q : Uses(S, q)' = Uses(S, q)
  BY DEF Uses
<1>5. QED
  BY <1>1, <1>2, <1>3, <1>4

\* What the actions leave alone keeps its part of the invariant.
LEMMA SameGraphInv ==
    ASSUME GraphInv, UNCHANGED <<child, vars0, roots, back, pivot>>,
           tmp' \in [Node -> Nat], stack' \in Seq(Node), a' \in Seq(Node),
           phase' \in {"ready", "count", "sort", "done"}
    PROVE  GraphInv'
<1>1. Node' = Node /\ \A q : Operands(q)' = Operands(q)
  BY SameGraph
<1>2. Leaves(child)' = Leaves(child)
  BY DEF Leaves
<1>3. QED
  BY <1>1, <1>2 DEF GraphInv

LEMMA TallyNext ==
    ASSUME NEW S, UNCHANGED <<child, vars0, roots>>,
           \A q \in Node : /\ IsFiniteSet(Uses(S, q))
                           /\ tmp'[q] = 2 * Cardinality(Uses(S, q)) + RootBit(q)
    PROVE  Tally(S)'
  BY SameGraph DEF Tally

LEMMA MarkRootsStep ==
    ASSUME GraphInv, TmpIsZeroOutside, MarkRoots
    PROVE  GraphInv' /\ CountInv' /\ phase' = "count"
<1>1. /\ tmp' = [p \in Node |-> IF p \in ToSet(roots) THEN 1 ELSE 0]
      /\ stack' = roots /\ a' = <<>> /\ phase' = "count"
      /\ UNCHANGED <<child, vars0, roots, back, pivot>>
  BY DEF MarkRoots, TmpIsZeroOutside
<1>2. roots \in Seq(Node) /\ IsInjective(roots) /\ ToSet(roots) \subseteq Node
  BY ToSetType DEF GraphInv
<1>3. GraphInv'
  <2>1. tmp' \in [Node -> Nat] /\ a' \in Seq(Node)
    BY <1>1
  <2>2. QED
    BY <1>1, <1>2, <2>1, SameGraphInv
<1>4. Marked' = ToSet(roots)
  BY <1>1, <1>2, SameGraph DEF Marked
<1>5. Marked' \subseteq Reachable'
  BY <1>1, <1>4, SameGraph, ReachableNeeded DEF Needed
<1>6. Visited' = {}
  BY <1>1, <1>4 DEF Visited
<1>7. \A q \in Node : Uses({}, q) = {} /\ tmp'[q] = RootBit(q)
  BY <1>1 DEF Uses, RootBit
<1>8. Tally({})'
  <2>1. \A q \in Node : /\ IsFiniteSet(Uses({}, q))
                        /\ tmp'[q] = 2 * Cardinality(Uses({}, q)) + RootBit(q)
    BY <1>7, FS_EmptySet DEF RootBit
  <2>2. QED
    BY <1>1, <2>1, TallyNext
<1>9. QED
  BY <1>1, <1>2, <1>3, <1>4, <1>5, <1>6, <1>8 DEF CountInv, Tally

LEMMA CountParentsStep ==
    ASSUME GraphInv, CountInv, CountParents
    PROVE  GraphInv' /\ CountInv' /\ phase' = "count"
<1> DEFINE p == Last(stack)
           s == Counted(p)
<1>1. /\ phase = "count" /\ stack # <<>> /\ tmp' = s.tmp /\ stack' = s.stack
      /\ UNCHANGED <<child, vars0, roots, a, back, phase, pivot>>
  BY DEF CountParents
<1>2. /\ ToSet(stack) \subseteq Marked /\ IsInjective(stack) /\ Marked \subseteq Reachable
      /\ Tally(Visited) /\ a = <<>>
  BY <1>1 DEF CountInv
<1>3. /\ Front(stack) \in Seq(Node) /\ p \in ToSet(stack) /\ IsInjective(Front(stack))
      /\ p \notin ToSet(Front(stack)) /\ ToSet(stack) = ToSet(Front(stack)) \cup {p}
  BY <1>1, <1>2, PopSet DEF GraphInv
<1>4. p \in Reachable /\ p \in Node /\ p \notin Visited /\ ToSet(Front(stack)) \subseteq Marked
  BY <1>2, <1>3 DEF Visited, Marked
<1>5. CountsUpto([tmp |-> tmp, stack |-> Front(stack)], p, 0)
  <2> DEFINE base == [tmp |-> tmp, stack |-> Front(stack)]
  <2>1. base.tmp = tmp /\ base.stack = Front(stack) /\ base \in CountStates
    BY <1>3 DEF CountStates, GraphInv
  <2> HIDE DEF base
  <2>2. ASSUME NEW q \in Node
        PROVE  /\ IsFiniteSet(With(Visited, p, 0, q))
               /\ tmp[q] = 2 * Cardinality(With(Visited, p, 0, q)) + RootBit(q)
               /\ tmp[q] # 0 => q \in Reachable
    BY <1>2, <1>4, WithEnds DEF Tally, Marked
  <2>3. CountsUpto(base, p, 0)
    BY <1>3, <2>1, <2>2 DEF CountsUpto
  <2>4. QED
    BY <2>3 DEF base
<1>6. CountsUpto(s, p, Len(child[p]))
  BY <1>4, <1>5, CountLoop
<1> HIDE DEF s, p
<1>7. tmp' \in [Node -> Nat] /\ stack' \in Seq(Node)
  BY <1>1, <1>6 DEF CountsUpto, CountStates
<1>8. GraphInv'
  BY <1>1, <1>7, SameGraphInv DEF GraphInv
<1>9. /\ Marked' = {q \in Node : tmp'[q] # 0} /\ Marked \subseteq Marked'
      /\ Marked' \subseteq Reachable
      /\ ToSet(stack') = ToSet(Front(stack)) \cup (Marked' \ Marked) /\ IsInjective(stack')
  <2>1. Marked' = {q \in Node : tmp'[q] # 0}
    BY <1>1, SameGraph DEF Marked
  <2>2. QED
    BY <1>1, <1>6, <2>1 DEF CountsUpto, Marked
<1>10. Visited' = Visited \cup {p}
  BY <1>2, <1>3, <1>4, <1>9 DEF Visited
<1>11. Tally(Visited)'
  <2> DEFINE S == Visited \cup {p}
  <2>1. ASSUME NEW q \in Node
        PROVE  /\ IsFiniteSet(Uses(S, q))
               /\ tmp'[q] = 2 * Cardinality(Uses(S, q)) + RootBit(q)
    <3>1. With(Visited, p, Len(child[p]), q) = Uses(S, q)
      BY <1>4, WithEnds
    <3>2. /\ IsFiniteSet(With(Visited, p, Len(child[p]), q))
          /\ s.tmp[q] = 2 * Cardinality(With(Visited, p, Len(child[p]), q)) + RootBit(q)
      BY <1>6 DEF CountsUpto
    <3>3. QED
      BY <1>1, <3>1, <3>2
  <2>2. S = Visited'
    BY <1>10
  <2> HIDE DEF S
  <2>3. PICK V : V = S
    OBVIOUS
  <2>4. Tally(V)'
    BY <1>1, <2>1, <2>3, TallyNext
  <2>5. QED
    BY <2>2, <2>3, <2>4 DEF Tally, Uses, RootBit
<1>12. QED
  <2>1. a' = <<>> /\ ToSet(stack') \subseteq Marked' /\ Reachable' = Reachable
    <3>1. ToSet(Front(stack)) \subseteq Marked
      BY <1>4
    <3>2. QED
      BY <1>1, <1>2, <1>9, <3>1, SameGraph
  <2>2. QED
    BY <1>1, <1>8, <1>9, <1>11, <2>1 DEF CountInv
-----------------------------------------------------------------------------
(* The start of the sort.                                                  *)

LEMMA TallyHalf ==
    ASSUME NEW S, Tally(S), NEW q \in Node
    PROVE  /\ tmp[q] \div 2 = Cardinality(Uses(S, q))
           /\ tmp[q] \div 2 = 0 <=> Uses(S, q) = {}
<1>1. /\ IsFiniteSet(Uses(S, q)) /\ tmp[q] = 2 * Cardinality(Uses(S, q)) + RootBit(q)
      /\ Cardinality(Uses(S, q)) \in Nat /\ RootBit(q) \in 0 .. 1
  BY FS_CardinalityType DEF Tally, RootBit
<1>2. Cardinality(Uses(S, q)) = 0 <=> Uses(S, q) = {}
  BY <1>1, FS_EmptySet
<1>3. tmp[q] \div 2 = Cardinality(Uses(S, q))
  BY <1>1
<1>4. QED
  BY <1>2, <1>3

\* The roots pushed after n of the roots.
FreesUpto(s, n) ==
  /\ s \in Seq(Node) /\ IsInjective(s)
  /\ ToSet(s) = {q \in Node : tmp[q] \div 2 = 0 /\ \E k \in 1 .. n : roots[k] = q}

LEMMA FreeOne ==
    ASSUME GraphInv, NEW n \in 0 .. Len(roots) - 1, NEW s, FreesUpto(s, n)
    PROVE  FreesUpto(PushUnused(s, roots[n + 1]), n + 1)
<1> DEFINE r == roots[n + 1]
           t == PushUnused(s, r)
<1>1. /\ DOMAIN roots = 1 .. Len(roots) /\ Len(roots) \in Nat /\ n \in Nat
      /\ n + 1 \in DOMAIN roots /\ r \in Node
  BY ToSetType DEF GraphInv
<1>2. r \notin ToSet(s)
  <2>1. ASSUME NEW k \in 1 .. n, roots[k] = r PROVE FALSE
    <3>1. k \in DOMAIN roots /\ k # n + 1
      BY <1>1
    <3>2. \A i, j \in DOMAIN roots : roots[i] = roots[j] => i = j
      BY DEF GraphInv, IsInjective
    <3>3. QED
      BY <1>1, <2>1, <3>1, <3>2
  <2>2. QED
    BY <2>1 DEF FreesUpto
<1>3. \A q : (\E k \in 1 .. n + 1 : roots[k] = q) <=> q = r \/ \E k \in 1 .. n : roots[k] = q
  BY <1>1
<1> HIDE DEF r
<1>4. CASE tmp[r] \div 2 = 0
  <2>1. t = Append(s, r)
    BY <1>4 DEF PushUnused
  <2>2. t \in Seq(Node) /\ IsInjective(t) /\ ToSet(t) = ToSet(s) \cup {r}
    BY <1>1, <1>2, <2>1, PushSet DEF FreesUpto
  <2> HIDE DEF t
  <2>3. QED
    BY <1>1, <1>3, <1>4, <2>2 DEF FreesUpto, t, r
<1>5. CASE tmp[r] \div 2 # 0
  <2>1. t = s
    BY <1>5 DEF PushUnused
  <2> HIDE DEF t
  <2>2. QED
    BY <1>1, <1>3, <1>5, <2>1 DEF FreesUpto, t, r
<1>6. QED
  BY <1>4, <1>5

LEMMA FreeLoop ==
    ASSUME GraphInv
    PROVE  FreesUpto(FreeRoots, Len(roots))
<1> DEFINE L == Len(roots)
           States == Seq(Node)
           Solves(f) == f = [k \in 0 .. L |-> IF k = 0 THEN <<>> ELSE PushUnused(f[k - 1], roots[k])]
           step == [u \in States \X (1 .. L) |-> PushUnused(u[1], roots[u[2]])]
           Good == [n \in 0 .. L |-> {s \in States : FreesUpto(s, n)}]
<1>1. L \in Nat /\ \A k \in 1 .. L : roots[k] \in Node
  BY DEF GraphInv
<1>2. step \in [States \X (1 .. L) -> States]
  <2>1. ASSUME NEW u \in States \X (1 .. L) PROVE PushUnused(u[1], roots[u[2]]) \in States
    <3>1. u[1] \in Seq(Node) /\ roots[u[2]] \in Node
      BY <1>1
    <3>2. QED
      BY <3>1, PushSet DEF PushUnused
  <2>2. QED
    BY <2>1
<1>3. <<>> \in States /\ FreesUpto(<<>>, 0)
  BY EmptySet DEF FreesUpto
<1>4. \E f : Solves(f)
  <2>1. PICK f \in [0 .. L -> States] : Iterates(f, <<>>, step, L)
    <3> HIDE DEF step, L, Solves, Good, States
    <3>1. QED
      BY <1>1, <1>2, <1>3, RecursionExists
  <2>2. ASSUME NEW k \in 1 .. L PROVE f[k] = PushUnused(f[k - 1], roots[k])
    <3>1. <<f[k - 1], k>> \in States \X (1 .. L)
      <4> HIDE DEF step, L, States
      <4>1. QED
        BY <1>1, <2>1
    <3>2. step[<<f[k - 1], k>>] = PushUnused(f[k - 1], roots[k])
      BY <3>1
    <3>3. QED
      <4> HIDE DEF step, L, States
      <4>1. QED
        BY <2>1, <3>2 DEF Iterates
  <2>4. Solves(f)
    <3> HIDE DEF step, L, States
    <3>1. f = [k \in 0 .. L |-> f[k]]
      BY <2>1
    <3>2. ASSUME NEW k \in 0 .. L
          PROVE  f[k] = IF k = 0 THEN <<>> ELSE PushUnused(f[k - 1], roots[k])
      <4>1. k # 0 => k \in 1 .. L
        BY <1>1
      <4>2. QED
        BY <2>1, <2>2, <4>1 DEF Iterates
    <3>3. QED
      BY <3>1, <3>2
  <2>5. QED
    BY <2>4
<1>5. ASSUME NEW f, Solves(f) PROVE FreesUpto(f[L], L)
  <2>1. f[0] \in Good[0]
    BY <1>1, <1>3, <1>5
  <2>2. ASSUME NEW n \in 0 .. L - 1, f[n] \in Good[n] PROVE f[n + 1] \in Good[n + 1]
    <3>1. n \in 0 .. L /\ n + 1 \in 0 .. L /\ n + 1 # 0 /\ n + 1 - 1 = n
      BY <1>1
    <3>2. FreesUpto(f[n], n)
      BY <2>2, <3>1
    <3>3. f[n + 1] = PushUnused(f[n], roots[n + 1])
      <4> DEFINE m == n + 1
      <4>1. m \in 0 .. L /\ m # 0 /\ m - 1 = n
        BY <3>1
      <4> HIDE DEF m, L
      <4>2. f[m] = IF m = 0 THEN <<>> ELSE PushUnused(f[m - 1], roots[m])
        BY <1>5, <4>1
      <4>3. QED
        BY <4>1, <4>2 DEF m
    <3>4. FreesUpto(f[n + 1], n + 1)
      BY <3>2, <3>3, FreeOne
    <3>5. QED
      BY <3>1, <3>4 DEF FreesUpto
  <2>3. f[L] \in Good[L]
    <3> HIDE DEF Good, L
    <3>1. QED
      BY <1>1, <2>1, <2>2, LoopKeeps
  <2>4. QED
    BY <1>1, <2>3
<1>6. FreeRoots = (CHOOSE f : Solves(f))[L]
  BY DEF FreeRoots
<1>7. QED
  <2> HIDE DEF Solves
  <2>1. Solves(CHOOSE f : Solves(f))
    BY <1>4
  <2>2. QED
    BY <1>5, <1>6, <2>1

\* When the stack is empty every node the roots need has been counted.
LEMMA AllCounted ==
    ASSUME GraphInv, CountInv, phase = "count", stack = <<>>
    PROVE  Tally(Reachable) /\ Marked = Reachable
<1>1. Marked \subseteq Reachable /\ Tally(Visited) /\ Visited = Marked
  BY EmptySet DEF CountInv, Visited
<1>2. Needed(Marked)
  <2>1. ASSUME NEW q \in ToSet(roots) PROVE q \in Marked
    <3>1. q \in Node
      BY ToSetType DEF GraphInv
    <3>2. tmp[q] = 2 * Cardinality(Uses(Visited, q)) + 1 /\ Cardinality(Uses(Visited, q)) \in Nat
      BY <1>1, <3>1, FS_CardinalityType DEF Tally, RootBit
    <3>3. QED
      BY <3>1, <3>2 DEF Marked
  <2>2. ASSUME NEW p \in Marked, NEW q \in Operands(p) PROVE q \in Marked
    <3>1. q \in Node
      BY NodeNumbers DEF Marked
    <3>2. Uses(Marked, q) # {}
      BY NoUses
    <3>3. tmp[q] \div 2 # 0
      BY <1>1, <3>1, <3>2, TallyHalf
    <3>4. QED
      BY <3>1, <3>3 DEF Marked
  <2>3. QED
    BY <2>1, <2>2 DEF Needed
<1>3. Marked = Reachable
  BY <1>1, <1>2, ReachableLeast DEF Marked
<1>4. QED
  BY <1>1, <1>3

LEMMA StartSortStep ==
    ASSUME GraphInv, CountInv, StartSort
    PROVE  GraphInv' /\ SortInv' /\ phase' = "sort"
<1>1. /\ phase = "count" /\ stack = <<>> /\ stack' = FreeRoots /\ phase' = "sort"
      /\ UNCHANGED <<child, vars0, roots, tmp, a, back, pivot>>
  BY DEF StartSort
<1>2. Tally(Reachable) /\ a = <<>>
  BY <1>1, AllCounted DEF CountInv
<1>3. FreesUpto(stack', Len(roots))
  BY <1>1, FreeLoop
<1>4. GraphInv'
  <2>1. stack' \in Seq(Node) /\ tmp' \in [Node -> Nat] /\ a' \in Seq(Node)
    BY <1>1, <1>3 DEF FreesUpto, GraphInv
  <2>2. QED
    BY <1>1, <2>1, SameGraphInv
<1>5. Open' = Reachable
  BY <1>1, <1>2, EmptySet, SameGraph DEF Open
<1>6. Tally(Open)'
  <2>1. PICK R : R = Reachable
    OBVIOUS
  <2>2. Tally(R)'
    BY <1>1, <1>2, <2>1, TallyNext DEF Tally
  <2>3. QED
    BY <1>5, <2>1, <2>2 DEF Tally, Uses, RootBit
<1>7. ToSet(stack') = {q \in Reachable : Uses(Reachable, q) = {}}
  <2>1. ToSet(stack') = {q \in Node : tmp[q] \div 2 = 0 /\ q \in ToSet(roots)}
    <3>1. DOMAIN roots = 1 .. Len(roots)
      BY DEF GraphInv
    <3>2. QED
      BY <1>3, <3>1 DEF FreesUpto, ToSet
  <2>2. ASSUME NEW q \in Reachable, Uses(Reachable, q) = {} PROVE q \in ToSet(roots)
    <3> DEFINE S == Reachable \ {q}
    <3>1. SUFFICES ASSUME q \notin ToSet(roots) PROVE FALSE
      OBVIOUS
    <3>2. \A p \in Reachable : q \notin Operands(p)
      BY <2>2, NoUses
    <3>3. Needed(S)
      BY <3>1, <3>2, ReachableNeeded DEF Needed
    <3>4. QED
      BY <3>3, ReachableLeast, ReachableNeeded
  <2>3. \A q \in Node : tmp[q] \div 2 = 0 <=> Uses(Reachable, q) = {}
    BY <1>2, TallyHalf
  <2>4. ToSet(roots) \subseteq Reachable /\ Reachable \subseteq Node
    BY ReachableNeeded DEF Needed
  <2>5. QED
    BY <2>1, <2>2, <2>3, <2>4
<1>8. ToSet(stack') = {q \in Open : Uses(Open, q) = {}}'
  BY <1>1, <1>5, <1>7 DEF Uses
<1>9. QED
  <2>1. IsInjective(stack')
    BY <1>3 DEF FreesUpto
  <2>2. a' = <<>> /\ ToSet(a') = {} /\ IsInjective(a') /\ DOMAIN a' = {}
    BY <1>1, <1>2, EmptySet
  <2>3. QED
    BY <1>1, <1>4, <1>6, <1>8, <2>1, <2>2 DEF SortInv, UsersFirst
-----------------------------------------------------------------------------
(* Releasing the operands of the node that is put out.                     *)

\* tmp and the stack after n of the operands.
ReleaseStates == [tmp : [Node -> Int], stack : Seq(Node)]
ReleasesUpto(s, p, n) ==
  /\ s \in ReleaseStates
  /\ \A q \in Node : /\ IsFiniteSet(Without(Open, p, n, q))
                     /\ s.tmp[q] = 2 * Cardinality(Without(Open, p, n, q)) + RootBit(q)
  /\ IsInjective(s.stack)
  /\ ToSet(s.stack) = ToSet(Front(stack)) \cup
                        {q \in Node : Uses(Open, q) # {} /\ Without(Open, p, n, q) = {}}

LEMMA ReleaseChildType ==
    ASSUME NEW s \in ReleaseStates, NEW q \in Node
    PROVE  /\ ReleaseChild(s, q) \in ReleaseStates
           /\ ReleaseChild(s, q).tmp = [s.tmp EXCEPT ![q] = @ - 2]
           /\ ReleaseChild(s, q).stack =
                IF (s.tmp[q] - 2) \div 2 = 0 THEN Append(s.stack, q) ELSE s.stack
<1>1. [s.tmp EXCEPT ![q] = @ - 2] \in [Node -> Int] /\ [s.tmp EXCEPT ![q] = @ - 2][q] = s.tmp[q] - 2
  BY DEF ReleaseStates
<1>2. Append(s.stack, q) \in Seq(Node) /\ s.stack \in Seq(Node)
  BY PushSet DEF ReleaseStates
<1>3. QED
  BY <1>1, <1>2 DEF ReleaseChild, ReleaseStates

LEMMA ReleaseOne ==
    ASSUME GraphInv, NEW p \in Open, NEW n \in 0 .. Len(child[p]) - 1,
           \A q \in ToSet(Front(stack)) : Uses(Open, q) = {}, NEW s, ReleasesUpto(s, p, n)
    PROVE  ReleasesUpto(ReleaseChild(s, child[p][n + 1]), p, n + 1)
<1> DEFINE c == child[p][n + 1]
           t == ReleaseChild(s, c)
<1> SUFFICES ReleasesUpto(t, p, n + 1)
  OBVIOUS
<1>1. p \in Node /\ n \in Nat /\ c \in Node
  <2>1. p \in Node
    BY ReachableNeeded DEF Open
  <2>2. child[p] \in Seq(Node) /\ DOMAIN child[p] = 1 .. Len(child[p]) /\ Len(child[p]) \in Nat
    BY <2>1, NodeNumbers, ToSetType
  <2>3. n \in Nat /\ n + 1 \in DOMAIN child[p]
    BY <2>2
  <2>4. QED
    BY <2>1, <2>2, <2>3
<1>2. s \in ReleaseStates /\ t \in ReleaseStates /\ s.tmp \in [Node -> Int] /\ s.stack \in Seq(Node)
  BY <1>1, ReleaseChildType DEF ReleasesUpto, ReleaseStates
<1>3. /\ t.tmp = [s.tmp EXCEPT ![c] = @ - 2]
      /\ t.stack = IF (s.tmp[c] - 2) \div 2 = 0 THEN Append(s.stack, c) ELSE s.stack
  BY <1>1, <1>2, ReleaseChildType
<1> HIDE DEF t, c
<1>4. \A q \in Node : t.tmp[q] = (IF q = c THEN s.tmp[q] - 2 ELSE s.tmp[q]) /\ s.tmp[q] \in Int
  BY <1>2, <1>3
<1> DEFINE U(q) == Without(Open, p, n, q)
           V(q) == Without(Open, p, n + 1, q)
<1>5. ASSUME NEW q \in Node
      PROVE  /\ IsFiniteSet(U(q)) /\ IsFiniteSet(V(q))
             /\ s.tmp[q] = 2 * Cardinality(U(q)) + RootBit(q)
             /\ Cardinality(U(q)) = IF c = q THEN Cardinality(V(q)) + 1 ELSE Cardinality(V(q))
             /\ Cardinality(U(q)) \in Nat /\ Cardinality(V(q)) \in Nat /\ RootBit(q) \in 0 .. 1
             /\ U(q) = {} <=> Cardinality(U(q)) = 0
             /\ V(q) = {} <=> Cardinality(V(q)) = 0
  <2>1. IsFiniteSet(U(q)) /\ s.tmp[q] = 2 * Cardinality(U(q)) + RootBit(q)
    BY DEF ReleasesUpto
  <2>2. /\ IsFiniteSet(V(q))
        /\ Cardinality(U(q)) = IF c = q THEN Cardinality(V(q)) + 1 ELSE Cardinality(V(q))
    BY <1>1, <2>1, WithoutNext DEF c
  <2>3. RootBit(q) \in 0 .. 1
    BY DEF RootBit
  <2> HIDE DEF U, V
  <2>4. Cardinality(U(q)) \in Nat /\ Cardinality(V(q)) \in Nat
    BY <2>1, <2>2, FS_CardinalityType
  <2>5. (U(q) = {} <=> Cardinality(U(q)) = 0) /\ (V(q) = {} <=> Cardinality(V(q)) = 0)
    BY <2>1, <2>2, FS_EmptySet
  <2>6. QED
    BY <2>1, <2>2, <2>3, <2>4, <2>5
<1> HIDE DEF U, V
<1>6. ASSUME NEW q \in Node
      PROVE  t.tmp[q] = 2 * Cardinality(V(q)) + RootBit(q)
  <2>1. t.tmp[q] = (IF q = c THEN s.tmp[q] - 2 ELSE s.tmp[q]) /\ s.tmp[q] \in Int
    BY <1>4
  <2>2. CASE q = c
    <3>1. t.tmp[q] = s.tmp[q] - 2 /\ Cardinality(U(q)) = Cardinality(V(q)) + 1
      BY <1>5, <2>1, <2>2
    <3>2. QED
      BY <1>5, <3>1
  <2>3. CASE q # c
    <3>1. t.tmp[q] = s.tmp[q] /\ Cardinality(U(q)) = Cardinality(V(q))
      BY <1>5, <2>1, <2>3
    <3>2. QED
      BY <1>5, <3>1
  <2>4. QED
    BY <2>2, <2>3
<1>7. (s.tmp[c] - 2) \div 2 = Cardinality(V(c))
  <2>1. s.tmp[c] - 2 = 2 * Cardinality(V(c)) + RootBit(c)
    BY <1>1, <1>5
  <2>2. Cardinality(V(c)) \in Nat /\ RootBit(c) \in 0 .. 1
    BY <1>1, <1>5
  <2>3. QED
    BY <2>1, <2>2
<1>8. U(c) # {} /\ Uses(Open, c) # {}
  <2>1. U(c) # {}
    BY <1>1, <1>5
  <2>2. QED
    BY <2>1 DEF U, Without
<1>9. \A q \in Node : q # c => (U(q) = {} <=> V(q) = {})
  BY <1>5
<1>10. ToSet(s.stack) = ToSet(Front(stack)) \cup {q \in Node : Uses(Open, q) # {} /\ U(q) = {}}
  BY DEF ReleasesUpto, U
<1>11. /\ IsInjective(t.stack)
       /\ ToSet(t.stack) = ToSet(Front(stack)) \cup {q \in Node : Uses(Open, q) # {} /\ V(q) = {}}
  <2>1. CASE Cardinality(V(c)) = 0
    <3>1. t.stack = Append(s.stack, c)
      BY <1>3, <1>7, <2>1
    <3>2. c \notin ToSet(s.stack)
      BY <1>8, <1>10
    <3>3. ToSet(t.stack) = ToSet(s.stack) \cup {c} /\ IsInjective(t.stack)
      BY <1>1, <1>2, <3>1, <3>2, PushSet DEF ReleasesUpto
    <3>4. V(c) = {}
      BY <1>1, <1>5, <2>1
    <3>5. QED
      BY <1>1, <1>8, <1>9, <1>10, <3>3, <3>4
  <2>2. CASE Cardinality(V(c)) # 0
    <3>1. t.stack = s.stack
      BY <1>3, <1>7, <2>2
    <3>2. V(c) # {}
      BY <1>1, <1>5, <2>2
    <3>3. IsInjective(s.stack)
      BY DEF ReleasesUpto
    <3>4. QED
      BY <1>8, <1>9, <1>10, <3>1, <3>2, <3>3
  <2>3. QED
    BY <2>1, <2>2
<1>12. QED
  BY <1>2, <1>5, <1>6, <1>11 DEF ReleasesUpto, V

LEMMA ReleaseLoop ==
    ASSUME GraphInv, NEW p \in Open, \A q \in ToSet(Front(stack)) : Uses(Open, q) = {},
           ReleasesUpto([tmp |-> tmp, stack |-> Front(stack)], p, 0)
    PROVE  ReleasesUpto(Released(p), p, Len(child[p]))
<1> DEFINE L == Len(child[p])
           base == [tmp |-> tmp, stack |-> Front(stack)]
           Solves(f) == f = [k \in 0 .. L |-> IF k = 0 THEN base ELSE ReleaseChild(f[k - 1], child[p][k])]
           step == [u \in ReleaseStates \X (1 .. L) |-> ReleaseChild(u[1], child[p][u[2]])]
           Good == [n \in 0 .. L |-> {s \in ReleaseStates : ReleasesUpto(s, p, n)}]
<1>1. p \in Node /\ L \in Nat /\ \A k \in 1 .. L : child[p][k] \in Node
  <2>1. p \in Node
    BY ReachableNeeded DEF Open
  <2>2. QED
    BY <2>1, NodeNumbers
<1>2. step \in [ReleaseStates \X (1 .. L) -> ReleaseStates]
  BY <1>1, ReleaseChildType
<1>3. base \in ReleaseStates
  BY DEF ReleasesUpto
<1>4. \E f : Solves(f)
  <2>1. PICK f \in [0 .. L -> ReleaseStates] : Iterates(f, base, step, L)
    <3> HIDE DEF step, base, L, Solves, Good
    <3>1. L \in Nat /\ base \in ReleaseStates /\ step \in [ReleaseStates \X (1 .. L) -> ReleaseStates]
      BY <1>1, <1>2, <1>3
    <3>2. QED
      BY <3>1, RecursionExists
  <2>2. ASSUME NEW k \in 1 .. L PROVE f[k] = ReleaseChild(f[k - 1], child[p][k])
    <3>1. <<f[k - 1], k>> \in ReleaseStates \X (1 .. L)
      <4> HIDE DEF step, base, L
      <4>1. QED
        BY <1>1, <2>1
    <3>2. step[<<f[k - 1], k>>] = ReleaseChild(f[k - 1], child[p][k])
      BY <3>1
    <3>3. QED
      <4> HIDE DEF step, base, L
      <4>1. QED
        BY <2>1, <3>2 DEF Iterates
  <2>4. Solves(f)
    <3> HIDE DEF step, base, L
    <3>1. f = [k \in 0 .. L |-> f[k]]
      OBVIOUS
    <3>2. ASSUME NEW k \in 0 .. L
          PROVE  f[k] = IF k = 0 THEN base ELSE ReleaseChild(f[k - 1], child[p][k])
      <4>1. k # 0 => k \in 1 .. L
        BY <1>1
      <4>2. QED
        BY <2>1, <2>2, <4>1 DEF Iterates
    <3>3. QED
      BY <3>1, <3>2
  <2>5. QED
    BY <2>4
<1>5. ASSUME NEW f, Solves(f) PROVE ReleasesUpto(f[L], p, L)
  <2>1. f[0] \in Good[0]
    BY <1>1, <1>3, <1>5
  <2>2. ASSUME NEW n \in 0 .. L - 1, f[n] \in Good[n] PROVE f[n + 1] \in Good[n + 1]
    <3>1. n \in 0 .. L /\ n + 1 \in 0 .. L /\ n + 1 # 0 /\ n + 1 - 1 = n
      BY <1>1
    <3>2. ReleasesUpto(f[n], p, n)
      BY <2>2, <3>1
    <3>3. f[n + 1] = ReleaseChild(f[n], child[p][n + 1])
      <4> DEFINE m == n + 1
      <4>1. m \in 0 .. L /\ m # 0 /\ m - 1 = n
        BY <3>1
      <4> HIDE DEF m, base, L
      <4>2. f[m] = IF m = 0 THEN base ELSE ReleaseChild(f[m - 1], child[p][m])
        BY <1>5, <4>1
      <4>3. QED
        BY <4>1, <4>2 DEF m
    <3>4. ReleasesUpto(f[n + 1], p, n + 1)
      BY <3>2, <3>3, ReleaseOne
    <3>5. QED
      BY <3>1, <3>4 DEF ReleasesUpto
  <2>3. f[L] \in Good[L]
    <3> HIDE DEF Good, L
    <3>1. QED
      BY <1>1, <2>1, <2>2, LoopKeeps
  <2>4. QED
    BY <1>1, <2>3
<1>6. Released(p) = (CHOOSE f : Solves(f))[L]
  BY DEF Released
<1>7. QED
  <2> HIDE DEF Solves
  <2>1. Solves(CHOOSE f : Solves(f))
    BY <1>4
  <2>2. QED
    BY <1>5, <1>6, <2>1

LEMMA SortStep ==
    ASSUME GraphInv, SortInv, Sort
    PROVE  GraphInv' /\ SortInv' /\ phase' = "sort"
<1> DEFINE p == Last(stack)
           s == Released(p)
           rest == Front(stack)
<1>1. /\ phase = "sort" /\ stack # <<>> /\ tmp' = s.tmp /\ stack' = s.stack /\ a' = Append(a, p)
      /\ UNCHANGED <<child, vars0, roots, back, phase, pivot>>
  BY DEF Sort
<1>2. /\ Tally(Open) /\ ToSet(stack) = {q \in Open : Uses(Open, q) = {}} /\ IsInjective(stack)
      /\ ToSet(a) \subseteq Reachable /\ IsInjective(a) /\ UsersFirst
  BY <1>1 DEF SortInv
<1>3. /\ rest \in Seq(Node) /\ p \in ToSet(stack) /\ IsInjective(rest)
      /\ p \notin ToSet(rest) /\ ToSet(stack) = ToSet(rest) \cup {p}
  BY <1>1, <1>2, PopSet DEF GraphInv
<1>4. /\ p \in Open /\ Uses(Open, p) = {} /\ p \in Node /\ p \in Reachable /\ p \notin ToSet(a)
      /\ \A q \in ToSet(rest) : q \in Open /\ Uses(Open, q) = {}
  BY <1>2, <1>3, ReachableNeeded DEF Open
<1>5. ReleasesUpto([tmp |-> tmp, stack |-> rest], p, 0)
  <2> DEFINE base == [tmp |-> tmp, stack |-> rest]
  <2>1. base.tmp = tmp /\ base.stack = rest /\ base \in ReleaseStates
    BY <1>3 DEF ReleaseStates, GraphInv
  <2> HIDE DEF base
  <2>2. \A q \in Node : Without(Open, p, 0, q) = Uses(Open, q)
    BY <1>4, WithoutEnds
  <2>3. ReleasesUpto(base, p, 0)
    BY <1>2, <1>3, <2>1, <2>2 DEF ReleasesUpto, Tally
  <2>4. QED
    BY <2>3 DEF base
<1>6. ReleasesUpto(s, p, Len(child[p]))
  BY <1>4, <1>5, ReleaseLoop
<1>7. \A q \in Node : Without(Open, p, Len(child[p]), q) = Uses(Open \ {p}, q)
  BY <1>4, WithoutEnds
<1> DEFINE O == Open \ {p}
<1> HIDE DEF s, p, rest
<1>8. /\ \A q \in Node : /\ IsFiniteSet(Uses(O, q))
                         /\ tmp'[q] = 2 * Cardinality(Uses(O, q)) + RootBit(q)
      /\ tmp' \in [Node -> Int] /\ stack' \in Seq(Node) /\ IsInjective(stack')
      /\ ToSet(stack') = ToSet(rest) \cup {q \in Node : Uses(Open, q) # {} /\ Uses(O, q) = {}}
  BY <1>1, <1>6, <1>7 DEF ReleasesUpto, ReleaseStates, rest
<1>9. tmp' \in [Node -> Nat]
  <2>1. \A q \in Node : tmp'[q] \in Nat
    BY <1>8, FS_CardinalityType DEF RootBit
  <2>2. QED
    BY <1>8, <2>1
<1>10. a' \in Seq(Node) /\ ToSet(a') = ToSet(a) \cup {p} /\ IsInjective(a')
  BY <1>1, <1>2, <1>4, PushSet DEF GraphInv
<1>11. GraphInv'
  BY <1>1, <1>8, <1>9, <1>10, SameGraphInv DEF GraphInv
<1>12. Open' = O
  BY <1>1, <1>10, SameGraph DEF Open
<1> HIDE DEF O
<1>13. Tally(Open)'
  <2>1. PICK R : R = O
    OBVIOUS
  <2>2. Tally(R)'
    BY <1>1, <1>8, <2>1, TallyNext
  <2>3. QED
    BY <1>12, <2>1, <2>2 DEF Tally, Uses, RootBit
<1>14. ToSet(stack') = {q \in O : Uses(O, q) = {}}
  <2>1. ASSUME NEW q \in ToSet(rest) PROVE q \in O /\ Uses(O, q) = {}
    <3>1. q \in Open /\ q # p /\ Uses(Open, q) = {}
      BY <1>3, <1>4
    <3>2. Uses(O, q) = {}
      BY <3>1, NoUses DEF O
    <3>3. QED
      BY <3>1, <3>2 DEF O
  <2>2. ASSUME NEW q \in Node, Uses(Open, q) # {} PROVE q \in O
    <3>1. PICK r \in Open : q \in Operands(r)
      BY <2>2, NoUses
    <3>2. q \in Reachable
      BY <3>1, ReachableNeeded DEF Open, Needed
    <3>3. q \notin ToSet(a)
      <4>1. SUFFICES ASSUME NEW k \in DOMAIN a, a[k] = q PROVE FALSE
        BY DEF ToSet
      <4>2. PICK j \in 1 .. k - 1 : a[j] = r
        BY <1>2, <3>1, <4>1 DEF UsersFirst, Open
      <4>3. j \in DOMAIN a
        BY <4>2 DEF GraphInv
      <4>4. QED
        BY <3>1, <4>2, <4>3 DEF Open, ToSet
    <3>4. q # p
      BY <1>4, <2>2
    <3>5. QED
      BY <3>2, <3>3, <3>4 DEF Open, O
  <2>3. ASSUME NEW q \in O, Uses(O, q) = {}, Uses(Open, q) = {} PROVE q \in ToSet(rest)
    BY <1>2, <1>3, <2>3 DEF O
  <2>4. O \subseteq Node
    BY ReachableNeeded DEF O, Open
  <2>5. QED
    BY <1>8, <2>1, <2>2, <2>3, <2>4
<1>15. ToSet(stack') = {q \in Open : Uses(Open, q) = {}}'
  BY <1>1, <1>12, <1>14 DEF Uses
<1>16. UsersFirst'
  <2>1. /\ DOMAIN a = 1 .. Len(a) /\ Len(a) \in Nat /\ DOMAIN a' = 1 .. Len(a) + 1
        /\ a'[Len(a) + 1] = p /\ \A k \in 1 .. Len(a) : a'[k] = a[k]
    <3>1. a \in Seq(Node)
      BY DEF GraphInv
    <3>2. QED
      BY <1>1, <1>4, <3>1
  <2>2. SUFFICES ASSUME NEW k \in DOMAIN a', NEW r \in Reachable, a'[k] \in Operands(r)
                 PROVE  \E j \in 1 .. k - 1 : a'[j] = r
    BY <1>1, SameGraph DEF UsersFirst
  <2>3. CASE k \in 1 .. Len(a)
    <3>1. PICK j \in 1 .. k - 1 : a[j] = r
      BY <1>2, <2>1, <2>2, <2>3 DEF UsersFirst
    <3>2. QED
      BY <2>1, <2>3, <3>1
  <2>4. CASE k = Len(a) + 1
    <3>1. r \notin Open
      BY <1>4, <2>1, <2>2, <2>4, NoUses
    <3>2. PICK j \in DOMAIN a : a[j] = r
      BY <3>1 DEF Open, ToSet
    <3>3. QED
      BY <2>1, <2>4, <3>2
  <2>5. QED
    BY <2>1, <2>3, <2>4
<1>17. ToSet(a') \subseteq Reachable'
  BY <1>1, <1>2, <1>4, <1>10, SameGraph
<1>18. QED
  BY <1>1, <1>8, <1>10, <1>11, <1>13, <1>15, <1>16, <1>17 DEF SortInv
-----------------------------------------------------------------------------
(* The flags.                                                              *)

OperandsFirst(list) ==
  \A k \in DOMAIN list : Operands(list[k]) \subseteq {list[j] : j \in 1 .. k - 1}

\* The flags after the first n nodes of a list.
MarksUpto(b, list, n) ==
  /\ b \subseteq Node
  /\ \A p \in Leaves(child) : p \in b <=> p \in vars0
  /\ \A k \in 1 .. n : list[k] \in b <=> list[k] \in Depends

LEMMA MarkOne ==
    ASSUME GraphInv, NEW list \in Seq(Node), IsInjective(list), OperandsFirst(list),
           NEW n \in 0 .. Len(list) - 1, NEW b, MarksUpto(b, list, n)
    PROVE  MarksUpto(MarkBack(b, list[n + 1]), list, n + 1)
<1> DEFINE p == list[n + 1]
           d == MarkBack(b, p)
<1>1. /\ DOMAIN list = 1 .. Len(list) /\ Len(list) \in Nat /\ n \in Nat
      /\ n + 1 \in DOMAIN list /\ p \in Node
  BY ToSetType
<1>2. \A k \in 1 .. n : list[k] # p
  <2>1. \A i, j \in DOMAIN list : list[i] = list[j] => i = j
    BY DEF IsInjective
  <2>2. \A k \in 1 .. n : k \in DOMAIN list /\ k # n + 1
    BY <1>1
  <2>3. QED
    BY <1>1, <2>1, <2>2
<1>3. Operands(p) \subseteq {list[j] : j \in 1 .. n}
  <2>1. n + 1 - 1 = n
    BY <1>1
  <2>2. QED
    BY <1>1, <2>1 DEF OperandsFirst
<1>4. (\E q \in Operands(p) : q \in b) <=> Operands(p) \cap Depends # {}
  BY <1>3 DEF MarksUpto
<1>5. p \in Leaves(child) <=> child[p] = <<>>
  BY <1>1 DEF Leaves, Node
<1>6. p \in Depends <=> p \in vars0 \/ Operands(p) \cap Depends # {}
  BY <1>1, DependsNext
<1> HIDE DEF p
<1>7. CASE child[p] = <<>>
  <2>1. d = b
    BY <1>7 DEF MarkBack
  <2>2. Operands(p) = {}
    BY <1>7, EmptySet DEF Operands
  <2>3. p \in b <=> p \in Depends
    BY <1>5, <1>6, <1>7, <2>2 DEF MarksUpto
  <2>4. QED
    <3>1. ASSUME NEW k \in 1 .. n + 1 PROVE list[k] \in b <=> list[k] \in Depends
      <4>1. CASE k \in 1 .. n
        BY <4>1 DEF MarksUpto
      <4>2. CASE k = n + 1
        BY <2>3, <4>2 DEF p
      <4>3. QED
        BY <1>1, <4>1, <4>2
    <3> HIDE DEF d
    <3>2. QED
      BY <2>1, <3>1 DEF MarksUpto, d, p
<1>8. CASE child[p] # <<>>
  <2>1. d = IF \E q \in Operands(p) : q \in b THEN b \cup {p} ELSE b \ {p}
    BY <1>8 DEF MarkBack, Operands
  <2> HIDE DEF d
  <2>2. p \notin Leaves(child) /\ p \notin vars0
    BY <1>5, <1>8 DEF GraphInv
  <2>3. p \in d <=> p \in Depends
    BY <1>4, <1>6, <2>1, <2>2
  <2>4. \A q : q # p => (q \in d <=> q \in b)
    BY <2>1
  <2>5. d \subseteq Node
    BY <1>1, <2>1 DEF MarksUpto
  <2>6. \A q \in Leaves(child) : q \in d <=> q \in vars0
    BY <2>2, <2>4 DEF MarksUpto
  <2>7. ASSUME NEW k \in 1 .. n + 1 PROVE list[k] \in d <=> list[k] \in Depends
    <3>1. CASE k \in 1 .. n
      BY <1>2, <2>4, <3>1 DEF MarksUpto
    <3>2. CASE k = n + 1
      BY <2>3, <3>2 DEF p
    <3>3. QED
      BY <1>1, <3>1, <3>2
  <2>8. QED
    BY <2>5, <2>6, <2>7 DEF MarksUpto, d, p
<1>9. QED
  BY <1>7, <1>8

LEMMA MarkLoop ==
    ASSUME GraphInv, NEW list \in Seq(Node), IsInjective(list), OperandsFirst(list)
    PROVE  MarksUpto(MarkedBack(list), list, Len(list))
<1> DEFINE L == Len(list)
           States == SUBSET Node
           Solves(f) == f = [k \in 0 .. L |-> IF k = 0 THEN back ELSE MarkBack(f[k - 1], list[k])]
           step == [u \in States \X (1 .. L) |-> MarkBack(u[1], list[u[2]])]
           Good == [n \in 0 .. L |-> {b \in States : MarksUpto(b, list, n)}]
<1>1. L \in Nat /\ \A k \in 1 .. L : list[k] \in Node
  OBVIOUS
<1>2. step \in [States \X (1 .. L) -> States]
  <2>1. ASSUME NEW u \in States \X (1 .. L) PROVE MarkBack(u[1], list[u[2]]) \in States
    <3>1. u[1] \subseteq Node /\ list[u[2]] \in Node
      BY <1>1
    <3>2. QED
      BY <3>1 DEF MarkBack
  <2>2. QED
    BY <2>1
<1>3. back \in States /\ MarksUpto(back, list, 0)
  BY DEF MarksUpto, GraphInv
<1>4. \E f : Solves(f)
  <2>1. PICK f \in [0 .. L -> States] : Iterates(f, back, step, L)
    <3> HIDE DEF step, L, Solves, Good, States
    <3>1. QED
      BY <1>1, <1>2, <1>3, RecursionExists
  <2>2. ASSUME NEW k \in 1 .. L PROVE f[k] = MarkBack(f[k - 1], list[k])
    <3>1. <<f[k - 1], k>> \in States \X (1 .. L)
      <4> HIDE DEF step, L, States
      <4>1. QED
        BY <1>1, <2>1
    <3>2. step[<<f[k - 1], k>>] = MarkBack(f[k - 1], list[k])
      BY <3>1
    <3>3. QED
      <4> HIDE DEF step, L, States
      <4>1. QED
        BY <2>1, <3>2 DEF Iterates
  <2>4. Solves(f)
    <3> HIDE DEF step, L, States
    <3>1. f = [k \in 0 .. L |-> f[k]]
      BY <2>1
    <3>2. ASSUME NEW k \in 0 .. L
          PROVE  f[k] = IF k = 0 THEN back ELSE MarkBack(f[k - 1], list[k])
      <4>1. k # 0 => k \in 1 .. L
        BY <1>1
      <4>2. QED
        BY <2>1, <2>2, <4>1 DEF Iterates
    <3>3. QED
      BY <3>1, <3>2
  <2>5. QED
    BY <2>4
<1>5. ASSUME NEW f, Solves(f) PROVE MarksUpto(f[L], list, L)
  <2>1. f[0] \in Good[0]
    BY <1>1, <1>3, <1>5
  <2>2. ASSUME NEW n \in 0 .. L - 1, f[n] \in Good[n] PROVE f[n + 1] \in Good[n + 1]
    <3>1. n \in 0 .. L /\ n + 1 \in 0 .. L /\ n + 1 # 0 /\ n + 1 - 1 = n
      BY <1>1
    <3>2. MarksUpto(f[n], list, n)
      BY <2>2, <3>1
    <3>3. f[n + 1] = MarkBack(f[n], list[n + 1])
      <4> DEFINE m == n + 1
      <4>1. m \in 0 .. L /\ m # 0 /\ m - 1 = n
        BY <3>1
      <4> HIDE DEF m, L
      <4>2. f[m] = IF m = 0 THEN back ELSE MarkBack(f[m - 1], list[m])
        BY <1>5, <4>1
      <4>3. QED
        BY <4>1, <4>2 DEF m
    <3>4. MarksUpto(f[n + 1], list, n + 1)
      BY <3>2, <3>3, MarkOne
    <3>5. QED
      BY <3>1, <3>4 DEF MarksUpto
  <2>3. f[L] \in Good[L]
    <3> HIDE DEF Good, L
    <3>1. QED
      BY <1>1, <2>1, <2>2, LoopKeeps
  <2>4. QED
    BY <1>1, <2>3
<1>6. MarkedBack(list) = (CHOOSE f : Solves(f))[L]
  BY DEF MarkedBack
<1>7. QED
  <2> HIDE DEF Solves
  <2>1. Solves(CHOOSE f : Solves(f))
    BY <1>4
  <2>2. QED
    BY <1>5, <1>6, <2>1

-----------------------------------------------------------------------------
(* The end of the sort.                                                    *)

\* A set of nodes in which each is used by another is empty.
LEMMA EveryNodeUsed ==
    ASSUME GraphInv, NEW S, S \subseteq Node, \A q \in S : Uses(S, q) # {}
    PROVE  S = {}
<1> DEFINE L == Len(child)
           T == {n \in Nat : \A q \in S : q <= L - n}
<1>1. L \in Nat /\ S \subseteq 1 .. L
  BY NodeNumbers
<1>2. 0 \in T
  BY <1>1
<1>3. ASSUME NEW n \in Nat, n \in T PROVE n + 1 \in T
  <2>1. ASSUME NEW q \in S PROVE q <= L - (n + 1)
    <3>1. PICK r \in S : q \in Operands(r)
      BY NoUses
    <3>2. q \in Nat /\ r \in Nat /\ q < r
      BY <3>1, NodeNumbers
    <3>3. r <= L - n
      BY <1>3
    <3>4. QED
      BY <1>1, <3>2, <3>3
  <2>2. QED
    BY <2>1
<1>4. L \in T
  <2> HIDE DEF T, L
  <2>1. QED
    BY <1>1, <1>2, <1>3, NatSetInduction
<1>5. QED
  BY <1>1, <1>4

LEMMA ReverseOf ==
    ASSUME NEW T, NEW s \in Seq(T)
    PROVE  /\ Reverse(s) \in Seq(T) /\ DOMAIN Reverse(s) = DOMAIN s /\ Len(Reverse(s)) = Len(s)
           /\ \A k \in DOMAIN s : Len(s) + 1 - k \in DOMAIN s /\ Reverse(s)[k] = s[Len(s) + 1 - k]
           /\ ToSet(Reverse(s)) = ToSet(s)
           /\ IsInjective(s) => IsInjective(Reverse(s))
<1> DEFINE t == Reverse(s)
           n == Len(s)
<1>1. n \in Nat /\ DOMAIN s = 1 .. n /\ \A k \in 1 .. n : s[k] \in T
  OBVIOUS
<1>2. t = [k \in 1 .. n |-> s[(n - k) + 1]]
  BY DEF Reverse
<1> HIDE DEF t, n
<1>3. \A k \in 1 .. n : n + 1 - k \in 1 .. n /\ (n - k) + 1 = n + 1 - k
  BY <1>1
<1>4. DOMAIN t = 1 .. n /\ \A k \in 1 .. n : t[k] = s[n + 1 - k]
  BY <1>2, <1>3
<1>5. t \in Seq(T) /\ Len(t) = n
  <2>1. t \in [1 .. n -> T]
    BY <1>1, <1>2, <1>3
  <2>2. QED
    BY <1>1, <2>1
<1>6. ToSet(t) = ToSet(s)
  <2>1. ASSUME NEW k \in 1 .. n PROVE s[k] \in ToSet(t)
    <3>1. n + 1 - k \in 1 .. n /\ n + 1 - (n + 1 - k) = k
      BY <1>1
    <3>2. t[n + 1 - k] = s[k]
      BY <1>4, <3>1
    <3>3. QED
      BY <1>4, <3>1, <3>2 DEF ToSet
  <2>2. ASSUME NEW k \in 1 .. n PROVE t[k] \in ToSet(s)
    BY <1>1, <1>3, <1>4 DEF ToSet
  <2>3. QED
    BY <1>1, <1>4, <2>1, <2>2 DEF ToSet
<1>7. ASSUME IsInjective(s) PROVE IsInjective(t)
  <2> SUFFICES ASSUME NEW k \in 1 .. n, NEW l \in 1 .. n, t[k] = t[l] PROVE k = l
    BY <1>4 DEF IsInjective
  <2>1. n + 1 - k = n + 1 - l
    BY <1>1, <1>3, <1>4, <1>7 DEF IsInjective
  <2>2. QED
    BY <1>1, <2>1
<1>8. QED
  BY <1>1, <1>3, <1>4, <1>5, <1>6, <1>7 DEF t, n

LEMMA FinishStep ==
    ASSUME GraphInv, SortInv, Finish
    PROVE  GraphInv' /\ Linearized' /\ FlagsFollowVariables' /\ TmpIsZeroOutside' /\ phase' = "done"
<1> DEFINE list == Reverse(a)
<1>1. /\ phase = "sort" /\ stack = <<>> /\ phase' = "done"
      /\ tmp' = [p \in Node |-> IF p \in ToSet(a) THEN 0 ELSE tmp[p]]
      /\ a' = list /\ back' = MarkedBack(list)
      /\ UNCHANGED <<child, vars0, roots, stack, pivot>>
  BY DEF Finish
<1>2. /\ Tally(Open) /\ ToSet(stack) = {q \in Open : Uses(Open, q) = {}}
      /\ ToSet(a) \subseteq Reachable /\ IsInjective(a) /\ UsersFirst
  BY <1>1 DEF SortInv
<1>3. Reachable \subseteq Node /\ Needed(Reachable)
  BY ReachableNeeded
<1>4. Open = {}
  <2>1. Open \subseteq Node
    BY <1>3 DEF Open
  <2>2. \A q \in Open : Uses(Open, q) # {}
    BY <1>1, <1>2, EmptySet
  <2>3. QED
    BY <2>1, <2>2, EveryNodeUsed
<1>5. ToSet(a) = Reachable
  BY <1>2, <1>4 DEF Open
<1>6. a \in Seq(Node) /\ DOMAIN a = 1 .. Len(a) /\ Len(a) \in Nat
  BY DEF GraphInv
<1>7. /\ list \in Seq(Node) /\ DOMAIN list = DOMAIN a /\ Len(list) = Len(a)
      /\ ToSet(list) = Reachable /\ IsInjective(list)
      /\ \A k \in DOMAIN a : Len(a) + 1 - k \in DOMAIN a /\ list[k] = a[Len(a) + 1 - k]
  BY <1>2, <1>5, <1>6, ReverseOf
<1> HIDE DEF list
<1>8. OperandsFirst(list)
  <2> SUFFICES ASSUME NEW k \in DOMAIN list, NEW q \in Operands(list[k])
               PROVE  \E l \in 1 .. k - 1 : list[l] = q
    BY DEF OperandsFirst
  <2>1. list[k] \in Reachable
    BY <1>7 DEF ToSet
  <2>2. q \in Reachable
    BY <1>3, <2>1 DEF Needed
  <2>3. PICK i \in DOMAIN a : a[i] = q
    BY <1>5, <2>2 DEF ToSet
  <2>4. PICK j \in 1 .. i - 1 : a[j] = list[k]
    BY <1>2, <2>1, <2>3 DEF UsersFirst
  <2>5. Len(a) + 1 - k \in DOMAIN a /\ a[Len(a) + 1 - k] = a[j] /\ j \in DOMAIN a
    BY <1>6, <1>7, <2>4
  <2>6. Len(a) + 1 - k = j
    BY <1>2, <2>5 DEF IsInjective
  <2>7. Len(a) + 1 - i \in 1 .. k - 1 /\ Len(a) + 1 - i \in DOMAIN a /\ Len(a) + 1 - (Len(a) + 1 - i) = i
    BY <1>6, <1>7, <2>3, <2>4, <2>6
  <2>8. list[Len(a) + 1 - i] = q
    BY <1>7, <2>3, <2>7
  <2>9. QED
    BY <2>7, <2>8
<1>9. Linearized'
  <2>1. ToSet(a') = Reachable' /\ IsInjective(a')
    BY <1>1, <1>7, SameGraph
  <2>2. \A k \in DOMAIN a' : Operands(a'[k]) \subseteq {a'[j] : j \in 1 .. k - 1}
    BY <1>1, <1>8 DEF OperandsFirst
  <2>3. QED
    BY <1>1, <2>1, <2>2, SameGraph DEF Linearized, Operands
<1>10. MarksUpto(back', list, Len(list))
  BY <1>1, <1>7, <1>8, MarkLoop
<1>11. FlagsFollowVariables'
  <2>1. ASSUME NEW p \in Reachable PROVE p \in back' <=> p \in Depends
    <3>1. PICK k \in DOMAIN list : list[k] = p
      BY <1>7 DEF ToSet
    <3>2. k \in 1 .. Len(list)
      BY <1>6, <1>7
    <3>3. QED
      BY <1>10, <3>1, <3>2 DEF MarksUpto
  <2>2. QED
    BY <1>1, <2>1, SameGraph DEF FlagsFollowVariables
<1>12. \A p \in Node : tmp'[p] = 0
  <2>1. ASSUME NEW p \in Node, p \notin Reachable PROVE tmp[p] = 0
    <3>1. p \notin ToSet(roots)
      BY <1>3, <2>1 DEF Needed
    <3>2. Uses(Open, p) = {}
      BY <1>4 DEF Uses
    <3>3. tmp[p] = 2 * Cardinality({}) + 0
      BY <1>2, <3>1, <3>2 DEF Tally, RootBit
    <3>4. QED
      BY <3>3, FS_EmptySet
  <2>2. QED
    BY <1>1, <1>5, <2>1
<1>13. TmpIsZeroOutside'
  BY <1>1, <1>12, SameGraph DEF TmpIsZeroOutside
<1>14. GraphInv'
  <2>1. Node' = Node /\ (\A q : Operands(q)' = Operands(q)) /\ Leaves(child)' = Leaves(child)
    BY <1>1, SameGraph DEF Leaves
  <2>2. tmp' \in [Node -> Nat]
    BY <1>1 DEF GraphInv
  <2>3. back' \subseteq Node /\ \A p \in Leaves(child) : p \in back' <=> p \in vars0
    BY <1>10 DEF MarksUpto
  <2>4. a' \in Seq(Node) /\ phase' \in {"ready", "count", "sort", "done"}
    BY <1>1, <1>7
  <2>5. QED
    BY <1>1, <2>1, <2>2, <2>3, <2>4 DEF GraphInv
<1>15. QED
  BY <1>1, <1>9, <1>11, <1>13, <1>14

LEMMA AddPivotStep ==
    ASSUME GraphInv, TmpIsZeroOutside, AddPivot
    PROVE  GraphInv' /\ TmpIsZeroOutside' /\ phase' = "ready"
<1> DEFINE L == Len(child)
           new == L + 1
           top == Last(roots)
           rest == Front(roots)
<1>1. /\ phase = "done" /\ pivot' = Cardinality(Node) + 1
      /\ child' = Append(child, <<top>>) /\ roots' = Append(rest, pivot')
      /\ tmp' = Append(tmp, 0) /\ stack' = <<>> /\ a' = <<>> /\ phase' = "ready"
      /\ back' = (IF top \in back THEN back \cup {pivot'} ELSE back) /\ vars0' = vars0
  BY DEF AddPivot
<1>2. Node = 1 .. L /\ L \in Nat /\ new \notin Node /\ new \in Nat
  BY NodeNumbers
<1>3. pivot' = new
  <2>1. Cardinality(1 .. L) = L
    <3> HIDE DEF L
    <3>1. QED
      BY <1>2, FS_Interval
  <2>2. QED
    BY <1>1, <1>2, <2>1
<1>4. /\ rest \in Seq(Node) /\ top \in Node
      /\ IsInjective(rest)
  BY PopSet DEF GraphInv
<1>5. child' \in Seq(Seq(Nat)) /\ Node' = Node \cup {new}
  <2>1. child \in Seq(Seq(Nat)) /\ <<top>> \in Seq(Nat)
    BY <1>2, <1>4 DEF GraphInv
  <2>2. Len(child') = L + 1 /\ child' \in Seq(Seq(Nat))
    BY <1>1, <2>1
  <2>3. QED
    BY <1>2, <2>2 DEF Node
<1>6. /\ \A p \in Node : child'[p] = child[p]
      /\ child'[new] = <<top>>
  BY <1>1, <1>2 DEF GraphInv
<1>7. \A p \in Node' : Operands(p)' \subseteq 1 .. p - 1
  <2>1. ASSUME NEW p \in Node' PROVE ToSet(child'[p]) \subseteq 1 .. p - 1
    <3>1. CASE p \in Node
      <4>1. ToSet(child[p]) \subseteq 1 .. p - 1
        BY <3>1 DEF GraphInv, Operands
      <4>2. child'[p] = child[p]
        BY <1>6, <3>1
      <4>3. QED
        BY <4>1, <4>2
    <3>2. CASE p = new
      <4>1. ToSet(<<top>>) = {top}
        BY DEF ToSet
      <4>2. top \in 1 .. L /\ p - 1 = L
        BY <1>2, <1>4, <3>2
      <4>3. child'[p] = <<top>>
        BY <1>6, <3>2
      <4>4. QED
        BY <4>1, <4>2, <4>3
    <3>3. QED
      BY <1>5, <3>1, <3>2
  <2>2. QED
    BY <2>1 DEF Operands
<1>8. Leaves(child)' = Leaves(child)
  <2>1. Leaves(child)' = {p \in Node' : child'[p] = <<>>} /\ Leaves(child) = {p \in Node : child[p] = <<>>}
    BY DEF Leaves, Node
  <2>2. <<top>> # <<>>
    OBVIOUS
  <2>3. QED
    BY <1>5, <1>6, <2>1, <2>2
<1> HIDE DEF L, new, top, rest
<1>9. roots' \in Seq(Node') /\ roots' # <<>> /\ IsInjective(roots')
  <2>1. rest \in Seq(Node') /\ new \in Node'
    BY <1>4, <1>5
  <2>2. new \notin ToSet(rest)
    BY <1>2, <1>4, ToSetType
  <2>3. roots' \in Seq(Node') /\ IsInjective(roots')
    BY <1>1, <1>3, <1>4, <2>1, <2>2, PushSet
  <2>4. QED
    BY <1>1, <2>1, <2>3
<1>10. tmp' \in [Node' -> Nat] /\ \A p \in Node' : tmp'[p] = 0
  <2>1. tmp \in [1 .. L -> Nat] /\ L \in Nat /\ \A p \in 1 .. L : tmp[p] = 0
    BY <1>1, <1>2 DEF GraphInv, TmpIsZeroOutside
  <2>2. tmp \in Seq(Nat) /\ Len(tmp) = L
    BY <2>1
  <2>3. /\ Append(tmp, 0) \in [1 .. L + 1 -> Nat]
        /\ \A p \in 1 .. L + 1 : Append(tmp, 0)[p] = 0
    <3> DEFINE t == Append(tmp, 0)
    <3>1. DOMAIN t = 1 .. L + 1 /\ t[L + 1] = 0 /\ \A p \in 1 .. L : t[p] = tmp[p]
      BY <2>1, <2>2
    <3>2. t \in Seq(Nat)
      BY <2>2
    <3>3. \A p \in 1 .. L + 1 : t[p] = 0
      BY <2>1, <3>1
    <3>4. t = [p \in 1 .. L + 1 |-> t[p]]
      <4>1. t \in [1 .. Len(t) -> Nat] /\ DOMAIN t = 1 .. Len(t)
        <5> HIDE DEF t
        <5>1. QED
          BY <3>2, LenProperties
      <4>2. QED
        <5> HIDE DEF t
        <5>1. QED
          BY <3>1, <4>1
    <3> HIDE DEF t
    <3>5. t \in [1 .. L + 1 -> Nat]
      BY <3>3, <3>4
    <3>6. QED
      BY <3>3, <3>5 DEF t
  <2>4. Node' = 1 .. L + 1
    BY <1>2, <1>5 DEF new
  <2>5. QED
    BY <1>1, <2>3, <2>4
<1>11. stack' \in Seq(Node') /\ a' \in Seq(Node')
  BY <1>1
<1>12. back' \subseteq Node' /\ \A p \in Leaves(child)' : p \in back' <=> p \in vars0'
  <2>1. new \notin Leaves(child)
    BY <1>2 DEF Leaves, Node
  <2>2. back' \subseteq Node'
    BY <1>1, <1>3, <1>5 DEF GraphInv
  <2>3. \A p : p # new => (p \in back' <=> p \in back)
    BY <1>1, <1>3
  <2>4. QED
    BY <1>1, <1>8, <2>1, <2>2, <2>3 DEF GraphInv
<1>13. pivot' \in Nat /\ phase' \in {"ready", "count", "sort", "done"} /\ vars0' \subseteq Leaves(child)'
  BY <1>1, <1>2, <1>3, <1>8 DEF GraphInv
<1>14. GraphInv'
  BY <1>5, <1>7, <1>9, <1>10, <1>11, <1>12, <1>13 DEF GraphInv
<1>15. TmpIsZeroOutside'
  BY <1>10 DEF TmpIsZeroOutside
<1>16. QED
  BY <1>1, <1>14, <1>15
-----------------------------------------------------------------------------
(* The linearization is correct.                                           *)

LEMMA InitHolds == Init => CompileInv
<1> SUFFICES ASSUME Init PROVE CompileInv
  OBVIOUS
<1>1. /\ child \in Graphs /\ vars0 \in SUBSET Leaves(child) /\ roots \in RootLists(child)
      /\ tmp = [p \in Node |-> 0] /\ stack = <<>> /\ a = <<>> /\ phase = "ready" /\ pivot = 0
      /\ \E junk \in {{}, Node \ Leaves(child)} : back = vars0 \cup junk
  BY DEF Init
<1>2. child \in Seq(Seq(Nat)) /\ \A p \in Node : Operands(p) \subseteq 1 .. p - 1
  BY <1>1, GraphAssumption DEF Node, Operands
<1>3. roots \in Seq(Node) /\ roots # <<>> /\ IsInjective(roots)
  <2>1. PICK k \in 1 .. MaxRoots : roots \in [1 .. k -> Node]
    BY <1>1 DEF RootLists, Node
  <2>2. k \in Nat /\ k >= 1
    BY <2>1, GraphAssumption
  <2>3. roots \in Seq(Node) /\ Len(roots) = k
    BY <2>1, <2>2
  <2>4. QED
    BY <1>1, <2>2, <2>3 DEF RootLists
<1>4. back \subseteq Node /\ \A p \in Leaves(child) : p \in back <=> p \in vars0
  BY <1>1 DEF Leaves, Node
<1>5. GraphInv
  BY <1>1, <1>2, <1>3, <1>4 DEF GraphInv
<1>6. QED
  BY <1>1, <1>5 DEF CompileInv, CountInv, SortInv, Linearized, FlagsFollowVariables, TmpIsZeroOutside

LEMMA NextKeeps == CompileInv /\ [Next]_vars => CompileInv'
<1> SUFFICES ASSUME CompileInv, [Next]_vars PROVE CompileInv'
  OBVIOUS
<1> USE DEF CompileInv
<1>1. CASE MarkRoots
  <2>1. GraphInv' /\ CountInv' /\ phase' = "count"
    BY <1>1, MarkRootsStep
  <2>2. QED
    BY <2>1 DEF SortInv, Linearized, FlagsFollowVariables, TmpIsZeroOutside
<1>2. CASE CountParents
  <2>1. GraphInv' /\ CountInv' /\ phase' = "count"
    BY <1>2, CountParentsStep
  <2>2. QED
    BY <2>1 DEF SortInv, Linearized, FlagsFollowVariables, TmpIsZeroOutside
<1>3. CASE StartSort
  <2>1. GraphInv' /\ SortInv' /\ phase' = "sort"
    BY <1>3, StartSortStep
  <2>2. QED
    BY <2>1 DEF CountInv, Linearized, FlagsFollowVariables, TmpIsZeroOutside
<1>4. CASE Sort
  <2>1. GraphInv' /\ SortInv' /\ phase' = "sort"
    BY <1>4, SortStep
  <2>2. QED
    BY <2>1 DEF CountInv, Linearized, FlagsFollowVariables, TmpIsZeroOutside
<1>5. CASE Finish
  <2>1. GraphInv' /\ Linearized' /\ FlagsFollowVariables' /\ TmpIsZeroOutside' /\ phase' = "done"
    BY <1>5, FinishStep
  <2>2. QED
    BY <2>1 DEF CountInv, SortInv
<1>6. CASE AddPivot
  <2>1. GraphInv' /\ TmpIsZeroOutside' /\ phase' = "ready"
    BY <1>6, AddPivotStep
  <2>2. QED
    BY <2>1 DEF CountInv, SortInv, Linearized, FlagsFollowVariables
<1>7. CASE UNCHANGED vars
  <2>1. UNCHANGED <<child, vars0, roots, tmp, stack, a, back, phase, pivot>>
    BY <1>7 DEF vars
  <2>2. /\ Node' = Node /\ Reachable' = Reachable /\ Depends' = Depends /\ Leaves(child)' = Leaves(child)
        /\ \A q : RootBit(q)' = RootBit(q) /\ Operands(q)' = Operands(q)
        /\ Marked' = Marked /\ Visited' = Visited /\ Open' = Open
    BY <2>1, SameGraph DEF Leaves, Marked, Visited, Open
  <2>3. GraphInv'
    BY <2>1, SameGraphInv DEF GraphInv
  <2>4. Tally(Visited)' <=> Tally(Visited)
    <3>1. PICK V : V = Visited
      OBVIOUS
    <3>2. \A q \in Node : Uses(V, q)' = Uses(V, q) /\ RootBit(q)' = RootBit(q) /\ tmp'[q] = tmp[q]
      BY <2>1, <2>2 DEF Uses
    <3>3. Tally(V)' <=> Tally(V)
      BY <2>2, <3>2 DEF Tally
    <3>4. V = Visited'
      BY <2>2, <3>1
    <3>5. Tally(Visited)' <=> Tally(V)'
      BY <3>4 DEF Tally, Uses, RootBit
    <3>6. QED
      BY <3>1, <3>3, <3>5
  <2>5. Tally(Open)' <=> Tally(Open)
    BY <2>1, <2>2 DEF Tally, Uses
  <2>6. CountInv'
    BY <2>1, <2>2, <2>4 DEF CountInv
  <2>7. {q \in Open : Uses(Open, q) = {}}' = {q \in Open : Uses(Open, q) = {}}
    BY <2>1, <2>2 DEF Uses
  <2>8. SortInv'
    BY <2>1, <2>2, <2>5, <2>7 DEF SortInv, UsersFirst
  <2>9. Linearized' /\ FlagsFollowVariables' /\ TmpIsZeroOutside'
    BY <2>1, <2>2 DEF Linearized, FlagsFollowVariables, TmpIsZeroOutside
  <2>10. QED
    BY <2>3, <2>6, <2>8, <2>9
<1>8. QED
  BY <1>1, <1>2, <1>3, <1>4, <1>5, <1>6, <1>7 DEF Next, Step, Stop

LEMMA CompileInvGives == CompileInv => CompiledGraph
<1> SUFFICES ASSUME CompileInv PROVE CompiledGraph
  OBVIOUS
<1>1. GraphInv /\ SortInv /\ Linearized /\ FlagsFollowVariables /\ TmpIsZeroOutside
  BY DEF CompileInv
<1>2. TypeOK
  <2>1. DOMAIN tmp = Node /\ ToSet(tmp) \subseteq Nat
    BY <1>1 DEF GraphInv, ToSet
  <2>2. ToSet(roots) \subseteq Node /\ ToSet(stack) \subseteq Node /\ ToSet(a) \subseteq Node
    BY <1>1, ToSetType DEF GraphInv
  <2>3. vars0 \subseteq Node
    BY <1>1 DEF GraphInv, Leaves, Node
  <2>4. QED
    BY <1>1, <2>1, <2>2, <2>3 DEF TypeOK, GraphInv
<1>3. CountsAreOpenUses
  <2> SUFFICES ASSUME phase = "sort"
               PROVE  /\ \A q \in Reachable : tmp[q] \div 2 = Cardinality(Uses(Open, q))
                      /\ ToSet(stack) = {q \in Open : tmp[q] \div 2 = 0}
                      /\ IsInjective(stack)
    BY DEF CountsAreOpenUses, Open
  <2>1. Tally(Open) /\ ToSet(stack) = {q \in Open : Uses(Open, q) = {}} /\ IsInjective(stack)
    BY <1>1 DEF SortInv
  <2>2. Reachable \subseteq Node /\ Open \subseteq Node
    BY <1>1, ReachableNeeded DEF Open
  <2>3. \A q \in Node : /\ tmp[q] \div 2 = Cardinality(Uses(Open, q))
                        /\ tmp[q] \div 2 = 0 <=> Uses(Open, q) = {}
    BY <2>1, TallyHalf
  <2>4. QED
    BY <2>1, <2>2, <2>3
<1>4. QED
  BY <1>1, <1>2, <1>3 DEF CompiledGraph

\* For every graph, every list of different roots and whatever flags are set before:
\* kad_compile_array gives each node the roots need once, operands before the nodes
\* that use them, flags for exactly the nodes that depend on a variable, and leaves
\* tmp zero for the second call (kautodiff.c:459-501).
THEOREM GraphIsCompiled == Spec => []CompiledGraph
<1>1. Spec => []CompileInv
  BY InitHolds, NextKeeps, PTL DEF Spec
<1>2. QED
  BY <1>1, CompileInvGives, PTL
-----------------------------------------------------------------------------
(* Shuffles.                                                               *)

Orders(n) == {s \in [1 .. n -> 1 .. n] : IsInjective(s) /\ ToSet(s) = 1 .. n}

LEMMA IdentityOrder ==
    ASSUME NEW n \in Nat
    PROVE  [j \in 1 .. n |-> j] \in Orders(n)
  BY DEF Orders, IsInjective, ToSet

\* Exchanging two entries of a permutation gives a permutation.
LEMMA SwapOrder ==
    ASSUME NEW n \in Nat, NEW s \in Orders(n), NEW i \in 1 .. n, NEW j \in 1 .. n
    PROVE  Swap(s, i, j) \in Orders(n)
<1> DEFINE t == Swap(s, i, j)
           To(b) == IF b = i THEN j ELSE IF b = j THEN i ELSE b
<1>1. s \in [1 .. n -> 1 .. n] /\ IsInjective(s) /\ ToSet(s) = 1 .. n
  BY DEF Orders
<1>2. t \in [1 .. n -> 1 .. n] /\ \A b \in 1 .. n : t[b] = s[To(b)] /\ To(b) \in 1 .. n
  BY <1>1 DEF Swap
<1>3. \A b, c \in 1 .. n : To(b) = To(c) => b = c
  OBVIOUS
<1>4. \A b \in 1 .. n : To(To(b)) = b
  OBVIOUS
<1> HIDE DEF t, To
<1>5. IsInjective(t)
  BY <1>1, <1>2, <1>3 DEF IsInjective
<1>6. ToSet(t) = 1 .. n
  <2>1. ToSet(t) \subseteq 1 .. n
    BY <1>2 DEF ToSet
  <2>2. ASSUME NEW v \in 1 .. n PROVE v \in ToSet(t)
    <3>1. PICK b \in 1 .. n : s[b] = v
      BY <1>1, <2>2 DEF ToSet
    <3>2. To(b) \in 1 .. n /\ t[To(b)] = v
      BY <1>2, <1>4, <3>1
    <3>3. QED
      BY <1>2, <3>2 DEF ToSet
  <2>3. QED
    BY <2>1, <2>2
<1>7. QED
  BY <1>2, <1>5, <1>6 DEF Orders, t

\* kann_shuffle gives a permutation, whatever kad_drand returns.
LEMMA ShuffledOrder ==
    ASSUME NEW n \in Nat, NEW draws \in Draws(n)
    PROVE  Shuffled(n, draws) \in Orders(n)
<1> DEFINE base == [j \in 1 .. n |-> j]
           One(s, k) == Swap(s, draws[n + 1 - k] + 1, n + 1 - k)
           Solves(f) == f = [k \in 0 .. n |-> IF k = 0 THEN base ELSE One(f[k - 1], k)]
           step == [u \in Orders(n) \X (1 .. n) |-> One(u[1], u[2])]
           Good == [k \in 0 .. n |-> Orders(n)]
<1>1. base \in Orders(n)
  BY IdentityOrder
<1>2. ASSUME NEW s \in Orders(n), NEW k \in 1 .. n PROVE One(s, k) \in Orders(n)
  <2>1. n + 1 - k \in 1 .. n /\ draws[n + 1 - k] + 1 \in 1 .. n
    BY DEF Draws
  <2>2. QED
    BY <2>1, SwapOrder
<1>3. step \in [Orders(n) \X (1 .. n) -> Orders(n)]
  <2> HIDE DEF One
  <2>1. QED
    BY <1>2
<1>4. \E f : Solves(f)
  <2>1. PICK f \in [0 .. n -> Orders(n)] : Iterates(f, base, step, n)
    <3> HIDE DEF step, base, Solves, Good
    <3>1. QED
      BY <1>1, <1>3, RecursionExists
  <2>2. ASSUME NEW k \in 1 .. n PROVE f[k] = One(f[k - 1], k)
    <3> HIDE DEF base, One
    <3>1. f[k - 1] \in Orders(n)
      BY <2>1
    <3>2. step[<<f[k - 1], k>>] = One(f[k - 1], k)
      BY <3>1
    <3>3. QED
      <4> HIDE DEF step
      <4>1. QED
        BY <2>1, <3>2 DEF Iterates
  <2>3. f = [k \in 0 .. n |-> f[k]]
    OBVIOUS
  <2>4. ASSUME NEW k \in 0 .. n PROVE f[k] = IF k = 0 THEN base ELSE One(f[k - 1], k)
    <3> HIDE DEF base, One, step
    <3>1. k # 0 => k \in 1 .. n
      OBVIOUS
    <3>2. QED
      BY <2>1, <2>2, <3>1 DEF Iterates
  <2>5. Solves(f)
    <3> HIDE DEF base, One
    <3>1. QED
      BY <2>3, <2>4
  <2>6. QED
    BY <2>5
<1>5. ASSUME NEW f, Solves(f) PROVE f[n] \in Orders(n)
  <2>1. f[0] \in Good[0]
    BY <1>1, <1>5
  <2>2. ASSUME NEW k \in 0 .. n - 1, f[k] \in Good[k] PROVE f[k + 1] \in Good[k + 1]
    <3> DEFINE m == k + 1
    <3>1. m \in 0 .. n /\ m # 0 /\ m - 1 = k /\ m \in 1 .. n /\ k \in 0 .. n
      OBVIOUS
    <3> HIDE DEF m, base, One
    <3>2. f[m] = IF m = 0 THEN base ELSE One(f[m - 1], m)
      BY <1>5, <3>1
    <3>3. f[m] = One(f[k], m) /\ f[k] \in Orders(n)
      BY <2>2, <3>1, <3>2
    <3>4. f[m] \in Good[m]
      BY <1>2, <3>1, <3>3
    <3>5. QED
      BY <3>4 DEF m
  <2>3. f[n] \in Good[n]
    <3> HIDE DEF Good, Solves
    <3>1. QED
      BY <2>1, <2>2, LoopKeeps
  <2>4. QED
    BY <2>3
<1>6. Shuffled(n, draws) = (CHOOSE f : Solves(f))[n]
  BY DEF Shuffled
<1>7. QED
  <2> HIDE DEF Solves
  <2>1. Solves(CHOOSE f : Solves(f))
    BY <1>4
  <2>2. QED
    BY <1>5, <1>6, <2>1

-----------------------------------------------------------------------------
(* Batches.                                                                *)

\* The buffers b and the rows s of a pass over order, once a batch was taken.
BatchDone(n, order, p, m, L, b, taken, s) ==
  /\ Fill(b, taken) \in [1 .. L -> 0 .. NRow]
  /\ Costed(Fill(b, taken), m) = taken
  /\ s \o Costed(Fill(b, taken), m) = [j \in 1 .. p + m |-> order[j]]

\* A batch of m rows is put into the buffers and costed: the pass goes on from p to
\* p + m, whatever the buffers held.
LEMMA BatchStep ==
    ASSUME NEW n \in Nat, NEW order \in [1 .. n -> 1 .. NRow], NEW p \in 0 .. n,
           NEW m \in Nat, m > 0, p + m <= n, NEW L \in Nat, m <= L,
           NEW b \in [1 .. L -> 0 .. NRow], NEW taken, taken = [j \in 1 .. m |-> order[p + j]],
           NEW s, s = [j \in 1 .. p |-> order[j]], NRow \in Nat
    PROVE  BatchDone(n, order, p, m, L, b, taken, s)
<1>1. taken \in [1 .. m -> 1 .. NRow]
  OBVIOUS
<1>2. taken \in Seq(1 .. NRow) /\ Len(taken) = m
  BY <1>1
<1>3. Fill(b, taken) \in [1 .. L -> 0 .. NRow] /\ \A j \in 1 .. m : Fill(b, taken)[j] = taken[j]
  BY <1>1, <1>2 DEF Fill
<1>4. Costed(Fill(b, taken), m) = taken
  <2> DEFINE f == Fill(b, taken)
             c == SubSeq(f, 1, m)
  <2> HIDE DEF f
  <2>1. f \in [1 .. L -> 0 .. NRow] /\ \A j \in 1 .. m : f[j] = taken[j]
    BY <1>3 DEF f
  <2>2. c \in Seq(0 .. NRow) /\ Len(c) = m /\ \A j \in 1 .. m : c[j] = f[j]
    BY <2>1
  <2>3. taken \in Seq(0 .. NRow)
    BY <1>1
  <2> HIDE DEF c
  <2>4. c = taken
    BY <1>2, <2>1, <2>2, <2>3, SeqEqual
  <2>5. QED
    BY <2>4 DEF Costed, c, f
<1>5. s \o taken = [j \in 1 .. p + m |-> order[j]]
  <2> DEFINE c == s \o taken
             d == [j \in 1 .. p + m |-> order[j]]
  <2>1. s \in Seq(1 .. NRow) /\ Len(s) = p
    OBVIOUS
  <2>2. c \in Seq(1 .. NRow) /\ Len(c) = p + m
        /\ \A j \in 1 .. p + m : c[j] = IF j <= p THEN s[j] ELSE taken[j - p]
    BY <1>2, <2>1, ConcatProperties
  <2>3. d \in Seq(1 .. NRow) /\ Len(d) = p + m
    OBVIOUS
  <2>4. ASSUME NEW j \in 1 .. p + m PROVE c[j] = d[j]
    <3> HIDE DEF c
    <3>1. CASE j <= p
      <4>0. c[j] = IF j <= p THEN s[j] ELSE taken[j - p]
        BY <2>2
      <4>1. j \in 1 .. p /\ c[j] = s[j]
        BY <3>1, <4>0
      <4>2. s[j] = order[j] /\ d[j] = order[j]
        BY <4>1
      <4>3. QED
        BY <4>1, <4>2
    <3>2. CASE ~(j <= p)
      <4>1. PICK q \in 1 .. m : q = j - p /\ p + q = j
        BY <3>2
      <4>2. taken[q] = order[p + q]
        OBVIOUS
      <4>3. c[j] = taken[q]
        BY <2>2, <3>2, <4>1
      <4>4. d[j] = order[j]
        OBVIOUS
      <4>5. QED
        BY <4>1, <4>2, <4>3, <4>4
    <3>3. QED
      BY <3>1, <3>2
  <2>5. QED
    <3> HIDE DEF c, d
    <3>1. c = d
      BY <2>2, <2>3, <2>4, SeqEqual
    <3>2. QED
      BY <3>1 DEF c, d
<1>6. QED
  BY <1>3, <1>4, <1>5 DEF BatchDone

-----------------------------------------------------------------------------
(***************************************************************************)
(* The inductive invariant.                                                *)
(***************************************************************************)
Stages == {"epoch", "train", "validate", "judge", "returned", "cost", "done"}

\* The rows of the three passes, in the order in which they are costed, and the part
\* of a pass that is over.
TrainOrder == [j \in 1 .. NTrain |-> rows[shuf[j]]]
ValOrder == [j \in 1 .. nVal |-> rows[NTrain + j]]
CostOrder == [j \in 1 .. NRow |-> j]
First(order, p) == [j \in 1 .. p |-> order[j]]

BufSize == IF stage \in {"cost", "done"} THEN CostSize ELSE MiniSize
TrainRowSet == {rows[j] : j \in 1 .. NTrain}
ValRowSet == {rows[j] : j \in NTrain + 1 .. NRow}

PassInv ==
  /\ stage \in Stages /\ nVal \in 0 .. NRow /\ rows \in Orders(NRow)
  /\ buf \in [1 .. BufSize -> 0 .. NRow] /\ batch \in 1 .. NRow
  /\ stage \in {"train", "validate"} => shuf \in Orders(NTrain)
  /\ stage = "train" => nProc \in 0 .. NTrain /\ seen = First(TrainOrder, nProc) /\ isTrain = TRUE
  /\ stage \in {"validate", "judge"} =>
       nProc \in 0 .. nVal /\ seen = First(ValOrder, nProc) /\ isTrain = FALSE
  /\ stage = "judge" => nProc = nVal
  /\ stage \in {"cost", "done"} =>
       nProc \in 0 .. NRow /\ seen = First(CostOrder, nProc) /\ isTrain = FALSE
  /\ stage = "done" => nProc = NRow
  /\ trained \subseteq TrainRowSet /\ validated \subseteq ValRowSet

\* The updates an epoch makes, and those of the current epoch so far.
Updates == (NTrain + MiniSize - 1) \div MiniSize
Batches == ann - epoch * Updates
AnnInv ==
  /\ epoch \in 0 .. MaxEpoch /\ ann \in Nat
  /\ stage \in {"train", "validate", "judge"} => epoch < MaxEpoch
  /\ stage = "epoch" => ann = epoch * Updates
  /\ stage = "train" => /\ Batches \in Nat
                        /\ IF nProc < NTrain THEN nProc = MiniSize * Batches ELSE Batches = Updates
  /\ stage \in {"validate", "judge"} => ann = epoch * Updates + Updates

\* min_x is from the epoch j of those judged, which none was better than since.
Leads(j) ==
  /\ judged[j][1] = min /\ ToFloat(judged[j][2]) = minVal
  /\ \A q \in DOMAIN judged : minVal <= ToFloat(judged[q][2])
  /\ dropStreak = Len(judged) - j
JudgeInv ==
  /\ dropStreak \in 0 .. MaxDropStreak /\ minVal \in Nat /\ min \in Nat \cup {NotSet}
  /\ judged \in Seq(Nat \X ValCosts)
  /\ IF judged = <<>> THEN min = NotSet /\ minVal = Infinity /\ dropStreak = 0
                      ELSE min # NotSet /\ \E j \in DOMAIN judged : Leads(j)
  /\ IF stage \in {"returned", "cost", "done"}
     THEN IF judged = <<>> THEN epoch = MaxEpoch /\ ann = epoch * Updates
          ELSE ann = min /\ (epoch < MaxEpoch => dropStreak >= MaxDropStreak)
     ELSE dropStreak < MaxDropStreak

\* The rows of kann_cost_fnn1 that have been costed have the weight 1.
CostInv ==
  /\ stage = "cost" =>
       /\ cost \in [1 .. NRow -> Nat \X (Nat \ {0})]
       /\ \A r \in 1 .. NRow : cost[r][1] = IF r <= nProc THEN cost[r][2] ELSE 0
  /\ stage = "done" => CostIsMean

TrainInv == PassInv /\ AnnInv /\ JudgeInv /\ CostInv

-----------------------------------------------------------------------------
(* The passes over the data.                                               *)

LEMMA SameData ==
    ASSUME UNCHANGED data
    PROVE  /\ nVal' = nVal /\ rows' = rows /\ NTrain' = NTrain /\ Updates' = Updates
           /\ ValOrder' = ValOrder /\ TrainRowSet' = TrainRowSet /\ ValRowSet' = ValRowSet
           /\ UNCHANGED shuf => TrainOrder' = TrainOrder
  BY DEF data, NTrain, Updates, ValOrder, TrainOrder, TrainRowSet, ValRowSet

LEMMA Sizes ==
    ASSUME NEW n \in Nat, NEW p \in 0 .. n, p < n, NEW size \in Nat \ {0}
    PROVE  /\ Least(n - p, size) \in Nat /\ Least(n - p, size) > 0 /\ Least(n - p, size) <= size
           /\ p + Least(n - p, size) <= n
           /\ p + Least(n - p, size) < n => Least(n - p, size) = size
  BY DEF Least

LEMMA PassTypes ==
    ASSUME PassInv
    PROVE  /\ NRow \in Nat \ {0} /\ MiniSize \in Nat \ {0} /\ CostSize \in Nat \ {0}
           /\ nVal \in Nat /\ NTrain \in Nat /\ NTrain <= NRow /\ NTrain + nVal = NRow
           /\ rows \in [1 .. NRow -> 1 .. NRow]
           /\ ValOrder \in [1 .. nVal -> 1 .. NRow] /\ CostOrder \in [1 .. NRow -> 1 .. NRow]
           /\ stage \in {"train", "validate"} => /\ shuf \in [1 .. NTrain -> 1 .. NTrain]
                                                 /\ TrainOrder \in [1 .. NTrain -> 1 .. NRow]
<1>1. NRow \in Nat \ {0} /\ MiniSize \in Nat \ {0} /\ CostSize \in Nat \ {0}
  BY TrainAssumption DEF CostSize, Least
<1>2. nVal \in Nat /\ NTrain \in Nat /\ NTrain <= NRow /\ NTrain + nVal = NRow
  BY <1>1 DEF PassInv, NTrain
<1>3. rows \in [1 .. NRow -> 1 .. NRow]
  BY DEF PassInv, Orders
<1>4. ValOrder \in [1 .. nVal -> 1 .. NRow]
  <2>1. ASSUME NEW j \in 1 .. nVal PROVE rows[NTrain + j] \in 1 .. NRow
    <3>1. NTrain + j \in 1 .. NRow
      BY <1>1, <1>2
    <3>2. QED
      BY <1>3, <3>1
  <2>2. QED
    BY <2>1 DEF ValOrder
<1>5. CostOrder \in [1 .. NRow -> 1 .. NRow]
  BY DEF CostOrder
<1>6. ASSUME stage \in {"train", "validate"}
      PROVE  shuf \in [1 .. NTrain -> 1 .. NTrain] /\ TrainOrder \in [1 .. NTrain -> 1 .. NRow]
  <2>1. shuf \in [1 .. NTrain -> 1 .. NTrain]
    BY <1>6 DEF PassInv, Orders
  <2>2. ASSUME NEW j \in 1 .. NTrain PROVE rows[shuf[j]] \in 1 .. NRow
    <3>1. shuf[j] \in 1 .. NRow
      BY <1>1, <1>2, <2>1
    <3>2. QED
      BY <1>3, <3>1
  <2>3. QED
    BY <2>1, <2>2 DEF TrainOrder
<1>7. QED
  BY <1>1, <1>2, <1>3, <1>4, <1>5, <1>6

LEMMA EmptyFirst ==
    ASSUME NEW order
    PROVE  First(order, 0) = <<>>
  BY DEF First

LEMMA TrainBatchPass ==
    ASSUME PassInv, TrainBatch
    PROVE  PassInv'
<1> DEFINE m == Ms(NTrain, MiniSize)
<1>1. /\ stage = "train" /\ nProc < NTrain /\ nProc \in 0 .. NTrain /\ seen = First(TrainOrder, nProc)
      /\ buf \in [1 .. MiniSize -> 0 .. NRow] /\ isTrain = TRUE
  BY DEF PassInv, TrainBatch, BufSize
<1>2. m \in Nat /\ m > 0 /\ m <= MiniSize /\ nProc + m <= NTrain
  BY <1>1, PassTypes, Sizes DEF Ms
<1>3. TrainRows = [j \in 1 .. m |-> TrainOrder[nProc + j]]
  <2>1. ASSUME NEW j \in 1 .. m PROVE rows[shuf[nProc + j]] = TrainOrder[nProc + j]
    <3>1. nProc + j \in 1 .. NTrain
      BY <1>1, <1>2, PassTypes
    <3>2. QED
      BY <3>1 DEF TrainOrder
  <2>2. QED
    BY <2>1 DEF TrainRows
<1>4. /\ Fill(buf, TrainRows) \in [1 .. MiniSize -> 0 .. NRow]
      /\ Costed(Fill(buf, TrainRows), m) = TrainRows
      /\ seen \o Costed(Fill(buf, TrainRows), m) = First(TrainOrder, nProc + m)
  <2> HIDE DEF m
  <2>1. /\ seen = [j \in 1 .. nProc |-> TrainOrder[j]]
        /\ First(TrainOrder, nProc + m) = [j \in 1 .. nProc + m |-> TrainOrder[j]]
    BY <1>1 DEF First
  <2>2. NTrain \in Nat /\ MiniSize \in Nat /\ NRow \in Nat /\ TrainOrder \in [1 .. NTrain -> 1 .. NRow]
    BY <1>1, PassTypes
  <2>3. QED
    <3>1. BatchDone(NTrain, TrainOrder, nProc, m, MiniSize, buf, TrainRows, seen)
      BY <1>1, <1>2, <1>3, <2>1, <2>2, BatchStep
    <3>2. QED
      BY <2>1, <3>1 DEF BatchDone
<1>5. ToSet(TrainRows) \subseteq TrainRowSet
  <2>1. ASSUME NEW j \in 1 .. m PROVE TrainRows[j] \in TrainRowSet
    <3>1. nProc + j \in 1 .. NTrain
      BY <1>1, <1>2, PassTypes
    <3>2. shuf[nProc + j] \in 1 .. NTrain
      BY <1>1, <3>1, PassTypes
    <3>3. TrainRows[j] = rows[shuf[nProc + j]]
      BY DEF TrainRows
    <3>4. QED
      BY <3>2, <3>3 DEF TrainRowSet
  <2>2. DOMAIN TrainRows = 1 .. m
    BY DEF TrainRows
  <2>3. QED
    <3> HIDE DEF m
    <3>1. QED
      BY <2>1, <2>2 DEF ToSet
<1>6. m \in 1 .. NRow
  BY <1>1, <1>2, PassTypes
<1>7. /\ stage' = "train" /\ UNCHANGED data /\ UNCHANGED shuf /\ isTrain' = TRUE
      /\ buf' = Fill(buf, TrainRows) /\ batch' = m /\ nProc' = nProc + m
      /\ seen' = First(TrainOrder, nProc + m) /\ trained' = trained \cup ToSet(TrainRows)
      /\ validated' = validated
  BY <1>1, <1>4 DEF TrainBatch
<1>8. nProc' \in 0 .. NTrain
  BY <1>1, <1>2, <1>7
<1>9. BufSize' = MiniSize
  BY <1>7 DEF BufSize
<1> HIDE DEF m
<1>10. QED
  BY <1>1, <1>4, <1>5, <1>6, <1>7, <1>8, <1>9, SameData DEF PassInv, Stages

LEMMA ValidateBatchPass ==
    ASSUME PassInv, ValidateBatch
    PROVE  PassInv'
<1> DEFINE m == Ms(nVal, MiniSize)
<1>1. /\ stage = "validate" /\ nProc < nVal /\ nProc \in 0 .. nVal /\ seen = First(ValOrder, nProc)
      /\ buf \in [1 .. MiniSize -> 0 .. NRow] /\ isTrain = FALSE
  BY DEF PassInv, ValidateBatch, BufSize
<1>2. m \in Nat /\ m > 0 /\ m <= MiniSize /\ nProc + m <= nVal
  BY <1>1, PassTypes, Sizes DEF Ms
<1>3. ValRows = [j \in 1 .. m |-> ValOrder[nProc + j]]
  <2>1. ASSUME NEW j \in 1 .. m PROVE rows[NTrain + nProc + j] = ValOrder[nProc + j]
    <3> DEFINE q == nProc + j
    <3>1. q \in 1 .. nVal /\ NTrain + nProc + j = NTrain + q
      BY <1>1, <1>2, PassTypes
    <3> HIDE DEF q
    <3>2. ValOrder[q] = rows[NTrain + q]
      BY <3>1 DEF ValOrder
    <3>3. QED
      BY <3>1, <3>2 DEF q
  <2>2. QED
    BY <2>1 DEF ValRows
<1>4. /\ Fill(buf, ValRows) \in [1 .. MiniSize -> 0 .. NRow]
      /\ Costed(Fill(buf, ValRows), m) = ValRows
      /\ seen \o Costed(Fill(buf, ValRows), m) = First(ValOrder, nProc + m)
  <2> HIDE DEF m
  <2>1. /\ seen = [j \in 1 .. nProc |-> ValOrder[j]]
        /\ First(ValOrder, nProc + m) = [j \in 1 .. nProc + m |-> ValOrder[j]]
    BY <1>1 DEF First
  <2>2. nVal \in Nat /\ MiniSize \in Nat /\ NRow \in Nat /\ ValOrder \in [1 .. nVal -> 1 .. NRow]
    BY <1>1, PassTypes
  <2>3. BatchDone(nVal, ValOrder, nProc, m, MiniSize, buf, ValRows, seen)
    BY <1>1, <1>2, <1>3, <2>1, <2>2, BatchStep
  <2>4. QED
    BY <2>1, <2>3 DEF BatchDone
<1>5. ToSet(ValRows) \subseteq ValRowSet
  <2>1. ASSUME NEW j \in 1 .. m PROVE ValRows[j] \in ValRowSet
    <3>1. NTrain + nProc + j \in NTrain + 1 .. NRow
      BY <1>1, <1>2, PassTypes
    <3>2. ValRows[j] = rows[NTrain + nProc + j]
      BY DEF ValRows
    <3>3. QED
      BY <3>1, <3>2 DEF ValRowSet
  <2>2. DOMAIN ValRows = 1 .. m
    BY DEF ValRows
  <2>3. QED
    <3> HIDE DEF m
    <3>1. QED
      BY <2>1, <2>2 DEF ToSet
<1>6. m \in 1 .. NRow
  BY <1>1, <1>2, PassTypes
<1>7. /\ stage' = "validate" /\ UNCHANGED data /\ UNCHANGED shuf /\ isTrain' = FALSE
      /\ buf' = Fill(buf, ValRows) /\ batch' = m /\ nProc' = nProc + m
      /\ seen' = First(ValOrder, nProc + m) /\ validated' = validated \cup ToSet(ValRows)
      /\ trained' = trained
  BY <1>1, <1>4 DEF ValidateBatch
<1>8. nProc' \in 0 .. nVal
  BY <1>1, <1>2, <1>7
<1>9. BufSize' = MiniSize
  BY <1>7 DEF BufSize
<1> HIDE DEF m
<1>10. QED
  BY <1>1, <1>4, <1>5, <1>6, <1>7, <1>8, <1>9, SameData DEF PassInv, Stages

CostTaken == Ms(NRow, CostSize)

\* The rows of the next batch of kann_cost_fnn1, and what has been costed after it.
LEMMA CostBatchRows ==
    ASSUME PassInv, stage = "cost", nProc < NRow
    PROVE  /\ CostTaken \in Nat /\ CostTaken > 0 /\ nProc \in Nat /\ nProc + CostTaken <= NRow
           /\ Fill(buf, CostRows) \in [1 .. CostSize -> 0 .. NRow]
           /\ Costed(Fill(buf, CostRows), CostTaken) = CostRows
           /\ seen \o Costed(Fill(buf, CostRows), CostTaken) = First(CostOrder, nProc + CostTaken)
<1> DEFINE m == CostTaken
<1>1. /\ nProc \in 0 .. NRow /\ seen = First(CostOrder, nProc)
      /\ buf \in [1 .. CostSize -> 0 .. NRow]
  BY DEF PassInv, BufSize
<1>2. m \in Nat /\ m > 0 /\ m <= CostSize /\ nProc + m <= NRow
  BY <1>1, PassTypes, Sizes DEF Ms, CostTaken
<1>3. CostRows = [j \in 1 .. m |-> CostOrder[nProc + j]]
  <2>1. ASSUME NEW j \in 1 .. m PROVE nProc + j = CostOrder[nProc + j]
    <3>1. nProc + j \in 1 .. NRow
      BY <1>1, <1>2, PassTypes
    <3>2. QED
      BY <3>1 DEF CostOrder
  <2>2. QED
    BY <2>1 DEF CostRows, CostTaken
<1> HIDE DEF m
<1>4. /\ seen = [j \in 1 .. nProc |-> CostOrder[j]]
      /\ First(CostOrder, nProc + m) = [j \in 1 .. nProc + m |-> CostOrder[j]]
  BY <1>1 DEF First
<1>5. NRow \in Nat /\ CostSize \in Nat /\ CostOrder \in [1 .. NRow -> 1 .. NRow]
  BY PassTypes
<1>6. BatchDone(NRow, CostOrder, nProc, m, CostSize, buf, CostRows, seen)
  BY <1>1, <1>2, <1>3, <1>4, <1>5, BatchStep
<1>7. QED
  <2>1. /\ Fill(buf, CostRows) \in [1 .. CostSize -> 0 .. NRow]
        /\ Costed(Fill(buf, CostRows), m) = CostRows
        /\ seen \o Costed(Fill(buf, CostRows), m) = First(CostOrder, nProc + m)
    BY <1>4, <1>6 DEF BatchDone
  <2>2. nProc \in Nat
    BY <1>1, <1>5
  <2>3. QED
    BY <1>2, <2>1, <2>2 DEF m

LEMMA CostBatchPass ==
    ASSUME PassInv, CostBatch
    PROVE  PassInv'
<1> DEFINE m == CostTaken
<1>1. stage = "cost" /\ nProc < NRow /\ isTrain = FALSE
  BY DEF PassInv, CostBatch
<1>2. /\ m \in Nat /\ m > 0 /\ nProc \in Nat /\ nProc + m <= NRow
      /\ Fill(buf, CostRows) \in [1 .. CostSize -> 0 .. NRow]
      /\ seen \o Costed(Fill(buf, CostRows), m) = First(CostOrder, nProc + m)
  BY <1>1, CostBatchRows
<1>3. m \in 1 .. NRow /\ nProc + m \in 0 .. NRow
  BY <1>1, <1>2, PassTypes
<1>4. /\ stage' = "cost" /\ UNCHANGED data /\ UNCHANGED shuf /\ isTrain' = FALSE
      /\ buf' = Fill(buf, CostRows) /\ batch' = m /\ nProc' = nProc + m
      /\ seen' = First(CostOrder, nProc + m) /\ UNCHANGED <<trained, validated>>
  BY <1>1, <1>2 DEF CostBatch, CostTaken
<1>5. BufSize' = CostSize /\ CostOrder' = CostOrder
  BY <1>4 DEF BufSize, CostOrder
<1> HIDE DEF m
<1>6. QED
  BY <1>1, <1>2, <1>3, <1>4, <1>5, SameData DEF PassInv, Stages

\* A step that neither costs nor shuffles: the buffers and the passes stay.
LEMMA QuietPass ==
    ASSUME PassInv, UNCHANGED <<data, buf, batch, trained, validated>>,
           stage' \in {"epoch", "returned"}, stage \notin {"cost", "done"}
    PROVE  PassInv'
<1>1. BufSize' = BufSize
  BY DEF BufSize
<1>2. QED
  BY <1>1, SameData DEF PassInv, Stages

LEMMA PassNext ==
    ASSUME PassInv, [TrainNext]_trainVars
    PROVE  PassInv'
<1>1. CASE StartEpoch
  <2>1. /\ stage = "epoch" /\ stage' = "train" /\ nProc' = 0 /\ seen' = <<>> /\ isTrain' = TRUE
        /\ UNCHANGED <<data, buf, batch, trained, validated>>
    BY <1>1 DEF StartEpoch
  <2>2. shuf' \in Orders(NTrain)
    BY <1>1, PassTypes, ShuffledOrder DEF StartEpoch
  <2>3. BufSize' = BufSize
    BY <2>1 DEF BufSize
  <2>4. First(TrainOrder', 0) = <<>> /\ 0 \in 0 .. NTrain
    BY PassTypes DEF First
  <2>5. QED
    BY <2>1, <2>2, <2>3, <2>4, SameData DEF PassInv, Stages
<1>2. CASE StartValidation
  <2>1. /\ stage = "train" /\ stage' = "validate" /\ nProc' = 0 /\ seen' = <<>> /\ isTrain' = FALSE
        /\ UNCHANGED <<data, shuf, buf, batch, trained, validated>>
    BY <1>2 DEF StartValidation
  <2>2. BufSize' = BufSize
    BY <2>1 DEF BufSize
  <2>3. First(ValOrder, 0) = <<>> /\ 0 \in 0 .. nVal
    BY PassTypes DEF First
  <2>4. QED
    BY <2>1, <2>2, <2>3, SameData DEF PassInv, Stages
<1>3. CASE EndValidation
  <2>1. /\ stage = "validate" /\ stage' = "judge" /\ nProc' = nProc /\ nProc = nVal /\ seen' = seen
        /\ isTrain' = isTrain /\ UNCHANGED <<data, buf, batch, trained, validated>>
    BY <1>3, PassTypes DEF EndValidation, PassInv
  <2>2. BufSize' = BufSize
    BY <2>1 DEF BufSize
  <2>3. QED
    BY <2>1, <2>2, SameData DEF PassInv, Stages
<1>4. CASE Judge
  <2>1. stage = "judge" /\ stage' \in {"epoch", "returned"}
        /\ UNCHANGED <<data, buf, batch, trained, validated>>
    BY <1>4 DEF Judge, Improve, NoDrop, Returns, Continues
  <2>2. QED
    BY <2>1, QuietPass
<1>5. CASE EndTraining
  <2>1. stage = "epoch" /\ stage' \in {"epoch", "returned"}
        /\ UNCHANGED <<data, buf, batch, trained, validated>>
    BY <1>5 DEF EndTraining, Returns
  <2>2. QED
    BY <2>1, QuietPass
<1>6. CASE StartCost
  <2>1. /\ stage = "returned" /\ stage' = "cost" /\ nProc' = 0 /\ seen' = <<>> /\ isTrain' = FALSE
        /\ buf' = [j \in 1 .. CostSize |-> 0] /\ UNCHANGED <<data, batch, trained, validated>>
    BY <1>6 DEF StartCost
  <2>2. BufSize' = CostSize /\ buf' \in [1 .. CostSize -> 0 .. NRow]
    BY <2>1, PassTypes DEF BufSize
  <2>3. First(CostOrder', 0) = <<>> /\ 0 \in 0 .. NRow
    BY PassTypes DEF First
  <2>4. QED
    BY <2>1, <2>2, <2>3, SameData DEF PassInv, Stages
<1>7. CASE EndCost
  <2>0. stage = "cost" /\ nProc >= NRow /\ nProc \in 0 .. NRow /\ NRow \in Nat
    BY <1>7, PassTypes DEF EndCost, PassInv
  <2>1. /\ stage = "cost" /\ stage' = "done" /\ nProc' = nProc /\ nProc = NRow /\ seen' = seen
        /\ isTrain' = isTrain /\ UNCHANGED <<data, buf, batch, trained, validated>>
    BY <1>7, <2>0 DEF EndCost
  <2>2. BufSize' = BufSize /\ CostOrder' = CostOrder
    BY <2>1 DEF BufSize, CostOrder
  <2>3. QED
    BY <2>1, <2>2, SameData DEF PassInv, Stages
<1>8. CASE TrainEnd \/ UNCHANGED trainVars
  <2>1. UNCHANGED <<stage, data, shuf, nProc, buf, batch, isTrain, seen, trained, validated>>
    BY <1>8 DEF TrainEnd, trainVars
  <2>2. BufSize' = BufSize /\ CostOrder' = CostOrder
    BY <2>1 DEF BufSize, CostOrder
  <2>3. QED
    BY <2>1, <2>2, SameData DEF PassInv
<1>9. QED
  BY <1>1, <1>2, <1>3, <1>4, <1>5, <1>6, <1>7, <1>8,
     TrainBatchPass, ValidateBatchPass, CostBatchPass DEF TrainNext

LEMMA PassInit == TrainInit => PassInv
<1> SUFFICES ASSUME TrainInit PROVE PassInv
  OBVIOUS
<1>1. NRow \in Nat \ {0} /\ MiniSize \in Nat \ {0} /\ nVal \in 0 .. NRow
  BY TrainAssumption DEF TrainInit
<1>2. rows \in Orders(NRow)
  BY <1>1, ShuffledOrder DEF TrainInit
<1>3. buf \in [1 .. BufSize -> 0 .. NRow] /\ batch \in 1 .. NRow
  BY <1>1 DEF TrainInit, BufSize
<1>4. QED
  BY <1>1, <1>2, <1>3 DEF TrainInit, PassInv, Stages

-----------------------------------------------------------------------------
(* What the passes give.                                                   *)

LEMMA PassGives ==
    ASSUME PassInv
    PROVE  EachRowOnce /\ ValidationStaysOut
<1>1. /\ IsInjective(rows) /\ NTrain + nVal = NRow /\ NTrain \in Nat /\ nVal \in Nat /\ NRow \in Nat
      /\ rows \in [1 .. NRow -> 1 .. NRow]
  BY PassTypes DEF PassInv, Orders
<1>2. \A i, j \in 1 .. NRow : rows[i] = rows[j] => i = j
  BY <1>1 DEF IsInjective
<1>3. ASSUME stage = "train", nProc >= NTrain
      PROVE  PassOver({rows[j] : j \in 1 .. NTrain}) /\ isTrain
  <2>1. nProc = NTrain /\ seen = First(TrainOrder, NTrain) /\ isTrain = TRUE
    BY <1>1, <1>3 DEF PassInv
  <2>2. /\ shuf \in [1 .. NTrain -> 1 .. NTrain] /\ ToSet(shuf) = 1 .. NTrain
        /\ \A i, j \in 1 .. NTrain : shuf[i] = shuf[j] => i = j
    BY <1>3 DEF PassInv, Orders, IsInjective
  <2>3. DOMAIN seen = 1 .. NTrain /\ \A j \in 1 .. NTrain : seen[j] = rows[shuf[j]]
    BY <2>1 DEF First, TrainOrder
  <2>4. IsInjective(seen)
    <3>1. ASSUME NEW i \in 1 .. NTrain, NEW j \in 1 .. NTrain, seen[i] = seen[j] PROVE i = j
      <4>0. shuf[i] \in 1 .. NTrain /\ shuf[j] \in 1 .. NTrain
        BY <2>2
      <4>1. shuf[i] \in 1 .. NRow /\ shuf[j] \in 1 .. NRow
        <5>1. \A v \in 1 .. NTrain : v \in 1 .. NRow
          BY <1>1
        <5>2. QED
          BY <4>0, <5>1
      <4>4. rows[shuf[i]] = rows[shuf[j]]
        BY <2>3, <3>1
      <4>2. shuf[i] = shuf[j]
        BY <1>2, <4>1, <4>4
      <4>3. QED
        BY <2>2, <4>2
    <3>2. QED
      BY <2>3, <3>1 DEF IsInjective
  <2>5. ToSet(seen) = {rows[j] : j \in 1 .. NTrain}
    <3>1. ASSUME NEW j \in 1 .. NTrain PROVE seen[j] \in {rows[i] : i \in 1 .. NTrain}
      BY <2>2, <2>3
    <3>2. ASSUME NEW i \in 1 .. NTrain PROVE rows[i] \in ToSet(seen)
      <4>1. PICK j \in 1 .. NTrain : shuf[j] = i
        BY <2>2 DEF ToSet
      <4>2. seen[j] = rows[i]
        BY <2>3, <4>1
      <4>3. QED
        BY <2>3, <4>2 DEF ToSet
    <3>3. QED
      BY <2>3, <3>1, <3>2 DEF ToSet
  <2>6. QED
    BY <2>1, <2>4, <2>5 DEF PassOver
<1>4. ASSUME stage = "judge"
      PROVE  PassOver({rows[j] : j \in NTrain + 1 .. NRow}) /\ ~isTrain
  <2>1. seen = First(ValOrder, nVal) /\ isTrain = FALSE
    BY <1>4 DEF PassInv
  <2>2. DOMAIN seen = 1 .. nVal /\ \A j \in 1 .. nVal : seen[j] = rows[NTrain + j]
    BY <2>1 DEF First, ValOrder
  <2>3. IsInjective(seen)
    <3>1. ASSUME NEW i \in 1 .. nVal, NEW j \in 1 .. nVal, seen[i] = seen[j] PROVE i = j
      <4>1. NTrain + i \in 1 .. NRow /\ NTrain + j \in 1 .. NRow
        BY <1>1
      <4>2. NTrain + i = NTrain + j
        BY <1>2, <2>2, <3>1, <4>1
      <4>3. QED
        BY <1>1, <4>2
    <3>2. QED
      BY <2>2, <3>1 DEF IsInjective
  <2>4. ToSet(seen) = {rows[j] : j \in NTrain + 1 .. NRow}
    <3>1. ASSUME NEW j \in 1 .. nVal PROVE seen[j] \in {rows[i] : i \in NTrain + 1 .. NRow}
      <4>1. NTrain + j \in NTrain + 1 .. NRow
        BY <1>1
      <4>2. QED
        BY <2>2, <4>1
    <3>2. ASSUME NEW i \in NTrain + 1 .. NRow PROVE rows[i] \in ToSet(seen)
      <4>1. PICK j \in 1 .. nVal : NTrain + j = i
        <5>1. i - NTrain \in 1 .. nVal /\ NTrain + (i - NTrain) = i
          BY <1>1
        <5>2. QED
          BY <5>1
      <4>2. QED
        BY <2>2, <4>1 DEF ToSet
    <3>3. QED
      BY <2>2, <3>1, <3>2 DEF ToSet
  <2>5. QED
    BY <2>1, <2>3, <2>4 DEF PassOver
<1>5. ASSUME stage = "done" PROVE PassOver(1 .. NRow) /\ ~isTrain
  <2>1. seen = First(CostOrder, NRow) /\ isTrain = FALSE
    BY <1>5 DEF PassInv
  <2>2. seen = [j \in 1 .. NRow |-> j]
    BY <2>1 DEF First, CostOrder
  <2>3. QED
    BY <1>1, <2>1, <2>2, IdentityOrder DEF PassOver, Orders
<1>6. ValidationStaysOut
  <2>1. TrainRowSet \cap ValRowSet = {}
    <3> SUFFICES ASSUME NEW i \in 1 .. NTrain, NEW j \in NTrain + 1 .. NRow, rows[i] = rows[j]
                 PROVE  FALSE
      BY DEF TrainRowSet, ValRowSet
    <3>1. i \in 1 .. NRow /\ j \in 1 .. NRow /\ i # j
      BY <1>1
    <3>2. QED
      BY <1>2, <3>1
  <2>2. QED
    BY <2>1 DEF PassInv, ValidationStaysOut
<1>7. QED
  BY <1>3, <1>4, <1>5, <1>6 DEF EachRowOnce

-----------------------------------------------------------------------------
(* The cost.                                                               *)

LEMMA MeanOf ==
    ASSUME PassInv, stage = "cost", nProc < NRow, NEW r \in 1 .. NRow
    PROVE  MeanCost(CostRows)[r]
             = <<IF nProc < r /\ r <= nProc + CostTaken THEN 1 ELSE 0, CostTaken>>
<1> DEFINE m == CostTaken
           at == {j \in DOMAIN CostRows : CostRows[j] = r}
<1>1. m \in Nat /\ nProc \in Nat
  BY CostBatchRows
<1> DEFINE c == CostRows
<1>2. c = [j \in 1 .. m |-> nProc + j]
  BY DEF CostRows, CostTaken
<1> HIDE DEF c, m
<1>3. DOMAIN c = 1 .. m /\ Len(c) = m /\ \A j \in 1 .. m : c[j] = nProc + j
  <2>1. c \in Seq(Nat)
    BY <1>1, <1>2
  <2>2. DOMAIN c = 1 .. m /\ \A j \in 1 .. m : c[j] = nProc + j
    BY <1>2
  <2>3. QED
    BY <1>1, <2>1, <2>2, LenProperties
<1>4. at = {j \in 1 .. m : nProc + j = r}
  BY <1>3 DEF c
<1> HIDE DEF at
<1>5. Cardinality(at) = IF nProc < r /\ r <= nProc + m THEN 1 ELSE 0
  <2>1. CASE nProc < r /\ r <= nProc + m
    <3>1. r - nProc \in 1 .. m /\ \A j \in 1 .. m : nProc + j = r <=> j = r - nProc
      BY <1>1, <2>1
    <3>2. at = {r - nProc}
      BY <1>4, <3>1
    <3>3. QED
      BY <2>1, <3>2, FS_Singleton
  <2>2. CASE ~(nProc < r /\ r <= nProc + m)
    <3>1. at = {}
      BY <1>1, <1>4, <2>2
    <3>2. QED
      BY <2>2, <3>1, FS_EmptySet
  <2>3. QED
    BY <2>1, <2>2
<1>6. MeanCost(c)[r] = <<Cardinality({j \in DOMAIN c : c[j] = r}), Len(c)>>
  BY DEF MeanCost
<1>7. MeanCost(c)[r] = <<Cardinality(at), m>>
  BY <1>3, <1>6 DEF at, c
<1>8. QED
  BY <1>5, <1>7 DEF c, m

\* The weight of a row after a batch of m rows, for the rows costed before, those of
\* the batch and those left.
LEMMA Weights ==
    ASSUME NEW d \in Nat \ {0}, NEW m \in Nat \ {0}
    PROVE  /\ Plus(<<d, d>>, Times(<<0, m>>, m)) = <<d * m, d * m>>
           /\ Plus(<<0, d>>, Times(<<1, m>>, m)) = <<d * m, d * m>>
           /\ Plus(<<0, d>>, Times(<<0, m>>, m)) = <<0, d * m>>
           /\ d * m \in Nat \ {0}
<1>1. 0 * m = 0 /\ 1 * m = m /\ 0 * d = 0 /\ m * d = d * m /\ d * m \in Nat
  OBVIOUS
<1>2. d * m # 0
  OBVIOUS
<1>3. QED
  BY <1>1, <1>2 DEF Plus, Times

LEMMA CostNext ==
    ASSUME PassInv, CostInv, [TrainNext]_trainVars
    PROVE  CostInv'
<1>1. CASE stage' \notin {"cost", "done"}
  BY <1>1 DEF CostInv
<1>2. CASE StartCost
  <2>1. stage' = "cost" /\ nProc' = 0 /\ cost' = [r \in 1 .. NRow |-> <<0, 1>>]
    BY <1>2 DEF StartCost
  <2>2. \A r \in 1 .. NRow : ~(r <= 0)
    BY PassTypes
  <2>3. QED
    BY <2>1, <2>2 DEF CostInv
<1>3. CASE CostBatch
  <2> DEFINE m == CostTaken
             mean == MeanCost(CostRows)
             After(r) == IF r <= nProc + m THEN cost[r][2] * m ELSE 0
  <2>1. stage = "cost" /\ nProc < NRow
    BY <1>3 DEF CostBatch
  <2>2. m \in Nat \ {0} /\ nProc \in Nat /\ Costed(Fill(buf, CostRows), m) = CostRows
    BY <2>1, CostBatchRows
  <2>3. /\ stage' = "cost" /\ nProc' = nProc + m
        /\ cost' = [r \in 1 .. NRow |-> Plus(cost[r], Times(mean[r], m))]
    BY <1>3, <2>1, <2>2 DEF CostBatch, CostTaken
  <2>4. /\ cost \in [1 .. NRow -> Nat \X (Nat \ {0})]
        /\ \A r \in 1 .. NRow : cost[r][1] = IF r <= nProc THEN cost[r][2] ELSE 0
    BY <2>1 DEF CostInv
  <2>5. ASSUME NEW r \in 1 .. NRow
        PROVE  cost'[r] = <<After(r), cost[r][2] * m>> /\ cost[r][2] * m \in Nat \ {0}
    <3> DEFINE d == cost[r][2]
    <3>1. d \in Nat \ {0} /\ cost[r] = <<IF r <= nProc THEN d ELSE 0, d>>
      BY <2>4
    <3>2. mean[r] = <<IF nProc < r /\ r <= nProc + m THEN 1 ELSE 0, m>>
      BY <2>1, MeanOf
    <3> HIDE DEF m, mean, d
    <3>3. cost'[r] = Plus(cost[r], Times(mean[r], m))
      BY <2>3
    <3>4. cost'[r] = <<IF r <= nProc + m THEN d * m ELSE 0, d * m>> /\ d * m \in Nat \ {0}
      <4>1. CASE r <= nProc
        <5>1. r <= nProc + m /\ ~(nProc < r)
          BY <2>2, <4>1
        <5>2. QED
          BY <2>2, <3>1, <3>2, <3>3, <4>1, <5>1, Weights
      <4>2. CASE nProc < r /\ r <= nProc + m
        <5>1. ~(r <= nProc)
          BY <2>2, <4>2
        <5>2. QED
          BY <2>2, <3>1, <3>2, <3>3, <4>2, <5>1, Weights
      <4>3. CASE ~(r <= nProc + m)
        <5>1. ~(r <= nProc)
          BY <2>2, <4>3
        <5>2. QED
          BY <2>2, <3>1, <3>2, <3>3, <4>3, <5>1, Weights
      <4>4. QED
        BY <2>2, <4>1, <4>2, <4>3
    <3>5. QED
      BY <3>4 DEF d
  <2>6. cost' \in [1 .. NRow -> Nat \X (Nat \ {0})]
    <3>1. ASSUME NEW r \in 1 .. NRow PROVE cost'[r] \in Nat \X (Nat \ {0})
      <4>1. After(r) \in Nat
        BY <2>5
      <4> DEFINE d == cost[r][2] * m
      <4>2. cost'[r] = <<After(r), d>> /\ d \in Nat \ {0}
        BY <2>5
      <4> HIDE DEF After, m, d
      <4>3. QED
        BY <4>1, <4>2
    <3>2. QED
      <4> HIDE DEF m, mean
      <4>1. cost' = [r \in 1 .. NRow |-> cost'[r]]
        BY <2>3
      <4>2. QED
        BY <3>1, <4>1
  <2>7. \A r \in 1 .. NRow : cost'[r][1] = IF r <= nProc' THEN cost'[r][2] ELSE 0
    <3> HIDE DEF m
    <3>1. QED
      BY <2>3, <2>5
  <2>8. QED
    BY <2>3, <2>6, <2>7 DEF CostInv
<1>4. CASE EndCost
  <2>1. /\ stage = "cost" /\ nProc = NRow /\ stage' = "done" /\ NRow \in Nat
        /\ cost' = [r \in 1 .. NRow |-> Over(cost[r], NRow)]
    <3>1. stage = "cost" /\ nProc >= NRow /\ nProc \in 0 .. NRow /\ NRow \in Nat
      BY <1>4, PassTypes DEF EndCost, PassInv
    <3>2. QED
      BY <1>4, <3>1 DEF EndCost
  <2>2. ASSUME NEW r \in 1 .. NRow PROVE cost'[r][1] * NRow = cost'[r][2]
    <3>1. cost[r][1] = cost[r][2]
      BY <2>1 DEF CostInv
    <3>2. cost'[r] = <<cost[r][1], cost[r][2] * NRow>>
      BY <2>1 DEF Over
    <3>3. QED
      BY <3>1, <3>2
  <2>3. QED
    BY <2>1, <2>2 DEF CostInv, CostIsMean
<1>5. CASE TrainEnd \/ UNCHANGED trainVars
  BY <1>5 DEF TrainEnd, trainVars, CostInv, CostIsMean
<1>6. QED
  <2>1. StartEpoch \/ TrainBatch \/ StartValidation \/ ValidateBatch \/ EndValidation \/ Judge
          \/ EndTraining => stage' \notin {"cost", "done"}
    BY DEF StartEpoch, TrainBatch, StartValidation, ValidateBatch, EndValidation, Judge,
           EndTraining, Improve, NoDrop, Returns, Continues
  <2>2. QED
    BY <1>1, <1>2, <1>3, <1>4, <1>5, <2>1 DEF TrainNext

-----------------------------------------------------------------------------
(* The updates.                                                            *)

LEMMA UpTo ==
    ASSUME NEW s \in Nat \ {0}, NEW p \in Nat, NEW q \in Nat, p < q
    PROVE  s * p + s <= s * q
<1>1. PICK d \in Nat : q = p + 1 + d
  <2>1. q - p - 1 \in Nat /\ q = p + 1 + (q - p - 1)
    OBVIOUS
  <2>2. QED
    BY <2>1
<1>2. s * q = s * p + s + s * d
  BY <1>1
<1>3. s * p \in Nat /\ s * d \in Nat
  OBVIOUS
<1>4. QED
  BY <1>2, <1>3

\* n rows are k full batches of s and one that has the rest.
LEMMA Ceiling ==
    ASSUME NEW n \in Nat, NEW s \in Nat \ {0}, NEW k \in Nat, s * k < n, n <= s * k + s
    PROVE  (n + s - 1) \div s = k + 1
<1> DEFINE q == (n + s - 1) \div s
           r == (n + s - 1) % s
<1>1. q \in Nat /\ r \in 0 .. s - 1 /\ n + s - 1 = s * q + r
  OBVIOUS
<1> HIDE DEF q, r
<1>2. s * k \in Nat /\ s * q \in Nat /\ s * (k + 1) = s * k + s
  BY <1>1
<1>3. ~(q < k + 1)
  <2>1. SUFFICES ASSUME q < k + 1 PROVE FALSE
    OBVIOUS
  <2>2. s * q + s <= s * (k + 1)
    BY <1>1, <2>1, UpTo
  <2>3. QED
    BY <1>1, <1>2, <2>2
<1>4. ~(k + 1 < q)
  <2>1. SUFFICES ASSUME k + 1 < q PROVE FALSE
    OBVIOUS
  <2>2. s * (k + 1) + s <= s * q
    BY <1>1, <2>1, UpTo
  <2>3. QED
    BY <1>1, <1>2, <2>2
<1>5. QED
  BY <1>1, <1>3, <1>4 DEF q

LEMMA UpdatesOf ==
    ASSUME PassInv
    PROVE  /\ Updates \in Nat
           /\ NTrain = 0 => Updates = 0
           /\ \A k \in Nat : MiniSize * k < NTrain /\ NTrain <= MiniSize * k + MiniSize
                               => Updates = k + 1
<1>1. NTrain \in Nat /\ MiniSize \in Nat \ {0}
  BY PassTypes
<1> DEFINE n == NTrain
           s == MiniSize
<1>2. Updates = (n + s - 1) \div s
  BY DEF Updates
<1> HIDE DEF n, s
<1>3. n \in Nat /\ s \in Nat \ {0}
  BY <1>1 DEF n, s
<1>4. (n + s - 1) \div s \in Nat
  BY <1>3
<1>5. n = 0 => (n + s - 1) \div s = 0
  BY <1>3
<1>6. \A k \in Nat : s * k < n /\ n <= s * k + s => (n + s - 1) \div s = k + 1
  BY <1>3, Ceiling
<1>7. QED
  BY <1>2, <1>4, <1>5, <1>6 DEF n, s

LEMMA AnnNext ==
    ASSUME PassInv, AnnInv, JudgeInv, [TrainNext]_trainVars
    PROVE  AnnInv'
<1> DEFINE U == Updates
<1>1. /\ epoch \in 0 .. MaxEpoch /\ epoch \in Nat /\ ann \in Nat /\ U \in Nat /\ MaxEpoch \in Nat
      /\ epoch * U \in Nat /\ (epoch + 1) * U = epoch * U + U
  <2>1. epoch \in 0 .. MaxEpoch /\ epoch \in Nat /\ ann \in Nat /\ U \in Nat /\ MaxEpoch \in Nat
    BY UpdatesOf, TrainAssumption DEF AnnInv
  <2> HIDE DEF U
  <2>2. QED
    BY <2>1
<1>2. UNCHANGED data => Updates' = U
  BY SameData
<1>3. Restored \in Nat
  BY <1>1 DEF Restored, JudgeInv
<1>4. CASE StartEpoch
  <2>1. /\ stage = "epoch" /\ epoch < MaxEpoch /\ stage' = "train" /\ nProc' = 0
        /\ UNCHANGED <<data, epoch, ann>>
    BY <1>4 DEF StartEpoch
  <2>2. Batches' = 0
    <3>1. ann' = epoch' * Updates'
      BY <1>2, <2>1 DEF AnnInv
    <3>2. Batches' = ann' - epoch' * Updates' /\ ann' \in Nat
      BY <1>1, <2>1 DEF Batches
    <3>3. QED
      BY <3>1, <3>2
  <2>3. NTrain' = NTrain /\ NTrain \in Nat /\ (NTrain = 0 => U = 0) /\ MiniSize * 0 = 0
    BY <2>1, SameData, PassTypes, UpdatesOf
  <2>4. IF nProc' < NTrain' THEN nProc' = MiniSize * Batches' ELSE Batches' = Updates'
    <3>1. CASE 0 < NTrain
      BY <2>1, <2>2, <2>3, <3>1
    <3>2. CASE NTrain = 0
      BY <1>2, <2>1, <2>2, <2>3, <3>2
    <3>3. QED
      BY <2>3, <3>1, <3>2
  <2>5. QED
    BY <1>1, <2>1, <2>2, <2>4 DEF AnnInv
<1>5. CASE TrainBatch
  <2> DEFINE m == Ms(NTrain, MiniSize)
             k == Batches
  <2>1. /\ stage = "train" /\ nProc < NTrain /\ stage' = "train" /\ nProc' = nProc + m
        /\ ann' = ann + 1 /\ UNCHANGED <<data, epoch>>
    BY <1>5 DEF TrainBatch
  <2>2. /\ nProc \in Nat /\ NTrain \in Nat /\ MiniSize \in Nat \ {0} /\ nProc \in 0 .. NTrain
    BY <2>1, PassTypes DEF PassInv
  <2>3. /\ m \in Nat /\ m <= MiniSize /\ nProc + m <= NTrain
        /\ (nProc + m < NTrain => m = MiniSize)
    BY <2>1, <2>2, Sizes DEF Ms
  <2>4. k \in Nat /\ nProc = MiniSize * k /\ epoch < MaxEpoch
    BY <2>1 DEF AnnInv
  <2>5. Batches' = k + 1
    <3>1. Updates' = U
      BY <1>2, <2>1
    <3>2. Batches' = ann + 1 - epoch * U /\ k = ann - epoch * U
      <4>1. Batches' = ann' - epoch' * Updates' /\ k = ann - epoch * Updates
        BY DEF Batches
      <4>2. ann' = ann + 1 /\ epoch' = epoch
        BY <2>1
      <4>3. epoch' * Updates' = epoch * U
        BY <3>1, <4>2
      <4> HIDE DEF k, U
      <4>4. QED
        BY <1>1, <4>1, <4>2, <4>3 DEF U
    <3> HIDE DEF k, U
    <3>3. QED
      BY <1>1, <3>2
  <2>6. MiniSize * (k + 1) = MiniSize * k + MiniSize
    <3> HIDE DEF k
    <3>1. QED
      BY <2>2, <2>4
  <2> HIDE DEF m, k
  <2>7. CASE nProc + m < NTrain
    <3>1. nProc' = MiniSize * Batches' /\ nProc' < NTrain'
      BY <2>1, <2>2, <2>3, <2>4, <2>5, <2>6, <2>7, SameData
    <3>2. QED
      BY <1>1, <2>1, <2>4, <2>5, <3>1 DEF AnnInv
  <2>8. CASE ~(nProc + m < NTrain)
    <3>1. MiniSize * k < NTrain /\ NTrain <= MiniSize * k + MiniSize
      BY <2>1, <2>2, <2>3, <2>4, <2>8
    <3>2. U = k + 1
      BY <2>4, <3>1, UpdatesOf
    <3>3. ~(nProc' < NTrain') /\ Batches' = Updates'
      BY <1>2, <2>1, <2>5, <2>8, <3>2, SameData
    <3>4. QED
      BY <1>1, <2>1, <2>4, <2>5, <3>3 DEF AnnInv
  <2>9. QED
    BY <2>7, <2>8
<1>6. CASE StartValidation
  <2>1. /\ stage = "train" /\ ~(nProc < NTrain) /\ stage' = "validate" /\ UNCHANGED <<data, epoch, ann>>
    BY <1>6, PassTypes DEF StartValidation, PassInv
  <2>2. Batches = U /\ Batches = ann - epoch * U /\ epoch < MaxEpoch
    BY <2>1 DEF AnnInv, Batches
  <2>3. ann = epoch * U + U
    <3> HIDE DEF U
    <3>1. QED
      BY <1>1, <2>2
  <2>4. QED
    BY <1>1, <1>2, <2>1, <2>2, <2>3 DEF AnnInv
<1>7. CASE ValidateBatch \/ EndValidation
  <2>1. /\ stage = "validate" /\ stage' \in {"validate", "judge"} /\ UNCHANGED <<data, epoch, ann>>
    BY <1>7 DEF ValidateBatch, EndValidation
  <2>2. QED
    BY <1>1, <1>2, <2>1 DEF AnnInv
<1>8. CASE Judge
  <2>1. stage = "judge" /\ (Returns \/ Continues) /\ UNCHANGED data
    BY <1>8 DEF Judge, Improve, NoDrop
  <2>2. epoch < MaxEpoch /\ ann = epoch * U + U
    BY <2>1 DEF AnnInv
  <2>3. CASE Returns
    BY <1>1, <1>3, <2>3 DEF Returns, AnnInv
  <2>4. CASE Continues
    <3>1. stage' = "epoch" /\ ann' = ann /\ epoch' = epoch + 1
      BY <2>4 DEF Continues
    <3>2. ann' = epoch' * Updates'
      BY <1>1, <1>2, <2>1, <2>2, <3>1
    <3>3. QED
      BY <1>1, <2>2, <3>1, <3>2 DEF AnnInv
  <2>5. QED
    BY <2>1, <2>3, <2>4
<1>9. CASE EndTraining
  BY <1>1, <1>3, <1>9 DEF EndTraining, Returns, AnnInv
<1>10. CASE StartCost \/ CostBatch \/ EndCost
  <2>1. stage' \in {"cost", "done"} /\ UNCHANGED <<epoch, ann>>
    BY <1>10 DEF StartCost, CostBatch, EndCost
  <2>2. QED
    BY <1>1, <2>1 DEF AnnInv
<1>11. CASE TrainEnd \/ UNCHANGED trainVars
  <2>1. UNCHANGED <<stage, data, nProc, epoch, ann>>
    BY <1>11 DEF TrainEnd, trainVars
  <2>2. Batches' = Batches /\ NTrain' = NTrain
    BY <1>2, <2>1, SameData DEF Batches
  <2>3. QED
    BY <1>2, <2>1, <2>2 DEF AnnInv
<1>12. QED
  BY <1>4, <1>5, <1>6, <1>7, <1>8, <1>9, <1>10, <1>11 DEF TrainNext

-----------------------------------------------------------------------------
(* The judgement of the epochs.                                            *)

\* The comparison of a cost with one that was rounded.
LEMMA Rounded ==
    ASSUME NEW c \in Nat, NEW d \in Nat
    PROVE  /\ ToFloat(c) \in Nat
           /\ c < ToFloat(d) => ToFloat(c) <= ToFloat(d)
           /\ ~(c < ToFloat(d)) => ToFloat(d) <= ToFloat(c)
  BY DEF ToFloat

LEMMA JudgedSeq ==
    ASSUME NEW s \in Seq(Nat \X ValCosts), NEW e \in Nat \X ValCosts
    PROVE  /\ Append(s, e) \in Seq(Nat \X ValCosts) /\ Append(s, e) # <<>>
           /\ Len(s) \in Nat /\ DOMAIN s = 1 .. Len(s)
           /\ \A q \in 1 .. Len(s) : s[q] \in Nat \X ValCosts
           /\ Len(Append(s, e)) = Len(s) + 1 /\ DOMAIN Append(s, e) = 1 .. Len(s) + 1
           /\ \A q \in 1 .. Len(s) : Append(s, e)[q] = s[q]
           /\ Append(s, e)[Len(s) + 1] = e
<1> DEFINE t == Append(s, e)
<1>1. /\ t \in Seq(Nat \X ValCosts) /\ Len(t) = Len(s) + 1 /\ Len(s) \in Nat
      /\ \A q \in 1 .. Len(s) : t[q] = s[q]
      /\ t[Len(s) + 1] = e
  BY AppendProperties
<1> HIDE DEF t
<1>2. DOMAIN t = 1 .. Len(s) + 1 /\ DOMAIN s = 1 .. Len(s)
  BY <1>1, LenProperties
<1>3. \A q \in 1 .. Len(s) : s[q] \in Nat \X ValCosts
  BY ElementOfSeq
<1>4. t # <<>>
  <2>1. Len(<<>>) = 0
    OBVIOUS
  <2>2. QED
    BY <1>1, <2>1
<1>5. QED
  BY <1>1, <1>2, <1>3, <1>4 DEF t

LEMMA ImproveJudges ==
    ASSUME AnnInv, JudgeInv, stage = "judge", NEW c \in ValCosts, Improve(c),
           judged' = Append(judged, <<ann, c>>)
    PROVE  JudgeInv'
<1> DEFINE e == <<ann, c>>
           n == Len(judged)
<1>1. /\ c \in Nat /\ ann \in Nat /\ judged \in Seq(Nat \X ValCosts) /\ e \in Nat \X ValCosts
      /\ ValCosts \subseteq Nat /\ MaxDropStreak \in Nat \ {0}
  BY TrainAssumption DEF AnnInv, JudgeInv
<1>2. /\ judged' \in Seq(Nat \X ValCosts) /\ judged' # <<>> /\ n \in Nat /\ DOMAIN judged = 1 .. n
      /\ \A q \in 1 .. n : judged[q] \in Nat \X ValCosts
      /\ Len(judged') = n + 1 /\ DOMAIN judged' = 1 .. n + 1
      /\ \A q \in 1 .. n : judged'[q] = judged[q]
      /\ judged'[n + 1] = e
  BY <1>1, JudgedSeq
<1>3. c < minVal /\ min' = ann /\ minVal' = ToFloat(c) /\ dropStreak' = 0 /\ stage' = "epoch"
  BY DEF Improve, Continues
<1>4. min' # NotSet /\ minVal' \in Nat /\ min' \in Nat
  BY <1>1, <1>3, Rounded DEF NotSet
<1> HIDE DEF n
<1>5. ASSUME NEW q \in 1 .. n + 1 PROVE minVal' <= ToFloat(judged'[q][2])
  <2>1. CASE q = n + 1
    BY <1>1, <1>2, <1>3, <2>1, Rounded
  <2>2. CASE q # n + 1
    <3>1. q \in 1 .. n /\ judged'[q] = judged[q] /\ judged[q][2] \in Nat /\ judged # <<>>
      <4>1. q \in 1 .. n
        BY <1>2, <2>2
      <4>2. judged[q] \in Nat \X ValCosts
        BY <1>2, <4>1
      <4>3. judged # <<>>
        BY <4>1 DEF n
      <4>4. QED
        BY <1>1, <1>2, <4>1, <4>2, <4>3
    <3>2. PICK j \in DOMAIN judged : Leads(j)
      BY <3>1 DEF JudgeInv
    <3>3. judged[j][2] \in Nat
      <4>1. judged[j] \in Nat \X ValCosts
        BY <1>2
      <4>2. QED
        BY <1>1, <4>1
    <3>4. minVal = ToFloat(judged[j][2]) /\ minVal <= ToFloat(judged[q][2])
      BY <1>2, <3>1, <3>2 DEF Leads
    <3>5. ToFloat(c) <= minVal /\ minVal \in Nat /\ ToFloat(c) \in Nat /\ ToFloat(judged[q][2]) \in Nat
      BY <1>1, <1>3, <3>1, <3>3, <3>4, Rounded
    <3>6. ToFloat(judged'[q][2]) = ToFloat(judged[q][2])
      BY <3>1
    <3>7. ToFloat(c) <= ToFloat(judged[q][2])
      BY <3>4, <3>5
    <3>8. QED
      BY <1>3, <3>6, <3>7
  <2>3. QED
    BY <2>1, <2>2
<1>6. PICK j \in Nat : j = n + 1
  BY <1>2
<1>7. Leads(j)'
  <2>1. judged'[j] = e /\ Len(judged') = j /\ DOMAIN judged' = 1 .. j
    BY <1>2, <1>6
  <2>2. \A q \in 1 .. j : minVal' <= ToFloat(judged'[q][2])
    BY <1>5, <1>6
  <2>3. judged'[j][1] = min' /\ ToFloat(judged'[j][2]) = minVal'
    BY <1>3, <2>1
  <2>4. dropStreak' = Len(judged') - j
    BY <1>3, <2>1
  <2>5. QED
    BY <2>1, <2>2, <2>3, <2>4 DEF Leads
<1>8. j \in DOMAIN judged'
  BY <1>2, <1>6
<1>9. dropStreak' \in 0 .. MaxDropStreak /\ dropStreak' < MaxDropStreak
  BY <1>1, <1>3
<1>10. \E q \in DOMAIN judged' : Leads(q)'
  BY <1>7, <1>8
<1>11. QED
  BY <1>2, <1>3, <1>4, <1>9, <1>10 DEF JudgeInv

LEMMA NoDropJudges ==
    ASSUME AnnInv, JudgeInv, stage = "judge", NEW c \in ValCosts, NoDrop(c),
           judged' = Append(judged, <<ann, c>>)
    PROVE  JudgeInv'
<1> DEFINE e == <<ann, c>>
           n == Len(judged)
<1>1. /\ c \in Nat /\ ann \in Nat /\ judged \in Seq(Nat \X ValCosts) /\ e \in Nat \X ValCosts
      /\ ValCosts \subseteq Nat /\ MaxDropStreak \in Nat \ {0} /\ c < Infinity /\ Infinity \in Nat
      /\ dropStreak \in Nat /\ dropStreak < MaxDropStreak
  BY TrainAssumption DEF AnnInv, JudgeInv
<1>2. /\ judged' \in Seq(Nat \X ValCosts) /\ judged' # <<>> /\ n \in Nat /\ DOMAIN judged = 1 .. n
      /\ \A q \in 1 .. n : judged[q] \in Nat \X ValCosts
      /\ Len(judged') = n + 1 /\ DOMAIN judged' = 1 .. n + 1
      /\ \A q \in 1 .. n : judged'[q] = judged[q]
      /\ judged'[n + 1] = e
  BY <1>1, JudgedSeq
<1>3. ~(c < minVal) /\ min' = min /\ minVal' = minVal /\ dropStreak' = dropStreak + 1
  BY DEF NoDrop
<1>4. judged # <<>>
  BY <1>1, <1>3 DEF JudgeInv
<1>5. PICK j \in 1 .. n : Leads(j)
  BY <1>2, <1>4 DEF JudgeInv
<1>6. min # NotSet /\ min \in Nat /\ minVal \in Nat
  BY <1>4 DEF JudgeInv
<1>7. /\ judged[j][1] = min /\ ToFloat(judged[j][2]) = minVal /\ judged[j][2] \in Nat
      /\ \A q \in 1 .. n : minVal <= ToFloat(judged[q][2])
      /\ dropStreak = n - j
  <2>1. judged[j] \in Nat \X ValCosts
    BY <1>2
  <2>2. QED
    BY <1>1, <1>2, <1>5, <2>1 DEF Leads
<1>8. minVal <= ToFloat(c)
  BY <1>1, <1>3, <1>7, Rounded
<1> HIDE DEF n
<1>9. ASSUME NEW q \in 1 .. n + 1 PROVE minVal <= ToFloat(judged'[q][2])
  <2>1. CASE q = n + 1
    BY <1>2, <1>8, <2>1
  <2>2. CASE q # n + 1
    <3>1. q \in 1 .. n
      BY <1>2, <2>2
    <3>2. QED
      BY <1>2, <1>7, <3>1
  <2>3. QED
    BY <2>1, <2>2
<1>10. Leads(j)'
  <2>1. judged'[j] = judged[j]
    BY <1>2
  <2>2. judged'[j][1] = min' /\ ToFloat(judged'[j][2]) = minVal'
    BY <1>3, <1>7, <2>1
  <2>3. dropStreak' = Len(judged') - j
    BY <1>2, <1>3, <1>7
  <2>4. QED
    BY <1>2, <1>3, <1>9, <2>2, <2>3 DEF Leads
<1>11. j \in DOMAIN judged' /\ dropStreak' \in 0 .. MaxDropStreak
  BY <1>1, <1>2, <1>3
<1>12. CASE dropStreak' >= MaxDropStreak
  <2>1. stage' = "returned" /\ ann' = min
    BY <1>6, <1>12 DEF NoDrop, Returns, Restored
  <2>2. QED
    BY <1>2, <1>3, <1>6, <1>10, <1>11, <1>12, <2>1 DEF JudgeInv
<1>13. CASE ~(dropStreak' >= MaxDropStreak)
  <2>1. stage' = "epoch" /\ dropStreak' < MaxDropStreak
    BY <1>1, <1>3, <1>13 DEF NoDrop, Continues
  <2>2. QED
    BY <1>2, <1>3, <1>6, <1>10, <1>11, <2>1 DEF JudgeInv
<1>14. QED
  BY <1>12, <1>13

LEMMA SameJudgement ==
    ASSUME JudgeInv, UNCHANGED best
    PROVE  /\ dropStreak' \in 0 .. MaxDropStreak /\ minVal' \in Nat /\ min' \in Nat \cup {NotSet}
           /\ judged' \in Seq(Nat \X ValCosts)
           /\ IF judged' = <<>> THEN min' = NotSet /\ minVal' = Infinity /\ dropStreak' = 0
                               ELSE min' # NotSet /\ \E j \in DOMAIN judged' : Leads(j)'
           /\ UNCHANGED <<dropStreak, minVal, min, judged>>
<1>1. UNCHANGED <<dropStreak, minVal, min, judged>>
  BY DEF best
<1>2. \A j : Leads(j)' <=> Leads(j)
  BY <1>1 DEF Leads
<1>3. QED
  BY <1>1, <1>2 DEF JudgeInv

LEMMA JudgeNext ==
    ASSUME PassInv, AnnInv, JudgeInv, [TrainNext]_trainVars
    PROVE  JudgeInv'
<1>1. CASE Judge
  <2>1. CASE epoch >= MaxDropStreak /\ nVal > 0
    <3>1. PICK c \in ValCosts : (Improve(c) \/ NoDrop(c)) /\ judged' = Append(judged, <<ann, c>>)
      BY <1>1, <2>1 DEF Judge
    <3>2. QED
      BY <1>1, <3>1, ImproveJudges, NoDropJudges DEF Judge
  <2>2. CASE ~(epoch >= MaxDropStreak /\ nVal > 0)
    <3>1. stage = "judge" /\ stage' = "epoch" /\ UNCHANGED best
      BY <1>1, <2>2 DEF Judge, Continues
    <3>2. dropStreak' < MaxDropStreak
      BY <3>1, SameJudgement DEF JudgeInv
    <3>3. QED
      BY <3>1, <3>2, SameJudgement DEF JudgeInv
  <2>3. QED
    BY <2>1, <2>2
<1>2. CASE EndTraining
  <2>1. /\ stage = "epoch" /\ stage' = "returned" /\ ann' = Restored /\ epoch' = epoch
        /\ epoch = MaxEpoch /\ UNCHANGED <<data, best>> /\ MaxEpoch \in Nat /\ epoch \in Nat
    <3>1. epoch >= MaxEpoch /\ epoch \in 0 .. MaxEpoch /\ MaxEpoch \in Nat
      BY <1>2, TrainAssumption DEF EndTraining, AnnInv
    <3>2. QED
      BY <1>2, <3>1 DEF EndTraining, Returns
  <2>2. ann = epoch * Updates /\ Updates' = Updates
    BY <2>1, SameData DEF AnnInv
  <2>3. CASE judged = <<>>
    <3>1. min = NotSet
      BY <2>3 DEF JudgeInv
    <3>2. ann' = epoch' * Updates' /\ judged' = <<>> /\ epoch' = MaxEpoch
      BY <2>1, <2>2, <2>3, <3>1, SameJudgement DEF Restored
    <3>3. QED
      BY <2>1, <3>2, SameJudgement DEF JudgeInv
  <2>4. CASE judged # <<>>
    <3>1. min # NotSet
      BY <2>4 DEF JudgeInv
    <3>2. ann' = min' /\ judged' # <<>> /\ ~(epoch' < MaxEpoch)
      BY <2>1, <2>4, <3>1, SameJudgement DEF Restored
    <3>3. QED
      BY <2>1, <3>2, SameJudgement DEF JudgeInv
  <2>5. QED
    BY <2>3, <2>4
<1>3. CASE StartEpoch \/ TrainBatch \/ StartValidation \/ ValidateBatch \/ EndValidation
  <2>1. /\ stage \in {"epoch", "train", "validate"} /\ stage' \in {"train", "validate", "judge"}
        /\ UNCHANGED best
    BY <1>3 DEF StartEpoch, TrainBatch, StartValidation, ValidateBatch, EndValidation
  <2>2. dropStreak' < MaxDropStreak
    BY <2>1, SameJudgement DEF JudgeInv
  <2>3. QED
    BY <2>1, <2>2, SameJudgement DEF JudgeInv
<1>4. CASE StartCost \/ CostBatch \/ EndCost
  <2>1. /\ stage \in {"returned", "cost"} /\ stage' \in {"cost", "done"}
        /\ UNCHANGED <<data, epoch, ann, best>>
    BY <1>4 DEF StartCost, CostBatch, EndCost
  <2>2. Updates' = Updates /\ epoch' = epoch /\ ann' = ann
    BY <2>1, SameData
  <2>3. QED
    BY <2>1, <2>2, SameJudgement DEF JudgeInv
<1>5. CASE TrainEnd \/ UNCHANGED trainVars
  <2>1. UNCHANGED <<stage, data, epoch, ann, best>>
    BY <1>5 DEF TrainEnd, trainVars
  <2>2. Updates' = Updates /\ epoch' = epoch /\ ann' = ann /\ stage' = stage
    BY <2>1, SameData
  <2>3. QED
    BY <2>1, <2>2, SameJudgement DEF JudgeInv
<1>6. QED
  BY <1>1, <1>2, <1>3, <1>4, <1>5 DEF TrainNext

LEMMA JudgeGives ==
    ASSUME PassInv, AnnInv, JudgeInv
    PROVE  BestRestored
<1> SUFFICES ASSUME stage \in {"returned", "cost", "done"}
             PROVE  IF judged = <<>>
                    THEN epoch = MaxEpoch /\ ann = epoch * ((NTrain + MiniSize - 1) \div MiniSize)
                    ELSE \E j \in DOMAIN judged :
                           /\ judged[j][1] = ann
                           /\ \A q \in DOMAIN judged :
                                ToFloat(judged[j][2]) <= ToFloat(judged[q][2])
                           /\ epoch < MaxEpoch => Len(judged) - j >= MaxDropStreak
  BY DEF BestRestored
<1>1. CASE judged = <<>>
  BY <1>1 DEF JudgeInv, Updates
<1>2. CASE judged # <<>>
  <2>1. PICK j \in DOMAIN judged : Leads(j)
    BY <1>2 DEF JudgeInv
  <2>2. ann = min /\ (epoch < MaxEpoch => dropStreak >= MaxDropStreak)
    BY <1>2 DEF JudgeInv
  <2>3. QED
    BY <1>2, <2>1, <2>2 DEF Leads
<1>3. QED
  BY <1>1, <1>2

-----------------------------------------------------------------------------
LEMMA TrainInitHolds == TrainInit => TrainInv
<1> SUFFICES ASSUME TrainInit PROVE TrainInv
  OBVIOUS
<1>1. PassInv
  BY PassInit
<1>2. Updates \in Nat
  BY <1>1, UpdatesOf
<1>3. AnnInv
  BY <1>2, TrainAssumption DEF TrainInit, AnnInv
<1>4. JudgeInv
  <2>1. <<>> \in Seq(Nat \X ValCosts)
    OBVIOUS
  <2>2. QED
    BY <2>1, TrainAssumption DEF TrainInit, JudgeInv
<1>5. CostInv
  BY DEF TrainInit, CostInv
<1>6. QED
  BY <1>1, <1>3, <1>4, <1>5 DEF TrainInv

LEMMA TrainNextKeeps == TrainInv /\ [TrainNext]_trainVars => TrainInv'
  BY PassNext, AnnNext, JudgeNext, CostNext DEF TrainInv

LEMMA TrainInvGives == TrainInv => RowsUsedOnce /\ BestRestored
<1> SUFFICES ASSUME TrainInv PROVE RowsUsedOnce /\ BestRestored
  OBVIOUS
<1>1. PassInv /\ AnnInv /\ JudgeInv /\ CostInv
  BY DEF TrainInv
<1>2. TrainTypeOK
  <2>1. ToSet(buf) \subseteq 0 .. NRow
    BY <1>1 DEF PassInv, ToSet
  <2>2. QED
    BY <1>1, <2>1 DEF TrainTypeOK, PassInv, AnnInv, JudgeInv, Orders
<1>3. QED
  BY <1>1, <1>2, PassGives, JudgeGives DEF RowsUsedOnce, CostInv, CostIsMean

LEMMA TrainInvariant == TrainSpec => []TrainInv
<1>1. QED
  BY TrainInitHolds, TrainNextKeeps, PTL DEF TrainSpec

\* For every number of rows, split and batch size: every pass of kann_train_fnn1 and
\* kann_cost_fnn1 uses its rows once and with their weight, none of them for both
\* training and validation (kann.c:842-874, 920-930).
THEOREM RowsAreUsedOnce == TrainSpec => []RowsUsedOnce
<1>1. QED
  BY TrainInvariant, TrainInvGives, PTL

\* For every sequence of costs: training returns the best of the parameters it judged,
\* and stops early only when nothing was better for long enough (kann.c:885-898).
THEOREM TheBestIsRestored == TrainSpec => []BestRestored
<1>1. QED
  BY TrainInvariant, TrainInvGives, PTL

-----------------------------------------------------------------------------
(***************************************************************************)
(* Unrolling.  The inductive invariant says which nodes have a copy at     *)
(* each point of kad_unroll_helper and of kad_unroll, and which copies are *)
(* in the new graph.                                                       *)
(***************************************************************************)
PL == PivotList
In(w, m) == \E q \in 1 .. Len(w) : w[q] = m

\* Each copy is listed once, and after the copies that it uses.
Ordered(mk, w) ==
  /\ w \in Seq(Nat) /\ \A q \in 1 .. Len(w) : w[q] \in 1 .. Len(mk)
  /\ \A q, r \in 1 .. Len(w) : w[q] = w[r] => q = r
  /\ \A q \in 1 .. Len(w) : \A j \in 1 .. Len(mk[w[q]].child) :
       \E r \in 1 .. q - 1 : w[r] = mk[w[q]].child[j]

Copies == [of : Nat, child : Seq(Nat), pre : Nat]
UTypes ==
  /\ net \in RnnGraphs /\ lens \in [1 .. Len(PL) -> Lens]
  /\ uphase \in {"helper", "rest", "ready", "running"}
  /\ pv \in 1 .. Len(PL) + 1 /\ turn \in Nat /\ node \in 1 .. Len(net) + 1
  /\ Active => pv <= Len(PL) /\ turn <= lens[pv] /\ node <= P0
  /\ uphase = "helper" /\ turn = 0 => node = 1
  /\ uphase # "helper" => pv = Len(PL) + 1
  /\ Done => node = Len(net) + 1
  /\ flag \in Seq(SUBSET Nat)
  /\ Len(flag) = IF Active THEN pv ELSE pv - 1
  /\ Active => flag[pv] = Flagged(net, P0)
UMade ==
  /\ made \in Seq(Copies)
  /\ \A m \in 1 .. Len(made) : made[m].of \in 1 .. Len(net) /\ made[m].pre \in 0 .. Len(made)
  /\ copies \in [1 .. Len(net) -> 0 .. Len(made)] /\ firsts \in [1 .. Len(net) -> 0 .. Len(made)]

\* Every copy is listed, except that of the pivot at hand.
UList ==
  /\ \A m \in 1 .. Len(made) : In(wlist, m) \/ (Active /\ m = copies[P0])
  /\ Active => copies[P0] # 0 /\ ~In(wlist, copies[P0])
  /\ \A n \in 1 .. Len(net) : copies[n] # 0 => In(wlist, copies[n]) \/ (Active /\ n = P0)

\* What the pivot at hand pools is there for the steps that are done.
UPivot ==
  Active => /\ Len(made[copies[P0]].child) = lens[pv] /\ made[copies[P0]].of = P0
            /\ \A s \in 1 .. lens[pv] : s < turn \/ (s = turn /\ node > net[P0].child[1])
                 => In(wlist, made[copies[P0]].child[s])

\* What has been visited has a copy: the pivots before this one, and in this
\* step the flagged nodes before the node at hand.
UDone ==
  /\ \A j \in 1 .. pv - 1 : copies[PL[j]] # 0
  /\ Active => \A n \in flag[pv] : n < node => copies[n] # 0
  /\ ~(uphase = "helper") => \A n \in 1 .. Len(net) : n < node => copies[n] # 0

\* Nothing above the pivot at hand has one.
UNew ==
  uphase = "helper" =>
    \A j \in pv .. Len(PL), n \in 1 .. Len(net) :
      n >= PL[j] /\ ~(Active /\ n = P0) => copies[n] = 0

\* A parameter has at most one copy, also when t[] of it has become the copy of
\* the recurrent node.
UOne ==
  \A n \in 1 .. Len(net) : External(net, n) =>
    /\ copies[n] # 0 <=> \E m \in 1 .. Len(made) : made[m].of = n
    /\ \A l, m \in 1 .. Len(made) : made[l].of = n /\ made[m].of = n => l = m
UInv == UTypes /\ UMade /\ UList /\ Ordered(made, wlist) /\ UPivot /\ UDone /\ UNew /\ UOne

-----------------------------------------------------------------------------
(* Networks.                                                                *)

LEMMA NetFacts ==
    ASSUME NEW v \in RnnGraphs
    PROVE  /\ v \in Seq([op : UnrollOps, child : Seq(Nat), pre : Nat]) /\ Len(v) \in Nat
           /\ \A n \in 1 .. Len(v) :
                /\ v[n].child \in Seq(Nat) /\ Len(v[n].child) \in Nat
                /\ \A j \in 1 .. Len(v[n].child) : v[n].child[j] \in 1 .. n - 1
                /\ v[n].pre \in 0 .. n - 1
           /\ \A p \in 1 .. Len(v) : IsPivot(v, p) =>
                /\ 1 \in 1 .. Len(v[p].child)
                /\ ~External(v, p) /\ ~External(v, v[p].child[1]) /\ ~IsPivot(v, v[p].child[1])
                /\ \A n \in Flagged(v, p) : v[n].pre # v[p].child[1] /\ v[n].pre \in Flagged(v, p) \cup {0}
<1>1. /\ v \in Seq([op : UnrollOps, child : Seq(Nat), pre : Nat])
      /\ \A n \in DOMAIN v : ToSet(v[n].child) \subseteq 1 .. n - 1 /\ v[n].pre \in 0 .. n - 1
  BY UnrollAssumption
<1>2. Len(v) \in Nat /\ DOMAIN v = 1 .. Len(v)
  BY <1>1
<1>3. ASSUME NEW n \in 1 .. Len(v)
      PROVE  /\ v[n].child \in Seq(Nat) /\ Len(v[n].child) \in Nat
             /\ \A j \in 1 .. Len(v[n].child) : v[n].child[j] \in 1 .. n - 1
             /\ v[n].pre \in 0 .. n - 1
  <2>1. v[n] \in [op : UnrollOps, child : Seq(Nat), pre : Nat]
    BY <1>1, <1>2, ElementOfSeq
  <2>2. v[n].child \in Seq(Nat) /\ Len(v[n].child) \in Nat /\ DOMAIN v[n].child = 1 .. Len(v[n].child)
    BY <2>1
  <2>3. QED
    BY <1>1, <1>2, <2>2 DEF ToSet
<1>4. ASSUME NEW p \in 1 .. Len(v), IsPivot(v, p)
      PROVE  1 \in 1 .. Len(v[p].child) /\ ~External(v, p)
  BY <1>3, <1>4 DEF IsPivot, External, Pools
<1>5. QED
  BY <1>1, <1>2, <1>3, <1>4, UnrollAssumption

\* The pivots up to node n, in their order.
PivotsUpTo(v, n) ==
  {s \in Seq(Nat) :
     /\ \A j \in 1 .. Len(s) : s[j] \in 1 .. n /\ IsPivot(v, s[j])
     /\ \A i, j \in 1 .. Len(s) : i < j => s[i] < s[j]
     /\ \A m \in 1 .. n : IsPivot(v, m) => \E j \in 1 .. Len(s) : s[j] = m}

LEMMA PivotsGrow ==
    ASSUME NEW v, NEW n \in Nat \ {0}, NEW s \in PivotsUpTo(v, n - 1)
    PROVE  (IF IsPivot(v, n) THEN Append(s, n) ELSE s) \in PivotsUpTo(v, n)
<1>1. s \in Seq(Nat) /\ Len(s) \in Nat
  BY DEF PivotsUpTo
<1>2. CASE ~IsPivot(v, n)
  <2>1. \A m \in 1 .. n : IsPivot(v, m) => m \in 1 .. n - 1
    BY <1>2
  <2>2. QED
    BY <1>2, <2>1 DEF PivotsUpTo
<1>3. CASE IsPivot(v, n)
  <2>1. PICK t : t = Append(s, n)
    OBVIOUS
  <2>2. /\ t \in Seq(Nat) /\ Len(t) = Len(s) + 1 /\ t[Len(s) + 1] = n
        /\ \A j \in 1 .. Len(s) : t[j] = s[j]
    BY <1>1, <2>1
  <2>3. \A j \in 1 .. Len(t) : j \in 1 .. Len(s) \/ j = Len(s) + 1
    BY <1>1, <2>2
  <2>4. \A j \in 1 .. Len(t) : t[j] \in 1 .. n /\ IsPivot(v, t[j])
    BY <1>1, <1>3, <2>2, <2>3 DEF PivotsUpTo
  <2>5. ASSUME NEW i \in 1 .. Len(t), NEW j \in 1 .. Len(t), i < j PROVE t[i] < t[j]
    <3>1. i \in 1 .. Len(s)
      BY <1>1, <2>2, <2>5
    <3>2. CASE j = Len(s) + 1
      BY <2>2, <3>1, <3>2 DEF PivotsUpTo
    <3>3. CASE j \in 1 .. Len(s)
      BY <2>2, <2>5, <3>1, <3>3 DEF PivotsUpTo
    <3>4. QED
      BY <2>3, <3>2, <3>3
  <2>6. ASSUME NEW m \in 1 .. n, IsPivot(v, m) PROVE \E j \in 1 .. Len(t) : t[j] = m
    <3>1. CASE m = n
      BY <1>1, <2>2, <3>1
    <3>2. CASE m # n
      <4>1. m \in 1 .. n - 1
        BY <3>2
      <4>2. PICK j \in 1 .. Len(s) : s[j] = m
        BY <2>6, <4>1 DEF PivotsUpTo
      <4>3. j \in 1 .. Len(t) /\ t[j] = m
        BY <1>1, <2>2, <4>2
      <4>4. QED
        BY <4>3
    <3>3. QED
      BY <3>1, <3>2
  <2>7. t \in PivotsUpTo(v, n)
    BY <2>2, <2>4, <2>5, <2>6 DEF PivotsUpTo
  <2>8. QED
    BY <1>3, <2>1, <2>7
<1>4. QED
  BY <1>2, <1>3

LEMMA PivotListIs ==
    ASSUME net \in RnnGraphs
    PROVE  PL \in PivotsUpTo(net, Len(net))
<1> DEFINE n == Len(net)
           One(s, k) == IF IsPivot(net, k) THEN Append(s, k) ELSE s
           Solves(f) == f = [k \in 0 .. n |-> IF k = 0 THEN <<>> ELSE One(f[k - 1], k)]
           step == [u \in Seq(Nat) \X (1 .. n) |-> One(u[1], u[2])]
           Good == [k \in 0 .. n |-> PivotsUpTo(net, k)]
<1>0. n \in Nat
  BY NetFacts
<1>1. <<>> \in PivotsUpTo(net, 0) /\ <<>> \in Seq(Nat)
  <2>1. <<>> \in Seq(Nat) /\ Len(<<>>) = 0 /\ 1 .. 0 = {}
    OBVIOUS
  <2>2. QED
    BY <2>1 DEF PivotsUpTo
<1>2. ASSUME NEW s \in Seq(Nat), NEW k \in 1 .. n PROVE One(s, k) \in Seq(Nat)
  BY <1>0
<1> HIDE DEF n
<1>3. step \in [Seq(Nat) \X (1 .. n) -> Seq(Nat)]
  <2> HIDE DEF One
  <2>1. QED
    BY <1>2
<1>4. \E f : Solves(f)
  <2>1. PICK f \in [0 .. n -> Seq(Nat)] : Iterates(f, <<>>, step, n)
    <3> HIDE DEF step, Solves, Good
    <3>1. QED
      BY <1>0, <1>1, <1>3, RecursionExists
  <2>2. ASSUME NEW k \in 1 .. n PROVE f[k] = One(f[k - 1], k)
    <3> HIDE DEF One
    <3>1. f[k - 1] \in Seq(Nat)
      BY <1>0, <2>1
    <3>2. step[<<f[k - 1], k>>] = One(f[k - 1], k)
      BY <3>1
    <3>3. QED
      <4> HIDE DEF step
      <4>1. QED
        BY <2>1, <3>2 DEF Iterates
  <2>3. f = [k \in 0 .. n |-> f[k]]
    OBVIOUS
  <2>4. ASSUME NEW k \in 0 .. n PROVE f[k] = IF k = 0 THEN <<>> ELSE One(f[k - 1], k)
    <3> HIDE DEF One, step
    <3>1. k # 0 => k \in 1 .. n
      BY <1>0
    <3>2. QED
      BY <2>1, <2>2, <3>1 DEF Iterates
  <2>5. Solves(f)
    <3> HIDE DEF One
    <3>1. QED
      BY <2>3, <2>4
  <2>6. QED
    BY <2>5
<1>5. ASSUME NEW f, Solves(f) PROVE f[n] \in PivotsUpTo(net, n)
  <2>1. f[0] \in Good[0]
    BY <1>0, <1>1, <1>5
  <2>2. ASSUME NEW k \in 0 .. n - 1, f[k] \in Good[k] PROVE f[k + 1] \in Good[k + 1]
    <3> DEFINE m == k + 1
    <3>1. m \in 0 .. n /\ m # 0 /\ m - 1 = k /\ m \in 1 .. n /\ k \in 0 .. n /\ m \in Nat \ {0}
      BY <1>0
    <3> HIDE DEF m, One
    <3>2. f[m] = IF m = 0 THEN <<>> ELSE One(f[m - 1], m)
      BY <1>5, <3>1
    <3>3. f[m] = One(f[k], m) /\ f[k] \in PivotsUpTo(net, m - 1)
      BY <2>2, <3>1, <3>2
    <3>4. One(f[k], m) \in PivotsUpTo(net, m)
      BY <3>1, <3>3, PivotsGrow DEF One
    <3>5. f[m] \in Good[m]
      BY <3>1, <3>3, <3>4
    <3>6. QED
      BY <3>5 DEF m
  <2>3. f[n] \in Good[n]
    <3> HIDE DEF Good, Solves
    <3>1. QED
      BY <1>0, <2>1, <2>2, LoopKeeps
  <2>4. QED
    BY <1>0, <2>3
<1>6. PL = (CHOOSE f : Solves(f))[n]
  BY DEF PL, PivotList, n
<1>7. QED
  <2> HIDE DEF Solves
  <2>1. Solves(CHOOSE f : Solves(f))
    BY <1>4
  <2>2. QED
    BY <1>5, <1>6, <2>1 DEF n

\* The nodes with flag 16 from node k on: those that p or another of them uses.
FlaggedFrom(v, p, k) ==
  {s \in SUBSET (k .. p - 1) :
     \A m \in s \cup {p} : m = p \/ ~IsPivot(v, m) =>
       \A j \in 1 .. Len(v[m].child) : v[m].child[j] >= k => v[m].child[j] \in s}

LEMMA FlagGrows ==
    ASSUME NEW v \in RnnGraphs, NEW p \in 1 .. Len(v), NEW k \in 1 .. p - 1,
           NEW s \in FlaggedFrom(v, p, k + 1)
    PROVE  FlagNode(v, p, s, k) \in FlaggedFrom(v, p, k)
<1>1. /\ Len(v) \in Nat /\ p \in Nat /\ k \in Nat
      /\ \A n \in 1 .. Len(v) : /\ v[n].child \in Seq(Nat) /\ Len(v[n].child) \in Nat
                                /\ \A j \in 1 .. Len(v[n].child) : v[n].child[j] \in 1 .. n - 1
  BY NetFacts
<1>2. s \subseteq k + 1 .. p - 1 /\ s \cup {k} \subseteq k .. p - 1 /\ s \subseteq 1 .. Len(v)
  <2>1. s \in SUBSET (k + 1 .. p - 1)
    BY DEF FlaggedFrom
  <2>2. k \in 1 .. p - 1 /\ p \in 1 .. Len(v)
    OBVIOUS
  <2>3. QED
    BY <1>1, <2>1, <2>2
<1>3. ASSUME NEW m \in s \cup {p}, m = p \/ ~IsPivot(v, m), NEW j \in 1 .. Len(v[m].child),
             v[m].child[j] >= k, v[m].child[j] # k
      PROVE  v[m].child[j] \in s
  <2>1. m \in 1 .. Len(v)
    BY <1>2
  <2>2. v[m].child[j] \in Nat
    BY <1>1, <2>1
  <2>3. v[m].child[j] >= k + 1
    BY <1>1, <1>3, <2>2
  <2>4. QED
    BY <1>3, <2>3 DEF FlaggedFrom
<1>4. CASE \E m \in s \cup {p} : k \in ToSet(v[m].child) /\ (m = p \/ ~IsPivot(v, m))
  <2>1. ASSUME NEW m \in s \cup {k, p}, m = p \/ ~IsPivot(v, m), NEW j \in 1 .. Len(v[m].child),
               v[m].child[j] >= k
        PROVE  v[m].child[j] \in s \cup {k}
    <3>1. m # k
      <4> SUFFICES ASSUME m = k PROVE FALSE
        OBVIOUS
      <4>1. k \in 1 .. Len(v)
        BY <1>1
      <4>2. v[k].child[j] \in 1 .. k - 1
        BY <1>1, <2>1, <4>1
      <4>3. QED
        BY <1>1, <2>1, <4>2
    <3>2. QED
      BY <1>3, <2>1, <3>1
  <2>2. s \cup {k} \in FlaggedFrom(v, p, k)
    BY <1>2, <2>1 DEF FlaggedFrom
  <2>3. QED
    BY <1>4, <2>2 DEF FlagNode
<1>5. CASE ~(\E m \in s \cup {p} : k \in ToSet(v[m].child) /\ (m = p \/ ~IsPivot(v, m)))
  <2>1. ASSUME NEW m \in s \cup {p}, m = p \/ ~IsPivot(v, m), NEW j \in 1 .. Len(v[m].child),
               v[m].child[j] >= k
        PROVE  v[m].child[j] \in s
    <3>1. m \in 1 .. Len(v)
      BY <1>2
    <3>2. DOMAIN v[m].child = 1 .. Len(v[m].child)
      BY <1>1, <3>1
    <3>3. v[m].child[j] # k
      BY <1>5, <2>1, <3>2 DEF ToSet
    <3>4. QED
      BY <1>3, <2>1, <3>3
  <2>2. s \in FlaggedFrom(v, p, k)
    BY <1>2, <2>1 DEF FlaggedFrom
  <2>3. QED
    BY <1>5, <2>2 DEF FlagNode
<1>6. QED
  BY <1>4, <1>5

LEMMA FlaggedIs ==
    ASSUME NEW v \in RnnGraphs, NEW p \in 1 .. Len(v)
    PROVE  Flagged(v, p) \in FlaggedFrom(v, p, 1)
<1> DEFINE n == p - 1
           State == SUBSET (1 .. n)
           One(s, k) == FlagNode(v, p, s, p - k)
           Solves(f) == f = [k \in 0 .. p - 1 |-> IF k = 0 THEN {} ELSE One(f[k - 1], k)]
           step == [u \in State \X (1 .. n) |-> One(u[1], u[2])]
           Good == [k \in 0 .. n |-> FlaggedFrom(v, p, p - k)]
<1>0. n \in Nat /\ p \in Nat /\ p - n = 1 /\ n + 1 = p
  <2>1. Len(v) \in Nat
    BY NetFacts
  <2>2. QED
    BY <2>1
<1>1. {} \in State /\ {} \in FlaggedFrom(v, p, p)
  <2>1. Len(v) \in Nat
    BY NetFacts
  <2>2. ASSUME NEW j \in 1 .. Len(v[p].child), v[p].child[j] >= p PROVE FALSE
    <3>1. PICK c : c = v[p].child[j]
      OBVIOUS
    <3>2. c \in 1 .. p - 1 /\ c >= p
      BY <2>2, <3>1, NetFacts
    <3>3. QED
      BY <1>0, <3>2
  <2>3. QED
    BY <2>2 DEF FlaggedFrom
<1>2. ASSUME NEW s \in State, NEW k \in 1 .. n PROVE One(s, k) \in State
  <2>1. p - k \in 1 .. n
    BY <1>0
  <2>2. QED
    BY <2>1 DEF FlagNode
<1> HIDE DEF n
<1>3. step \in [State \X (1 .. n) -> State]
  <2> HIDE DEF One, State
  <2>1. QED
    BY <1>2
<1>4. \E f : Solves(f)
  <2>1. PICK f \in [0 .. n -> State] : Iterates(f, {}, step, n)
    <3> HIDE DEF step, Solves, Good, State
    <3>1. QED
      BY <1>0, <1>1, <1>3, RecursionExists
  <2>2. ASSUME NEW k \in 1 .. n PROVE f[k] = One(f[k - 1], k)
    <3> HIDE DEF One, State
    <3>1. f[k - 1] \in State
      BY <1>0, <2>1
    <3>2. step[<<f[k - 1], k>>] = One(f[k - 1], k)
      BY <3>1
    <3>3. QED
      <4> HIDE DEF step
      <4>1. QED
        BY <2>1, <3>2 DEF Iterates
  <2>3. f = [k \in 0 .. n |-> f[k]]
    OBVIOUS
  <2>4. ASSUME NEW k \in 0 .. n PROVE f[k] = IF k = 0 THEN {} ELSE One(f[k - 1], k)
    <3> HIDE DEF One, step, State
    <3>1. k # 0 => k \in 1 .. n
      BY <1>0
    <3>2. QED
      BY <2>1, <2>2, <3>1 DEF Iterates
  <2>5. Solves(f)
    <3> HIDE DEF One, State
    <3>1. QED
      BY <2>3, <2>4 DEF n
  <2>6. QED
    BY <2>5
<1>5. ASSUME NEW f, Solves(f) PROVE f[n] \in FlaggedFrom(v, p, 1)
  <2>1. f[0] \in Good[0]
    <3>1. 0 \in 0 .. p - 1 /\ 0 \in 0 .. n /\ p - 0 = p
      BY <1>0
    <3> HIDE DEF One
    <3>2. f[0] = {}
      BY <1>5, <3>1
    <3>3. QED
      BY <1>1, <3>1, <3>2
  <2>2. ASSUME NEW k \in 0 .. n - 1, f[k] \in Good[k] PROVE f[k + 1] \in Good[k + 1]
    <3> DEFINE m == k + 1
    <3>1. /\ m \in 0 .. p - 1 /\ m \in 0 .. n /\ m # 0 /\ m - 1 = k /\ k \in 0 .. n
          /\ p - m \in 1 .. p - 1 /\ (p - m) + 1 = p - k
      BY <1>0
    <3> HIDE DEF m, One
    <3>2. f[m] = IF m = 0 THEN {} ELSE One(f[m - 1], m)
      BY <1>5, <3>1
    <3>3. f[m] = One(f[k], m) /\ f[k] \in FlaggedFrom(v, p, (p - m) + 1)
      BY <2>2, <3>1, <3>2
    <3>4. One(f[k], m) \in FlaggedFrom(v, p, p - m)
      BY <3>1, <3>3, FlagGrows DEF One
    <3>5. f[m] \in Good[m]
      BY <3>1, <3>3, <3>4
    <3>6. QED
      BY <3>5 DEF m
  <2>3. f[n] \in Good[n]
    <3> HIDE DEF Good, Solves
    <3>1. QED
      BY <1>0, <2>1, <2>2, LoopKeeps
  <2>4. QED
    BY <1>0, <2>3
<1>6. Flagged(v, p) = (CHOOSE f : Solves(f))[n]
  BY DEF Flagged, n
<1>7. QED
  <2> HIDE DEF Solves
  <2>1. Solves(CHOOSE f : Solves(f))
    BY <1>4
  <2>2. QED
    BY <1>5, <1>6, <2>1

LEMMA FlaggedFacts ==
    ASSUME NEW v \in RnnGraphs, NEW p \in 1 .. Len(v)
    PROVE  /\ Flagged(v, p) \subseteq 1 .. p - 1
           /\ \A j \in 1 .. Len(v[p].child) : v[p].child[j] \in Flagged(v, p)
           /\ \A m \in Flagged(v, p) : ~IsPivot(v, m) =>
                \A j \in 1 .. Len(v[m].child) : v[m].child[j] \in Flagged(v, p)
<1>1. PICK s : s = Flagged(v, p)
  OBVIOUS
<1>2. s \in FlaggedFrom(v, p, 1)
  BY <1>1, FlaggedIs
<1>3. s \subseteq 1 .. p - 1 /\ p \in 1 .. Len(v) /\ Len(v) \in Nat
  BY <1>2, NetFacts DEF FlaggedFrom
<1>4. ASSUME NEW m \in s \cup {p}, m = p \/ ~IsPivot(v, m), NEW j \in 1 .. Len(v[m].child)
      PROVE  v[m].child[j] \in s
  <2>1. m \in 1 .. Len(v)
    BY <1>3
  <2>2. v[m].child[j] \in 1 .. m - 1
    BY <2>1, NetFacts
  <2>3. v[m].child[j] >= 1
    BY <1>3, <2>1, <2>2
  <2>4. QED
    BY <1>2, <1>4, <2>3 DEF FlaggedFrom
<1>5. QED
  BY <1>1, <1>3, <1>4

-----------------------------------------------------------------------------
(* The order of the new graph.                                              *)

\* A copy put at the end, whose operands are in the list.
LEMMA OrderGrows ==
    ASSUME NEW mk, NEW mk2, Len(mk) \in Nat, Len(mk2) \in Nat, Len(mk) <= Len(mk2),
           NEW w, Ordered(mk, w),
           \A q \in 1 .. Len(w) : mk2[w[q]].child = mk[w[q]].child,
           NEW id \in 1 .. Len(mk2), ~In(w, id),
           \A j \in 1 .. Len(mk2[id].child) : In(w, mk2[id].child[j])
    PROVE  /\ Ordered(mk2, Append(w, id))
           /\ \A m : In(Append(w, id), m) <=> In(w, m) \/ m = id
<1>1. PICK t : t = Append(w, id)
  OBVIOUS
<1>2. w \in Seq(Nat) /\ Len(w) \in Nat
  BY DEF Ordered
<1>3. /\ t \in Seq(Nat) /\ Len(t) = Len(w) + 1 /\ t[Len(w) + 1] = id
      /\ \A q \in 1 .. Len(w) : t[q] = w[q]
  BY <1>1, <1>2
<1>4. \A q \in 1 .. Len(t) : q \in 1 .. Len(w) \/ q = Len(w) + 1
  BY <1>2, <1>3
<1>5. \A q \in 1 .. Len(w) : q \in 1 .. Len(t) /\ Len(w) + 1 \in 1 .. Len(t)
  BY <1>2, <1>3
<1>6. ASSUME NEW m PROVE In(t, m) <=> In(w, m) \/ m = id
  <2>1. Len(w) + 1 \in 1 .. Len(t)
    BY <1>2, <1>3
  <2>2. QED
    BY <1>3, <1>4, <1>5, <2>1 DEF In
<1>7. \A q \in 1 .. Len(t) : t[q] \in 1 .. Len(mk2)
  <2>1. \A q \in 1 .. Len(w) : w[q] \in 1 .. Len(mk2)
    BY DEF Ordered
  <2>2. QED
    BY <1>3, <1>4, <2>1
<1>8. ASSUME NEW q \in 1 .. Len(t), NEW r \in 1 .. Len(t), t[q] = t[r] PROVE q = r
  <2>1. CASE q \in 1 .. Len(w) /\ r \in 1 .. Len(w)
    BY <1>3, <1>8, <2>1 DEF Ordered
  <2>2. CASE q \in 1 .. Len(w) /\ r = Len(w) + 1
    BY <1>3, <1>8, <2>2 DEF In
  <2>3. CASE q = Len(w) + 1 /\ r \in 1 .. Len(w)
    BY <1>3, <1>8, <2>3 DEF In
  <2>4. QED
    BY <1>4, <2>1, <2>2, <2>3
<1>9. ASSUME NEW q \in 1 .. Len(t), NEW j \in 1 .. Len(mk2[t[q]].child)
      PROVE  \E r \in 1 .. q - 1 : t[r] = mk2[t[q]].child[j]
  <2>1. CASE q \in 1 .. Len(w)
    <3>1. t[q] = w[q] /\ mk2[t[q]].child = mk[w[q]].child
      BY <1>3, <2>1
    <3>2. PICK r \in 1 .. q - 1 : w[r] = mk[w[q]].child[j]
      BY <1>9, <2>1, <3>1 DEF Ordered
    <3>3. r \in 1 .. Len(w)
      BY <1>2, <2>1
    <3>4. QED
      BY <1>3, <3>1, <3>2, <3>3
  <2>2. CASE q = Len(w) + 1
    <3>1. In(w, mk2[id].child[j])
      BY <1>3, <1>9, <2>2
    <3>2. PICK r \in 1 .. Len(w) : w[r] = mk2[id].child[j]
      BY <3>1 DEF In
    <3>3. r \in 1 .. q - 1 /\ t[r] = w[r] /\ t[q] = id
      BY <1>2, <1>3, <2>2, <3>2
    <3>4. QED
      BY <3>2, <3>3
  <2>3. QED
    BY <1>4, <2>1, <2>2
<1>10. Ordered(mk2, t)
  BY <1>3, <1>7, <1>8, <1>9 DEF Ordered
<1>11. QED
  BY <1>1, <1>6, <1>10

\* The copies change, and what the list holds does not.
LEMMA OrderKept ==
    ASSUME NEW mk, NEW mk2, Len(mk) \in Nat, Len(mk2) \in Nat, Len(mk) <= Len(mk2),
           NEW w, Ordered(mk, w),
           \A q \in 1 .. Len(w) : mk2[w[q]].child = mk[w[q]].child
    PROVE  Ordered(mk2, w)
<1>1. w \in Seq(Nat) /\ \A q \in 1 .. Len(w) : w[q] \in 1 .. Len(mk2)
  BY DEF Ordered
<1>2. ASSUME NEW q \in 1 .. Len(w), NEW j \in 1 .. Len(mk2[w[q]].child)
      PROVE  \E r \in 1 .. q - 1 : w[r] = mk2[w[q]].child[j]
  <2>1. mk2[w[q]].child = mk[w[q]].child
    OBVIOUS
  <2>2. QED
    BY <2>1 DEF Ordered
<1>3. QED
  BY <1>1, <1>2 DEF Ordered

-----------------------------------------------------------------------------
(* The inductive invariant.                                                 *)

LEMMA PivotFacts ==
    ASSUME net \in RnnGraphs
    PROVE  /\ PL \in Seq(Nat) /\ Len(PL) \in Nat
           /\ \A j \in 1 .. Len(PL) : PL[j] \in 1 .. Len(net) /\ IsPivot(net, PL[j])
           /\ \A i, j \in 1 .. Len(PL) : i < j => PL[i] < PL[j]
           /\ \A m \in 1 .. Len(net) : IsPivot(net, m) => \E j \in 1 .. Len(PL) : PL[j] = m
BY PivotListIs DEF PivotsUpTo

LEMMA ActiveFacts ==
    ASSUME UTypes, Active
    PROVE  /\ pv \in 1 .. Len(PL) /\ P0 = PL[pv] /\ P0 \in 1 .. Len(net) /\ IsPivot(net, P0)
           /\ turn \in 1 .. lens[pv] /\ lens[pv] \in Nat /\ node \in 1 .. P0
           /\ 1 \in 1 .. Len(net[P0].child) /\ net[P0].child[1] \in flag[pv]
           /\ ~External(net, P0) /\ ~External(net, net[P0].child[1]) /\ ~IsPivot(net, net[P0].child[1])
           /\ flag[pv] \subseteq 1 .. P0 - 1
           /\ \A n \in flag[pv] :
                /\ net[n].pre # net[P0].child[1] /\ net[n].pre \in flag[pv] \cup {0}
                /\ ~IsPivot(net, n) => \A j \in 1 .. Len(net[n].child) : net[n].child[j] \in flag[pv]
           /\ \A j \in 1 .. Len(PL) : j >= pv => PL[j] >= P0
<1>1. net \in RnnGraphs /\ Len(PL) \in Nat /\ Len(net) \in Nat /\ pv \in 1 .. Len(PL)
  BY NetFacts, PivotFacts DEF UTypes
<1>2. P0 = PL[pv]
  BY DEF P0, PL
<1>3. P0 \in 1 .. Len(net) /\ IsPivot(net, P0)
  BY <1>1, <1>2, PivotFacts
<1>4. lens[pv] \in Nat /\ turn \in 1 .. lens[pv] /\ node \in 1 .. P0
  <2>1. lens[pv] \in Lens /\ turn \in Nat /\ turn > 0
    BY <1>1 DEF UTypes, Active
  <2>2. turn <= lens[pv] /\ node <= P0 /\ node \in 1 .. Len(net) + 1
    BY DEF UTypes
  <2>3. lens[pv] \in Nat
    BY <2>1, UnrollAssumption
  <2>4. QED
    BY <1>1, <1>3, <2>1, <2>2, <2>3
<1>5. flag[pv] = Flagged(net, P0)
  BY DEF UTypes
<1>6. ASSUME NEW j \in 1 .. Len(PL), j >= pv PROVE PL[j] >= P0
  <2>1. CASE j = pv
    BY <1>2, <1>3, <2>1
  <2>2. CASE j # pv
    <3>1. pv < j /\ PL[pv] < PL[j]
      BY <1>1, <1>6, <2>2, PivotFacts
    <3>2. PL[j] \in 1 .. Len(net)
      BY <1>1, PivotFacts
    <3>3. QED
      BY <1>2, <1>3, <3>1, <3>2
  <2>3. QED
    BY <2>1, <2>2
<1>7. /\ 1 \in 1 .. Len(net[P0].child)
      /\ ~External(net, P0) /\ ~External(net, net[P0].child[1]) /\ ~IsPivot(net, net[P0].child[1])
      /\ \A n \in flag[pv] : net[n].pre # net[P0].child[1] /\ net[n].pre \in flag[pv] \cup {0}
  BY <1>1, <1>3, <1>5, NetFacts
<1>8. /\ net[P0].child[1] \in flag[pv] /\ flag[pv] \subseteq 1 .. P0 - 1
      /\ \A n \in flag[pv] :
           ~IsPivot(net, n) => \A j \in 1 .. Len(net[n].child) : net[n].child[j] \in flag[pv]
  BY <1>1, <1>3, <1>5, <1>7, FlaggedFacts
<1>9. QED
  BY <1>1, <1>2, <1>3, <1>4, <1>6, <1>7, <1>8

\* PivotList and the pivot at hand depend only on the network and on pv.
LEMMA PivotListKept ==
    ASSUME net' = net
    PROVE  PL' = PL /\ PivotList' = PivotList /\ (pv' = pv => P0' = P0)
<1>1. PivotList' = PivotList
  BY DEF PivotList
<1>2. QED
  BY <1>1 DEF PL, P0

LEMMA InitKeeps == UnrollInit => UInv
<1> SUFFICES ASSUME UnrollInit PROVE UInv
  OBVIOUS
<1>1. net \in RnnGraphs /\ Len(net) \in Nat /\ DOMAIN net = 1 .. Len(net)
  BY NetFacts DEF UnrollInit
<1>2. PL \in Seq(Nat) /\ Len(PL) \in Nat /\ DOMAIN PivotList = 1 .. Len(PL)
  <2>1. PL \in Seq(Nat) /\ Len(PL) \in Nat
    BY <1>1, PivotFacts
  <2>2. QED
    BY <2>1 DEF PL
<1>3. /\ uphase = "helper" /\ pv = 1 /\ turn = 0 /\ node = 1 /\ flag = <<>> /\ ~Active /\ ~Done
      /\ made = <<>> /\ wlist = <<>> /\ Len(made) = 0 /\ Len(wlist) = 0 /\ Len(flag) = 0
      /\ copies = [n \in 1 .. Len(net) |-> 0] /\ firsts = [n \in 1 .. Len(net) |-> 0]
  BY <1>1 DEF UnrollInit, NetNodes, Active, Done
<1>4. UTypes
  <2>1. lens \in [1 .. Len(PL) -> Lens]
    BY <1>2 DEF UnrollInit
  <2>2. QED
    BY <1>1, <1>2, <1>3, <2>1 DEF UTypes
<1>5. UMade
  BY <1>1, <1>3 DEF UMade
<1>6. UList /\ UPivot
  BY <1>1, <1>3 DEF UList, UPivot
<1>7. Ordered(made, wlist)
  BY <1>3 DEF Ordered
<1>8. UDone
  BY <1>1, <1>2, <1>3 DEF UDone
<1>9. UNew
  BY <1>1, <1>3 DEF UNew
<1>10. UOne
  BY <1>1, <1>3 DEF UOne
<1>11. QED
  BY <1>4, <1>5, <1>6, <1>7, <1>8, <1>9, <1>10 DEF UInv

\* After the new graph is made nothing of it changes.
LEMMA LaterKeeps ==
    ASSUME UInv, UNCHANGED <<net, lens, pv, turn, node, flag, copies, firsts, made, wlist>>,
           \/ uphase' = uphase
           \/ uphase # "helper" /\ uphase' \in {"ready", "running"} /\ node = Len(net) + 1
    PROVE  UInv'
<1>1. PL' = PL /\ PivotList' = PivotList /\ P0' = P0
  BY PivotListKept
<1>2. (Active' <=> Active) /\ (Done /\ uphase' # "rest" => Done')
      /\ (uphase' = "helper" <=> uphase = "helper") /\ (Done' => Done \/ node = Len(net) + 1)
      /\ uphase' \in {"helper", "rest", "ready", "running"}
  BY DEF Active, Done, UInv, UTypes
<1>3. UTypes'
  BY <1>1, <1>2 DEF UInv, UTypes
<1>4. UMade' /\ Ordered(made, wlist)' /\ UOne'
  <2>1. UMade'
    BY DEF UInv, UMade
  <2>2. Ordered(made, wlist)'
    BY DEF UInv
  <2>3. UOne'
    BY DEF UInv, UOne
  <2>4. QED
    BY <2>1, <2>2, <2>3
<1>5. UList'
  BY <1>1, <1>2 DEF UInv, UList
<1>6. UPivot'
  BY <1>1, <1>2 DEF UInv, UPivot
<1>7. UDone'
  BY <1>1, <1>2 DEF UInv, UDone
<1>8. UNew'
  BY <1>1, <1>2 DEF UInv, UNew
<1>9. QED
  BY <1>3, <1>4, <1>5, <1>6, <1>7, <1>8 DEF UInv

LEMMA NextStepKeeps == ASSUME UInv, NextStep PROVE UInv'
<1>1. PL' = PL /\ PivotList' = PivotList /\ P0' = P0
  BY PivotListKept DEF NextStep
<1>2. Active /\ Active' /\ ~Done' /\ UTypes /\ turn \in Nat
  BY DEF NextStep, UInv, UTypes, Active, Done
<1>3. /\ turn' = turn + 1 /\ node' = 1 /\ node = P0 /\ turn < lens[pv]
      /\ net' = net /\ lens' = lens /\ flag' = flag /\ uphase' = uphase /\ uphase = "helper" /\ pv' = pv
      /\ copies' = copies /\ firsts' = firsts /\ made' = made /\ wlist' = wlist
  BY DEF NextStep
<1>4. /\ P0 \in 1 .. Len(net) /\ Len(net) \in Nat /\ lens[pv] \in Nat /\ pv \in 1 .. Len(PL)
      /\ net[P0].child[1] \in 1 .. P0 - 1 /\ flag[pv] \subseteq 1 .. P0 - 1
  <2>1. net \in RnnGraphs
    BY <1>2 DEF UTypes
  <2>2. QED
    BY <1>2, <2>1, ActiveFacts, NetFacts
<1>5. UTypes'
  BY <1>1, <1>2, <1>3, <1>4 DEF UTypes
<1>6. UMade' /\ Ordered(made, wlist)' /\ UOne'
  <2>1. UMade'
    BY <1>3 DEF UInv, UMade
  <2>2. Ordered(made, wlist)'
    BY <1>3 DEF UInv
  <2>3. UOne'
    BY <1>3 DEF UInv, UOne
  <2>4. QED
    BY <2>1, <2>2, <2>3
<1>7. UList'
  BY <1>1, <1>2, <1>3 DEF UInv, UList
<1>8. UPivot'
  <2>1. ASSUME NEW s \in 1 .. lens[pv], s < turn + 1 \/ (s = turn + 1 /\ 1 > net[P0].child[1])
        PROVE  In(wlist, made[copies[P0]].child[s])
    <3>1. s < turn \/ (s = turn /\ node > net[P0].child[1])
      BY <1>2, <1>3, <1>4, <2>1
    <3>2. QED
      BY <1>2, <3>1 DEF UInv, UPivot
  <2>2. QED
    BY <1>1, <1>2, <1>3, <2>1 DEF UInv, UPivot
<1>9. UDone'
  <2>1. \A n \in flag[pv] : ~(n < 1)
    BY <1>4
  <2>2. QED
    BY <1>1, <1>2, <1>3, <2>1 DEF UInv, UDone
<1>10. UNew'
  BY <1>1, <1>2, <1>3 DEF UInv, UNew
<1>11. QED
  BY <1>5, <1>6, <1>7, <1>8, <1>9, <1>10 DEF UInv

LEMMA StateFacts ==
    ASSUME UInv
    PROVE  /\ net \in RnnGraphs /\ Len(net) \in Nat /\ Len(PL) \in Nat
           /\ made \in Seq(Copies) /\ Len(made) \in Nat /\ wlist \in Seq(Nat)
           /\ DOMAIN made = 1 .. Len(made)
           /\ \A n \in 1 .. Len(net) : copies[n] \in 0 .. Len(made) /\ firsts[n] \in 0 .. Len(made)
           /\ \A m \in 1 .. Len(made) : made[m] \in Copies
           /\ \A m : In(wlist, m) => m \in 1 .. Len(made)
<1>1. net \in RnnGraphs /\ made \in Seq(Copies)
  BY DEF UInv, UTypes, UMade
<1>2. Len(net) \in Nat /\ Len(PL) \in Nat /\ Len(made) \in Nat /\ DOMAIN made = 1 .. Len(made)
  BY <1>1, NetFacts, PivotFacts
<1>3. \A n \in 1 .. Len(net) : copies[n] \in 0 .. Len(made) /\ firsts[n] \in 0 .. Len(made)
  BY DEF UInv, UMade
<1>4. wlist \in Seq(Nat) /\ \A m : In(wlist, m) => m \in 1 .. Len(made)
  BY DEF UInv, Ordered, In
<1>5. \A m \in 1 .. Len(made) : made[m] \in Copies
  BY <1>1, ElementOfSeq
<1>6. QED
  BY <1>1, <1>2, <1>3, <1>4, <1>5

\* A visited node that is not to be copied has its copy.
LEMMA SkipKeeps ==
    ASSUME UInv, Visit, node \notin flag[pv] \/ (Once(node) /\ copies[node] # 0)
    PROVE  UInv'
<1>1. PL' = PL /\ PivotList' = PivotList /\ P0' = P0
  BY PivotListKept DEF Visit
<1>2. Active /\ Active' /\ ~Done' /\ UTypes
  BY DEF Visit, UInv, UTypes, Active, Done
<1>3. /\ node' = node + 1 /\ node < P0 /\ uphase = "helper" /\ turn > 0
      /\ net' = net /\ lens' = lens /\ flag' = flag /\ uphase' = uphase /\ pv' = pv /\ turn' = turn
      /\ copies' = copies /\ firsts' = firsts /\ made' = made /\ wlist' = wlist
  BY DEF Visit
<1>4. /\ P0 \in 1 .. Len(net) /\ Len(net) \in Nat /\ node \in 1 .. P0 /\ pv \in 1 .. Len(PL)
      /\ net[P0].child[1] \in 1 .. P0 - 1 /\ flag[pv] \subseteq 1 .. P0 - 1 /\ net[P0].child[1] \in flag[pv]
  <2>1. net \in RnnGraphs
    BY <1>2 DEF UTypes
  <2>2. QED
    BY <1>2, <2>1, ActiveFacts, NetFacts
<1>5. node # net[P0].child[1]
  <2>1. net[P0].child[1] \notin Pres
    <3>1. \A n \in flag[pv] : net[n].pre # net[P0].child[1]
      BY <1>2, ActiveFacts
    <3>2. QED
      BY <3>1 DEF Pres
  <2>2. ~Once(net[P0].child[1])
    BY <1>2, <2>1, ActiveFacts DEF Once
  <2>3. QED
    BY <1>4, <2>2
<1>6. UTypes'
  <2>1. node + 1 \in 1 .. Len(net) + 1 /\ node + 1 <= P0
    BY <1>3, <1>4
  <2>2. turn \in Nat /\ turn # 0
    BY <1>2, <1>3 DEF UTypes
  <2>3. QED
    BY <1>1, <1>2, <1>3, <2>1, <2>2 DEF UTypes
<1>7. UMade'
  BY <1>3 DEF UInv, UMade
<1>8. Ordered(made, wlist)'
  BY <1>3 DEF UInv
<1>9. UOne'
  BY <1>3 DEF UInv, UOne
<1>10. UList'
  BY <1>1, <1>2, <1>3 DEF UInv, UList
<1>11. UPivot'
  <2>1. node + 1 > net[P0].child[1] => node > net[P0].child[1]
    BY <1>4, <1>5
  <2>2. QED
    BY <1>1, <1>2, <1>3, <2>1 DEF UInv, UPivot
<1>12. UDone'
  <2>1. \A n \in flag[pv] : n < node + 1 => n < node \/ n = node
    BY <1>4
  <2>2. QED
    BY <1>1, <1>2, <1>3, <2>1 DEF UInv, UDone
<1>13. UNew'
  BY <1>1, <1>2, <1>3 DEF UInv, UNew
<1>14. QED
  BY <1>6, <1>7, <1>8, <1>9, <1>10, <1>11, <1>12, <1>13 DEF UInv

LEMMA AllUnrolledKeeps == ASSUME UInv, AllUnrolled PROVE UInv'
<1>1. PL' = PL /\ PivotList' = PivotList
  BY PivotListKept DEF AllUnrolled
<1>2. /\ uphase = "helper" /\ uphase' = "rest" /\ pv > Len(PL) /\ UTypes
      /\ net' = net /\ lens' = lens /\ flag' = flag /\ pv' = pv /\ turn' = turn /\ node' = node
      /\ copies' = copies /\ firsts' = firsts /\ made' = made /\ wlist' = wlist
  BY DEF AllUnrolled, UInv, PL
<1>3. Len(PL) \in Nat /\ pv \in 1 .. Len(PL) + 1 /\ turn \in Nat /\ Len(net) \in Nat
  BY <1>2, StateFacts DEF UTypes
<1>4. ~Active /\ ~Active' /\ ~Done' /\ turn = 0 /\ pv = Len(PL) + 1 /\ node = 1
  <2>1. ~Active /\ turn = 0
    BY <1>2, <1>3 DEF UTypes, Active
  <2>2. QED
    BY <1>2, <1>3, <2>1 DEF UTypes, Active, Done
<1>5. UTypes'
  <2>1. /\ flag \in Seq(SUBSET Nat) /\ Len(flag) = pv - 1 /\ lens \in [1 .. Len(PL) -> Lens]
        /\ net \in RnnGraphs /\ node \in 1 .. Len(net) + 1
    BY <1>2, <1>4 DEF UTypes
  <2>2. QED
    BY <1>1, <1>2, <1>3, <1>4, <2>1 DEF UTypes
<1>6. UMade'
  BY <1>2 DEF UInv, UMade
<1>7. Ordered(made, wlist)'
  BY <1>2 DEF UInv
<1>8. UOne'
  BY <1>2 DEF UInv, UOne
<1>9. UList' /\ UPivot'
  BY <1>1, <1>2, <1>4 DEF UInv, UList, UPivot
<1>10. UDone'
  <2>1. \A n \in 1 .. Len(net) : ~(n < node)
    BY <1>3, <1>4
  <2>2. QED
    BY <1>1, <1>2, <1>4, <2>1 DEF UInv, UDone
<1>11. UNew'
  BY <1>2 DEF UNew
<1>12. QED
  BY <1>5, <1>6, <1>7, <1>8, <1>9, <1>10, <1>11 DEF UInv

\* The pivot is listed when what it pools is.
LEMMA PushPivotKeeps == ASSUME UInv, PushPivot PROVE UInv'
<1>1. PL' = PL /\ PivotList' = PivotList
  BY PivotListKept DEF PushPivot
<1>2. Active /\ ~Active' /\ ~Done' /\ UTypes
  BY DEF PushPivot, UInv, Active, Done
<1>3. /\ turn' = 0 /\ node' = 1 /\ node = P0 /\ turn = lens[pv] /\ pv' = pv + 1 /\ uphase = "helper"
      /\ net' = net /\ lens' = lens /\ flag' = flag /\ uphase' = uphase /\ turn > 0
      /\ copies' = copies /\ firsts' = firsts /\ made' = made /\ wlist' = Append(wlist, copies[P0])
  BY DEF PushPivot
<1>4. /\ net \in RnnGraphs /\ Len(net) \in Nat /\ Len(PL) \in Nat /\ Len(made) \in Nat
      /\ P0 \in 1 .. Len(net) /\ P0 = PL[pv] /\ pv \in 1 .. Len(PL) /\ lens[pv] \in Nat
      /\ net[P0].child[1] \in 1 .. P0 - 1 /\ turn \in Nat
  <2>1. net \in RnnGraphs /\ turn \in Nat
    BY <1>2 DEF UTypes
  <2>2. QED
    BY <1>2, <2>1, ActiveFacts, NetFacts, StateFacts
<1>5. copies[P0] \in 1 .. Len(made) /\ ~In(wlist, copies[P0])
  BY <1>2, <1>4, StateFacts DEF UInv, UList
<1>6. \A j \in 1 .. Len(made[copies[P0]].child) : In(wlist, made[copies[P0]].child[j])
  <2>1. ASSUME NEW s \in 1 .. lens[pv] PROVE s < turn \/ (s = turn /\ node > net[P0].child[1])
    BY <1>3, <1>4
  <2>2. QED
    BY <1>2, <2>1 DEF UInv, UPivot
<1>7. PICK w : w = Append(wlist, copies[P0])
  OBVIOUS
<1>8. Ordered(made, w) /\ \A m : In(w, m) <=> In(wlist, m) \/ m = copies[P0]
  <2>1. Ordered(made, wlist)
    BY DEF UInv
  <2>2. PICK mk, id : mk = made /\ id = copies[P0]
    OBVIOUS
  <2>3. /\ Len(mk) \in Nat /\ Ordered(mk, wlist) /\ id \in 1 .. Len(mk) /\ ~In(wlist, id)
        /\ \A j \in 1 .. Len(mk[id].child) : In(wlist, mk[id].child[j])
    BY <1>4, <1>5, <1>6, <2>1, <2>2
  <2>4. Len(mk) <= Len(mk) /\ \A q \in 1 .. Len(wlist) : mk[wlist[q]].child = mk[wlist[q]].child
    BY <2>3
  <2>5. Ordered(mk, Append(wlist, id)) /\ \A m : In(Append(wlist, id), m) <=> In(wlist, m) \/ m = id
    BY <2>3, <2>4, OrderGrows
  <2>6. QED
    BY <1>7, <2>2, <2>5
<1>9. UTypes'
  BY <1>1, <1>2, <1>3, <1>4 DEF UTypes
<1>10. UMade'
  BY <1>3 DEF UInv, UMade
<1>11. Ordered(made, wlist)'
  BY <1>3, <1>7, <1>8
<1>12. UOne'
  BY <1>3 DEF UInv, UOne
<1>13. UList' /\ UPivot'
  BY <1>2, <1>3, <1>7, <1>8 DEF UInv, UList, UPivot
<1>14. UDone'
  <2>1. \A j \in 1 .. (pv + 1) - 1 : j \in 1 .. pv - 1 \/ j = pv
    BY <1>4
  <2>2. copies[PL[pv]] # 0
    BY <1>2, <1>4 DEF UInv, UList
  <2>3. QED
    BY <1>1, <1>2, <1>3, <2>1, <2>2 DEF UInv, UDone
<1>15. UNew'
  <2>1. ASSUME NEW j \in pv + 1 .. Len(PL), NEW n \in 1 .. Len(net), n >= PL[j]
        PROVE  copies[n] = 0
    <3>1. j \in pv .. Len(PL) /\ j \in 1 .. Len(PL) /\ pv < j
      BY <1>4
    <3>2. PL[pv] < PL[j] /\ PL[j] \in 1 .. Len(net)
      BY <1>4, <3>1, PivotFacts
    <3>3. n # P0
      BY <1>4, <2>1, <3>2
    <3>4. QED
      BY <1>3, <2>1, <3>1, <3>3 DEF UInv, UNew
  <2>2. QED
    BY <1>1, <1>3, <2>1 DEF UNew
<1>16. QED
  BY <1>9, <1>10, <1>11, <1>12, <1>13, <1>14, <1>15 DEF UInv

\* The first step of a pivot: its copy is made, and comes in the list later.
LEMMA StartPivotKeeps == ASSUME UInv, StartPivot PROVE UInv'
<1> DEFINE new == [of |-> P0, child |-> [j \in 1 .. lens[pv] |-> 0], pre |-> 0]
<1>1. PL' = PL /\ PivotList' = PivotList /\ P0' = P0
  BY PivotListKept DEF StartPivot
<1>2. UTypes /\ ~Active /\ Active' /\ ~Done' /\ uphase = "helper" /\ turn = 0
  BY DEF StartPivot, UInv, Active, Done
<1>3. /\ made' = Append(made, new) /\ copies' = [copies EXCEPT ![P0] = Id] /\ Id = Len(made) + 1
      /\ firsts' = [n \in 1 .. Len(net) |-> 0] /\ flag' = Append(flag, Flagged(net, P0))
      /\ turn' = 1 /\ node' = 1 /\ net' = net /\ lens' = lens /\ uphase' = uphase /\ pv' = pv
      /\ wlist' = wlist
  <2>1. DOMAIN net = 1 .. Len(net)
    BY <1>2, NetFacts DEF UTypes
  <2>2. QED
    BY <2>1 DEF StartPivot, Id, NetNodes
<1>4. /\ net \in RnnGraphs /\ Len(net) \in Nat /\ Len(PL) \in Nat /\ Len(made) \in Nat
      /\ made \in Seq(Copies) /\ pv \in 1 .. Len(PL) /\ P0 = PL[pv] /\ P0 \in 1 .. Len(net)
      /\ IsPivot(net, P0) /\ ~External(net, P0) /\ lens[pv] \in Nat \ {0}
      /\ flag \in Seq(SUBSET Nat) /\ Len(flag) = pv - 1 /\ Flagged(net, P0) \subseteq 1 .. P0 - 1
      /\ \A n \in 1 .. Len(net) : copies[n] \in 0 .. Len(made)
  <2>1. /\ net \in RnnGraphs /\ Len(net) \in Nat /\ Len(PL) \in Nat /\ Len(made) \in Nat
        /\ made \in Seq(Copies) /\ \A n \in 1 .. Len(net) : copies[n] \in 0 .. Len(made)
    BY StateFacts
  <2>2. pv \in 1 .. Len(PL) /\ P0 = PL[pv]
    BY <1>2, <2>1 DEF StartPivot, UTypes, P0, PL
  <2>3. P0 \in 1 .. Len(net) /\ IsPivot(net, P0)
    BY <2>1, <2>2, PivotFacts
  <2>4. lens[pv] \in Nat \ {0}
    BY <1>2, <2>2, UnrollAssumption DEF UTypes
  <2>5. flag \in Seq(SUBSET Nat) /\ Len(flag) = pv - 1
    BY <1>2 DEF UTypes
  <2>6. ~External(net, P0) /\ Flagged(net, P0) \subseteq 1 .. P0 - 1
    BY <2>1, <2>3, NetFacts, FlaggedFacts
  <2>7. QED
    BY <2>1, <2>2, <2>3, <2>4, <2>5, <2>6
<1>5. new \in Copies
  BY <1>4 DEF Copies
<1>6. /\ made' \in Seq(Copies) /\ Len(made') = Len(made) + 1 /\ made'[Len(made) + 1] = new
      /\ \A m \in 1 .. Len(made) : made'[m] = made[m]
  <2> HIDE DEF new
  <2>1. QED
    BY <1>3, <1>4, <1>5
<1>7. \A m \in 1 .. Len(made') : m \in 1 .. Len(made) \/ m = Len(made) + 1
  BY <1>4, <1>6
<1>8. copies'[P0] = Len(made) + 1 /\ \A n \in 1 .. Len(net) : n # P0 => copies'[n] = copies[n]
  BY <1>2, <1>3, <1>4 DEF UInv, UMade
<1>9. ~In(wlist, Len(made) + 1)
  BY <1>4, StateFacts
<1>10. new.of = P0 /\ new.pre = 0 /\ Len(new.child) = lens[pv]
  BY <1>4
<1> HIDE DEF new
<1>11. UTypes'
  <2>1. /\ flag' \in Seq(SUBSET Nat) /\ Len(flag') = pv /\ flag'[pv] = Flagged(net, P0)
    BY <1>3, <1>4
  <2>2. 1 \in 1 .. Len(net) + 1 /\ 1 <= P0 /\ 1 <= lens[pv] /\ pv <= Len(PL)
    BY <1>4
  <2>3. QED
    BY <1>1, <1>2, <1>3, <2>1, <2>2 DEF UTypes
<1>12. UMade'
  <2>1. ASSUME NEW m \in 1 .. Len(made') PROVE made'[m].of \in 1 .. Len(net) /\ made'[m].pre \in 0 .. Len(made')
    <3>1. CASE m \in 1 .. Len(made)
      <4>1. made[m].of \in 1 .. Len(net) /\ made[m].pre \in 0 .. Len(made) /\ made'[m] = made[m]
        BY <1>6, <3>1 DEF UInv, UMade
      <4>2. 0 .. Len(made) \subseteq 0 .. Len(made')
        BY <1>4, <1>6
      <4>3. QED
        BY <4>1, <4>2
    <3>2. CASE m = Len(made) + 1
      BY <1>4, <1>6, <1>10, <3>2
    <3>3. QED
      BY <1>7, <2>1, <3>1, <3>2
  <2>2. copies' \in [1 .. Len(net) -> 0 .. Len(made')] /\ firsts' \in [1 .. Len(net) -> 0 .. Len(made')]
    <3>1. \A n \in 1 .. Len(net) : copies'[n] \in 0 .. Len(made')
      <4>1. 0 .. Len(made) \subseteq 0 .. Len(made') /\ Len(made) + 1 \in 0 .. Len(made')
        BY <1>4, <1>6
      <4>2. QED
        BY <1>4, <1>8, <4>1
    <3>2. copies \in [1 .. Len(net) -> 0 .. Len(made)]
      BY DEF UInv, UMade
    <3>3. QED
      BY <1>3, <1>4, <1>6, <3>1, <3>2
  <2>3. QED
    BY <1>3, <1>6, <2>1, <2>2 DEF UMade
<1>13. UList'
  BY <1>1, <1>2, <1>3, <1>4, <1>7, <1>8, <1>9 DEF UInv, UList
<1>14. Ordered(made, wlist)'
  <2>1. PICK mk : mk = made'
    OBVIOUS
  <2>2. Ordered(made, wlist) /\ \A q \in 1 .. Len(wlist) : made'[wlist[q]].child = made[wlist[q]].child
    BY <1>6 DEF UInv, Ordered
  <2>3. Len(mk) \in Nat /\ Len(made) <= Len(mk) /\ Len(made) \in Nat
        /\ \A q \in 1 .. Len(wlist) : mk[wlist[q]].child = made[wlist[q]].child
    BY <1>4, <1>6, <2>1, <2>2
  <2>4. Ordered(mk, wlist)
    BY <2>2, <2>3, OrderKept
  <2>5. QED
    BY <1>3, <2>1, <2>4
<1>15. UPivot'
  <2>1. made'[copies'[P0]] = new
    BY <1>6, <1>8
  <2>2. net[P0].child[1] \in 1 .. P0 - 1
    BY <1>4, NetFacts
  <2>3. \A s \in 1 .. lens[pv] : ~(s < 1 \/ (s = 1 /\ 1 > net[P0].child[1]))
    BY <1>4, <2>2
  <2>4. QED
    BY <1>1, <1>3, <1>10, <2>1, <2>3 DEF UPivot
<1>16. UDone'
  <2>1. \A n \in Flagged(net, P0) : ~(n < 1)
    BY <1>4
  <2>2. flag'[pv] = Flagged(net, P0)
    BY <1>3, <1>4
  <2>3. ASSUME NEW j \in 1 .. pv - 1 PROVE copies'[PL[j]] # 0
    <3>1. j \in 1 .. Len(PL) /\ PL[j] \in 1 .. Len(net) /\ copies[PL[j]] # 0
      BY <1>4, PivotFacts DEF UInv, UDone
    <3>2. PICK n \in 1 .. Len(net) : n = PL[j] /\ copies[n] # 0
      BY <3>1
    <3>3. copies'[n] # 0
      <4>1. CASE n = P0
        BY <1>4, <1>8, <4>1
      <4>2. CASE n # P0
        BY <1>8, <3>2, <4>2
      <4>3. QED
        BY <4>1, <4>2
    <3>4. QED
      BY <3>2, <3>3
  <2>4. QED
    BY <1>1, <1>2, <1>3, <2>1, <2>2, <2>3 DEF UDone
<1>17. UNew'
  BY <1>1, <1>2, <1>3, <1>8 DEF UInv, UNew
<1>18. UOne'
  <2>1. ASSUME NEW n \in 1 .. Len(net), External(net, n)
        PROVE  /\ copies'[n] = copies[n]
               /\ \A m \in 1 .. Len(made') : made'[m].of = n <=> m \in 1 .. Len(made) /\ made[m].of = n
    <3>1. n # P0
      BY <1>4, <2>1
    <3>2. Len(made) + 1 \notin 1 .. Len(made)
      BY <1>4
    <3>3. QED
      BY <1>6, <1>7, <1>8, <1>10, <3>1, <3>2
  <2>2. 1 .. Len(made) \subseteq 1 .. Len(made')
    BY <1>4, <1>6
  <2>3. ASSUME NEW n \in 1 .. Len(net), External(net, n)
        PROVE  /\ copies'[n] # 0 <=> \E m \in 1 .. Len(made') : made'[m].of = n
               /\ \A l, m \in 1 .. Len(made') : made'[l].of = n /\ made'[m].of = n => l = m
    BY <2>1, <2>2, <2>3 DEF UInv, UOne
  <2>4. QED
    BY <1>3, <2>3 DEF UOne
<1>19. QED
  BY <1>11, <1>12, <1>13, <1>14, <1>15, <1>16, <1>17, <1>18 DEF UInv

\* A copy is added, and is put in its place among what the pivot pools.
AddedAndFilled(mk, new, pd, s, id) == [Append(mk, new) EXCEPT ![pd].child[s] = id]

LEMMA AddAndFill ==
    ASSUME NEW mk \in Seq(Copies), NEW new \in Copies, NEW pd \in 1 .. Len(mk),
           NEW s \in 1 .. Len(mk[pd].child), NEW id, id = Len(mk) + 1, NEW mk2,
           mk2 = AddedAndFilled(mk, new, pd, s, id)
    PROVE  /\ mk2 \in Seq(Copies) /\ Len(mk2) = id /\ mk2[id] = new
           /\ \A m \in 1 .. Len(mk) : m # pd => mk2[m] = mk[m]
           /\ mk2[pd].of = mk[pd].of /\ mk2[pd].pre = mk[pd].pre
           /\ mk2[pd].child = [mk[pd].child EXCEPT ![s] = id]
<1>1. PICK more : more = Append(mk, new)
  OBVIOUS
<1>2. /\ more \in Seq(Copies) /\ Len(more) = id /\ more[id] = new /\ Len(mk) \in Nat
      /\ \A m \in 1 .. Len(mk) : more[m] = mk[m]
  BY <1>1
<1>3. PICK one : one = [mk[pd] EXCEPT !.child[s] = id]
  OBVIOUS
<1>4. mk[pd] \in Copies /\ mk[pd].child \in Seq(Nat) /\ id \in Nat
  <2>1. mk[pd] \in Copies
    BY ElementOfSeq
  <2>2. mk[pd].child \in Seq(Nat)
    BY <2>1 DEF Copies
  <2>3. id \in Nat
    BY <1>2
  <2>4. QED
    BY <2>1, <2>2, <2>3
<1>5. [mk[pd].child EXCEPT ![s] = id] \in Seq(Nat)
  BY <1>4, ExceptSeq
<1>6. /\ one \in Copies /\ one.of = mk[pd].of /\ one.pre = mk[pd].pre
      /\ one.child = [mk[pd].child EXCEPT ![s] = id]
  BY <1>3, <1>4, <1>5 DEF Copies
<1>7. mk2 = [more EXCEPT ![pd] = one]
  BY <1>1, <1>2, <1>3 DEF AddedAndFilled
<1>8. pd \in 1 .. Len(more) /\ id \in 1 .. Len(more) /\ id # pd
  BY <1>2
<1>9. /\ mk2 \in Seq(Copies) /\ Len(mk2) = id
      /\ \A m \in 1 .. Len(more) : mk2[m] = IF m = pd THEN one ELSE more[m]
  <2>1. more \in Seq(Copies) /\ pd \in 1 .. Len(more) /\ one \in Copies
    BY <1>2, <1>6, <1>8
  <2>2. /\ [more EXCEPT ![pd] = one] \in Seq(Copies) /\ Len([more EXCEPT ![pd] = one]) = Len(more)
        /\ \A m \in 1 .. Len(more) : [more EXCEPT ![pd] = one][m] = IF m = pd THEN one ELSE more[m]
    BY <2>1, ExceptSeq
  <2>3. QED
    BY <1>2, <1>7, <2>2
<1>10. \A m \in 1 .. Len(mk) : m \in 1 .. Len(more)
  BY <1>2
<1>11. QED
  BY <1>2, <1>6, <1>8, <1>9, <1>10

LEMMA AddOnly ==
    ASSUME NEW mk \in Seq(Copies), NEW new \in Copies, NEW id, id = Len(mk) + 1,
           NEW mk2, mk2 = Append(mk, new)
    PROVE  /\ mk2 \in Seq(Copies) /\ Len(mk2) = id /\ mk2[id] = new
           /\ \A m \in 1 .. Len(mk) : mk2[m] = mk[m]
OBVIOUS

\* What a copied node changes, whatever the pivot.
CopyOf(n, new) ==
  /\ new \in Copies /\ new.of = n /\ new.pre \in 0 .. Len(made)
  /\ Len(new.child) = Len(net[n].child)
  /\ \A j \in 1 .. Len(net[n].child) : new.child[j] = copies[net[n].child[j]]

LEMMA DupIs ==
    ASSUME UInv, NEW n \in 1 .. Len(net), NEW e \in 0 .. Len(made)
    PROVE  CopyOf(n, Dup(n)) /\ CopyOf(n, [Dup(n) EXCEPT !.pre = e])
<1>1. /\ net \in RnnGraphs /\ Len(net) \in Nat /\ Len(made) \in Nat
      /\ \A k \in 1 .. Len(net) : copies[k] \in 0 .. Len(made)
  BY StateFacts
<1>2. /\ net[n].child \in Seq(Nat) /\ Len(net[n].child) \in Nat
      /\ \A j \in 1 .. Len(net[n].child) : net[n].child[j] \in 1 .. n - 1
  BY <1>1, NetFacts
<1>3. DOMAIN net[n].child = 1 .. Len(net[n].child)
  BY <1>2
<1>4. PICK c : c = [j \in 1 .. Len(net[n].child) |-> copies[net[n].child[j]]]
  OBVIOUS
<1>5. \A j \in 1 .. Len(net[n].child) : copies[net[n].child[j]] \in Nat
  <2>1. ASSUME NEW j \in 1 .. Len(net[n].child) PROVE copies[net[n].child[j]] \in Nat
    <3>1. net[n].child[j] \in 1 .. Len(net)
      BY <1>1, <1>2
    <3>2. QED
      BY <1>1, <3>1
  <2>2. QED
    BY <2>1
<1>6. c \in Seq(Nat) /\ Len(c) = Len(net[n].child)
  BY <1>2, <1>4, <1>5
<1>7. Dup(n) = [of |-> n, child |-> c, pre |-> 0]
  BY <1>3, <1>4 DEF Dup
<1>8. [Dup(n) EXCEPT !.pre = e] = [of |-> n, child |-> c, pre |-> e]
  BY <1>7
<1>9. \A d \in 0 .. Len(made) : CopyOf(n, [of |-> n, child |-> c, pre |-> d])
  BY <1>1, <1>4, <1>6 DEF CopyOf, Copies
<1>10. QED
  BY <1>1, <1>7, <1>8, <1>9

\* The rest of the nodes.
LEMMA CopyRestKeeps == ASSUME UInv, CopyRest PROVE UInv'
<1> DEFINE id == Len(made) + 1
<1>1. PL' = PL /\ PivotList' = PivotList
  BY PivotListKept DEF CopyRest
<1>2. /\ UTypes /\ uphase = "rest" /\ ~Active /\ ~Active' /\ ~Done' /\ node' = node + 1
      /\ net' = net /\ lens' = lens /\ flag' = flag /\ uphase' = uphase /\ pv' = pv /\ turn' = turn
      /\ firsts' = firsts
  BY DEF CopyRest, UInv, Active, Done
<1>3. /\ net \in RnnGraphs /\ Len(net) \in Nat /\ Len(PL) \in Nat /\ Len(made) \in Nat
      /\ made \in Seq(Copies) /\ node \in 1 .. Len(net)
      /\ \A n \in 1 .. Len(net) : copies[n] \in 0 .. Len(made)
  BY <1>2, StateFacts DEF CopyRest, UTypes
<1>4. UTypes'
  <2>1. node + 1 \in 1 .. Len(net) + 1
    BY <1>3
  <2>2. QED
    BY <1>1, <1>2, <2>1 DEF UTypes
<1>5. UPivot' /\ UNew'
  BY <1>2 DEF UPivot, UNew
<1>6. \A n \in 1 .. Len(net) : n < node + 1 => n < node \/ n = node
  BY <1>3
<1>7. CASE copies[node] # 0
  <2>1. copies' = copies /\ made' = made /\ wlist' = wlist
    BY <1>7 DEF CopyRest
  <2>2. UMade'
    BY <1>2, <2>1 DEF UInv, UMade
  <2>3. Ordered(made, wlist)'
    BY <2>1 DEF UInv
  <2>4. UOne'
    BY <1>2, <2>1 DEF UInv, UOne
  <2>5. UList'
    BY <1>2, <2>1 DEF UInv, UList
  <2>6. UDone'
    BY <1>1, <1>2, <1>6, <1>7, <2>1 DEF UInv, UDone
  <2>7. QED
    BY <1>4, <1>5, <2>2, <2>3, <2>4, <2>5, <2>6 DEF UInv
<1>8. CASE copies[node] = 0
  <2>1. PICK new : new = Dup(node)
    OBVIOUS
  <2>2. made' = Append(made, new) /\ copies' = [copies EXCEPT ![node] = id] /\ wlist' = Append(wlist, id)
    BY <1>8, <2>1 DEF CopyRest, Id
  <2>3. CopyOf(node, new)
    BY <1>3, <2>1, DupIs
  <2>4. /\ made' \in Seq(Copies) /\ Len(made') = id /\ made'[id] = new
        /\ \A m \in 1 .. Len(made) : made'[m] = made[m]
    <3> HIDE DEF id
    <3>1. PICK mk : mk = made'
      OBVIOUS
    <3>2. mk = Append(made, new) /\ made \in Seq(Copies) /\ new \in Copies /\ id = Len(made) + 1
      BY <1>3, <2>2, <2>3, <3>1 DEF CopyOf, id
    <3>3. QED
      BY <3>1, <3>2, AddOnly
  <2>5. id \notin 1 .. Len(made) /\ id \in Nat \ {0} /\ \A m \in 1 .. id : m \in 1 .. Len(made) \/ m = id
    BY <1>3
  <2>6. copies'[node] = id /\ \A n \in 1 .. Len(net) : n # node => copies'[n] = copies[n]
    BY <1>3, <2>2 DEF UInv, UMade
  <2>7. UMade'
    <3>1. ASSUME NEW m \in 1 .. Len(made') PROVE made'[m].of \in 1 .. Len(net) /\ made'[m].pre \in 0 .. Len(made')
      <4>1. 0 .. Len(made) \subseteq 0 .. Len(made')
        BY <1>3, <2>4
      <4>2. CASE m \in 1 .. Len(made)
        BY <2>4, <4>1, <4>2 DEF UInv, UMade
      <4>3. CASE m = id
        BY <1>3, <2>3, <2>4, <4>1, <4>3 DEF CopyOf
      <4>4. QED
        BY <2>4, <2>5, <3>1, <4>2, <4>3
    <3>2. 0 .. Len(made) \subseteq 0 .. id /\ id \in 0 .. id
      BY <1>3
    <3>3. copies' \in [1 .. Len(net) -> 0 .. id] /\ firsts' \in [1 .. Len(net) -> 0 .. id]
      BY <1>2, <2>2, <3>2 DEF UInv, UMade
    <3>4. QED
      BY <1>2, <2>4, <3>1, <3>3 DEF UMade
  <2>8. ~In(wlist, id)
    BY <2>5, StateFacts
  <2>9. \A j \in 1 .. Len(new.child) : In(wlist, new.child[j])
    <3>1. ASSUME NEW j \in 1 .. Len(new.child) PROVE In(wlist, new.child[j])
      <4>1. j \in 1 .. Len(net[node].child) /\ new.child[j] = copies[net[node].child[j]]
        BY <2>3, <3>1 DEF CopyOf
      <4>2. PICK c \in 1 .. node - 1 : c = net[node].child[j]
        BY <1>3, <4>1, NetFacts
      <4>3. c \in 1 .. Len(net) /\ c < node
        BY <1>3
      <4>4. copies[c] # 0
        BY <1>2, <4>3 DEF UInv, UDone
      <4>5. In(wlist, copies[c])
        BY <1>2, <4>3, <4>4 DEF UInv, UList
      <4>6. QED
        BY <4>1, <4>2, <4>5
    <3>2. QED
      BY <3>1
  <2>10. Ordered(made, wlist)' /\ \A m : In(wlist', m) <=> In(wlist, m) \/ m = id
    <3>1. PICK mk : mk = made'
      OBVIOUS
    <3>2. Ordered(made, wlist) /\ \A q \in 1 .. Len(wlist) : made'[wlist[q]].child = made[wlist[q]].child
      BY <2>4 DEF UInv, Ordered
    <3> HIDE DEF id
    <3>3. /\ Len(mk) \in Nat /\ Len(made) <= Len(mk) /\ Len(made) \in Nat /\ id \in 1 .. Len(mk)
          /\ \A q \in 1 .. Len(wlist) : mk[wlist[q]].child = made[wlist[q]].child
          /\ \A j \in 1 .. Len(mk[id].child) : In(wlist, mk[id].child[j])
      BY <1>3, <2>4, <2>9, <3>1, <3>2 DEF id
    <3>4. Ordered(mk, Append(wlist, id)) /\ \A m : In(Append(wlist, id), m) <=> In(wlist, m) \/ m = id
      BY <2>8, <3>2, <3>3, OrderGrows
    <3>5. QED
      BY <2>2, <3>1, <3>4
  <2>11. UList'
    <3>1. ASSUME NEW m \in 1 .. Len(made') PROVE In(wlist', m)
      BY <1>2, <2>4, <2>5, <2>10, <3>1 DEF UInv, UList
    <3>2. ASSUME NEW n \in 1 .. Len(net), copies'[n] # 0 PROVE In(wlist', copies'[n])
      BY <1>2, <2>6, <2>10, <3>2 DEF UInv, UList
    <3>3. QED
      BY <1>2, <3>1, <3>2 DEF UList
  <2>12. UDone'
    <3>1. \A n \in 1 .. Len(net) : n < node + 1 => copies'[n] # 0
      BY <1>2, <1>6, <2>5, <2>6 DEF UInv, UDone
    <3>2. ASSUME NEW j \in 1 .. pv - 1 PROVE copies'[PL[j]] # 0
      <4>1. j \in 1 .. Len(PL)
        BY <1>2, <1>3 DEF UTypes
      <4>2. PL[j] \in 1 .. Len(net) /\ copies[PL[j]] # 0
        BY <1>3, <4>1, PivotFacts DEF UInv, UDone
      <4>3. QED
        BY <1>8, <2>6, <4>2
    <3>3. QED
      BY <1>1, <1>2, <3>1, <3>2 DEF UDone
  <2>13. UOne'
    <3>1. ASSUME NEW n \in 1 .. Len(net), External(net, n)
          PROVE  /\ copies'[n] # 0 <=> \E m \in 1 .. Len(made') : made'[m].of = n
                 /\ \A l, m \in 1 .. Len(made') : made'[l].of = n /\ made'[m].of = n => l = m
      <4>1. new.of = node /\ 1 .. Len(made) \subseteq 1 .. Len(made') /\ id \in 1 .. Len(made')
        BY <1>3, <2>3, <2>4 DEF CopyOf
      <4>2. CASE n = node
        <5>1. \A m \in 1 .. Len(made) : made'[m].of # n
          BY <1>8, <2>4, <3>1, <4>2 DEF UInv, UOne
        <5>2. \A m \in 1 .. Len(made') : made'[m].of = n <=> m = id
          BY <2>4, <2>5, <4>1, <4>2, <5>1
        <5>3. QED
          BY <2>5, <2>6, <4>1, <4>2, <5>2
      <4>3. CASE n # node
        <5>1. \A m \in 1 .. Len(made') : made'[m].of = n <=> m \in 1 .. Len(made) /\ made[m].of = n
          BY <2>4, <2>5, <4>1, <4>3
        <5>2. QED
          BY <2>6, <3>1, <4>1, <4>3, <5>1 DEF UInv, UOne
      <4>4. QED
        BY <4>2, <4>3
    <3>2. QED
      BY <1>2, <3>1 DEF UOne
  <2>14. QED
    BY <1>4, <1>5, <2>7, <2>10, <2>11, <2>12, <2>13 DEF UInv
<1>9. QED
  BY <1>7, <1>8

\* What the copy of a visited node changes.
LEMMA CopyIs ==
    ASSUME UInv, Visit, node \in flag[pv], ~(Once(node) /\ copies[node] # 0)
    PROVE  \E new : /\ CopyOf(node, new)
                    /\ made' \in Seq(Copies) /\ Len(made') = Id /\ made'[Id] = new
                    /\ \A m \in 1 .. Len(made) : m # copies[P0] => made'[m] = made[m]
                    /\ made'[copies[P0]].of = P0 /\ made'[copies[P0]].pre = made[copies[P0]].pre
                    /\ made'[copies[P0]].child =
                         IF node = net[P0].child[1] THEN [made[copies[P0]].child EXCEPT ![turn] = Id]
                         ELSE made[copies[P0]].child
<1> DEFINE pre == net[node].pre
           pd == copies[P0]
<1>1. Copy
  BY DEF Visit
<1>2. Active /\ UTypes
  BY DEF Visit, UInv, Active
<1>3. /\ net \in RnnGraphs /\ P0 \in 1 .. Len(net) /\ Len(net) \in Nat /\ node \in 1 .. Len(net)
      /\ lens[pv] \in Nat /\ turn \in 1 .. lens[pv] /\ made \in Seq(Copies) /\ Len(made) \in Nat
      /\ \A n \in 1 .. Len(net) : copies[n] \in 0 .. Len(made) /\ firsts[n] \in 0 .. Len(made)
  BY <1>2, ActiveFacts, StateFacts
<1>4. pd \in 1 .. Len(made) /\ Len(made[pd].child) = lens[pv] /\ made[pd].of = P0
  <2>1. pd # 0 /\ Len(made[pd].child) = lens[pv] /\ made[pd].of = P0
    BY <1>2 DEF UInv, UList, UPivot
  <2>2. QED
    BY <1>3, <2>1
<1> DEFINE new == IF pre # 0 /\ turn = lens[pv] THEN [Dup(node) EXCEPT !.pre = firsts[pre]] ELSE Dup(node)
<1>5. CopyOf(node, new)
  <2>1. pre # 0 => firsts[pre] \in 0 .. Len(made)
    <3>1. pre \in 0 .. node - 1
      BY <1>3, NetFacts
    <3>2. pre # 0 => pre \in 1 .. Len(net)
      BY <1>3, <3>1
    <3>3. QED
      BY <1>3, <3>2
  <2> HIDE DEF pre
  <2>2. CopyOf(node, Dup(node))
    BY <1>3, DupIs
  <2>3. CASE pre # 0
    <3>1. CopyOf(node, [Dup(node) EXCEPT !.pre = firsts[pre]])
      BY <1>3, <2>1, <2>3, DupIs
    <3>2. QED
      BY <2>2, <3>1
  <2>4. CASE pre = 0
    BY <2>2, <2>4
  <2>5. QED
    BY <2>3, <2>4
<1>6. made' = IF node = net[P0].child[1] THEN [Append(made, new) EXCEPT ![pd].child[turn] = Id] ELSE Append(made, new)
  BY <1>1 DEF Copy
<1>7. PICK x : x = new
  OBVIOUS
<1>8. PICK mk : mk = made'
  OBVIOUS
<1> HIDE DEF new, pre, pd
<1>9. x \in Copies /\ turn \in 1 .. Len(made[pd].child) /\ Id = Len(made) + 1
  BY <1>3, <1>4, <1>5, <1>7 DEF CopyOf, Id
<1>10. CASE node = net[P0].child[1]
  <2>1. PICK i, d : i = Id /\ d = pd
    OBVIOUS
  <2>2. mk = AddedAndFilled(made, x, d, turn, i) /\ d \in 1 .. Len(made) /\ i = Len(made) + 1
    BY <1>4, <1>6, <1>7, <1>8, <1>9, <1>10, <2>1 DEF AddedAndFilled
  <2>3. made \in Seq(Copies) /\ x \in Copies /\ turn \in 1 .. Len(made[d].child)
    BY <1>3, <1>9, <2>1
  <2>4. /\ mk \in Seq(Copies) /\ Len(mk) = i /\ mk[i] = x
        /\ \A m \in 1 .. Len(made) : m # d => mk[m] = made[m]
        /\ mk[d].of = made[d].of /\ mk[d].pre = made[d].pre
        /\ mk[d].child = [made[d].child EXCEPT ![turn] = i]
    BY <2>2, <2>3, AddAndFill
  <2>5. QED
    BY <1>4, <1>5, <1>7, <1>8, <1>10, <2>1, <2>4 DEF pd
<1>11. CASE node # net[P0].child[1]
  <2>1. mk = Append(made, x)
    BY <1>6, <1>7, <1>8, <1>11
  <2>2. /\ mk \in Seq(Copies) /\ Len(mk) = Id /\ mk[Id] = x
        /\ \A m \in 1 .. Len(made) : mk[m] = made[m]
    BY <1>3, <1>9, <2>1, AddOnly
  <2>3. QED
    BY <1>4, <1>5, <1>7, <1>8, <1>11, <2>2 DEF pd
<1>12. QED
  BY <1>10, <1>11

LEMMA CopyKeeps ==
    ASSUME UInv, Visit, node \in flag[pv], ~(Once(node) /\ copies[node] # 0)
    PROVE  UInv'
<1> DEFINE id == Len(made) + 1
           pre == net[node].pre
           pd == copies[P0]
           c1 == net[P0].child[1]
<1>1. PL' = PL /\ PivotList' = PivotList /\ P0' = P0
  BY PivotListKept DEF Visit
<1>2. /\ Active /\ Active' /\ ~Done' /\ UTypes /\ uphase = "helper" /\ turn > 0
      /\ node' = node + 1 /\ node < P0 /\ net' = net /\ lens' = lens /\ flag' = flag
      /\ uphase' = uphase /\ pv' = pv /\ turn' = turn
  BY DEF Visit, UInv, UTypes, Active, Done
<1>3. Copy /\ Id = id
  BY DEF Visit, Id
<1>4. /\ net \in RnnGraphs /\ Len(net) \in Nat /\ Len(PL) \in Nat /\ Len(made) \in Nat
      /\ made \in Seq(Copies) /\ P0 \in 1 .. Len(net) /\ pv \in 1 .. Len(PL)
      /\ node \in 1 .. P0 - 1 /\ node \in 1 .. Len(net) /\ pre \in 0 .. node - 1
      /\ lens[pv] \in Nat /\ turn \in 1 .. lens[pv]
      /\ \A n \in 1 .. Len(net) : copies[n] \in 0 .. Len(made) /\ firsts[n] \in 0 .. Len(made)
  <2>1. /\ net \in RnnGraphs /\ Len(net) \in Nat /\ Len(PL) \in Nat /\ Len(made) \in Nat
        /\ made \in Seq(Copies) /\ P0 \in 1 .. Len(net) /\ pv \in 1 .. Len(PL)
        /\ node \in 1 .. P0 /\ lens[pv] \in Nat /\ turn \in 1 .. lens[pv]
        /\ \A n \in 1 .. Len(net) : copies[n] \in 0 .. Len(made) /\ firsts[n] \in 0 .. Len(made)
    BY <1>2, ActiveFacts, StateFacts
  <2>2. node \in 1 .. P0 - 1 /\ node \in 1 .. Len(net)
    BY <1>2, <2>1
  <2>3. QED
    BY <2>1, <2>2, NetFacts
<1>5. /\ flag[pv] \subseteq 1 .. P0 - 1 /\ c1 \in flag[pv] /\ pre \in flag[pv] \cup {0} /\ pre # c1
      /\ ~External(net, P0) /\ \A j \in 1 .. Len(PL) : j >= pv => PL[j] >= P0
  BY <1>2, ActiveFacts
<1>6. pd \in 1 .. Len(made) /\ ~In(wlist, pd) /\ Len(made[pd].child) = lens[pv] /\ made[pd].of = P0
  <2>1. pd # 0 /\ ~In(wlist, pd) /\ Len(made[pd].child) = lens[pv] /\ made[pd].of = P0
    BY <1>2 DEF UInv, UList, UPivot
  <2>2. QED
    BY <1>4, <2>1
\* A visited pivot has been unrolled.
<1>7. ~IsPivot(net, node)
  <2> SUFFICES ASSUME IsPivot(net, node) PROVE FALSE
    OBVIOUS
  <2>1. PICK j \in 1 .. Len(PL) : PL[j] = node
    BY <1>4, PivotFacts
  <2>2. ~(j >= pv)
    BY <1>4, <1>5, <2>1
  <2>3. j \in 1 .. pv - 1
    BY <1>4, <2>2
  <2>4. copies[node] # 0
    BY <2>1, <2>3 DEF UInv, UDone
  <2>5. QED
    BY <2>4 DEF Once
<1>8. PICK new : /\ CopyOf(node, new)
                 /\ made' \in Seq(Copies) /\ Len(made') = id /\ made'[id] = new
                 /\ \A m \in 1 .. Len(made) : m # pd => made'[m] = made[m]
                 /\ made'[pd].of = P0 /\ made'[pd].pre = made[pd].pre
                 /\ made'[pd].child = IF node = c1 THEN [made[pd].child EXCEPT ![turn] = id]
                                      ELSE made[pd].child
  BY <1>3, CopyIs
<1>9. /\ \A n \in 1 .. Len(net) : copies'[n] = IF n = node \/ n = pre THEN id ELSE copies[n]
      /\ copies' = [n \in 1 .. Len(net) |-> IF n = node \/ n = pre THEN id ELSE copies[n]]
      /\ firsts' = IF turn = 1 /\ node \in Pres THEN [firsts EXCEPT ![node] = id] ELSE firsts
      /\ wlist' = Append(wlist, id)
  <2>1. DOMAIN net = 1 .. Len(net)
    BY <1>4, NetFacts
  <2>2. QED
    BY <1>3, <2>1 DEF Copy, NetNodes
<1>10. /\ id \notin 1 .. Len(made) /\ id \in Nat \ {0} /\ id \in 1 .. Len(made') /\ id # pd
       /\ \A m \in 1 .. Len(made') : m \in 1 .. Len(made) \/ m = id
       /\ 1 .. Len(made) \subseteq 1 .. Len(made') /\ 0 .. Len(made) \subseteq 0 .. Len(made')
       /\ id \in 0 .. Len(made')
  BY <1>4, <1>6, <1>8
<1>11. copies'[P0] = pd
  <2>1. P0 # node /\ P0 # pre
    BY <1>4
  <2>2. QED
    BY <1>4, <1>9, <2>1
<1>12. new.of = node /\ Len(new.child) = Len(net[node].child) /\ new.pre \in 0 .. Len(made)
       /\ \A j \in 1 .. Len(net[node].child) : new.child[j] = copies[net[node].child[j]]
  BY <1>8 DEF CopyOf
\* The copies remember their nodes.
<1>13. /\ \A m \in 1 .. Len(made) : made'[m].of = made[m].of /\ made'[m].pre = made[m].pre
       /\ made'[id].of = node
  BY <1>6, <1>8, <1>12
<1> HIDE DEF id, pre, pd, c1
<1>14. UTypes'
  <2>1. node + 1 \in 1 .. Len(net) + 1 /\ node + 1 <= P0 /\ turn \in Nat /\ turn # 0
    BY <1>2, <1>4
  <2>2. QED
    BY <1>1, <1>2, <2>1 DEF UTypes
<1>15. UMade'
  <2>1. ASSUME NEW m \in 1 .. Len(made') PROVE made'[m].of \in 1 .. Len(net) /\ made'[m].pre \in 0 .. Len(made')
    <3>1. CASE m \in 1 .. Len(made)
      BY <1>10, <1>13, <3>1 DEF UInv, UMade
    <3>2. CASE m = id
      BY <1>4, <1>8, <1>10, <1>12, <3>2
    <3>3. QED
      BY <1>10, <2>1, <3>1, <3>2
  <2>2. copies' \in [1 .. Len(net) -> 0 .. Len(made')]
    BY <1>4, <1>9, <1>10
  <2>3. firsts' \in [1 .. Len(net) -> 0 .. Len(made')]
    <3>1. firsts \in [1 .. Len(net) -> 0 .. Len(made')]
      BY <1>10 DEF UInv, UMade
    <3>2. QED
      BY <1>9, <1>10, <3>1
  <2>4. QED
    BY <1>2, <1>8, <2>1, <2>2, <2>3 DEF UMade
\* Flag 16 of the operands: they have been visited in this step.
<1>16. \A n \in flag[pv] : n < node => In(wlist, copies[n])
  <2>1. ASSUME NEW n \in flag[pv], n < node PROVE In(wlist, copies[n])
    <3>1. n \in 1 .. Len(net) /\ n # P0 /\ copies[n] # 0
      BY <1>2, <1>4, <1>5, <2>1 DEF UInv, UDone
    <3>2. QED
      BY <1>2, <3>1 DEF UInv, UList
  <2>2. QED
    BY <2>1
<1>17. \A j \in 1 .. Len(new.child) : In(wlist, new.child[j])
  <2>1. ASSUME NEW j \in 1 .. Len(new.child) PROVE In(wlist, new.child[j])
    <3>1. j \in 1 .. Len(net[node].child) /\ new.child[j] = copies[net[node].child[j]]
      BY <1>12, <2>1
    <3>2. PICK c : c = net[node].child[j]
      OBVIOUS
    <3>3. c \in 1 .. node - 1
      BY <1>4, <3>1, <3>2, NetFacts
    <3>4. c \in flag[pv]
      BY <1>2, <1>7, <3>1, <3>2, ActiveFacts
    <3>5. c < node
      BY <1>4, <3>3
    <3>6. QED
      BY <1>16, <3>1, <3>2, <3>4, <3>5
  <2>2. QED
    BY <2>1
<1>18. ~In(wlist, id)
  BY <1>10, StateFacts
<1>19. Ordered(made, wlist)' /\ \A m : In(wlist', m) <=> In(wlist, m) \/ m = id
  <2>1. PICK mk : mk = made'
    OBVIOUS
  <2>2. Ordered(made, wlist)
    BY DEF UInv
  <2>3. \A q \in 1 .. Len(wlist) : made'[wlist[q]].child = made[wlist[q]].child
    <3>1. ASSUME NEW q \in 1 .. Len(wlist) PROVE made'[wlist[q]].child = made[wlist[q]].child
      <4>1. wlist[q] \in 1 .. Len(made) /\ wlist[q] # pd
        BY <1>6, <2>2, <3>1 DEF Ordered, In
      <4>2. QED
        BY <1>8, <4>1
    <3>2. QED
      BY <3>1
  <2>4. Len(made) <= Len(made') /\ Len(made') \in Nat
    BY <1>4, <1>8 DEF id
  <2>5. /\ Len(mk) \in Nat /\ Len(made) <= Len(mk) /\ Len(made) \in Nat /\ id \in 1 .. Len(mk)
        /\ \A q \in 1 .. Len(wlist) : mk[wlist[q]].child = made[wlist[q]].child
        /\ \A j \in 1 .. Len(mk[id].child) : In(wlist, mk[id].child[j])
    BY <1>4, <1>8, <1>10, <1>17, <2>1, <2>3, <2>4
  <2>6. Ordered(mk, Append(wlist, id)) /\ \A m : In(Append(wlist, id), m) <=> In(wlist, m) \/ m = id
    BY <1>18, <2>2, <2>5, OrderGrows
  <2>7. QED
    BY <1>9, <2>1, <2>6
<1>20. UList'
  <2>1. ASSUME NEW m \in 1 .. Len(made') PROVE In(wlist', m) \/ m = pd
    BY <1>2, <1>10, <1>19, <2>1 DEF UInv, UList, pd
  <2>2. ASSUME NEW n \in 1 .. Len(net), copies'[n] # 0, n # P0 PROVE In(wlist', copies'[n])
    <3>1. CASE n = node \/ n = pre
      BY <1>9, <1>19, <3>1
    <3>2. CASE ~(n = node \/ n = pre)
      BY <1>2, <1>9, <1>19, <2>2, <3>2 DEF UInv, UList
    <3>3. QED
      BY <3>1, <3>2
  <2>3. pd # 0 /\ ~In(wlist', pd)
    BY <1>6, <1>10, <1>19
  <2>4. QED
    BY <1>1, <1>2, <1>11, <2>1, <2>2, <2>3 DEF UList
<1>21. UPivot'
  <2>1. made[pd].child \in Seq(Nat)
    <3>1. made[pd] \in Copies
      BY <1>6, StateFacts
    <3>2. QED
      BY <3>1 DEF Copies
  <2>2. Len(made'[pd].child) = lens[pv]
    BY <1>6, <1>8, <2>1
  <2>3. ASSUME NEW s \in 1 .. lens[pv], s < turn \/ (s = turn /\ node + 1 > c1)
        PROVE  In(wlist', made'[pd].child[s])
    <3>1. c1 \in 1 .. P0 - 1
      BY <1>5
    <3>2. CASE node = c1 /\ s = turn
      <4>1. made'[pd].child[s] = id
        BY <1>6, <1>8, <2>1, <3>2
      <4>2. QED
        BY <1>19, <4>1
    <3>3. CASE ~(node = c1 /\ s = turn)
      <4>1. made'[pd].child[s] = made[pd].child[s]
        BY <1>6, <1>8, <2>1, <3>3
      <4>2. s < turn \/ (s = turn /\ node > c1)
        BY <1>4, <2>3, <3>1, <3>3
      <4>3. In(wlist, made[pd].child[s])
        BY <1>2, <4>2 DEF UInv, UPivot, pd, c1
      <4>4. QED
        BY <1>19, <4>1, <4>3
    <3>4. QED
      BY <3>2, <3>3
  <2>4. QED
    BY <1>1, <1>2, <1>8, <1>11, <2>2, <2>3 DEF UPivot, c1
<1>22. \A n \in 1 .. Len(net) : copies[n] # 0 => copies'[n] # 0
  BY <1>9, <1>10
<1>23. UDone'
  <2>1. ASSUME NEW j \in 1 .. pv - 1 PROVE copies'[PL[j]] # 0
    <3>1. j \in 1 .. Len(PL) /\ PL[j] \in 1 .. Len(net) /\ copies[PL[j]] # 0
      BY <1>4, PivotFacts DEF UInv, UDone
    <3>2. QED
      BY <1>22, <3>1
  <2>2. ASSUME NEW n \in flag[pv], n < node + 1 PROVE copies'[n] # 0
    <3>1. n \in 1 .. Len(net)
      BY <1>4, <1>5
    <3>2. CASE n = node
      BY <1>9, <1>10, <3>1, <3>2
    <3>3. CASE n < node
      BY <1>2, <1>22, <3>1, <3>3 DEF UInv, UDone
    <3>4. QED
      BY <1>4, <2>2, <3>1, <3>2, <3>3
  <2>3. QED
    BY <1>1, <1>2, <2>1, <2>2 DEF UDone
<1>24. UNew'
  <2>1. ASSUME NEW j \in pv .. Len(PL), NEW n \in 1 .. Len(net), n >= PL[j], n # P0
        PROVE  copies'[n] = 0
    <3>1. PL[j] >= P0 /\ PL[j] \in 1 .. Len(net) /\ copies[n] = 0
      BY <1>2, <1>4, <1>5, <2>1, PivotFacts DEF UInv, UNew
    <3>2. n # node /\ n # pre
      BY <1>4, <2>1, <3>1
    <3>3. QED
      BY <1>9, <3>1, <3>2
  <2>2. QED
    BY <1>1, <1>2, <2>1 DEF UNew
<1>25. UOne'
  <2>1. ASSUME NEW n \in 1 .. Len(net), External(net, n)
        PROVE  /\ copies'[n] # 0 <=> \E m \in 1 .. Len(made') : made'[m].of = n
               /\ \A l, m \in 1 .. Len(made') : made'[l].of = n /\ made'[m].of = n => l = m
    <3>1. CASE n = node
      <4>1. copies[n] = 0
        BY <2>1, <3>1 DEF Once
      <4>2. \A m \in 1 .. Len(made) : made'[m].of # n
        BY <1>13, <2>1, <4>1 DEF UInv, UOne
      <4>3. \A m \in 1 .. Len(made') : made'[m].of = n <=> m = id
        BY <1>10, <1>13, <3>1, <4>2
      <4>4. QED
        BY <1>9, <1>10, <3>1, <4>3
    <3>2. CASE n # node
      <4>1. \A m \in 1 .. Len(made') : made'[m].of = n <=> m \in 1 .. Len(made) /\ made[m].of = n
        BY <1>10, <1>13, <3>2
      <4>2. copies'[n] # 0 <=> copies[n] # 0
        <5>1. CASE n = pre
          <6>1. n \in flag[pv] /\ n < node
            BY <1>4, <1>5, <2>1, <5>1
          <6>2. copies[n] # 0
            BY <1>2, <6>1 DEF UInv, UDone
          <6>3. QED
            BY <1>22, <6>2
        <5>2. CASE n # pre
          BY <1>9, <3>2, <5>2
        <5>3. QED
          BY <5>1, <5>2
      <4>3. QED
        BY <1>10, <2>1, <4>1, <4>2 DEF UInv, UOne
    <3>3. QED
      BY <3>1, <3>2
  <2>2. QED
    BY <1>2, <2>1 DEF UOne
<1>26. QED
  BY <1>14, <1>15, <1>19, <1>20, <1>21, <1>23, <1>24, <1>25 DEF UInv

LEMMA UInvKept == UInv /\ [UnrollNext]_unrollVars => UInv'
<1> SUFFICES ASSUME UInv, [UnrollNext]_unrollVars PROVE UInv'
  OBVIOUS
<1>1. CASE StartPivot
  BY <1>1, StartPivotKeeps
<1>2. CASE Visit
  BY <1>2, SkipKeeps, CopyKeeps
<1>3. CASE NextStep
  BY <1>3, NextStepKeeps
<1>4. CASE PushPivot
  BY <1>4, PushPivotKeeps
<1>5. CASE AllUnrolled
  BY <1>5, AllUnrolledKeeps
<1>6. CASE CopyRest
  BY <1>6, CopyRestKeeps
<1>7. CASE Unrolled
  <2>1. node = Len(net) + 1
    <3>1. node \in 1 .. Len(net) + 1 /\ Len(net) \in Nat /\ node > Len(net)
      BY <1>7, StateFacts DEF Unrolled, UInv, UTypes
    <3>2. QED
      BY <3>1
  <2>2. QED
    BY <1>7, <2>1, LaterKeeps DEF Unrolled
<1>8. CASE RnnStart
  BY <1>8, LaterKeeps DEF RnnStart
<1>9. CASE Evaluate
  <2>1. node = Len(net) + 1
    BY <1>9 DEF Evaluate, Done, UInv, UTypes
  <2>2. QED
    BY <1>9, <2>1, LaterKeeps DEF Evaluate
<1>10. CASE UnrollStop
  BY <1>10, LaterKeeps DEF UnrollStop, unrollVars
<1>11. CASE UNCHANGED unrollVars
  BY <1>11, LaterKeeps DEF unrollVars
<1>12. QED
  BY <1>1, <1>2, <1>3, <1>4, <1>5, <1>6, <1>7, <1>8, <1>9, <1>10, <1>11 DEF UnrollNext

LEMMA UInvGives == UInv => UnrolledGraph
<1> SUFFICES ASSUME UInv PROVE UnrolledGraph
  OBVIOUS
<1>1. /\ net \in RnnGraphs /\ Len(net) \in Nat /\ Len(PL) \in Nat /\ Len(made) \in Nat
      /\ DOMAIN net = 1 .. Len(net) /\ DOMAIN made = 1 .. Len(made) /\ PL = PivotList
      /\ wlist \in Seq(Nat) /\ DOMAIN wlist = 1 .. Len(wlist) /\ Len(wlist) \in Nat
      /\ \A n \in 1 .. Len(net) : copies[n] \in 0 .. Len(made) /\ firsts[n] \in 0 .. Len(made)
  <2>1. net \in RnnGraphs /\ wlist \in Seq(Nat)
    BY StateFacts
  <2>2. DOMAIN net = 1 .. Len(net) /\ DOMAIN wlist = 1 .. Len(wlist) /\ Len(wlist) \in Nat
    BY <2>1, NetFacts
  <2>3. QED
    BY <2>2, StateFacts DEF PL
<1>2. UnrollTypeOK
  <2>1. \A m \in DOMAIN made : made[m].of \in NetNodes /\ made[m].pre \in 0 .. Len(made)
    BY <1>1 DEF UInv, UMade, NetNodes
  <2>2. ToSet(copies) \cup ToSet(firsts) \subseteq 0 .. Len(made)
    BY DEF UInv, UMade, ToSet
  <2>3. ToSet(wlist) \subseteq DOMAIN made
    BY <1>1 DEF UInv, Ordered, ToSet
  <2>4. Active => pv <= Len(PivotList) /\ turn \in 1 .. lens[pv] /\ node <= P0
    <3>1. Active => turn \in 1 .. lens[pv]
      BY ActiveFacts DEF UInv
    <3>2. QED
      BY <1>1, <3>1 DEF UInv, UTypes
  <2>5. QED
    BY <1>1, <2>1, <2>2, <2>3, <2>4 DEF UInv, UTypes, UnrollTypeOK
<1>3. ChildrenFirst
  <2> SUFFICES ASSUME Done PROVE /\ IsInjective(wlist) /\ ToSet(wlist) = DOMAIN made
                                 /\ \A q \in DOMAIN wlist : ToSet(made[wlist[q]].child) \subseteq {wlist[r] : r \in 1 .. q - 1}
    BY DEF ChildrenFirst
  <2>1. ~Active
    BY DEF Active, Done
  <2>2. IsInjective(wlist)
    BY <1>1 DEF UInv, Ordered, IsInjective
  <2>3. ToSet(wlist) = DOMAIN made
    <3>1. \A m \in 1 .. Len(made) : \E q \in 1 .. Len(wlist) : wlist[q] = m
      BY <2>1 DEF UInv, UList, In
    <3>2. ToSet(wlist) = {wlist[q] : q \in 1 .. Len(wlist)}
      BY <1>1 DEF ToSet
    <3>3. \A q \in 1 .. Len(wlist) : wlist[q] \in 1 .. Len(made)
      BY DEF UInv, Ordered
    <3>4. QED
      BY <1>1, <3>1, <3>2, <3>3
  <2>4. ASSUME NEW q \in DOMAIN wlist PROVE ToSet(made[wlist[q]].child) \subseteq {wlist[r] : r \in 1 .. q - 1}
    <3>1. wlist[q] \in 1 .. Len(made)
      BY <1>1, <2>4 DEF UInv, Ordered
    <3>2. made[wlist[q]].child \in Seq(Nat)
      BY <3>1, StateFacts DEF Copies
    <3>3. DOMAIN made[wlist[q]].child = 1 .. Len(made[wlist[q]].child)
      BY <3>2
    <3>4. \A j \in 1 .. Len(made[wlist[q]].child) : \E r \in 1 .. q - 1 : wlist[r] = made[wlist[q]].child[j]
      BY <1>1, <2>4 DEF UInv, Ordered
    <3>5. QED
      BY <3>3, <3>4 DEF ToSet
  <2>5. QED
    BY <2>2, <2>3, <2>4
<1>4. OneCopyOfParameters
  <2> SUFFICES ASSUME Done, NEW n \in NetNodes, External(net, n)
               PROVE  Cardinality({m \in DOMAIN made : made[m].of = n}) = 1
    BY DEF OneCopyOfParameters
  <2>1. n \in 1 .. Len(net) /\ node = Len(net) + 1 /\ uphase # "helper"
    BY <1>1 DEF NetNodes, UInv, UTypes, Done
  <2>2. copies[n] # 0
    BY <1>1, <2>1 DEF UInv, UDone
  <2>3. PICK m \in 1 .. Len(made) : made[m].of = n
    BY <2>1, <2>2 DEF UInv, UOne
  <2>4. \A l \in 1 .. Len(made) : made[l].of = n => l = m
    BY <2>1, <2>3 DEF UInv, UOne
  <2>5. {l \in DOMAIN made : made[l].of = n} = {m}
    BY <1>1, <2>3, <2>4
  <2>6. QED
    BY <2>5, FS_Singleton
<1>5. PivotsAreNew
  <2> SUFFICES ASSUME uphase = "helper", turn = 0, pv <= Len(PivotList)
               PROVE  IsPivot(net, P0) /\ copies[P0] = 0
    BY DEF PivotsAreNew
  <2>1. ~Active /\ pv \in 1 .. Len(PL) /\ P0 = PL[pv]
    BY <1>1 DEF UInv, UTypes, Active, P0
  <2>2. P0 \in 1 .. Len(net) /\ IsPivot(net, P0)
    BY <1>1, <2>1, PivotFacts
  <2>3. copies[P0] = 0
    <3>1. pv \in pv .. Len(PL) /\ P0 >= PL[pv]
      BY <1>1, <2>1, <2>2
    <3>2. QED
      BY <2>1, <2>2, <3>1 DEF UInv, UNew
  <2>4. QED
    BY <2>2, <2>3
<1>6. QED
  BY <1>2, <1>3, <1>4, <1>5 DEF UnrolledGraph

(* kad_unroll makes a graph in which a copy comes once and after all its     *)
(* operands, with one copy of each parameter, of every recurrent network and *)
(* to every length.                                                          *)
THEOREM UnrollingIsSound == UnrollSpec => []UnrolledGraph
<1>1. UnrollInit => UInv
  BY InitKeeps
<1>2. UInv /\ [UnrollNext]_unrollVars => UInv'
  BY UInvKept
<1>3. QED
  BY <1>1, <1>2, UInvGives, PTL DEF UnrollSpec
=============================================================================
