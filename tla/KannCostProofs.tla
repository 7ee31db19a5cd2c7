---------------------------- MODULE KannCostProofs ----------------------------
(***************************************************************************)
(* Proofs about what a call of kann_cost rests on.  Evaluation and back-   *)
(* propagation, for every graph and every modulus: kad_eval_marked gives   *)
(* each node its value and kad_grad each variable its derivative.  The     *)
(* worker pool, for every number of threads, every batch size and any      *)
(* number of calls.                                                        *)
(***************************************************************************)
EXTENDS KadEval, KannMt, NaturalLemmas, SequenceTheorems, TLAPS

-----------------------------------------------------------------------------
(* Graphs.                                                                  *)

\* What is fixed during a call: a graph, and a choice for each selector.
GraphOK ==
  /\ WellBuilt /\ v \in Networks
  /\ \A p \in Selectors : sel[p] \in DOMAIN v[p].child

Children(p) == v[p].child
Arg(p, k) == v[p].child[k]

LEMMA NodeType ==
    ASSUME GraphOK
    PROVE  /\ P \in Nat /\ P >= 1 /\ Len(v) \in Nat /\ Nodes = 1 .. Len(v)
           /\ 0 \in Num /\ 1 \in Num /\ \A n \in Int : n % P \in Num
<1>1. v \in Seq([op : Ops, child : Seq(Nat), ext : Exts]) /\ P \in Nat \ {0, 1}
  BY DEF GraphOK, WellBuilt
<1>2. Len(v) \in Nat /\ Nodes = 1 .. Len(v)
  BY <1>1 DEF Nodes
<1>3. 0 \in Num /\ 1 \in Num /\ \A n \in Int : n % P \in Num
  BY <1>1, RemainderType DEF Num
<1>4. QED
  BY <1>1, <1>2, <1>3

LEMMA ChildType ==
    ASSUME GraphOK, NEW p \in Nodes
    PROVE  /\ v[p].op \in Ops
           /\ Len(v[p].child) \in Nat /\ DOMAIN v[p].child = 1 .. Len(v[p].child)
           /\ \A k \in 1 .. Len(v[p].child) :
                v[p].child[k] \in 1 .. p - 1 /\ v[p].child[k] \in Nodes
           /\ ToSet(v[p].child) = {v[p].child[k] : k \in 1 .. Len(v[p].child)}
           /\ ToSet(v[p].child) \subseteq 1 .. p - 1
           /\ (Leaf(p) <=> Len(v[p].child) = 0)
<1>1. v \in Seq([op : Ops, child : Seq(Nat), ext : Exts]) /\ p \in DOMAIN v
  BY DEF GraphOK, WellBuilt, Nodes
<1>2. v[p] \in [op : Ops, child : Seq(Nat), ext : Exts]
  <2> DEFINE T == [op : Ops, child : Seq(Nat), ext : Exts]
  <2>1. v \in Seq(T) /\ p \in DOMAIN v
    BY <1>1
  <2> HIDE DEF T
  <2>2. v[p] \in T
    BY <2>1
  <2>3. QED
    BY <2>2 DEF T
<1>3. PICK c \in Seq(Nat) : c = v[p].child
  BY <1>2
<1>4. /\ v[p].op \in Ops /\ Len(c) \in Nat /\ DOMAIN c = 1 .. Len(c)
      /\ (c = <<>> <=> Len(c) = 0)
  BY <1>2
<1>5. ToSet(c) \subseteq 1 .. p - 1
  BY <1>3 DEF GraphOK, WellBuilt, Nodes
<1>6. ToSet(c) = {c[k] : k \in 1 .. Len(c)}
  BY <1>4 DEF ToSet
<1>7. /\ Nodes = 1 .. Len(v) /\ Len(v) \in Nat
      /\ \A q \in 1 .. p - 1 : q \in Nodes
  BY NodeType
<1>8. \A k \in 1 .. Len(c) : c[k] \in 1 .. p - 1 /\ c[k] \in Nodes
  BY <1>5, <1>6, <1>7
<1>9. Leaf(p) <=> Len(c) = 0
  BY <1>3, <1>4 DEF Leaf
<1>10. QED
  BY <1>3, <1>4, <1>5, <1>6, <1>8, <1>9

LEMMA ArityOf ==
    ASSUME GraphOK, NEW p \in Nodes
    PROVE  /\ v[p].op \in Ops
           /\ Leaf(p) <=> v[p].op \in {"var", "feed"}
           /\ v[p].op \in {"add", "mul"} => Len(v[p].child) = 2
           /\ v[p].op = "square" => Len(v[p].child) = 1
           /\ p \in Selectors <=> v[p].op \in {"select", "switch"}
           /\ p \in Selectors => sel[p] \in 1 .. Len(v[p].child)
<1>1. Len(v[p].child) \in Arity(v[p].op)
  BY DEF GraphOK, WellBuilt, Nodes
<1>2. v[p].op \in Ops
  BY ChildType
<1>3. p \in Selectors <=> v[p].op \in {"select", "switch"}
  BY DEF Selectors
<1>4. p \in Selectors => sel[p] \in 1 .. Len(v[p].child)
  BY ChildType DEF GraphOK
<1>0. Len(v[p].child) \in Nat /\ (Leaf(p) <=> Len(v[p].child) = 0)
  BY ChildType
<1>5. v[p].op \in {"var", "feed"} => Len(v[p].child) = 0
  BY <1>1 DEF Arity
<1>6. v[p].op \in {"add", "mul"} => Len(v[p].child) = 2
  <2> SUFFICES ASSUME v[p].op \in {"add", "mul"} PROVE Len(v[p].child) = 2
    OBVIOUS
  <2>1. Arity(v[p].op) = {2}
    BY DEF Arity
  <2>2. QED
    BY <1>1, <2>1
<1>7. v[p].op = "square" => Len(v[p].child) = 1
  <2> SUFFICES ASSUME v[p].op = "square" PROVE Len(v[p].child) = 1
    OBVIOUS
  <2>1. Arity(v[p].op) = {1}
    BY DEF Arity
  <2>2. QED
    BY <1>1, <2>1
<1>8. v[p].op \in {"select", "switch"} => Len(v[p].child) # 0
  <2> SUFFICES ASSUME v[p].op \in {"select", "switch"} PROVE Len(v[p].child) # 0
    OBVIOUS
  <2>1. Arity(v[p].op) = Nat \ {0}
    BY DEF Arity
  <2>2. QED
    BY <1>1, <2>1
<1>9. v[p].op \in {"var", "feed"} \/ v[p].op \in {"add", "mul"} \/ v[p].op = "square"
        \/ v[p].op \in {"select", "switch"}
  BY <1>2 DEF Ops
<1>10. Leaf(p) <=> v[p].op \in {"var", "feed"}
  <2>1. CASE v[p].op \in {"var", "feed"}
    BY <1>0, <1>5, <2>1
  <2>2. CASE v[p].op \in {"add", "mul"}
    BY <1>0, <1>6, <2>2
  <2>3. CASE v[p].op = "square"
    BY <1>0, <1>7, <2>3
  <2>4. CASE v[p].op \in {"select", "switch"}
    BY <1>0, <1>8, <2>4
  <2>5. QED
    BY <1>9, <2>1, <2>2, <2>3, <2>4
<1>11. QED
  BY <1>2, <1>3, <1>4, <1>6, <1>7, <1>10

\* The operands that count: those a mark is passed to are children before the node.
LEMMA WantedBelow ==
    ASSUME GraphOK, NEW p \in Nodes
    PROVE  Wanted(p) \subseteq 1 .. p - 1 /\ Wanted(p) \subseteq Nodes
<1>1. CASE v[p].op = "switch"
  BY <1>1, ArityOf, ChildType DEF Wanted
<1>2. CASE v[p].op # "switch"
  <2>1. Wanted(p) = {v[p].child[k] : k \in 1 .. Len(v[p].child)}
    BY <1>2, ChildType DEF Wanted
  <2>2. QED
    BY <2>1, ChildType
<1>3. QED
  BY <1>1, <1>2

LEMMA WantedType ==
    ASSUME GraphOK, NEW p \in Nodes, ~Leaf(p)
    PROVE  /\ Wanted(p) \subseteq 1 .. p - 1 /\ Wanted(p) \subseteq Nodes
           /\ v[p].op \in {"add", "mul"} => Arg(p, 1) \in Wanted(p) /\ Arg(p, 2) \in Wanted(p)
           /\ v[p].op = "square" => Arg(p, 1) \in Wanted(p)
           /\ p \in Selectors => Arg(p, sel[p]) \in Wanted(p)
<1>1. CASE v[p].op = "switch"
  BY <1>1, ArityOf, ChildType DEF Wanted, Arg
<1>2. CASE v[p].op # "switch"
  <2>1. Wanted(p) = {v[p].child[k] : k \in 1 .. Len(v[p].child)}
    BY <1>2, ChildType DEF Wanted
  <2>2. QED
    BY <1>2, <2>1, ArityOf, ChildType DEF Arg
<1>3. QED
  BY <1>1, <1>2

\* The four operators, one by one.
LEMMA ForwardIs ==
    ASSUME GraphOK, NEW xs, NEW p \in Nodes
    PROVE  /\ v[p].op = "add" => Forward(xs, p) = (xs[Arg(p, 1)] + xs[Arg(p, 2)]) % P
           /\ v[p].op = "mul" => Forward(xs, p) = (xs[Arg(p, 1)] * xs[Arg(p, 2)]) % P
           /\ v[p].op = "square" => Forward(xs, p) = (xs[Arg(p, 1)] * xs[Arg(p, 1)]) % P
           /\ p \in Selectors => Forward(xs, p) = xs[Arg(p, sel[p])]
<1> DEFINE A == (xs[Arg(p, 1)] + xs[Arg(p, 2)]) % P
           M == (xs[Arg(p, 1)] * xs[Arg(p, 2)]) % P
           S == (xs[Arg(p, 1)] * xs[Arg(p, 1)]) % P
           C == xs[Arg(p, sel[p])]
<1>1. Forward(xs, p) = CASE v[p].op = "add" -> A [] v[p].op = "mul" -> M
                         [] v[p].op = "square" -> S [] p \in Selectors -> C
  BY DEF Forward, Arg
<1>2. p \in Selectors <=> v[p].op \in {"select", "switch"}
  BY ArityOf
<1> HIDE DEF A, M, S, C
<1>3. /\ v[p].op = "add" => Forward(xs, p) = A
      /\ v[p].op = "mul" => Forward(xs, p) = M
      /\ v[p].op = "square" => Forward(xs, p) = S
      /\ p \in Selectors => Forward(xs, p) = C
  BY <1>1, <1>2
<1>4. QED
  BY <1>3 DEF A, M, S, C

LEMMA ForwardType ==
    ASSUME GraphOK, NEW xs \in [Nodes -> Num], NEW p \in Nodes, ~Leaf(p)
    PROVE  Forward(xs, p) \in Num
<1>1. \A q \in Wanted(p) : xs[q] \in Num /\ xs[q] \in Int
  BY WantedType, NodeType DEF Num
<1>2. CASE v[p].op = "add"
  <2>1. PICK m \in Int, n \in Int : m = xs[Arg(p, 1)] /\ n = xs[Arg(p, 2)]
    BY <1>1, <1>2, WantedType
  <2>2. m + n \in Int /\ Forward(xs, p) = (m + n) % P
    BY <1>2, <2>1, ForwardIs
  <2>3. QED
    BY <2>2, NodeType
<1>3. CASE v[p].op = "mul"
  <2>1. PICK m \in Int, n \in Int : m = xs[Arg(p, 1)] /\ n = xs[Arg(p, 2)]
    BY <1>1, <1>3, WantedType
  <2>2. m * n \in Int
    OBVIOUS
  <2>3. Forward(xs, p) = (m * n) % P
    BY <1>3, <2>1, ForwardIs
  <2>4. QED
    BY <2>2, <2>3, NodeType
<1>4. CASE v[p].op = "square"
  <2>1. PICK m \in Int : m = xs[Arg(p, 1)]
    BY <1>1, <1>4, WantedType
  <2>2. m * m \in Int
    OBVIOUS
  <2>3. Forward(xs, p) = (m * m) % P
    BY <1>4, <2>1, ForwardIs
  <2>4. QED
    BY <2>2, <2>3, NodeType
<1>5. CASE p \in Selectors
  BY <1>1, <1>5, WantedType, ForwardIs
<1>6. QED
  BY <1>2, <1>3, <1>4, <1>5, ArityOf, ChildType DEF Ops

LEMMA ForwardLocal ==
    ASSUME GraphOK, NEW f, NEW h, NEW p \in Nodes, ~Leaf(p), \A q \in Wanted(p) : f[q] = h[q]
    PROVE  Forward(f, p) = Forward(h, p)
<1>1. v[p].op \in {"add", "mul", "square"} \/ p \in Selectors
  BY ArityOf DEF Ops
<1>2. QED
  BY <1>1, ForwardIs, WantedType

-----------------------------------------------------------------------------
(* Values.                                                                  *)

\* The value of every node, when those of D are computed and the others are as in b.
ForwardRule == [pr \in [Nodes -> Num] \X Nodes |-> IF Leaf(pr[2]) THEN 0 ELSE Forward(pr[1], pr[2])]

LEMMA ForwardRuleIs ==
    ASSUME GraphOK
    PROVE  /\ ForwardRule \in [[1 .. Len(v) -> Num] \X (1 .. Len(v)) -> Num]
           /\ \A f \in [Nodes -> Num] : \A p \in Nodes :
                ForwardRule[<<f, p>>] = IF Leaf(p) THEN 0 ELSE Forward(f, p)
           /\ \A D \in SUBSET Nodes : LooksBelow(ForwardRule, Num, Len(v), D)
<1>1. Nodes = 1 .. Len(v)
  BY NodeType
<1>2. ASSUME NEW pr \in [Nodes -> Num] \X Nodes
      PROVE  (IF Leaf(pr[2]) THEN 0 ELSE Forward(pr[1], pr[2])) \in Num
  BY ForwardType, NodeType
<1>3. ForwardRule \in [[Nodes -> Num] \X Nodes -> Num]
  BY <1>2 DEF ForwardRule
<1>4. \A f \in [Nodes -> Num] : \A p \in Nodes :
        ForwardRule[<<f, p>>] = IF Leaf(p) THEN 0 ELSE Forward(f, p)
  BY DEF ForwardRule
<1>5. ASSUME NEW D \in SUBSET Nodes, NEW f \in [Nodes -> Num], NEW h \in [Nodes -> Num],
             NEW p \in D, \A j \in 1 .. p - 1 : f[j] = h[j]
      PROVE  ForwardRule[<<f, p>>] = ForwardRule[<<h, p>>]
  BY <1>4, <1>5, ForwardLocal, WantedType
<1>6. QED
  BY <1>1, <1>3, <1>4, <1>5 DEF LooksBelow

Values(b, off) ==
  LET f[p \in Nodes] == IF Leaf(p) \/ p \in off THEN b[p] ELSE Forward(f, p) IN f

LEMMA ValuesAre ==
    ASSUME GraphOK, NEW b \in [Nodes -> Num], NEW off
    PROVE  /\ Values(b, off) \in [Nodes -> Num]
           /\ \A p \in Nodes :
                Values(b, off)[p] = IF Leaf(p) \/ p \in off THEN b[p] ELSE Forward(Values(b, off), p)
<1> DEFINE L == Len(v)
           rule == [pr \in [Nodes -> Num] \X Nodes |->
                      IF Leaf(pr[2]) \/ pr[2] \in off THEN b[pr[2]] ELSE Forward(pr[1], pr[2])]
           Solves(f) == f = [p \in Nodes |-> IF Leaf(p) \/ p \in off THEN b[p] ELSE Forward(f, p)]
<1>1. Nodes = 1 .. L /\ L \in Nat
  BY NodeType
<1>2. ASSUME NEW pr \in [Nodes -> Num] \X Nodes
      PROVE  (IF Leaf(pr[2]) \/ pr[2] \in off THEN b[pr[2]] ELSE Forward(pr[1], pr[2])) \in Num
  BY ForwardType, NodeType
<1>3. rule \in [[Nodes -> Num] \X Nodes -> Num]
  BY <1>2
<1>4. \A f \in [Nodes -> Num] : \A p \in Nodes :
        rule[<<f, p>>] = IF Leaf(p) \/ p \in off THEN b[p] ELSE Forward(f, p)
  OBVIOUS
<1> HIDE DEF rule
<1>5. LooksBelow(rule, Num, L, 1 .. L)
  <2>1. ASSUME NEW f \in [Nodes -> Num], NEW h \in [Nodes -> Num],
               NEW p \in Nodes, \A j \in 1 .. p - 1 : f[j] = h[j]
        PROVE  rule[<<f, p>>] = rule[<<h, p>>]
    BY <1>4, <2>1, ForwardLocal, WantedType
  <2>2. QED
    BY <1>1, <2>1 DEF LooksBelow
<1>6. PICK f \in [1 .. L -> Num] : IsSolution(f, rule, L)
  <2>1. rule \in [[1 .. L -> Num] \X (1 .. L) -> Num] /\ b \in [1 .. L -> Num] /\ L \in Nat
    BY <1>1, <1>3
  <2> HIDE DEF L
  <2>2. QED
    BY <1>5, <2>1, RuleHasSolution
<1>7. Solves(f)
  <2>1. f \in [Nodes -> Num]
    BY <1>1, <1>6
  <2>2. \A p \in Nodes : f[p] = IF Leaf(p) \/ p \in off THEN b[p] ELSE Forward(f, p)
    BY <1>1, <1>4, <1>6, <2>1 DEF IsSolution
  <2>3. QED
    BY <2>1, <2>2
<1>8. Values(b, off) = CHOOSE h : Solves(h)
  BY DEF Values
<1>9. Solves(Values(b, off))
  <2> HIDE DEF Solves
  <2>1. QED
    BY <1>7, <1>8
<1>10. \A p \in Nodes :
         Values(b, off)[p] = IF Leaf(p) \/ p \in off THEN b[p] ELSE Forward(Values(b, off), p)
  BY <1>9
<1>11. Values(b, off) \in [Nodes -> Num]
  <2> DEFINE T == {n \in Nat : \A p \in Nodes : p <= n => Values(b, off)[p] \in Num}
  <2>1. 0 \in T
    BY <1>1
  <2>2. ASSUME NEW n \in Nat, n \in T PROVE n + 1 \in T
    <3> SUFFICES ASSUME NEW p \in Nodes, p = n + 1 PROVE Values(b, off)[p] \in Num
      BY <1>1, <2>2
    <3>1. CASE Leaf(p) \/ p \in off
      BY <1>10, <3>1
    <3>2. CASE ~(Leaf(p) \/ p \in off)
      <4> DEFINE h == [j \in Nodes |-> IF j \in Wanted(p) THEN Values(b, off)[j] ELSE 0]
      <4>1. \A q \in Wanted(p) : q \in Nodes /\ q <= n
        BY <1>1, <3>2, WantedType
      <4>2. h \in [Nodes -> Num]
        BY <2>2, <4>1, NodeType
      <4>3. \A q \in Wanted(p) : h[q] = Values(b, off)[q]
        BY <4>1
      <4> HIDE DEF h
      <4>4. Forward(h, p) = Forward(Values(b, off), p)
        BY <3>2, <4>3, ForwardLocal
      <4>5. QED
        BY <1>10, <3>2, <4>2, <4>4, ForwardType
    <3>3. QED
      BY <3>1, <3>2
  <2>3. L \in T
    <3> HIDE DEF T
    <3>1. QED
      BY <1>1, <2>1, <2>2, NatSetInduction
  <2>4. \A p \in Nodes : Values(b, off)[p] \in Num
    BY <1>1, <2>3
  <2>5. QED
    BY <1>9, <2>4
<1>12. QED
  BY <1>10, <1>11

\* A closed set of nodes that are computed from each other have these values.
Closed(S, off) == \A p \in S : ~Leaf(p) /\ p \notin off => Wanted(p) \subseteq S
LEMMA ValuesUnique ==
    ASSUME GraphOK, NEW b \in [Nodes -> Num], NEW off, NEW f,
           NEW S \in SUBSET Nodes, Closed(S, off),
           \A p \in S : f[p] = IF Leaf(p) \/ p \in off THEN b[p] ELSE Forward(f, p)
    PROVE  \A p \in S : f[p] = Values(b, off)[p]
<1> DEFINE T == {n \in Nat : \A p \in S : p <= n => f[p] = Values(b, off)[p]}
<1>1. /\ Nodes = 1 .. Len(v) /\ Len(v) \in Nat
      /\ \A p \in S : p \in Nat /\ p > 0 /\ p <= Len(v)
  BY NodeType
<1>2. 0 \in T
  <2>1. \A p \in S : ~(p <= 0)
    BY <1>1
  <2>2. QED
    BY <2>1
<1>3. ASSUME NEW n \in Nat, n \in T PROVE n + 1 \in T
  <2>0. n + 1 \in Nat /\ \A p \in S : p <= n + 1 => p <= n \/ p = n + 1
    BY <1>1
  <2> SUFFICES ASSUME NEW p \in S, p = n + 1 PROVE f[p] = Values(b, off)[p]
    BY <1>3, <2>0
  <2>1. CASE Leaf(p) \/ p \in off
    BY <2>1, ValuesAre
  <2>2. CASE ~(Leaf(p) \/ p \in off)
    <3>1. \A q \in Wanted(p) : q \in S /\ q <= n
      BY <1>1, <2>2, WantedType DEF Closed
    <3>2. \A q \in Wanted(p) : f[q] = Values(b, off)[q]
      BY <1>3, <3>1
    <3>3. Forward(f, p) = Forward(Values(b, off), p)
      BY <2>2, <3>2, ForwardLocal
    <3>4. QED
      BY <2>2, <3>3, ValuesAre
  <2>3. QED
    BY <2>1, <2>2
<1>4. Len(v) \in T
  <2> HIDE DEF T
  <2>1. QED
    BY <1>1, <1>2, <1>3, NatSetInduction
<1>5. QED
  BY <1>1, <1>4

LEMMA ValueIs == Value = Values(x, last.off)
  BY DEF Value, Values, Forward
-----------------------------------------------------------------------------
(* Marks.                                                                   *)

Marks == [Nodes -> -1 .. 1]

LEMMA PassMarkType ==
    ASSUME GraphOK, NEW t \in Marks, NEW p \in Nodes
    PROVE  PassMark(t, p) \in Marks
BY DEF PassMark, Marks

LEMMA PropagateMarksLoop ==
    ASSUME GraphOK, NEW t \in Marks
    PROVE  \E m \in [0 .. Len(v) -> Marks] :
             /\ m[0] = t /\ PropagateMarks(t) = m[Len(v)]
             /\ \A k \in 1 .. Len(v) : m[k] = PassMark(m[k - 1], Len(v) + 1 - k)
<1> DEFINE L == Len(v)
           step == [pr \in Marks \X (1 .. L) |-> PassMark(pr[1], L + 1 - pr[2])]
           Loop(m) == m = [k \in 0 .. L |-> IF k = 0 THEN t ELSE PassMark(m[k - 1], L + 1 - k)]
<1>1. L \in Nat /\ Nodes = 1 .. L
  BY NodeType
<1>2. step \in [Marks \X (1 .. L) -> Marks]
  <2>1. ASSUME NEW pr \in Marks \X (1 .. L) PROVE PassMark(pr[1], L + 1 - pr[2]) \in Marks
    <3>1. pr[1] \in Marks /\ L + 1 - pr[2] \in Nodes
      BY <1>1
    <3>2. QED
      BY <3>1, PassMarkType
  <2>2. QED
    BY <2>1
<1>3. \A s \in Marks : \A k \in 1 .. L : step[<<s, k>>] = PassMark(s, L + 1 - k)
  OBVIOUS
<1> HIDE DEF step, L
<1>4. PICK m \in [0 .. L -> Marks] : Iterates(m, t, step, L)
  BY <1>1, <1>2, RecursionExists
<1>5. m[0] = t /\ \A k \in 1 .. L : m[k] = PassMark(m[k - 1], L + 1 - k)
  <2>1. \A k \in 1 .. L : m[k - 1] \in Marks
    BY <1>1, <1>4
  <2>2. QED
    BY <1>3, <1>4, <2>1 DEF Iterates
<1>6. Loop(m)
  <2>1. \A k \in 0 .. L : m[k] = IF k = 0 THEN t ELSE PassMark(m[k - 1], L + 1 - k)
    BY <1>1, <1>5
  <2>2. QED
    BY <1>4, <2>1
<1>7. \A h : Loop(h) => h = m
  <2> SUFFICES ASSUME NEW h, Loop(h) PROVE h = m
    OBVIOUS
  <2> DEFINE T == {k \in Nat : k <= L => h[k] = m[k]}
  <2>1. 0 \in T
    BY <1>1, <1>5
  <2>2. ASSUME NEW k \in Nat, k \in T PROVE k + 1 \in T
    <3> SUFFICES ASSUME k + 1 <= L PROVE h[k + 1] = m[k + 1]
      OBVIOUS
    <3>1. k + 1 \in 1 .. L /\ k + 1 \in 0 .. L /\ (k + 1) - 1 = k /\ k + 1 # 0 /\ k <= L
      BY <1>1
    <3>2. h[k + 1] = PassMark(h[k], L + 1 - (k + 1)) /\ m[k + 1] = PassMark(m[k], L + 1 - (k + 1))
      BY <1>5, <3>1
    <3>3. QED
      BY <2>2, <3>1, <3>2
  <2>3. Nat \subseteq T
    <3> HIDE DEF T
    <3>1. QED
      BY <2>1, <2>2, NatSetInduction
  <2>4. \A k \in 0 .. L : h[k] = m[k]
    BY <1>1, <2>3
  <2>5. h = [k \in 0 .. L |-> h[k]] /\ m = [k \in 0 .. L |-> m[k]]
    BY <1>4
  <2>6. QED
    BY <2>4, <2>5
<1>8. PropagateMarks(t) = (CHOOSE h : Loop(h))[L]
  BY DEF PropagateMarks, L
<1>9. PropagateMarks(t) = m[L]
  <2> HIDE DEF Loop
  <2>1. (CHOOSE h : Loop(h)) = m
    BY <1>6, <1>7
  <2>2. QED
    BY <1>8, <2>1
<1>10. QED
  BY <1>4, <1>5, <1>9 DEF L

\* The marks left are those given, and the operands that count of a marked node are
\* marked or disabled; no node above the marked ones is.
LEMMA MarksAre ==
    ASSUME GraphOK, NEW t \in Marks
    PROVE  /\ PropagateMarks(t) \in Marks
           /\ \A p \in Nodes : /\ t[p] # 0 => PropagateMarks(t)[p] = t[p]
                               /\ PropagateMarks(t)[p] = -1 => t[p] = -1
                               /\ PropagateMarks(t)[p] > 0 =>
                                    \A q \in Wanted(p) : PropagateMarks(t)[q] # 0
           /\ \A from \in Nodes : (\A p \in Nodes : t[p] > 0 => p <= from)
                => \A p \in Nodes : PropagateMarks(t)[p] > 0 => p <= from
<1> DEFINE L == Len(v)
           Good == [k \in 0 .. L |-> {s \in Marks :
             /\ \A p \in Nodes : /\ t[p] # 0 => s[p] = t[p]
                                 /\ s[p] = -1 => t[p] = -1
                                 /\ p > L - k /\ s[p] > 0 => \A q \in Wanted(p) : s[q] # 0
             /\ \A from \in Nodes : (\A p \in Nodes : t[p] > 0 => p <= from)
                  => \A p \in Nodes : s[p] > 0 => p <= from}]
<1>1. L \in Nat /\ Nodes = 1 .. L
  BY NodeType
<1>2. PICK m \in [0 .. L -> Marks] :
             /\ m[0] = t /\ PropagateMarks(t) = m[L]
             /\ \A k \in 1 .. L : m[k] = PassMark(m[k - 1], L + 1 - k)
  BY PropagateMarksLoop
<1>3. m[0] \in Good[0]
  BY <1>1, <1>2
<1>4. ASSUME NEW k \in 0 .. L - 1, m[k] \in Good[k] PROVE m[k + 1] \in Good[k + 1]
  <2>1. /\ k \in 0 .. L /\ k + 1 \in 0 .. L /\ k + 1 \in 1 .. L /\ (k + 1) - 1 = k
        /\ L + 1 - (k + 1) = L - k /\ L - k \in Nodes
        /\ \A p \in Nodes : p > L - (k + 1) <=> p > L - k \/ p = L - k
    BY <1>1
  <2>2. PICK s \in Marks : s = m[k] /\ s \in Good[k]
    BY <1>2, <1>4, <2>1
  <2>3. PICK e \in Nodes : e = L - k
    BY <2>1
  <2>4. PICK u \in Marks : u = PassMark(s, e) /\ m[k + 1] = u
    <3>1. m[k + 1] = PassMark(s, e)
      BY <1>2, <2>1, <2>2, <2>3
    <3>2. QED
      BY <3>1, PassMarkType
  <2>5. /\ \A p \in Nodes : /\ t[p] # 0 => s[p] = t[p]
                            /\ s[p] = -1 => t[p] = -1
                            /\ p > e /\ s[p] > 0 => \A q \in Wanted(p) : s[q] # 0
        /\ \A from \in Nodes : (\A p \in Nodes : t[p] > 0 => p <= from)
             => \A p \in Nodes : s[p] > 0 => p <= from
    BY <2>1, <2>2, <2>3
  <2>6. Wanted(e) \subseteq 1 .. e - 1
    BY WantedBelow
  <2>7. \A p \in Nodes : s[p] \in -1 .. 1 /\ u[p] \in -1 .. 1
    BY DEF Marks
  <2>8. CASE s[e] > 0
    <3>1. \A q \in Nodes : u[q] = IF q \in Wanted(e) /\ s[q] = 0 THEN 1 ELSE s[q]
      BY <2>4, <2>8 DEF PassMark
    <3>2. \A p \in Nodes : p >= e => u[p] = s[p]
      BY <1>1, <2>6, <3>1
    <3>3. \A p \in Nodes : (t[p] # 0 => u[p] = t[p]) /\ (u[p] = -1 => t[p] = -1) /\ (s[p] # 0 => u[p] # 0)
      BY <2>5, <3>1
    <3>4. ASSUME NEW p \in Nodes, p > e \/ p = e, u[p] > 0, NEW q \in Wanted(p) PROVE u[q] # 0
      <4>1. q \in Nodes /\ p >= e /\ s[p] > 0
        BY <1>1, <3>2, <3>4, WantedBelow
      <4>2. CASE p > e
        BY <2>5, <3>3, <4>1, <4>2
      <4>3. CASE p = e
        BY <3>1, <4>1, <4>3
      <4>4. QED
        BY <3>4, <4>2, <4>3
    <3>5. ASSUME NEW from \in Nodes, \A p \in Nodes : t[p] > 0 => p <= from,
                 NEW p \in Nodes, u[p] > 0
          PROVE  p <= from
      <4>1. e <= from
        BY <2>5, <2>8, <3>5
      <4>2. s[p] > 0 \/ p \in Wanted(e)
        BY <3>1, <3>5
      <4>3. CASE s[p] > 0
        BY <2>5, <3>5, <4>3
      <4>4. CASE p \in Wanted(e)
        BY <1>1, <2>6, <4>1, <4>4
      <4>5. QED
        BY <4>2, <4>3, <4>4
    <3>6. u \in {r \in Marks :
             /\ \A p \in Nodes : /\ t[p] # 0 => r[p] = t[p]
                                 /\ r[p] = -1 => t[p] = -1
                                 /\ p > L - (k + 1) /\ r[p] > 0 => \A q \in Wanted(p) : r[q] # 0
             /\ \A from \in Nodes : (\A p \in Nodes : t[p] > 0 => p <= from)
                  => \A p \in Nodes : r[p] > 0 => p <= from}
      BY <2>1, <2>3, <3>3, <3>4, <3>5
    <3>7. QED
      BY <2>1, <2>4, <3>6
  <2>9. CASE ~(s[e] > 0)
    <3>1. u = s
      BY <2>4, <2>9 DEF PassMark
    <3>2. \A p \in Nodes : (p > e \/ p = e) /\ s[p] > 0 => \A q \in Wanted(p) : s[q] # 0
      BY <2>5, <2>9
    <3>3. s \in {r \in Marks :
             /\ \A p \in Nodes : /\ t[p] # 0 => r[p] = t[p]
                                 /\ r[p] = -1 => t[p] = -1
                                 /\ p > L - (k + 1) /\ r[p] > 0 => \A q \in Wanted(p) : r[q] # 0
             /\ \A from \in Nodes : (\A p \in Nodes : t[p] > 0 => p <= from)
                  => \A p \in Nodes : r[p] > 0 => p <= from}
      BY <2>1, <2>3, <2>5, <3>2
    <3>4. QED
      BY <2>1, <2>4, <3>1, <3>3
  <2>10. QED
    BY <2>8, <2>9
<1>5. m[L] \in Good[L]
  <2> HIDE DEF Good, L
  <2>1. QED
    BY <1>1, <1>3, <1>4, LoopKeeps
<1>6. L \in 0 .. L /\ \A p \in Nodes : p > L - L
  BY <1>1
<1>7. QED
  BY <1>2, <1>5, <1>6
-----------------------------------------------------------------------------
(* Evaluation.                                                              *)

LEMMA EvalMarkedIs ==
    ASSUME GraphOK, x \in [Nodes -> Num], NEW t \in Marks
    PROVE  /\ EvalMarked(t) \in [Nodes -> Num]
           /\ \A p \in Nodes : EvalMarked(t)[p] =
                IF ~Leaf(p) /\ PropagateMarks(t)[p] > 0 THEN Forward(EvalMarked(t), p) ELSE x[p]
<1> DEFINE L == Len(v)
           State == [1 .. L -> Num]
           m == PropagateMarks(t)
           D == {p \in Nodes : ~Leaf(p) /\ m[p] > 0}
           step == [pr \in State \X (1 .. L) |-> ForwardOne(pr[1], pr[2], m)]
           Loop(h) == h = [k \in 0 .. L |-> IF k = 0 THEN x ELSE ForwardOne(h[k - 1], k, m)]
           xs == CHOOSE h : Loop(h)
<1>1. L \in Nat /\ Nodes = 1 .. L /\ x \in State /\ D \in SUBSET (1 .. L)
  BY NodeType
<1>2. ASSUME NEW s \in State, NEW k \in 1 .. L
      PROVE  /\ ForwardOne(s, k, m) \in State
             /\ ForwardOne(s, k, m) = IF k \in D THEN [s EXCEPT ![k] = ForwardRule[<<s, k>>]] ELSE s
  <2>1. CASE k \in D
    <3>1. ForwardRule[<<s, k>>] = Forward(s, k) /\ Forward(s, k) \in Num
      BY <1>1, <2>1, ForwardRuleIs, ForwardType
    <3>2. ForwardOne(s, k, m) = [s EXCEPT ![k] = Forward(s, k)]
      BY <2>1 DEF ForwardOne
    <3>3. QED
      BY <2>1, <3>1, <3>2
  <2>2. CASE k \notin D
    BY <1>1, <2>2 DEF ForwardOne
  <2>3. QED
    BY <2>1, <2>2
<1>3. step \in [State \X (1 .. L) -> State]
  <2>1. ASSUME NEW pr \in State \X (1 .. L) PROVE ForwardOne(pr[1], pr[2], m) \in State
    <3>1. pr[1] \in State /\ pr[2] \in 1 .. L
      OBVIOUS
    <3> HIDE DEF State
    <3>2. QED
      BY <1>2, <3>1
  <2>2. QED
    BY <2>1
<1>4. \A s \in State : \A k \in 1 .. L : step[<<s, k>>] = ForwardOne(s, k, m)
  OBVIOUS
<1>5. EvalMarked(t) = xs[L]
  BY DEF EvalMarked
<1> HIDE DEF step, L, State, m, D
<1>6. PICK h \in [0 .. L -> State] : Iterates(h, x, step, L)
  BY <1>1, <1>3, RecursionExists
<1>7. Loop(h)
  <2>1. \A k \in 1 .. L : h[k - 1] \in State
    BY <1>1, <1>6
  <2>2. h[0] = x /\ \A k \in 1 .. L : h[k] = ForwardOne(h[k - 1], k, m)
    BY <1>4, <1>6, <2>1 DEF Iterates
  <2>3. \A k \in 0 .. L : h[k] = IF k = 0 THEN x ELSE ForwardOne(h[k - 1], k, m)
    BY <1>1, <2>2
  <2>4. QED
    BY <1>6, <2>3
<1>8. Loop(xs)
  <2> HIDE DEF Loop
  <2>1. QED
    BY <1>7
<1>9. xs[0] = x /\ \A k \in 1 .. L : xs[k] = ForwardOne(xs[k - 1], k, m)
  <2> HIDE DEF xs
  <2>1. QED
    BY <1>1, <1>8
<1> HIDE DEF xs, Loop
<1>10. \A k \in 0 .. L : xs[k] \in State
  <2> DEFINE T == {k \in Nat : k <= L => xs[k] \in State}
  <2>1. 0 \in T
    BY <1>1, <1>9
  <2>2. ASSUME NEW k \in Nat, k \in T PROVE k + 1 \in T
    <3> SUFFICES ASSUME k + 1 <= L PROVE xs[k + 1] \in State
      OBVIOUS
    <3>1. k + 1 \in 1 .. L /\ (k + 1) - 1 = k /\ k <= L
      BY <1>1
    <3>2. QED
      BY <1>2, <1>9, <2>2, <3>1
  <2>3. Nat \subseteq T
    <3> HIDE DEF T
    <3>1. QED
      BY <2>1, <2>2, NatSetInduction
  <2>4. QED
    BY <1>1, <2>3
<1>11. Fills(xs, x, ForwardRule, L, D)
  <2>1. \A k \in 1 .. L : xs[k - 1] \in State
    BY <1>1, <1>10
  <2>2. QED
    BY <1>2, <1>9, <2>1 DEF Fills
<1>12. /\ ForwardRule \in [[1 .. L -> Num] \X (1 .. L) -> Num]
       /\ LooksBelow(ForwardRule, Num, L, D)
       /\ x \in [1 .. L -> Num]
  BY <1>1, ForwardRuleIs DEF L, State
<1>13. xs[L] \in [1 .. L -> Num] /\ Follows(xs[L], x, ForwardRule, L, D)
  BY <1>1, <1>11, <1>12, LoopFollowsRule
<1>14. \A p \in Nodes : xs[L][p] = IF p \in D THEN Forward(xs[L], p) ELSE x[p]
  <2>1. \A p \in D : ForwardRule[<<xs[L], p>>] = Forward(xs[L], p)
    BY <1>1, <1>13, ForwardRuleIs DEF D
  <2>2. QED
    BY <1>1, <1>13, <2>1 DEF Follows
<1>15. QED
  BY <1>1, <1>5, <1>13, <1>14 DEF D, m

\* The nodes a set of marks asks for and the disabled ones.
Reached(t) == {p \in Nodes : PropagateMarks(t)[p] # 0}

\* After an evaluation every node that is reached has its value.
LEMMA EvalMarkedGives ==
    ASSUME GraphOK, x \in [Nodes -> Num], NEW t \in Marks,
           NEW off, off = {p \in Nodes : t[p] = -1}, NEW y, y = EvalMarked(t)
    PROVE  /\ y \in [Nodes -> Num]
           /\ \A p \in Nodes : Leaf(p) => y[p] = x[p]
           /\ \A p \in Reached(t) : y[p] = Values(y, off)[p]
<1>1. /\ y \in [Nodes -> Num]
      /\ \A p \in Nodes : y[p] =
           IF ~Leaf(p) /\ PropagateMarks(t)[p] > 0 THEN Forward(y, p) ELSE x[p]
  BY EvalMarkedIs
<1>2. \A p \in Nodes : /\ PropagateMarks(t)[p] \in -1 .. 1
                       /\ t[p] = -1 <=> PropagateMarks(t)[p] = -1
                       /\ PropagateMarks(t)[p] > 0 =>
                                    \A q \in Wanted(p) : PropagateMarks(t)[q] # 0
  BY MarksAre DEF Marks
<1>3. Closed(Reached(t), off)
  <2> SUFFICES ASSUME NEW p \in Reached(t), p \notin off, NEW q \in Wanted(p) PROVE q \in Reached(t)
    BY DEF Closed
  <2>1. PropagateMarks(t)[p] > 0
    BY <1>2 DEF Reached
  <2>2. QED
    BY <1>2, <2>1, WantedBelow DEF Reached
<1>4. \A p \in Reached(t) : y[p] = IF Leaf(p) \/ p \in off THEN y[p] ELSE Forward(y, p)
  BY <1>1, <1>2 DEF Reached
<1>5. \A p \in Reached(t) : y[p] = Values(y, off)[p]
  <2>1. Reached(t) \in SUBSET Nodes
    BY DEF Reached
  <2>2. QED
    BY <1>1, <1>3, <1>4, <2>1, ValuesUnique
<1>6. QED
  BY <1>1, <1>5
-----------------------------------------------------------------------------
(* Derivatives.                                                             *)

LEMMA ValueType ==
    ASSUME GraphOK, x \in [Nodes -> Num]
    PROVE  Value \in [Nodes -> Num]
BY ValuesAre, ValueIs

\* A node that can be changed is a variable or has an operand that can.
LEMMA IsBackIs ==
    ASSUME GraphOK, NEW p \in Nodes
    PROVE  IsBack[p] <=> Var(p) \/ \E q \in ToSet(v[p].child) : IsBack[q]
<1> DEFINE L == Len(v)
           Depends(f, j) == Var(j) \/ \E q \in ToSet(v[j].child) : f[q]
           rule == [pr \in [Nodes -> BOOLEAN] \X Nodes |-> Depends(pr[1], pr[2])]
           base == [j \in Nodes |-> FALSE]
           Solves(f) == f = [j \in Nodes |-> Depends(f, j)]
<1>1. Nodes = 1 .. L /\ L \in Nat
  BY NodeType
<1>2. rule \in [[1 .. L -> BOOLEAN] \X (1 .. L) -> BOOLEAN] /\ base \in [1 .. L -> BOOLEAN]
  <2>1. \A f : \A j : Depends(f, j) \in BOOLEAN
    OBVIOUS
  <2> HIDE DEF Depends
  <2>2. QED
    BY <1>1, <2>1
<1>3. \A f \in [Nodes -> BOOLEAN] : \A j \in Nodes : rule[<<f, j>>] = Depends(f, j)
  OBVIOUS
<1> HIDE DEF rule
<1>4. LooksBelow(rule, BOOLEAN, L, 1 .. L)
  <2>1. ASSUME NEW f \in [Nodes -> BOOLEAN], NEW h \in [Nodes -> BOOLEAN],
               NEW j \in Nodes, \A k \in 1 .. j - 1 : f[k] = h[k]
        PROVE  rule[<<f, j>>] = rule[<<h, j>>]
    <3>1. ToSet(v[j].child) \subseteq 1 .. j - 1
      BY ChildType
    <3>2. \A q \in ToSet(v[j].child) : f[q] = h[q]
      BY <2>1, <3>1
    <3>3. Depends(f, j) = Depends(h, j)
      BY <3>2
    <3> HIDE DEF Depends
    <3>4. QED
      BY <1>3, <3>3
  <2>2. QED
    BY <1>1, <2>1 DEF LooksBelow
<1>5. PICK f \in [1 .. L -> BOOLEAN] : IsSolution(f, rule, L)
  <2> DEFINE Bools == BOOLEAN
  <2>1. /\ rule \in [[1 .. L -> Bools] \X (1 .. L) -> Bools] /\ base \in [1 .. L -> Bools] /\ L \in Nat
        /\ LooksBelow(rule, Bools, L, 1 .. L)
    BY <1>1, <1>2, <1>4
  <2> HIDE DEF L, Bools, base
  <2>2. \E f \in [1 .. L -> Bools] : IsSolution(f, rule, L)
    BY <2>1, RuleHasSolution
  <2>3. QED
    BY <2>2 DEF Bools
<1>6. Solves(f)
  <2> HIDE DEF Depends
  <2>1. \A j \in Nodes : f[j] = Depends(f, j)
    BY <1>1, <1>3, <1>5 DEF IsSolution
  <2>2. QED
    BY <1>1, <2>1
<1>7. IsBack = CHOOSE h : Solves(h)
  BY DEF IsBack
<1>8. Solves(IsBack)
  <2> HIDE DEF Solves
  <2>1. QED
    BY <1>6, <1>7
<1>9. IsBack[p] = Depends(IsBack, p)
  <2> HIDE DEF Depends
  <2>1. QED
    BY <1>8
<1>10. QED
  BY <1>9

\* The derivative of a node, from those of its operands.
Slope(d, p) ==
  LET c == v[p].child IN
  CASE v[p].op = "add"    -> (d[c[1]] + d[c[2]]) % P
    [] v[p].op = "mul"    -> (d[c[1]] * Value[c[2]] + Value[c[1]] * d[c[2]]) % P
    [] v[p].op = "square" -> (2 * Value[c[1]] * d[c[1]]) % P
    [] p \in Selectors      -> d[c[sel[p]]]

LEMMA SlopeIs ==
    ASSUME GraphOK, NEW d, NEW p \in Nodes
    PROVE  /\ v[p].op = "add" => Slope(d, p) = (d[Arg(p, 1)] + d[Arg(p, 2)]) % P
           /\ v[p].op = "mul" => Slope(d, p) =
                (d[Arg(p, 1)] * Value[Arg(p, 2)] + Value[Arg(p, 1)] * d[Arg(p, 2)]) % P
           /\ v[p].op = "square" => Slope(d, p) = (2 * Value[Arg(p, 1)] * d[Arg(p, 1)]) % P
           /\ p \in Selectors => Slope(d, p) = d[Arg(p, sel[p])]
<1> DEFINE A == (d[Arg(p, 1)] + d[Arg(p, 2)]) % P
           M == (d[Arg(p, 1)] * Value[Arg(p, 2)] + Value[Arg(p, 1)] * d[Arg(p, 2)]) % P
           S == (2 * Value[Arg(p, 1)] * d[Arg(p, 1)]) % P
           C == d[Arg(p, sel[p])]
<1>1. Slope(d, p) = CASE v[p].op = "add" -> A [] v[p].op = "mul" -> M
                      [] v[p].op = "square" -> S [] p \in Selectors -> C
  BY DEF Slope, Arg
<1>2. p \in Selectors <=> v[p].op \in {"select", "switch"}
  BY ArityOf
<1> HIDE DEF A, M, S, C
<1>3. /\ v[p].op = "add" => Slope(d, p) = A
      /\ v[p].op = "mul" => Slope(d, p) = M
      /\ v[p].op = "square" => Slope(d, p) = S
      /\ p \in Selectors => Slope(d, p) = C
  BY <1>1, <1>2
<1>4. QED
  BY <1>3 DEF A, M, S, C

LEMMA SlopeLocal ==
    ASSUME GraphOK, NEW f, NEW h, NEW p \in Nodes, ~Leaf(p), \A q \in Wanted(p) : f[q] = h[q]
    PROVE  Slope(f, p) = Slope(h, p)
<1>1. v[p].op \in {"add", "mul", "square"} \/ p \in Selectors
  BY ArityOf DEF Ops
<1>2. QED
  BY <1>1, SlopeIs, WantedType

LEMMA SlopeType ==
    ASSUME GraphOK, x \in [Nodes -> Num], NEW d \in [Nodes -> Num], NEW p \in Nodes, ~Leaf(p)
    PROVE  Slope(d, p) \in Num
<1>1. \A q \in Wanted(p) : d[q] \in Num /\ d[q] \in Int /\ Value[q] \in Int
  <2>1. \A n \in Num : n \in Int
    BY DEF Num
  <2>2. \A q \in Wanted(p) : d[q] \in Num /\ Value[q] \in Num
    BY ValueType, WantedBelow
  <2>3. QED
    BY <2>1, <2>2
<1>2. CASE v[p].op \in {"add", "mul"}
  <2>1. PICK a \in Int, b \in Int, m \in Int, n \in Int :
          a = d[Arg(p, 1)] /\ b = d[Arg(p, 2)] /\ m = Value[Arg(p, 1)] /\ n = Value[Arg(p, 2)]
    BY <1>1, <1>2, WantedType
  <2>2. a + b \in Int /\ a * n + m * b \in Int
    OBVIOUS
  <2>3. Slope(d, p) = (a + b) % P \/ Slope(d, p) = (a * n + m * b) % P
    BY <1>2, <2>1, SlopeIs
  <2>4. QED
    BY <2>2, <2>3, NodeType
<1>3. CASE v[p].op = "square"
  <2>1. PICK a \in Int, m \in Int : a = d[Arg(p, 1)] /\ m = Value[Arg(p, 1)]
    BY <1>1, <1>3, WantedType
  <2>2. 2 * m * a \in Int
    OBVIOUS
  <2>3. Slope(d, p) = (2 * m * a) % P
    BY <1>3, <2>1, SlopeIs
  <2>4. QED
    BY <2>2, <2>3, NodeType
<1>4. CASE p \in Selectors
  BY <1>1, <1>4, WantedType, SlopeIs
<1>5. QED
  BY <1>2, <1>3, <1>4, ArityOf DEF Ops

LEMMA DerivativeIs ==
    ASSUME GraphOK, x \in [Nodes -> Num], NEW w
    PROVE  /\ Derivative(w) \in [Nodes -> Num]
           /\ \A p \in Nodes : Derivative(w)[p] =
                IF Leaf(p) THEN (IF p = w THEN 1 ELSE 0) ELSE Slope(Derivative(w), p)
<1> DEFINE L == Len(v)
           Own(p) == IF p = w THEN 1 ELSE 0
           rule == [pr \in [Nodes -> Num] \X Nodes |->
                      IF Leaf(pr[2]) THEN Own(pr[2]) ELSE Slope(pr[1], pr[2])]
           Solves(f) == f = [p \in Nodes |-> IF Leaf(p) THEN Own(p) ELSE Slope(f, p)]
           D == Derivative(w)
<1>1. Nodes = 1 .. L /\ L \in Nat /\ \A p : Own(p) \in Num
  BY NodeType
<1>2. rule \in [[Nodes -> Num] \X Nodes -> Num]
  <2>1. ASSUME NEW pr \in [Nodes -> Num] \X Nodes
        PROVE  (IF Leaf(pr[2]) THEN Own(pr[2]) ELSE Slope(pr[1], pr[2])) \in Num
    BY <1>1, SlopeType
  <2>2. QED
    BY <2>1
<1>3. \A f \in [Nodes -> Num] : \A p \in Nodes :
        rule[<<f, p>>] = IF Leaf(p) THEN Own(p) ELSE Slope(f, p)
  OBVIOUS
<1> HIDE DEF rule, Own
<1>4. LooksBelow(rule, Num, L, 1 .. L)
  <2>1. ASSUME NEW f \in [Nodes -> Num], NEW h \in [Nodes -> Num],
               NEW p \in Nodes, \A j \in 1 .. p - 1 : f[j] = h[j]
        PROVE  rule[<<f, p>>] = rule[<<h, p>>]
    BY <1>3, <2>1, SlopeLocal, WantedType
  <2>2. QED
    BY <1>1, <2>1 DEF LooksBelow
<1>5. PICK f \in [1 .. L -> Num] : IsSolution(f, rule, L)
  <2>1. rule \in [[1 .. L -> Num] \X (1 .. L) -> Num] /\ x \in [1 .. L -> Num] /\ L \in Nat
    BY <1>1, <1>2
  <2> HIDE DEF L
  <2>2. QED
    BY <1>4, <2>1, RuleHasSolution
<1>6. Solves(f)
  <2>1. f \in [Nodes -> Num]
    BY <1>1, <1>5
  <2>2. \A p \in Nodes : f[p] = IF Leaf(p) THEN Own(p) ELSE Slope(f, p)
    BY <1>1, <1>3, <1>5, <2>1 DEF IsSolution
  <2>3. QED
    BY <2>1, <2>2
<1>7. D = CHOOSE h : Solves(h)
  BY DEF Derivative, Slope, Own
<1>8. Solves(D)
  <2> HIDE DEF Solves, D
  <2>1. QED
    BY <1>6, <1>7
<1> HIDE DEF D
<1>9. D = [p \in Nodes |-> D[p]] /\ \A p \in Nodes : D[p] = IF Leaf(p) THEN Own(p) ELSE Slope(D, p)
  BY <1>8
<1>10. \A p \in Nodes : D[p] = f[p]
  <2> DEFINE T == {n \in Nat : \A p \in Nodes : p <= n => D[p] = f[p]}
  <2>1. 0 \in T
    BY <1>1
  <2>2. ASSUME NEW n \in Nat, n \in T PROVE n + 1 \in T
    <3>1. n + 1 \in Nat /\ \A p \in Nodes : p <= n + 1 => p <= n \/ p = n + 1
      BY <1>1
    <3> SUFFICES ASSUME NEW p \in Nodes, p = n + 1 PROVE D[p] = f[p]
      BY <2>2, <3>1
    <3>2. CASE Leaf(p)
      BY <1>6, <1>9, <3>2
    <3>3. CASE ~Leaf(p)
      <4>1. \A q \in Wanted(p) : q \in Nodes /\ q <= n
        BY <1>1, <3>3, WantedType
      <4>2. \A q \in Wanted(p) : D[q] = f[q]
        BY <2>2, <4>1
      <4>3. Slope(D, p) = Slope(f, p)
        BY <3>3, <4>2, SlopeLocal
      <4>4. QED
        BY <1>6, <1>9, <3>3, <4>3
    <3>4. QED
      BY <3>2, <3>3
  <2>3. L \in T
    <3> HIDE DEF T
    <3>1. QED
      BY <1>1, <2>1, <2>2, NatSetInduction
  <2>4. QED
    BY <1>1, <2>3
<1>11. D \in [Nodes -> Num]
  BY <1>1, <1>5, <1>9, <1>10
<1>12. QED
  BY <1>9, <1>11 DEF D, Own

\* A node that cannot be changed has derivative zero.
LEMMA ConstantHasNoSlope ==
    ASSUME GraphOK, x \in [Nodes -> Num], NEW w \in Nodes, Var(w),
           NEW p \in Nodes, ~IsBack[p]
    PROVE  Derivative(w)[p] = 0
<1> DEFINE D == Derivative(w)
           T == {n \in Nat : \A j \in Nodes : j <= n /\ ~IsBack[j] => D[j] = 0}
<1>1. /\ Nodes = 1 .. Len(v) /\ Len(v) \in Nat
      /\ P \in Nat /\ P >= 1
  BY NodeType
<1>2. D \in [Nodes -> Num] /\ \A j \in Nodes : D[j] =
                 IF Leaf(j) THEN (IF j = w THEN 1 ELSE 0) ELSE Slope(D, j)
  BY DerivativeIs
<1> HIDE DEF D
<1>3. 0 \in T
  BY <1>1
<1>4. ASSUME NEW n \in Nat, n \in T PROVE n + 1 \in T
  <2>1. n + 1 \in Nat /\ \A j \in Nodes : j <= n + 1 => j <= n \/ j = n + 1
    BY <1>1
  <2> SUFFICES ASSUME NEW j \in Nodes, j = n + 1, ~IsBack[j] PROVE D[j] = 0
    BY <1>4, <2>1
  <2>2. ~Var(j) /\ \A q \in ToSet(v[j].child) : ~IsBack[q]
    BY IsBackIs
  <2>3. CASE Leaf(j)
    BY <1>2, <2>2, <2>3
  <2>4. CASE ~Leaf(j)
    <3>1. Wanted(j) \subseteq ToSet(v[j].child)
      <4>1. CASE v[j].op = "switch"
        <5>1. sel[j] \in 1 .. Len(v[j].child) /\ Wanted(j) = {v[j].child[sel[j]]}
          BY <4>1, ArityOf DEF Wanted
        <5>2. v[j].child[sel[j]] \in ToSet(v[j].child)
          <6>1. PICK k \in 1 .. Len(v[j].child) : k = sel[j]
            BY <5>1
          <6>2. ToSet(v[j].child) = {v[j].child[e] : e \in 1 .. Len(v[j].child)}
            BY ChildType
          <6>3. v[j].child[k] \in ToSet(v[j].child)
            BY <6>2
          <6>4. QED
            BY <6>1, <6>3
        <5>3. QED
          BY <5>1, <5>2
      <4>2. CASE v[j].op # "switch"
        BY <4>2 DEF Wanted
      <4>3. QED
        BY <4>1, <4>2
    <3>2. \A q \in Wanted(j) : D[q] = 0 /\ Value[q] \in Int
      <4>1. \A q \in Wanted(j) : q \in Nodes /\ q <= n
        BY <1>1, WantedBelow
      <4>2. \A m \in Num : m \in Int
        BY DEF Num
      <4>3. \A q \in Wanted(j) : Value[q] \in Num
        BY <4>1, ValueType
      <4>4. QED
        BY <1>4, <2>2, <3>1, <4>1, <4>2, <4>3
    <3>3. CASE v[j].op \in {"add", "mul"}
      <4>1. PICK m \in Int, l \in Int : m = Value[Arg(j, 1)] /\ l = Value[Arg(j, 2)]
        BY <2>4, <3>2, <3>3, WantedType
      <4>2. D[Arg(j, 1)] = 0 /\ D[Arg(j, 2)] = 0
        BY <2>4, <3>2, <3>3, WantedType
      <4>3. Slope(D, j) = (0 + 0) % P \/ Slope(D, j) = (0 * l + m * 0) % P
        BY <3>3, <4>1, <4>2, SlopeIs
      <4>4. 0 + 0 = 0 /\ 0 * l + m * 0 = 0 /\ 0 % P = 0
        BY <1>1, SmallRemainder
      <4>5. QED
        BY <1>2, <2>4, <4>3, <4>4
    <3>4. CASE v[j].op = "square"
      <4>1. PICK m \in Int : m = Value[Arg(j, 1)]
        BY <2>4, <3>2, <3>4, WantedType
      <4>2. Slope(D, j) = (2 * m * 0) % P
        BY <2>4, <3>2, <3>4, <4>1, WantedType, SlopeIs
      <4>3. 2 * m * 0 = 0 /\ 0 % P = 0
        BY <1>1, SmallRemainder
      <4>4. QED
        BY <1>2, <2>4, <4>2, <4>3
    <3>5. CASE j \in Selectors
      BY <1>2, <2>4, <3>2, <3>5, WantedType, SlopeIs
    <3>6. QED
      BY <2>4, <3>3, <3>4, <3>5, ArityOf DEF Ops
  <2>5. QED
    BY <2>3, <2>4
<1>5. Len(v) \in T
  <2> HIDE DEF T
  <2>1. QED
    BY <1>1, <1>3, <1>4, NatSetInduction
<1>6. QED
  BY <1>1, <1>5 DEF D
-----------------------------------------------------------------------------
(* Back-propagation.                                                        *)

Grads == [Nodes -> Num]

LEMMA PartialIs ==
    ASSUME GraphOK, NEW p \in Nodes, NEW k
    PROVE  /\ v[p].op = "add" => Partial(p, k) = 1
           /\ v[p].op = "mul" => Partial(p, k) = x[Arg(p, 3 - k)]
           /\ v[p].op = "square" => Partial(p, k) = x[Arg(p, 1)] + x[Arg(p, 1)]
           /\ p \in Selectors => Partial(p, k) = IF k = sel[p] THEN 1 ELSE 0
<1> DEFINE M == x[Arg(p, 3 - k)]
           S == x[Arg(p, 1)] + x[Arg(p, 1)]
           C == IF k = sel[p] THEN 1 ELSE 0
<1>1. Partial(p, k) = CASE v[p].op = "add" -> 1 [] v[p].op = "mul" -> M
                        [] v[p].op = "square" -> S [] p \in Selectors -> C
  BY DEF Partial, Arg
<1>2. p \in Selectors <=> v[p].op \in {"select", "switch"}
  BY ArityOf
<1> HIDE DEF M, S, C
<1>3. /\ v[p].op = "add" => Partial(p, k) = 1
      /\ v[p].op = "mul" => Partial(p, k) = M
      /\ v[p].op = "square" => Partial(p, k) = S
      /\ p \in Selectors => Partial(p, k) = C
  BY <1>1, <1>2
<1>4. QED
  BY <1>3 DEF M, S, C

LEMMA PartialType ==
    ASSUME GraphOK, x \in [Nodes -> Num], NEW p \in Nodes, ~Leaf(p), NEW k \in 1 .. Len(v[p].child)
    PROVE  Partial(p, k) \in Int
<1>1. \A q \in Wanted(p) : x[q] \in Int
  <2>1. \A n \in Num : n \in Int
    BY DEF Num
  <2>2. \A q \in Wanted(p) : x[q] \in Num
    BY WantedBelow
  <2>3. QED
    BY <2>1, <2>2
<1>2. CASE v[p].op = "mul"
  <2>1. Len(v[p].child) = 2
    BY <1>2, ArityOf
  <2>2. 3 - k = 1 \/ 3 - k = 2
    BY <2>1
  <2>3. x[Arg(p, 1)] \in Int /\ x[Arg(p, 2)] \in Int
    BY <1>1, <1>2, WantedType
  <2>4. Partial(p, k) = x[Arg(p, 3 - k)]
    BY <1>2, PartialIs
  <2>5. QED
    BY <2>2, <2>3, <2>4
<1>3. CASE v[p].op = "square"
  <2>1. PICK m \in Int : m = x[Arg(p, 1)]
    BY <1>1, <1>3, WantedType
  <2>2. Partial(p, k) = m + m
    BY <1>3, <2>1, PartialIs
  <2>3. QED
    BY <2>2
<1>4. CASE v[p].op = "add" \/ p \in Selectors
  <2>1. Partial(p, k) = 1 \/ Partial(p, k) = 0
    BY <1>4, PartialIs
  <2>2. QED
    BY <2>1
<1>5. QED
  BY <1>2, <1>3, <1>4, ArityOf DEF Ops

\* The chain rule: the derivative of a node is the sum over its operands.
LEMMA ChainRule ==
    ASSUME GraphOK, x \in [Nodes -> Num], NEW w \in Nodes, Var(w),
           NEW p \in Nodes, ~Leaf(p), \A q \in Wanted(p) : x[q] = Value[q],
           NEW f, f = [n \in 1 .. Len(v[p].child) |-> Partial(p, n) * Derivative(w)[Arg(p, n)]]
    PROVE  /\ f \in [1 .. Len(v[p].child) -> Int]
           /\ Cong(SumTo(f, Len(v[p].child)), Derivative(w)[p], P)
<1> DEFINE D == Derivative(w)
           K == Len(v[p].child)
<1>1. /\ K \in Nat /\ \A n \in 1 .. K : Arg(p, n) \in Nodes
      /\ P \in Nat /\ P >= 1
  BY ChildType, NodeType DEF Arg
<1>2. /\ \A j \in Nodes : D[j] \in Num
      /\ D[p] = Slope(D, p)
  BY DerivativeIs
<1>3. \A m \in Num : m \in Int
  BY DEF Num
<1>4. \A n \in 1 .. K : D[Arg(p, n)] \in Int /\ Partial(p, n) \in Int
  BY <1>1, <1>2, <1>3, PartialType
<1> HIDE DEF D, K
<1>5. f \in [1 .. K -> Int]
  <2>1. \A n \in 1 .. K : Partial(p, n) * D[Arg(p, n)] \in Int
    BY <1>4
  <2>2. QED
    BY <2>1 DEF D, K
<1>6. \A n \in 1 .. K : f[n] = Partial(p, n) * D[Arg(p, n)]
  BY DEF D, K
<1>7. CASE v[p].op = "add"
  <2>1. K = 2
    BY <1>7, ArityOf DEF K
  <2>2. PICK a \in Int, b \in Int : a = D[Arg(p, 1)] /\ b = D[Arg(p, 2)]
    BY <1>4, <2>1
  <2>3. f[1] = a /\ f[2] = b
    <3>1. f[1] = 1 * a /\ f[2] = 1 * b
      BY <1>6, <1>7, <2>1, <2>2, PartialIs
    <3>2. QED
      BY <3>1
  <2>4. SumTo(f, K) = a + b
    <3>1. f \in [1 .. 2 -> Int]
      BY <1>5, <2>1
    <3>2. QED
      BY <2>1, <2>3, <3>1, SumOfTwo
  <2>5. D[p] = (a + b) % P
    BY <1>2, <1>7, <2>2, SlopeIs
  <2>6. Cong(a + b, (a + b) % P, P)
    <3>1. a + b \in Int
      OBVIOUS
    <3>2. QED
      BY <1>1, <3>1, CongRemainder
  <2>7. QED
    BY <1>5, <2>4, <2>5, <2>6 DEF D, K
<1>8. CASE v[p].op = "mul"
  <2>1. K = 2
    BY <1>8, ArityOf DEF K
  <2>2. /\ x[Arg(p, 1)] = Value[Arg(p, 1)] /\ x[Arg(p, 2)] = Value[Arg(p, 2)]
        /\ x[Arg(p, 1)] \in Num /\ x[Arg(p, 2)] \in Num
    BY <1>1, <1>8, <2>1, WantedType
  <2>3. PICK a \in Int, b \in Int, m \in Int, n \in Int :
           /\ a = D[Arg(p, 1)] /\ b = D[Arg(p, 2)]
           /\ m = x[Arg(p, 1)] /\ n = x[Arg(p, 2)]
    BY <1>3, <1>4, <2>1, <2>2
  <2>4. f[1] = n * a /\ f[2] = m * b
    <3>1. 3 - 1 = 2 /\ 3 - 2 = 1 /\ 1 \in 1 .. K /\ 2 \in 1 .. K
      BY <2>1
    <3>2. Partial(p, 1) = x[Arg(p, 3 - 1)] /\ Partial(p, 2) = x[Arg(p, 3 - 2)]
      BY <1>8, PartialIs
    <3>3. QED
      BY <1>6, <2>3, <3>1, <3>2
  <2>5. SumTo(f, K) = n * a + m * b
    <3>1. f \in [1 .. 2 -> Int]
      BY <1>5, <2>1
    <3>2. QED
      BY <2>1, <2>4, <3>1, SumOfTwo
  <2>6. D[p] = (a * n + m * b) % P
    BY <1>2, <1>8, <2>2, <2>3, SlopeIs
  <2>7. n * a + m * b = a * n + m * b /\ a * n + m * b \in Int
    OBVIOUS
  <2>8. Cong(a * n + m * b, (a * n + m * b) % P, P)
    BY <1>1, <2>7, CongRemainder
  <2>9. QED
    BY <1>5, <2>5, <2>6, <2>7, <2>8 DEF D, K
<1>9. CASE v[p].op = "square"
  <2>1. K = 1
    BY <1>9, ArityOf DEF K
  <2>2. x[Arg(p, 1)] = Value[Arg(p, 1)] /\ x[Arg(p, 1)] \in Num
    BY <1>1, <1>9, <2>1, WantedType
  <2>3. PICK a \in Int, m \in Int : a = D[Arg(p, 1)] /\ m = x[Arg(p, 1)]
    BY <1>3, <1>4, <2>1, <2>2
  <2>4. f[1] = (m + m) * a
    BY <1>6, <1>9, <2>1, <2>3, PartialIs
  <2>5. SumTo(f, K) = f[1]
    <3>1. 1 \in 1 .. K /\ \A n \in 1 .. K : n # 1 => f[n] = 0
      BY <2>1
    <3>2. QED
      BY <1>1, <1>5, <3>1, SumSingle DEF K
  <2>6. D[p] = (2 * m * a) % P
    BY <1>2, <1>9, <2>2, <2>3, SlopeIs
  <2>7. (m + m) * a = 2 * m * a /\ 2 * m * a \in Int
    OBVIOUS
  <2>8. Cong(2 * m * a, (2 * m * a) % P, P)
    BY <1>1, <2>7, CongRemainder
  <2>9. QED
    BY <1>5, <2>4, <2>5, <2>6, <2>7, <2>8 DEF D, K
<1>10. CASE p \in Selectors
  <2>1. PICK k \in 1 .. K : k = sel[p]
    BY <1>10, ArityOf DEF K
  <2>2. \A n \in 1 .. K : n # k => f[n] = 0
    <3> SUFFICES ASSUME NEW n \in 1 .. K, n # k PROVE f[n] = 0
      OBVIOUS
    <3>1. PICK a \in Int : a = D[Arg(p, n)]
      BY <1>4
    <3>2. f[n] = 0 * a
      BY <1>6, <1>10, <2>1, <3>1, PartialIs
    <3>3. QED
      BY <3>2
  <2>3. f[k] = D[p]
    <3>1. PICK a \in Int : a = D[Arg(p, k)]
      BY <1>4
    <3>2. f[k] = 1 * a
      BY <1>6, <1>10, <2>1, <3>1, PartialIs
    <3>3. D[p] = a
      BY <1>2, <1>10, <2>1, <3>1, SlopeIs
    <3>4. QED
      BY <3>2, <3>3
  <2>4. SumTo(f, K) = D[p]
    BY <1>1, <1>5, <2>2, <2>3, SumSingle DEF K
  <2>5. Cong(D[p], D[p], P)
    BY <1>1, <1>2, <1>3, CongEquals
  <2>6. QED
    BY <1>5, <2>4, <2>5 DEF D, K
<1>11. QED
  BY <1>7, <1>8, <1>9, <1>10, ArityOf DEF Ops
LEMMA BackwardOneType ==
    ASSUME GraphOK, x \in [Nodes -> Num], NEW h \in Grads, NEW p \in Nodes, ~Leaf(p),
           NEW k \in 1 .. Len(v[p].child)
    PROVE  /\ BackwardOne(h, p, k) \in Grads
           /\ \A q \in Nodes : q # Arg(p, k) => BackwardOne(h, p, k)[q] = h[q]
           /\ IsBack[Arg(p, k)] => BackwardOne(h, p, k)[Arg(p, k)]
                                     = (h[Arg(p, k)] + h[p] * Partial(p, k)) % P
           /\ ~IsBack[Arg(p, k)] => BackwardOne(h, p, k) = h
<1>1. PICK q \in Nodes : q = Arg(p, k)
  BY ChildType DEF Arg
<1>2. BackwardOne(h, p, k)
        = IF IsBack[q] THEN [h EXCEPT ![q] = (h[q] + h[p] * Partial(p, k)) % P] ELSE h
  BY <1>1 DEF BackwardOne, Arg, Grads
<1>3. PICK a \in Int, b \in Int, c \in Int : a = h[q] /\ b = h[p] /\ c = Partial(p, k)
  <2>1. \A n \in Num : n \in Int
    BY DEF Num
  <2>2. QED
    BY <2>1, PartialType DEF Grads
<1>4. b * c \in Int
  OBVIOUS
<1>5. (a + b * c) % P \in Num
  <2>1. a + b * c \in Int
    BY <1>4
  <2>2. QED
    BY <2>1, NodeType
<1> DEFINE e == (a + b * c) % P
<1>6. BackwardOne(h, p, k) = IF IsBack[q] THEN [h EXCEPT ![q] = e] ELSE h
  BY <1>2, <1>3
<1>7. e \in Num /\ e = (h[q] + h[p] * Partial(p, k)) % P
  BY <1>3, <1>5
<1> HIDE DEF e
<1>8. QED
  BY <1>1, <1>6, <1>7 DEF Grads

LEMMA BackwardLoop ==
    ASSUME GraphOK, x \in [Nodes -> Num], NEW gs \in Grads, NEW p \in Nodes, ~Leaf(p)
    PROVE  \E h \in [0 .. Len(v[p].child) -> Grads] :
             /\ h[0] = gs /\ Backward(gs, p) = h[Len(v[p].child)]
             /\ \A k \in 1 .. Len(v[p].child) : h[k] = BackwardOne(h[k - 1], p, k)
<1> DEFINE K == Len(v[p].child)
           step == [pr \in Grads \X (1 .. K) |-> BackwardOne(pr[1], p, pr[2])]
           Loop(h) == h = [k \in 0 .. K |-> IF k = 0 THEN gs ELSE BackwardOne(h[k - 1], p, k)]
           gg == CHOOSE h : Loop(h)
<1>1. K \in Nat
  BY ChildType
<1>2. step \in [Grads \X (1 .. K) -> Grads]
  <2>1. ASSUME NEW pr \in Grads \X (1 .. K) PROVE BackwardOne(pr[1], p, pr[2]) \in Grads
    BY BackwardOneType
  <2>2. QED
    BY <2>1
<1>3. \A s \in Grads : \A k \in 1 .. K : step[<<s, k>>] = BackwardOne(s, p, k)
  OBVIOUS
<1>4. Backward(gs, p) = gg[K]
  BY DEF Backward
<1>5. \A s \in Grads : \A k \in 1 .. K : BackwardOne(s, p, k) \in Grads
  BY BackwardOneType
<1> HIDE DEF step, K
<1>6. PICK h \in [0 .. K -> Grads] : Iterates(h, gs, step, K)
  BY <1>1, <1>2, RecursionExists
<1>7. Loop(h)
  <2>1. \A k \in 1 .. K : h[k - 1] \in Grads
    BY <1>1, <1>6
  <2>2. h[0] = gs /\ \A k \in 1 .. K : h[k] = BackwardOne(h[k - 1], p, k)
    BY <1>3, <1>6, <2>1 DEF Iterates
  <2>3. \A k \in 0 .. K : h[k] = IF k = 0 THEN gs ELSE BackwardOne(h[k - 1], p, k)
    BY <1>1, <2>2
  <2>4. QED
    BY <1>6, <2>3
<1>8. Loop(gg)
  <2> HIDE DEF Loop
  <2>1. QED
    BY <1>7
<1>9. gg[0] = gs /\ \A k \in 1 .. K : gg[k] = BackwardOne(gg[k - 1], p, k)
  <2> HIDE DEF gg
  <2>1. QED
    BY <1>1, <1>8
<1>10. gg = [k \in 0 .. K |-> gg[k]]
  <2> HIDE DEF gg
  <2>1. QED
    BY <1>8
<1> HIDE DEF gg, Loop
<1>11. \A k \in 0 .. K : gg[k] \in Grads
  <2> DEFINE T == {k \in Nat : k <= K => gg[k] \in Grads}
  <2>1. 0 \in T
    BY <1>1, <1>9
  <2>2. ASSUME NEW k \in Nat, k \in T PROVE k + 1 \in T
    <3> SUFFICES ASSUME k + 1 <= K PROVE gg[k + 1] \in Grads
      OBVIOUS
    <3>1. k + 1 \in 1 .. K /\ (k + 1) - 1 = k /\ k <= K
      BY <1>1
    <3>2. QED
      BY <1>5, <1>9, <2>2, <3>1
  <2>3. Nat \subseteq T
    <3> HIDE DEF T
    <3>1. QED
      BY <2>1, <2>2, NatSetInduction
  <2>4. QED
    BY <1>1, <2>3
<1>12. gg \in [0 .. K -> Grads]
  BY <1>10, <1>11
<1>13. QED
  BY <1>4, <1>9, <1>12 DEF K

\* What each node holds, weighted with its derivative, for the marked leaves and the
\* marked nodes up to b.
Terms(h, D, M, b) == [j \in Nodes |-> IF j \in M /\ (Leaf(j) \/ j <= b) THEN h[j] * D[j] ELSE 0]
Total(h, D, M, b) == SumTo(Terms(h, D, M, b), Len(v))

LEMMA TermsType ==
    ASSUME GraphOK, NEW h \in Grads, NEW D \in [Nodes -> Num], NEW M, NEW b \in Int
    PROVE  /\ Terms(h, D, M, b) \in [1 .. Len(v) -> Int] /\ Total(h, D, M, b) \in Int
           /\ \A j \in Nodes : h[j] \in Int /\ D[j] \in Int
           /\ \A j \in Nodes : Terms(h, D, M, b)[j]
                                 = IF j \in M /\ (Leaf(j) \/ j <= b) THEN h[j] * D[j] ELSE 0
<1>1. Nodes = 1 .. Len(v) /\ Len(v) \in Nat
  BY NodeType
<1>2. \A n \in Num : n \in Int
  BY DEF Num
<1>3. \A j \in Nodes : h[j] \in Int /\ D[j] \in Int
  BY <1>2 DEF Grads
<1>4. \A j \in Nodes : h[j] * D[j] \in Int
  BY <1>3
<1>5. Terms(h, D, M, b) \in [1 .. Len(v) -> Int]
  BY <1>1, <1>4 DEF Terms
<1>6. Total(h, D, M, b) \in Int
  BY <1>1, <1>5, PartialsAre DEF Total
<1>7. QED
  BY <1>3, <1>5, <1>6 DEF Terms

\* The part of an operand is added to the total.
LEMMA BackwardOneKeeps ==
    ASSUME GraphOK, x \in [Nodes -> Num], NEW w \in Nodes, Var(w), NEW D, D = Derivative(w),
           NEW M \in SUBSET Nodes, NEW p \in Nodes, ~Leaf(p), Wanted(p) \subseteq M,
           NEW h \in Grads, NEW k \in 1 .. Len(v[p].child)
    PROVE  /\ Partial(p, k) * D[Arg(p, k)] \in Int
           /\ Cong(Total(BackwardOne(h, p, k), D, M, p - 1),
                   Total(h, D, M, p - 1) + h[p] * (Partial(p, k) * D[Arg(p, k)]), P)
           /\ BackwardOne(h, p, k)[p] = h[p]
<1>1. /\ Nodes = 1 .. Len(v) /\ Len(v) \in Nat /\ P \in Nat /\ P >= 1
      /\ p \in Int /\ p - 1 \in Int
  BY NodeType
<1>2. PICK q \in Nodes : q = Arg(p, k) /\ q \in 1 .. p - 1
  BY ChildType DEF Arg
<1>3. D \in [Nodes -> Num] /\ (~IsBack[q] => D[q] = 0)
  BY <1>2, DerivativeIs, ConstantHasNoSlope
<1>4. PICK hh \in Grads : hh = BackwardOne(h, p, k)
  BY BackwardOneType
<1>5. /\ \A j \in Nodes : j # q => hh[j] = h[j]
      /\ IsBack[q] => hh[q] = (h[q] + h[p] * Partial(p, k)) % P
      /\ ~IsBack[q] => hh = h
  BY <1>2, <1>4, BackwardOneType
<1>6. /\ \A j \in Nodes : h[j] \in Int /\ hh[j] \in Int /\ D[j] \in Int
      /\ Partial(p, k) \in Int
  BY <1>1, <1>3, TermsType, PartialType
<1> DEFINE T == Terms(h, D, M, p - 1)
           TT == Terms(hh, D, M, p - 1)
<1>7. /\ T \in [1 .. Len(v) -> Int] /\ TT \in [1 .. Len(v) -> Int]
      /\ \A j \in Nodes : T[j] = IF j \in M /\ (Leaf(j) \/ j <= p - 1) THEN h[j] * D[j] ELSE 0
      /\ \A j \in Nodes : TT[j] = IF j \in M /\ (Leaf(j) \/ j <= p - 1) THEN hh[j] * D[j] ELSE 0
      /\ Total(h, D, M, p - 1) = SumTo(T, Len(v)) /\ Total(hh, D, M, p - 1) = SumTo(TT, Len(v))
      /\ Total(h, D, M, p - 1) \in Int
  BY <1>1, <1>3, TermsType DEF Total
<1> HIDE DEF T, TT
<1>8. PICK a \in Int, b \in Int, c \in Int, d \in Int, e \in Int, S \in Int :
        /\ a = h[q] /\ b = h[p] /\ c = Partial(p, k) /\ d = D[q] /\ e = hh[q]
        /\ S = Total(h, D, M, p - 1)
  BY <1>6, <1>7
<1>9. Total(hh, D, M, p - 1) = S + TT[q] - T[q]
  <2>1. \A j \in 1 .. Len(v) : j # q => T[j] = TT[j]
    BY <1>1, <1>5, <1>7
  <2>2. SumTo(TT, Len(v)) = SumTo(T, Len(v)) + TT[q] - T[q]
    BY <1>1, <1>7, <2>1, SumChange
  <2>3. QED
    BY <1>7, <1>8, <2>2
<1>10. c * d \in Int /\ b * (c * d) \in Int /\ a * d \in Int /\ e * d \in Int
  OBVIOUS
<1>11. Cong(Total(hh, D, M, p - 1), S + b * (c * d), P)
  <2>1. CASE IsBack[q] /\ q \in M
    <3>1. T[q] = a * d /\ TT[q] = e * d
      <4>1. q \in M /\ q <= p - 1
        BY <1>2, <2>1
      <4>2. T[q] = h[q] * D[q] /\ TT[q] = hh[q] * D[q]
        BY <1>7, <4>1
      <4>3. QED
        BY <1>8, <4>2
    <3>2. PICK z \in Int : e = (a + b * c) + P * z
      <4>1. e = (a + b * c) % P
        BY <1>5, <1>8, <2>1
      <4>2. a + b * c \in Int
        OBVIOUS
      <4>3. Cong((a + b * c) % P, a + b * c, P)
        BY <1>1, <4>2, CongRemainder
      <4>4. QED
        BY <4>1, <4>3 DEF Cong
    <3>3. e * d = a * d + b * (c * d) + P * (z * d) /\ z * d \in Int /\ P * (z * d) \in Int
      BY <1>1, <3>2
    <3>4. Total(hh, D, M, p - 1) = (S + b * (c * d)) + P * (z * d)
      BY <1>9, <1>10, <3>1, <3>3
    <3>5. QED
      BY <3>3, <3>4 DEF Cong
  <2>2. CASE ~IsBack[q]
    <3>1. d = 0 /\ hh = h
      BY <1>3, <1>5, <1>8, <2>2
    <3>2. b * (c * d) = 0
      BY <3>1
    <3>3. Total(hh, D, M, p - 1) = S + b * (c * d)
      BY <1>8, <3>1, <3>2
    <3>4. QED
      BY <1>1, <1>10, <3>3, CongEquals
  <2>3. CASE q \notin M
    <3>1. T[q] = 0 /\ TT[q] = 0
      BY <1>7, <2>3
    <3>2. c = 0
      <4>1. q \in ToSet(v[p].child) /\ q \notin Wanted(p)
        BY <1>2, <2>3, ChildType DEF Arg
      <4>2. v[p].op = "switch"
        BY <4>1 DEF Wanted
      <4>3. Wanted(p) = {Arg(p, sel[p])}
        BY <4>2 DEF Wanted, Arg
      <4>4. k # sel[p]
        BY <1>2, <4>1, <4>3
      <4>5. QED
        BY <1>8, <4>2, <4>4, ArityOf, PartialIs
    <3>3. b * (c * d) = 0
      BY <3>2
    <3>4. Total(hh, D, M, p - 1) = S + b * (c * d)
      BY <1>9, <3>1, <3>3
    <3>5. QED
      BY <1>1, <1>10, <3>4, CongEquals
  <2>4. QED
    BY <2>1, <2>2, <2>3
<1>12. hh[p] = h[p]
  <2>1. p # q
    BY <1>1, <1>2
  <2>2. QED
    BY <1>5, <2>1
<1>13. QED
  BY <1>2, <1>4, <1>8, <1>10, <1>11, <1>12
\* Processing a node passes what it holds on to its operands.
LEMMA BackwardKeeps ==
    ASSUME GraphOK, x \in [Nodes -> Num], NEW w \in Nodes, Var(w), NEW D, D = Derivative(w),
           NEW M \in SUBSET Nodes, NEW p \in M, ~Leaf(p), Wanted(p) \subseteq M,
           \A q \in Wanted(p) : x[q] = Value[q], NEW gs \in Grads
    PROVE  /\ Backward(gs, p) \in Grads
           /\ Cong(Total(Backward(gs, p), D, M, p - 1), Total(gs, D, M, p), P)
<1> DEFINE K == Len(v[p].child)
           f == [n \in 1 .. K |-> Partial(p, n) * D[Arg(p, n)]]
           s == Partials(f, K)
           b == p - 1
           from == Total(gs, D, M, b)
<1>1. /\ p \in Nodes /\ Nodes = 1 .. Len(v) /\ Len(v) \in Nat /\ P \in Nat /\ P >= 1
      /\ p \in Int /\ b \in Int /\ K \in Nat
  <2>1. p \in Nodes
    OBVIOUS
  <2>2. Nodes = 1 .. Len(v) /\ Len(v) \in Nat /\ P \in Nat /\ P >= 1
    BY NodeType
  <2>3. K \in Nat
    BY <2>1, ChildType
  <2>4. p \in Int /\ b \in Int
    BY <2>1, <2>2
  <2>5. QED
    BY <2>1, <2>2, <2>3, <2>4
<1>2. D \in [Nodes -> Num]
  BY DerivativeIs
<1>0. ASSUME NEW r \in Grads, NEW e \in 1 .. Len(v[p].child)
      PROVE  /\ Cong(Total(BackwardOne(r, p, e), D, M, p - 1),
                     Total(r, D, M, p - 1) + r[p] * (Partial(p, e) * D[Arg(p, e)]), P)
             /\ BackwardOne(r, p, e)[p] = r[p]
  <2>1. p \in Nodes
    BY <1>1
  <2> HIDE DEF b, s, f, K, from
  <2>2. QED
    BY <2>1, BackwardOneKeeps
<1>3. /\ f \in [1 .. K -> Int] /\ Cong(SumTo(f, K), D[p], P)
      /\ \A n \in 1 .. K : f[n] = Partial(p, n) * D[Arg(p, n)]
  BY <1>1, ChainRule
<1>4. PICK h \in [0 .. K -> Grads] :
             /\ h[0] = gs /\ Backward(gs, p) = h[K]
             /\ \A k \in 1 .. K : h[k] = BackwardOne(h[k - 1], p, k)
  BY <1>1, BackwardLoop
<1> HIDE DEF K, f, s
<1>5. /\ s \in [0 .. K -> Int] /\ s[0] = 0 /\ \A n \in 1 .. K : s[n] = s[n - 1] + f[n]
      /\ SumTo(f, K) = s[K] /\ s[K] \in Int
  BY <1>1, <1>3, PartialsAre DEF AddsUp, SumTo, s
<1>6. PICK c \in Int, S \in Int : c = gs[p] /\ S = from
  BY <1>1, <1>2, TermsType
<1> DEFINE T == {k \in Nat : k <= K => h[k][p] = c /\ Cong(Total(h[k], D, M, b), S + c * s[k], P)}
<1>7. 0 \in T
  <2>1. S + c * s[0] = S
    BY <1>5
  <2>2. Cong(S, S, P)
    BY <1>1, CongEquals
  <2>3. QED
    BY <1>4, <1>6, <2>1, <2>2
<1>8. ASSUME NEW k \in Nat, k \in T PROVE k + 1 \in T
  <2> SUFFICES ASSUME k + 1 <= K
               PROVE  h[k + 1][p] = c /\ Cong(Total(h[k + 1], D, M, b), S + c * s[k + 1], P)
    OBVIOUS
  <2>1. k + 1 \in 1 .. K /\ k \in 0 .. K /\ k + 1 \in 0 .. K /\ (k + 1) - 1 = k /\ k <= K
    BY <1>1
  <2>2. h[k] \in Grads /\ h[k + 1] \in Grads /\ h[k + 1] = BackwardOne(h[k], p, k + 1)
    BY <1>4, <2>1
  <2>3. h[k][p] = c /\ Cong(Total(h[k], D, M, b), S + c * s[k], P)
    BY <1>8, <2>1
  <2>4. s[k + 1] = s[k] + f[k + 1] /\ f[k + 1] = Partial(p, k + 1) * D[Arg(p, k + 1)]
    BY <1>3, <1>5, <2>1
  <2>5. /\ Cong(Total(h[k + 1], D, M, b),
                Total(h[k], D, M, b) + h[k][p] * (Partial(p, k + 1) * D[Arg(p, k + 1)]), P)
        /\ h[k + 1][p] = h[k][p]
    <3>1. PICK r \in Grads, e \in 1 .. Len(v[p].child) : r = h[k] /\ e = k + 1
      BY <2>1, <2>2 DEF K
    <3>2. /\ Cong(Total(BackwardOne(r, p, e), D, M, p - 1),
                   Total(r, D, M, p - 1) + r[p] * (Partial(p, e) * D[Arg(p, e)]), P)
          /\ BackwardOne(r, p, e)[p] = r[p]
      BY <1>0
    <3>3. QED
      BY <2>2, <3>1, <3>2
  <2>6. PICK y \in Int, z \in Int, t \in Int, u \in Int :
          y = s[k] /\ z = f[k + 1] /\ t = Total(h[k], D, M, b) /\ u = Total(h[k + 1], D, M, b)
    <3>1. Total(h[k], D, M, b) \in Int /\ Total(h[k + 1], D, M, b) \in Int
      BY <1>1, <1>2, <2>2, TermsType
    <3>2. s[k] \in Int /\ f[k + 1] \in Int
      BY <1>3, <1>5, <2>1
    <3> HIDE DEF b
    <3>3. QED
      BY <3>1, <3>2
  <2>7. Cong(u, t + c * z, P) /\ Cong(t, S + c * y, P) /\ s[k + 1] = y + z
    BY <2>3, <2>4, <2>5, <2>6
  <2>8. c * z \in Int /\ c * y \in Int /\ t + c * z \in Int /\ S + c * y \in Int
    OBVIOUS
  <2>9. Cong(t + c * z, (S + c * y) + c * z, P)
    <3>1. Cong(c * z, c * z, P)
      BY <1>1, <2>8, CongEquals
    <3>2. QED
      BY <1>1, <2>7, <2>8, <3>1, CongSum
  <2>10. (S + c * y) + c * z = S + c * (y + z) /\ (S + c * y) + c * z \in Int
    BY <2>8
  <2>11. Cong(u, (S + c * y) + c * z, P)
    BY <1>1, <2>7, <2>8, <2>9, <2>10, CongTrans
  <2>12. QED
    BY <2>3, <2>5, <2>6, <2>7, <2>10, <2>11
<1>9. K \in T
  <2> HIDE DEF T
  <2>1. QED
    BY <1>1, <1>7, <1>8, NatSetInduction
<1>10. PICK d \in Int, y \in Int, u \in Int : d = D[p] /\ y = s[K] /\ u = Total(h[K], D, M, b)
  <2>1. h[K] \in Grads
    BY <1>1, <1>4
  <2>2. QED
    <3>1. Total(h[K], D, M, b) \in Int
      BY <1>1, <1>2, <2>1, TermsType
    <3>2. D[p] \in Int /\ s[K] \in Int
      BY <1>1, <1>2, <1>5, <2>1, TermsType
    <3> HIDE DEF b
    <3>3. QED
      BY <3>1, <3>2
<1>11. Cong(u, S + c * y, P) /\ Cong(y, d, P)
  BY <1>1, <1>3, <1>5, <1>9, <1>10
<1>12. Cong(u, S + c * d, P)
  <2>1. Cong(c * y, c * d, P) /\ Cong(S, S, P)
    BY <1>1, <1>11, CongProduct, CongEquals
  <2>2. c * y \in Int /\ c * d \in Int /\ S + c * y \in Int /\ S + c * d \in Int
    OBVIOUS
  <2>3. Cong(S + c * y, S + c * d, P)
    BY <1>1, <2>1, <2>2, CongSum
  <2>4. QED
    BY <1>1, <1>11, <2>2, <2>3, CongTrans
<1>13. Total(gs, D, M, p) = S + c * d
  <2> DEFINE t == Terms(gs, D, M, b)
             tt == Terms(gs, D, M, p)
  <2>1. /\ t \in [1 .. Len(v) -> Int] /\ tt \in [1 .. Len(v) -> Int]
        /\ \A j \in Nodes : t[j] = IF j \in M /\ (Leaf(j) \/ j <= b) THEN gs[j] * D[j] ELSE 0
        /\ \A j \in Nodes : tt[j] = IF j \in M /\ (Leaf(j) \/ j <= p) THEN gs[j] * D[j] ELSE 0
        /\ S = SumTo(t, Len(v)) /\ Total(gs, D, M, p) = SumTo(tt, Len(v))
    BY <1>1, <1>2, <1>6, TermsType DEF Total
  <2> HIDE DEF t, tt
  <2>2. \A j \in 1 .. Len(v) : j # p => t[j] = tt[j]
    <3>1. \A j \in Nodes : j # p => (j <= b <=> j <= p)
      BY <1>1
    <3>2. QED
      BY <1>1, <2>1, <3>1
  <2>3. SumTo(tt, Len(v)) = SumTo(t, Len(v)) + tt[p] - t[p]
    BY <1>1, <2>1, <2>2, SumChange
  <2>4. t[p] = 0 /\ tt[p] = c * d
    BY <1>1, <1>6, <1>10, <2>1
  <2>5. c * d \in Int
    OBVIOUS
  <2>6. QED
    BY <2>1, <2>3, <2>4, <2>5
<1>14. Backward(gs, p) \in Grads
  BY <1>1, <1>4
<1>15. QED
  BY <1>4, <1>10, <1>12, <1>13, <1>14

LEMMA SkipKeeps ==
    ASSUME GraphOK, NEW D \in [Nodes -> Num], NEW M, NEW p \in Nodes, p \notin M \/ Leaf(p),
           NEW gs \in Grads
    PROVE  Total(gs, D, M, p - 1) = Total(gs, D, M, p)
<1>1. Nodes = 1 .. Len(v) /\ Len(v) \in Nat
  BY NodeType
<1>2. \A j \in Nodes : j # p => (j <= p - 1 <=> j <= p)
  BY <1>1
<1>3. \A j \in Nodes : (j \in M /\ (Leaf(j) \/ j <= p - 1)) <=> (j \in M /\ (Leaf(j) \/ j <= p))
  BY <1>2
<1>4. Terms(gs, D, M, p - 1) = Terms(gs, D, M, p)
  BY <1>3 DEF Terms
<1>5. QED
  BY <1>4 DEF Total

LEMMA BackPropagatedLoop ==
    ASSUME GraphOK, x \in [Nodes -> Num], g \in Grads, NEW m, NEW from \in Nodes
    PROVE  \E h \in [0 .. from -> Grads] :
             /\ h[0] = ZeroGrads(m, from) /\ BackPropagated(m, from) = h[from]
             /\ \A k \in 1 .. from :
                  h[k] = IF ~Leaf(from + 1 - k) /\ m[from + 1 - k] > 0
                         THEN Backward(h[k - 1], from + 1 - k) ELSE h[k - 1]
<1> DEFINE Back(s, p) == IF ~Leaf(p) /\ m[p] > 0 THEN Backward(s, p) ELSE s
           zero == ZeroGrads(m, from)
           step == [pr \in Grads \X (1 .. from) |-> Back(pr[1], from + 1 - pr[2])]
           Loop(h) == h = [k \in 0 .. from |->
                             IF k = 0 THEN zero ELSE Back(h[k - 1], from + 1 - k)]
           gs == CHOOSE h : Loop(h)
<1>1. /\ from \in Nat /\ Nodes = 1 .. Len(v) /\ Len(v) \in Nat
      /\ \A k \in 1 .. from : from + 1 - k \in Nodes
  <2>1. Nodes = 1 .. Len(v) /\ Len(v) \in Nat
    BY NodeType
  <2>2. PICK L \in Nat : L = Len(v) /\ from \in 1 .. L
    BY <2>1
  <2>3. \A k \in 1 .. from : from + 1 - k \in 1 .. L
    BY <2>2
  <2>4. QED
    BY <2>1, <2>2, <2>3
<1>2. zero \in Grads
  BY NodeType DEF ZeroGrads, Grads
<1>3. \A s \in Grads : \A k \in 1 .. from : Back(s, from + 1 - k) \in Grads
  <2>1. ASSUME NEW s \in Grads, NEW p \in Nodes PROVE Back(s, p) \in Grads
    <3>1. CASE ~Leaf(p) /\ m[p] > 0
      <4>1. PICK h \in [0 .. Len(v[p].child) -> Grads] : Backward(s, p) = h[Len(v[p].child)]
        BY <3>1, BackwardLoop
      <4>2. Len(v[p].child) \in 0 .. Len(v[p].child)
        BY ChildType
      <4>3. Backward(s, p) \in Grads
        BY <4>1, <4>2
      <4>4. QED
        BY <3>1, <4>3
    <3>2. CASE ~(~Leaf(p) /\ m[p] > 0)
      BY <3>2
    <3>3. QED
      BY <3>1, <3>2
  <2> HIDE DEF Back
  <2>2. QED
    BY <1>1, <2>1
<1>4. BackPropagated(m, from) = gs[from]
  BY DEF BackPropagated
<1> HIDE DEF Back, zero
<1>5. step \in [Grads \X (1 .. from) -> Grads]
  <2>1. ASSUME NEW pr \in Grads \X (1 .. from) PROVE Back(pr[1], from + 1 - pr[2]) \in Grads
    BY <1>3
  <2>2. QED
    BY <2>1
<1>6. \A s \in Grads : \A k \in 1 .. from : step[<<s, k>>] = Back(s, from + 1 - k)
  OBVIOUS
<1> HIDE DEF step
<1>7. PICK h \in [0 .. from -> Grads] : Iterates(h, zero, step, from)
  BY <1>1, <1>2, <1>5, RecursionExists
<1>8. Loop(h)
  <2>1. \A k \in 1 .. from : h[k - 1] \in Grads
    BY <1>1, <1>7
  <2>2. h[0] = zero /\ \A k \in 1 .. from : h[k] = Back(h[k - 1], from + 1 - k)
    BY <1>6, <1>7, <2>1 DEF Iterates
  <2>3. \A k \in 0 .. from : h[k] = IF k = 0 THEN zero ELSE Back(h[k - 1], from + 1 - k)
    BY <1>1, <2>2
  <2>4. QED
    BY <1>7, <2>3
<1>9. Loop(gs)
  <2> HIDE DEF Loop
  <2>1. QED
    BY <1>8
<1>10. /\ gs[0] = zero /\ \A k \in 1 .. from : gs[k] = Back(gs[k - 1], from + 1 - k)
       /\ gs = [k \in 0 .. from |-> gs[k]]
  <2> HIDE DEF gs
  <2>1. \A k \in 0 .. from : gs[k] = IF k = 0 THEN zero ELSE Back(gs[k - 1], from + 1 - k)
    BY <1>9
  <2>2. 0 \in 0 .. from /\ \A k \in 1 .. from : k \in 0 .. from /\ k # 0
    BY <1>1
  <2>3. gs = [k \in 0 .. from |-> gs[k]]
    BY <1>9
  <2>4. QED
    BY <2>1, <2>2, <2>3
<1> HIDE DEF gs, Loop
<1>11. \A k \in 0 .. from : gs[k] \in Grads
  <2> DEFINE T == {k \in Nat : k <= from => gs[k] \in Grads}
  <2>1. 0 \in T
    BY <1>2, <1>10
  <2>2. ASSUME NEW k \in Nat, k \in T PROVE k + 1 \in T
    <3> SUFFICES ASSUME k + 1 <= from PROVE gs[k + 1] \in Grads
      OBVIOUS
    <3>1. k + 1 \in 1 .. from /\ (k + 1) - 1 = k /\ k <= from
      BY <1>1
    <3>2. QED
      BY <1>3, <1>10, <2>2, <3>1
  <2>3. Nat \subseteq T
    <3> HIDE DEF T
    <3>1. QED
      BY <2>1, <2>2, NatSetInduction
  <2>4. QED
    BY <1>1, <2>3
<1>12. gs \in [0 .. from -> Grads]
  BY <1>10, <1>11
<1>13. QED
  BY <1>4, <1>10, <1>12 DEF Back, zero
\* Back-propagation from a node whose marked operands hold their values leaves at each
\* variable that is reached the derivative of that node.
LEMMA BackPropagatedGives ==
    ASSUME GraphOK, x \in [Nodes -> Num], g \in Grads, NEW from \in Nodes,
           NEW m, m = PropagateMarks(MarkOnly(from)),
           \A p \in Nodes : m[p] > 0 => x[p] = Value[p]
    PROVE  /\ BackPropagated(m, from) \in Grads
           /\ \A w \in Nodes : Var(w) /\ m[w] > 0
                => BackPropagated(m, from)[w] = Derivative(w)[from]
<1> DEFINE M == {p \in Nodes : m[p] > 0}
<1>1. /\ Nodes = 1 .. Len(v) /\ Len(v) \in Nat /\ from \in Nat /\ from >= 1
      /\ P \in Nat /\ P >= 1
  BY NodeType
<1>2. MarkOnly(from) \in Marks /\ MarkOnly(from)[from] = 1
      /\ \A p \in Nodes : MarkOnly(from)[p] # -1 /\ (MarkOnly(from)[p] > 0 => p <= from)
  BY <1>1 DEF MarkOnly, Marks
<1>3. /\ \A p \in Nodes : m[p] \in -1 .. 1 /\ m[p] # -1 /\ (m[p] > 0 => p <= from)
      /\ m[from] = 1
      /\ \A p \in Nodes : m[p] > 0 => \A q \in Wanted(p) : m[q] # 0
  BY <1>2, MarksAre DEF Marks
<1>4. /\ M \in SUBSET Nodes /\ from \in M
      /\ \A p \in M : p <= from /\ Wanted(p) \subseteq M /\ \A q \in Wanted(p) : x[q] = Value[q]
  <2>1. ASSUME NEW p \in M, NEW q \in Wanted(p) PROVE q \in M /\ x[q] = Value[q]
    <3>1. q \in Nodes /\ m[q] # 0
      BY <1>3, WantedBelow
    <3>2. m[q] > 0
      BY <1>3, <3>1
    <3>3. QED
      BY <3>1, <3>2
  <2>2. QED
    BY <1>3, <2>1
<1>5. PICK h \in [0 .. from -> Grads] :
             /\ h[0] = ZeroGrads(m, from) /\ BackPropagated(m, from) = h[from]
             /\ \A k \in 1 .. from :
                  h[k] = IF ~Leaf(from + 1 - k) /\ m[from + 1 - k] > 0
                         THEN Backward(h[k - 1], from + 1 - k) ELSE h[k - 1]
  BY BackPropagatedLoop
<1>6. h[from] \in Grads
  BY <1>1, <1>5
<1>7. ASSUME NEW w \in Nodes, Var(w), m[w] > 0
      PROVE  h[from][w] = Derivative(w)[from]
  <2> DEFINE D == Derivative(w)
  <2>1. /\ D \in [Nodes -> Num] /\ D[from] \in Int
        /\ \A j \in Nodes : Leaf(j) => D[j] = IF j = w THEN 1 ELSE 0
        /\ \A j \in Nodes : ~IsBack[j] => D[j] = 0
    <3>1. D \in [Nodes -> Num] /\ \A j \in Nodes : Leaf(j) => D[j] = IF j = w THEN 1 ELSE 0
      BY DerivativeIs
    <3>2. \A j \in Nodes : ~IsBack[j] => D[j] = 0
      BY <1>7, ConstantHasNoSlope
    <3>3. \A n \in Num : n \in Int
      BY DEF Num
    <3> HIDE DEF D
    <3>4. D[from] \in Int
      BY <3>1, <3>3
    <3>5. QED
      BY <3>1, <3>2, <3>4
  <2>2. PICK d \in Int : d = D[from]
    BY <2>1
  <2>3. Leaf(w) /\ w \in M
    BY <1>7, ArityOf DEF Var
  <2>4. ASSUME NEW p \in M, ~Leaf(p), NEW s \in Grads
        PROVE  Backward(s, p) \in Grads /\ Cong(Total(Backward(s, p), D, M, p - 1), Total(s, D, M, p), P)
    <3>1. /\ M \in SUBSET Nodes /\ Wanted(p) \subseteq M
          /\ \A q \in Wanted(p) : x[q] = Value[q]
      BY <1>4
    <3> HIDE DEF M
    <3>2. QED
      BY <1>7, <2>4, <3>1, BackwardKeeps
  <2> HIDE DEF D
  <2> DEFINE T == {k \in Nat : k <= from => Cong(Total(h[k], D, M, from - k), d, P)}
  <2>5. 0 \in T
    <3> DEFINE t == Terms(h[0], D, M, from)
    <3>1. h[0] \in Grads
      BY <1>1, <1>5
    <3>2. /\ t \in [1 .. Len(v) -> Int] /\ Total(h[0], D, M, from) = SumTo(t, Len(v))
          /\ \A j \in Nodes : h[0][j] \in Int /\ D[j] \in Int
          /\ \A j \in Nodes : t[j] = IF j \in M /\ (Leaf(j) \/ j <= from) THEN h[0][j] * D[j] ELSE 0
      BY <1>1, <2>1, <3>1, TermsType DEF Total
    <3> HIDE DEF t
    <3>3. \A j \in Nodes : j # from /\ j \in M => h[0][j] = 0 \/ D[j] = 0
      BY <1>5, <2>1 DEF ZeroGrads
    <3>4. \A j \in 1 .. Len(v) : j # from => t[j] = 0
      <4> SUFFICES ASSUME NEW j \in Nodes, j # from, j \in M PROVE h[0][j] * D[j] = 0
        BY <1>1, <3>2
      <4>1. PICK y \in Int, z \in Int : y = h[0][j] /\ z = D[j]
        BY <3>2
      <4>2. y = 0 \/ z = 0
        BY <3>3, <4>1
      <4>3. QED
        BY <4>1, <4>2
    <3>5. t[from] = d
      <4>1. h[0][from] = 1
        BY <1>5 DEF ZeroGrads
      <4>2. t[from] = 1 * d
        BY <1>1, <1>4, <2>2, <3>2, <4>1
      <4>3. QED
        BY <4>2
    <3>6. SumTo(t, Len(v)) = d
      BY <1>1, <3>2, <3>4, <3>5, SumSingle
    <3>7. Cong(d, d, P)
      BY <1>1, CongEquals
    <3>8. from - 0 = from
      BY <1>1
    <3>9. QED
      BY <3>2, <3>6, <3>7, <3>8
  <2>6. ASSUME NEW k \in Nat, k \in T PROVE k + 1 \in T
    <3> SUFFICES ASSUME k + 1 <= from PROVE Cong(Total(h[k + 1], D, M, from - (k + 1)), d, P)
      OBVIOUS
    <3>1. /\ k + 1 \in 1 .. from /\ (k + 1) - 1 = k /\ k <= from /\ k \in 0 .. from
          /\ k + 1 \in 0 .. from /\ from + 1 - (k + 1) = from - k
      BY <1>1
    <3>2. PICK p \in Nodes : p = from - k /\ from - (k + 1) = p - 1 /\ p \in Int
      BY <1>1, <3>1
    <3>3. /\ h[k + 1] = IF ~Leaf(p) /\ m[p] > 0 THEN Backward(h[k], p) ELSE h[k]
          /\ h[k] \in Grads /\ h[k + 1] \in Grads
      BY <1>5, <3>1, <3>2
    <3>4. Cong(Total(h[k], D, M, p), d, P)
      BY <2>6, <3>1, <3>2
    <3>5. CASE ~Leaf(p) /\ m[p] > 0
      <4>1. Cong(Total(h[k + 1], D, M, p - 1), Total(h[k], D, M, p), P)
        BY <2>4, <3>3, <3>5
      <4>2. Total(h[k + 1], D, M, p - 1) \in Int /\ Total(h[k], D, M, p) \in Int
        BY <2>1, <3>2, <3>3, TermsType
      <4> HIDE DEF M
      <4>3. QED
        BY <1>1, <3>2, <3>4, <4>1, <4>2, CongTrans
    <3>6. CASE ~(~Leaf(p) /\ m[p] > 0)
      <4>1. p \notin M \/ Leaf(p)
        BY <3>6
      <4> HIDE DEF M
      <4>2. Total(h[k], D, M, p - 1) = Total(h[k], D, M, p)
        BY <2>1, <3>3, <4>1, SkipKeeps
      <4>3. QED
        BY <3>2, <3>3, <3>4, <3>6, <4>2
    <3>7. QED
      BY <3>5, <3>6
  <2>7. from \in T
    <3> HIDE DEF T
    <3>1. QED
      BY <1>1, <2>5, <2>6, NatSetInduction
  <2>8. Cong(Total(h[from], D, M, 0), d, P)
    BY <1>1, <2>7
  <2>9. Total(h[from], D, M, 0) = h[from][w]
    <3> DEFINE t == Terms(h[from], D, M, 0)
    <3>0. PICK b \in Int : b = 0
      OBVIOUS
    <3>1. /\ t \in [1 .. Len(v) -> Int] /\ Total(h[from], D, M, 0) = SumTo(t, Len(v))
          /\ \A j \in Nodes : h[from][j] \in Int /\ D[j] \in Int
          /\ \A j \in Nodes : t[j] = IF j \in M /\ (Leaf(j) \/ j <= 0) THEN h[from][j] * D[j] ELSE 0
      <4>1. /\ Terms(h[from], D, M, b) \in [1 .. Len(v) -> Int]
            /\ \A j \in Nodes : h[from][j] \in Int /\ D[j] \in Int
            /\ \A j \in Nodes : Terms(h[from], D, M, b)[j]
                                  = IF j \in M /\ (Leaf(j) \/ j <= b) THEN h[from][j] * D[j] ELSE 0
        <5>1. PICK r \in Grads : r = h[from]
          BY <1>6
        <5> HIDE DEF M
        <5>2. /\ Terms(r, D, M, b) \in [1 .. Len(v) -> Int]
              /\ \A j \in Nodes : r[j] \in Int /\ D[j] \in Int
              /\ \A j \in Nodes : Terms(r, D, M, b)[j]
                                    = IF j \in M /\ (Leaf(j) \/ j <= b) THEN r[j] * D[j] ELSE 0
          BY <2>1, TermsType
        <5>3. QED
          BY <5>1, <5>2
      <4> HIDE DEF M
      <4>2. QED
        BY <3>0, <4>1 DEF Total
    <3> HIDE DEF t
    <3>2. \A j \in 1 .. Len(v) : j # w => t[j] = 0
      <4> SUFFICES ASSUME NEW j \in Nodes, j # w, Leaf(j) PROVE h[from][j] * D[j] = 0
        BY <1>1, <3>1
      <4>1. PICK y \in Int : y = h[from][j]
        BY <3>1
      <4>2. D[j] = 0
        BY <2>1
      <4>3. QED
        BY <4>1, <4>2
    <3>3. t[w] = h[from][w]
      <4>1. PICK y \in Int : y = h[from][w]
        BY <3>1
      <4>2. D[w] = 1
        BY <2>1, <2>3
      <4>3. t[w] = y * 1
        BY <2>3, <3>1, <4>1, <4>2
      <4>4. QED
        BY <4>1, <4>3
    <3>4. QED
      BY <1>1, <3>1, <3>2, <3>3, SumSingle
  <2>10. h[from][w] \in 0 .. P - 1 /\ d \in 0 .. P - 1
    BY <1>6, <2>1, <2>2 DEF Grads, Num
  <2>11. h[from][w] = d
    BY <1>1, <2>8, <2>9, <2>10, CongUnique
  <2>12. QED
    BY <2>2, <2>11 DEF D
<1>8. QED
  BY <1>5, <1>6, <1>7

-----------------------------------------------------------------------------
(* The specification.                                                       *)

\* Since an evaluation, every node it reached holds its value; between calls mark holds
\* only what kad_eval_disable put there.
Asked(roots, off) == [p \in Nodes |-> IF p \in roots THEN 1 ELSE IF p \in off THEN -1 ELSE 0]
LastOK ==
  last \in [kind : {"none", "eval", "grad"}, roots : SUBSET Nodes, off : SUBSET Nodes]
UpToDate ==
  last.kind \in {"eval", "grad"} =>
    \A p \in Reached(Asked(last.roots, last.off)) : x[p] = Values(x, last.off)[p]
EvalInv ==
  /\ EvalTypeOK /\ LastOK /\ NoMarkLeft /\ UpToDate
  /\ mark \in [Nodes -> {-1, 0}]
  /\ ValueIsCurrent /\ GradIsDerivative

LEMMA EvalInvGraph ==
    ASSUME WellBuilt, EvalInv
    PROVE  GraphOK
BY DEF EvalInv, EvalTypeOK, GraphOK
\* The selectors have operands.
LEMMA SelectorShape ==
    ASSUME WellBuilt, v \in Networks, NEW p \in Selectors
    PROVE  Len(v[p].child) \in Nat /\ Len(v[p].child) >= 1 /\ DOMAIN v[p].child = 1 .. Len(v[p].child)
<1> DEFINE T == [op : Ops, child : Seq(Nat), ext : Exts]
<1>1. v \in Seq(T) /\ p \in DOMAIN v /\ v[p].op \in {"switch", "select"}
      /\ Len(v[p].child) \in Arity(v[p].op)
  BY DEF WellBuilt, Selectors, Nodes
<1>2. v[p].child \in Seq(Nat)
  <2> HIDE DEF T
  <2>1. v[p] \in T
    BY <1>1
  <2>2. QED
    BY <2>1 DEF T
<1>3. Arity(v[p].op) = Nat \ {0}
  BY <1>1 DEF Arity
<1>4. PICK c \in Seq(Nat) : c = v[p].child
  BY <1>2
<1>5. Len(c) \in Nat /\ DOMAIN c = 1 .. Len(c)
  BY <1>4
<1>6. QED
  BY <1>1, <1>3, <1>4, <1>5

LEMMA EvalInitInv ==
    ASSUME WellBuilt, EvalInit
    PROVE  EvalInv
<1>1. v \in Networks /\ last = [kind |-> "none", roots |-> {}, off |-> {}]
      /\ mark = [p \in Nodes |-> 0]
  BY DEF EvalInit
<1>2. \A p \in Selectors : sel[p] \in DOMAIN v[p].child
  <2> SUFFICES ASSUME NEW p \in Selectors PROVE sel[p] \in DOMAIN v[p].child
    OBVIOUS
  <2>1. sel[p] = IF v[p].op = "switch" THEN 1 ELSE Len(v[p].child)
    BY DEF EvalInit
  <2>2. QED
    BY <1>1, <2>1, SelectorShape
<1>3. GraphOK
  BY <1>1, <1>2 DEF GraphOK
<1>4. x \in [Nodes -> Num] /\ g \in [Nodes -> Num]
  <2>1. PICK junk \in Num :
          /\ x = [p \in Nodes |-> IF Leaf(p) THEN 1 ELSE junk]
          /\ g = [p \in Nodes |-> IF Leaf(p) THEN 0 ELSE junk]
    BY DEF EvalInit
  <2>2. 0 \in Num /\ 1 \in Num
    BY <1>3, NodeType
  <2>3. QED
    BY <2>1, <2>2
<1>5. EvalTypeOK
  BY <1>1, <1>2, <1>4 DEF EvalTypeOK
<1>6. LastOK /\ NoMarkLeft /\ UpToDate /\ ValueIsCurrent /\ GradIsDerivative
  BY <1>1 DEF LastOK, NoMarkLeft, UpToDate, ValueIsCurrent, GradIsDerivative
<1>7. mark \in [Nodes -> {-1, 0}]
  BY <1>1
<1>8. QED
  BY <1>5, <1>6, <1>7 DEF EvalInv

LEMMA SameGraph ==
    ASSUME v' = v, sel' = sel
    PROVE  /\ Nodes' = Nodes /\ Selectors' = Selectors
           /\ UpToDate' <=> (last'.kind \in {"eval", "grad"} =>
                \A p \in Reached(Asked(last'.roots, last'.off)) : x'[p] = Values(x', last'.off)[p])
           /\ ValueIsCurrent' <=>
                (last'.kind = "eval" => \A p \in last'.roots : x'[p] = Values(x', last'.off)[p])
<1>1. Nodes' = Nodes /\ Selectors' = Selectors
  BY DEF Nodes, Selectors
<1>2. Reached(Asked(last.roots, last.off))' = Reached(Asked(last'.roots, last'.off))
  BY DEF Reached, Asked, PropagateMarks, PassMark, Wanted, Nodes
<1>3. Values(x, last.off)' = Values(x', last'.off)
  BY DEF Values, Forward, Leaf, Selectors, Nodes
<1>4. Value' = Values(x', last'.off)
  BY DEF Value, Values, Forward, Leaf, Selectors, Nodes
<1>5. QED
  BY <1>1, <1>2, <1>3, <1>4 DEF UpToDate, ValueIsCurrent

LEMMA SameSlopes ==
    ASSUME v' = v, sel' = sel, x' = x, last'.off = last.off
    PROVE  /\ \A from : Visited(from)' = Visited(from)
           /\ \A w : Derivative(w)' = Derivative(w)
           /\ \A w : Var(w)' <=> Var(w)
<1>1. \A from : Visited(from)' = Visited(from)
  BY DEF Visited, MarkOnly, PropagateMarks, PassMark, Wanted, Nodes
<1>2. Value' = Value
  BY DEF Value, Leaf, Selectors, Nodes
<1>3. \A w : Derivative(w)' = Derivative(w)
  BY <1>2 DEF Derivative, Leaf, Selectors, Nodes
<1>4. \A w : Var(w)' <=> Var(w)
  BY DEF Var
<1>5. QED
  BY <1>1, <1>3, <1>4
\* Calls that invalidate what was computed keep the types.
LEMMA IdleStep ==
    ASSUME WellBuilt, EvalInv, v' = v, LastOK', last'.kind = "none",
           x' \in [Nodes -> Num], g' = g, mark' \in [Nodes -> {-1, 0}],
           \A p \in Selectors : sel'[p] \in DOMAIN v[p].child
    PROVE  EvalInv'
<1>1. Nodes' = Nodes /\ Selectors' = Selectors /\ Num' = Num
  BY DEF Nodes, Selectors, Num
<1>2. EvalTypeOK'
  <2>1. v' \in Networks /\ x' \in [Nodes' -> Num'] /\ g' \in [Nodes' -> Num']
    BY <1>1 DEF EvalInv, EvalTypeOK
  <2>2. mark' \in [Nodes' -> -1 .. 1]
    BY <1>1
  <2>3. \A p \in Selectors' : sel'[p] \in DOMAIN v'[p].child
    BY <1>1
  <2>4. last'.kind \in {"none", "eval", "grad"} /\ last'.roots \cup last'.off \subseteq Nodes'
    BY DEF LastOK
  <2>5. QED
    BY <2>1, <2>2, <2>3, <2>4 DEF EvalTypeOK
<1>3. NoMarkLeft' /\ UpToDate' /\ ValueIsCurrent' /\ GradIsDerivative'
  BY DEF NoMarkLeft, UpToDate, ValueIsCurrent, GradIsDerivative
<1>4. QED
  BY <1>1, <1>2, <1>3 DEF EvalInv

LEMMA EvalMarkedHas ==
    ASSUME GraphOK, x \in [Nodes -> Num], NEW t \in Marks,
           NEW off, off = {p \in Nodes : t[p] = -1}
    PROVE  \E y : /\ y = EvalMarked(t) /\ y \in [Nodes -> Num]
                  /\ \A p \in Reached(t) : y[p] = Values(y, off)[p]
<1>1. PICK y : y = EvalMarked(t)
  OBVIOUS
<1>2. y \in [Nodes -> Num] /\ \A p \in Reached(t) : y[p] = Values(y, off)[p]
  BY <1>1, EvalMarkedGives
<1>3. QED
  BY <1>1, <1>2

\* An evaluation from marks that ask for the roots and keep the disabled nodes.
LEMMA EvalStep ==
    ASSUME WellBuilt, EvalInv, NEW roots \in SUBSET Nodes, NEW off \in SUBSET Nodes,
           NEW t, t = Asked(roots, off), off = {p \in Nodes : t[p] = -1},
           x' = EvalMarked(t), mark' = [p \in Nodes |-> 0],
           last' = [kind |-> "eval", roots |-> roots, off |-> off],
           UNCHANGED <<v, sel, g>>
    PROVE  EvalInv'
<1>1. GraphOK /\ v' = v /\ sel' = sel /\ g' = g
  BY EvalInvGraph
<1>2. Nodes' = Nodes /\ Selectors' = Selectors /\ Num' = Num
  BY <1>1 DEF Nodes, Selectors, Num
<1>3. t \in Marks
  BY DEF Asked, Marks
<1>4. x \in [Nodes -> Num] /\ g \in [Nodes -> Num] /\ v \in Networks
      /\ \A p \in Selectors : sel[p] \in DOMAIN v[p].child
  BY DEF EvalInv, EvalTypeOK
<1>5. x' \in [Nodes -> Num] /\ \A p \in Reached(t) : x'[p] = Values(x', off)[p]
  <2>1. PICK y : y = EvalMarked(t) /\ y \in [Nodes -> Num]
                   /\ \A p \in Reached(t) : y[p] = Values(y, off)[p]
    BY <1>1, <1>3, <1>4, EvalMarkedHas
  <2>2. x' = y
    BY <2>1
  <2>3. QED
    BY <2>1, <2>2
<1>6. \A p \in roots : p \in Reached(t)
  <2>1. \A p \in roots : t[p] = 1
    BY DEF Asked
  <2>2. \A p \in roots : PropagateMarks(t)[p] = 1
    BY <1>1, <1>3, <2>1, MarksAre
  <2>3. QED
    BY <2>2 DEF Reached
<1>7. LastOK'
  BY <1>2 DEF LastOK
<1>8. mark' \in [Nodes' -> -1 .. 1] /\ mark' \in [Nodes' -> {-1, 0}] /\ \A p \in Nodes' : mark'[p] = 0
  BY <1>2
<1>9. EvalTypeOK'
  <2>1. v' \in Networks /\ x' \in [Nodes' -> Num'] /\ g' \in [Nodes' -> Num']
    BY <1>1, <1>2, <1>4, <1>5
  <2>2. \A p \in Selectors' : sel'[p] \in DOMAIN v'[p].child
    BY <1>1, <1>2, <1>4
  <2>3. last'.kind \in {"none", "eval", "grad"} /\ last'.roots \cup last'.off \subseteq Nodes'
    BY <1>2
  <2>4. QED
    BY <1>8, <2>1, <2>2, <2>3 DEF EvalTypeOK
<1>10. UpToDate' /\ ValueIsCurrent'
  <2>1. last'.roots = roots /\ last'.off = off /\ last'.kind = "eval"
    OBVIOUS
  <2>2. QED
    BY <1>1, <1>5, <1>6, <2>1, SameGraph
<1>11. NoMarkLeft' /\ GradIsDerivative'
  BY <1>8 DEF NoMarkLeft, GradIsDerivative
<1>12. QED
  BY <1>7, <1>8, <1>9, <1>10, <1>11 DEF EvalInv

LEMMA KannEvalStep ==
    ASSUME WellBuilt, EvalInv, NEW labelled \in SUBSET Nodes, KannEval(labelled)
    PROVE  EvalInv'
<1> DEFINE t == [p \in Nodes |-> IF p \in labelled THEN 1 ELSE mark[p]]
           off == {p \in Nodes : t[p] = -1}
<1>1. mark \in [Nodes -> {-1, 0}]
  BY DEF EvalInv
<1>2. \A p \in Nodes : t[p] = IF p \in labelled THEN 1 ELSE IF p \in off THEN -1 ELSE 0
  BY <1>1
<1>3. t = Asked(labelled, off)
  <2>1. t = [p \in Nodes |-> t[p]]
    OBVIOUS
  <2> HIDE DEF t, off
  <2>2. QED
    BY <1>2, <2>1 DEF Asked
<1>4. /\ x' = EvalMarked(t) /\ mark' = [p \in Nodes |-> 0]
      /\ last' = [kind |-> "eval", roots |-> labelled, off |-> off]
      /\ UNCHANGED <<v, sel, g>>
  BY DEF KannEval
<1>5. off \in SUBSET Nodes /\ off = {p \in Nodes : t[p] = -1}
  OBVIOUS
<1> HIDE DEF t, off
<1>6. QED
  BY <1>3, <1>4, <1>5, EvalStep

LEMMA MarkOnlyAsks ==
    ASSUME NEW from
    PROVE  MarkOnly(from) = Asked({from}, {})
<1>1. \A p \in Nodes : (IF p = from THEN 1 ELSE 0)
                         = (IF p \in {from} THEN 1 ELSE IF p \in {} THEN -1 ELSE 0)
  OBVIOUS
<1>2. QED
  BY <1>1 DEF MarkOnly, Asked

LEMMA KadEvalAtStep ==
    ASSUME WellBuilt, EvalInv, NEW from \in Nodes, KadEvalAt(from)
    PROVE  EvalInv'
<1> DEFINE t == MarkOnly(from)
<1>1. t = Asked({from}, {})
  BY MarkOnlyAsks
<1>2. {} = {p \in Nodes : t[p] = -1}
  BY DEF MarkOnly
<1>3. /\ x' = EvalMarked(t) /\ mark' = [p \in Nodes |-> 0]
      /\ last' = [kind |-> "eval", roots |-> {from}, off |-> {}]
      /\ UNCHANGED <<v, sel, g>>
  BY DEF KadEvalAt
<1>4. {from} \in SUBSET Nodes /\ {} \in SUBSET Nodes
  OBVIOUS
<1> HIDE DEF t
<1>5. QED
  BY <1>1, <1>2, <1>3, <1>4, EvalStep

LEMMA KadGradStep ==
    ASSUME WellBuilt, EvalInv, NEW from \in Nodes, KadGrad(from)
    PROVE  EvalInv'
<1> DEFINE m == PropagateMarks(MarkOnly(from))
<1>1. /\ last.kind = "eval" /\ last.roots = {from} /\ last.off = {}
      /\ g' = BackPropagated(m, from)
      /\ mark' = [p \in Nodes |-> IF p <= from THEN 0 ELSE m[p]]
      /\ last' = [last EXCEPT !.kind = "grad"]
      /\ v' = v /\ sel' = sel /\ x' = x
  BY DEF KadGrad
<1>2. GraphOK
  BY EvalInvGraph
<1>3. Nodes' = Nodes /\ Selectors' = Selectors /\ Num' = Num
  BY <1>1 DEF Nodes, Selectors, Num
<1>4. last'.kind = "grad" /\ last'.roots = {from} /\ last'.off = {} /\ LastOK'
  BY <1>1, <1>3 DEF EvalInv, LastOK
<1>5. x \in [Nodes -> Num] /\ g \in Grads /\ v \in Networks
      /\ \A p \in Selectors : sel[p] \in DOMAIN v[p].child
  BY DEF EvalInv, EvalTypeOK, Grads
<1>6. \A p \in Nodes : m[p] > 0 => x[p] = Value[p]
  <2>1. \A p \in Reached(MarkOnly(from)) : x[p] = Values(x, {})[p]
    BY <1>1, MarkOnlyAsks DEF EvalInv, UpToDate
  <2>2. \A p \in Nodes : m[p] > 0 => m[p] # 0
    OBVIOUS
  <2>3. \A p \in Nodes : m[p] > 0 => p \in Reached(MarkOnly(from))
    BY <2>2 DEF Reached
  <2>4. QED
    BY <1>1, <2>1, <2>3, ValueIs
<1>7. /\ BackPropagated(m, from) \in Grads
      /\ \A w \in Nodes : Var(w) /\ m[w] > 0 => BackPropagated(m, from)[w] = Derivative(w)[from]
  <2> HIDE DEF m
  <2>1. m = PropagateMarks(MarkOnly(from))
    BY DEF m
  <2>2. QED
    BY <1>2, <1>5, <1>6, <2>1, BackPropagatedGives
<1>8. \A p \in Nodes : mark'[p] = 0
  <2>1. Nodes = 1 .. Len(v) /\ Len(v) \in Nat
    BY <1>2, NodeType
  <2>2. MarkOnly(from) \in Marks
        /\ \A p \in Nodes : MarkOnly(from)[p] # -1 /\ (MarkOnly(from)[p] > 0 => p <= from)
    BY <2>1 DEF MarkOnly, Marks
  <2>3. \A p \in Nodes : m[p] \in -1 .. 1 /\ m[p] # -1 /\ (m[p] > 0 => p <= from)
    BY <1>2, <2>2, MarksAre DEF Marks
  <2> HIDE DEF m
  <2>4. \A p \in Nodes : ~(p <= from) => m[p] = 0
    BY <2>3
  <2>5. QED
    BY <1>1, <2>4
<1>9. mark' \in [Nodes' -> -1 .. 1] /\ mark' \in [Nodes' -> {-1, 0}]
  <2>1. mark' = [p \in Nodes |-> mark'[p]]
    BY <1>1
  <2>2. QED
    BY <1>3, <1>8, <2>1
<1>10. EvalTypeOK'
  <2>1. v' \in Networks /\ x' \in [Nodes' -> Num'] /\ g' \in [Nodes' -> Num']
    BY <1>1, <1>3, <1>5, <1>7 DEF Grads
  <2>2. \A p \in Selectors' : sel'[p] \in DOMAIN v'[p].child
    BY <1>1, <1>3, <1>5
  <2>3. last'.kind \in {"none", "eval", "grad"} /\ last'.roots \cup last'.off \subseteq Nodes'
    BY <1>3, <1>4
  <2>4. QED
    BY <1>9, <2>1, <2>2, <2>3 DEF EvalTypeOK
<1>11. UpToDate' /\ ValueIsCurrent'
  BY <1>1, <1>4, SameGraph DEF EvalInv, UpToDate
<1>12. GradIsDerivative'
  <2>1. /\ Visited(from)' = Visited(from)
        /\ \A w : Derivative(w)' = Derivative(w)
        /\ \A w : Var(w)' <=> Var(w)
    BY <1>1, <1>4, SameSlopes
  <2>2. \A w \in Visited(from) : Var(w) => g'[w] = Derivative(w)[from]
    BY <1>1, <1>7 DEF Visited
  <2>3. QED
    BY <1>4, <2>1, <2>2 DEF GradIsDerivative
<1>13. NoMarkLeft'
  BY <1>3, <1>8 DEF NoMarkLeft
<1>14. QED
  BY <1>4, <1>9, <1>10, <1>11, <1>12, <1>13 DEF EvalInv
LEMMA SetLeafStep ==
    ASSUME WellBuilt, EvalInv, NEW p \in Nodes, NEW n \in Num, SetLeaf(p, n)
    PROVE  EvalInv'
<1>1. Nodes' = Nodes
  BY DEF SetLeaf, Nodes
<1>2. x' \in [Nodes -> Num] /\ mark' \in [Nodes -> {-1, 0}]
  BY DEF SetLeaf, EvalInv, EvalTypeOK
<1>3. LastOK' /\ last'.kind = "none"
  BY <1>1 DEF SetLeaf, LastOK
<1>4. v' = v /\ g' = g /\ \A j \in Selectors : sel'[j] \in DOMAIN v[j].child
  BY DEF SetLeaf, EvalInv, EvalTypeOK
<1>5. QED
  BY <1>2, <1>3, <1>4, IdleStep

LEMMA KannSwitchStep ==
    ASSUME WellBuilt, EvalInv, NEW train \in BOOLEAN, KannSwitch(train)
    PROVE  EvalInv'
<1>1. Nodes' = Nodes
  BY DEF KannSwitch, Nodes
<1>2. x' \in [Nodes -> Num] /\ mark' \in [Nodes -> {-1, 0}]
  BY DEF KannSwitch, EvalInv, EvalTypeOK
<1>3. LastOK' /\ last'.kind = "none"
  BY <1>1 DEF KannSwitch, LastOK
<1>4. ASSUME NEW j \in Selectors PROVE sel'[j] \in DOMAIN v[j].child
  <2>1. sel'[j] = IF Len(v[j].child) = 2 THEN (IF train THEN 2 ELSE 1) ELSE sel[j]
    BY DEF KannSwitch
  <2>2. v \in Networks /\ sel[j] \in DOMAIN v[j].child
    BY DEF EvalInv, EvalTypeOK
  <2>3. DOMAIN v[j].child = 1 .. Len(v[j].child)
    BY <2>2, SelectorShape
  <2>4. QED
    BY <2>1, <2>2, <2>3
<1>5. v' = v /\ g' = g
  BY DEF KannSwitch
<1>6. QED
  BY <1>2, <1>3, <1>4, <1>5, IdleStep

LEMMA DisableStep ==
    ASSUME WellBuilt, EvalInv, NEW p \in Nodes, Disable(p)
    PROVE  EvalInv'
<1>1. Nodes' = Nodes
  BY DEF Disable, Nodes
<1>2. x' \in [Nodes -> Num] /\ mark' \in [Nodes -> {-1, 0}]
  BY DEF Disable, EvalInv, EvalTypeOK
<1>3. LastOK' /\ last'.kind = "none"
  BY <1>1 DEF Disable, EvalInv, LastOK
<1>4. v' = v /\ g' = g /\ \A j \in Selectors : sel'[j] \in DOMAIN v[j].child
  BY DEF Disable, EvalInv, EvalTypeOK
<1>5. QED
  BY <1>2, <1>3, <1>4, IdleStep

LEMMA EvalStutter ==
    ASSUME EvalInv, UNCHANGED evalVars
    PROVE  EvalInv'
<1>1. /\ v' = v /\ sel' = sel /\ x' = x /\ g' = g /\ mark' = mark /\ last' = last
      /\ last'.off = last.off
  BY DEF evalVars
<1>2. Nodes' = Nodes /\ Selectors' = Selectors /\ Num' = Num
  BY <1>1 DEF Nodes, Selectors, Num
<1>3. EvalTypeOK' /\ LastOK' /\ NoMarkLeft' /\ mark' \in [Nodes' -> {-1, 0}]
  BY <1>1, <1>2 DEF EvalInv, EvalTypeOK, LastOK, NoMarkLeft
<1>4. UpToDate' /\ ValueIsCurrent'
  BY <1>1, SameGraph, ValueIs DEF EvalInv, UpToDate, ValueIsCurrent
<1>5. GradIsDerivative'
  BY <1>1, SameSlopes DEF EvalInv, GradIsDerivative
<1>6. QED
  BY <1>3, <1>4, <1>5 DEF EvalInv

LEMMA EvalNextInv ==
    ASSUME WellBuilt, EvalInv, [EvalNext]_evalVars
    PROVE  EvalInv'
<1>1. ASSUME NEW p \in Nodes, NEW n \in Num, SetLeaf(p, n) PROVE EvalInv'
  BY <1>1, SetLeafStep
<1>2. ASSUME NEW train \in BOOLEAN, KannSwitch(train) PROVE EvalInv'
  BY <1>2, KannSwitchStep
<1>3. ASSUME NEW p \in Nodes, Disable(p) PROVE EvalInv'
  BY <1>3, DisableStep
<1>4. \A e : Ext(e) \subseteq Nodes
  BY DEF Ext
<1>5. ASSUME NEW p \in Ext("cost"), KadEvalAt(p) PROVE EvalInv'
  BY <1>4, <1>5, KadEvalAtStep
<1>6. ASSUME NEW p \in Ext("cost"), KadGrad(p) PROVE EvalInv'
  BY <1>4, <1>6, KadGradStep
<1>7. CASE KannEval(Ext("out"))
  <2>1. Ext("out") \in SUBSET Nodes
    BY <1>4
  <2>2. QED
    BY <1>7, <2>1, KannEvalStep
<1>8. CASE UNCHANGED evalVars
  BY <1>8, EvalStutter
<1>9. QED
  BY <1>1, <1>2, <1>3, <1>5, <1>6, <1>7, <1>8 DEF EvalNext

LEMMA EvalInvariant ==
    ASSUME WellBuilt
    PROVE  EvalSpec => []EvalInv
<1>1. EvalInit => EvalInv
  BY EvalInitInv
<1>2. EvalInv /\ [EvalNext]_evalVars => EvalInv'
  BY EvalNextInv
<1>3. QED
  BY <1>1, <1>2, PTL DEF EvalSpec

(* For every graph and every modulus, an evaluation leaves at every node    *)
(* asked for its value from the leaves and the disabled nodes, whatever was *)
(* stale and whatever the selectors choose, and no mark outlives a call     *)
(* (kad_eval_marked, kautodiff.c:582-600, kautodiff.h:98).                  *)
THEOREM EvaluationCorrect == EvalSpec => []EvalGivesValue
<1>1. EvalInv => EvalGivesValue
  BY DEF EvalInv, EvalGivesValue
<1>2. EvalSpec => []EvalInv
  BY EvalAssumption, EvalInvariant
<1>3. QED
  BY <1>1, <1>2, PTL

(* For every graph and every modulus, back-propagation leaves at each       *)
(* variable the function depends on the partial derivative: the sum over    *)
(* all paths, through shared nodes and the chosen operands, from whatever   *)
(* the gradients were before (kad_grad, kautodiff.c:602-616).               *)
THEOREM BackPropagationCorrect == EvalSpec => []GradIsDerivative
<1>1. EvalInv => GradIsDerivative
  BY DEF EvalInv
<1>2. EvalSpec => []EvalInv
  BY EvalAssumption, EvalInvariant
<1>3. QED
  BY <1>1, <1>2, PTL

USE MtAssumption
-----------------------------------------------------------------------------
(* The inductive invariant.                                                *)

IdleWorkers == {w \in Workers : wpc[w] \in {"test", "wait", "relock"} /\ action[w] = 0}

\* The mutex is held exactly where the code is between lock and unlock.
LockInv == /\ mtx = 0 <=> mpc = "assign"
           /\ \A w \in Workers : mtx = w <=> wpc[w] \in {"mark", "test"}

\* n_idle counts the workers that have marked themselves since the last reset.
CountInv == mpc # "assign" => n_idle = Cardinality(IdleWorkers)

\* Where the workers can be in each phase of the caller.
PhaseInv ==
  /\ mpc = "none" => \A w \in Workers : wpc[w] = "exited"
  /\ mpc \in {"create", "join"} => i >= 1
  /\ mpc = "create" => \A w \in Workers :
       /\ action[w] = 0
       /\ IF w < i THEN wpc[w] \in {"lock", "mark", "test", "wait", "relock"}
                   ELSE wpc[w] = "exited"
  /\ mpc \in {"ready", "cost", "collect", "destroy"} => IdleWorkers = Workers
  /\ mpc = "assign" => \A w \in Workers :
       /\ wpc[w] \in {"wait", "relock"}
       /\ w < i => action[w] = 1
  /\ mpc \in {"own", "sync"} => \A w \in Workers :
       /\ action[w] \in {0, 1} /\ wpc[w] # "exited"
       /\ action[w] = 0 => w \in IdleWorkers
       /\ wpc[w] \in {"act", "run"} => seen[w] = 1
  /\ mpc = "join" => \A w \in Workers :
       /\ action[w] = -1
       /\ wpc[w] \in {"test", "relock", "act", "exited"}
       /\ wpc[w] = "act" => seen[w] = -1
       /\ w < i => wpc[w] = "exited"

\* The clones and the costs, and what is in them.
Input == Jobs \cup {NoJob}
Slice == [from : Nat, d : Nat, input : Input]
Cost == [label : Input, of : Slice]
Summand == [cost : Cost, weight : Nat]

DataType == /\ B \in 1 .. max_batch_size
            /\ job \in Input /\ request \in Input
            /\ slice \in [Threads -> Slice]
            /\ cost \in [Threads -> Cost]
            /\ arg \in [Workers -> Input]
            /\ total \in Seq(Summand)

Assigned(t) == /\ slice[t].input = job
               /\ Share(B, t) > 0 => /\ slice[t].from = FirstRow(B)[t]
                                     /\ slice[t].d = Share(B, t)
Computed(t) == cost[t] = [label |-> job, of |-> slice[t]]

\* What each thread has been given and has computed so far in this call.
CostInv ==
  /\ mpc \in {"assign", "own", "sync", "collect"} => request = job
  /\ mpc = "assign" => \A t \in Threads : t < i => Assigned(t)
  /\ mpc \in {"own", "sync", "collect"} => \A t \in Threads : Assigned(t)
  /\ mpc \in {"own", "sync", "collect"} => \A w \in Workers :
       /\ wpc[w] = "run" => arg[w] = job
       /\ wpc[w] \in {"lock", "mark"} \/ w \in IdleWorkers => Computed(w)
  /\ mpc \in {"sync", "collect"} => Computed(0)
  /\ mpc = "collect" =>
       /\ Len(total) = i
       /\ \A t \in 1 .. i : total[t] = [cost |-> cost[t-1], weight |-> Share(B, t-1)]

PoolInv == TypeOK /\ LockInv /\ CountInv /\ PhaseInv
CallInv == DataType /\ CostInv
-----------------------------------------------------------------------------
(* Splitting a batch.                                                      *)

LEMMA DivBound ==
    ASSUME NEW a \in Nat, NEW b \in Nat, b > 0
    PROVE  a \div b \in 0 .. a /\ (b = 1 => a \div b = a)
  OBVIOUS

\* The first row of a thread, from that of the thread before.
NextFirst(n, k, t) == k + (n - k) \div (n_threads - (t-1))

\* The recursive definition of FirstRow has a solution.
LEMMA FirstRowDef ==
    ASSUME NEW n \in Nat
    PROVE  FirstRow(n) = [t \in 0 .. n_threads |->
                            IF t = 0 THEN 0 ELSE NextFirst(n, FirstRow(n)[t-1], t)]
<1> DEFINE Solves(e, m) == e = [t \in 0 .. m |-> IF t = 0 THEN 0 ELSE NextFirst(n, e[t-1], t)]
           Upto == {m \in Nat : \E e : Solves(e, m)}
<1>1. 0 \in Upto
  <2>1. Solves([t \in 0 .. 0 |-> 0], 0)
    OBVIOUS
  <2>2. QED
    BY <2>1
<1>2. ASSUME NEW m \in Nat, m \in Upto PROVE m + 1 \in Upto
  <2>1. PICK e : Solves(e, m)
    BY <1>2
  <2> DEFINE h == [t \in 0 .. m + 1 |->
                     IF t <= m THEN e[t] ELSE NextFirst(n, e[m], m + 1)]
  <2>2. ASSUME NEW t \in 0 .. m + 1
        PROVE  h[t] = IF t = 0 THEN 0 ELSE NextFirst(n, h[t-1], t)
    <3>1. CASE t <= m
      <4>1. h[t] = e[t] /\ (t # 0 => h[t-1] = e[t-1])
        BY <3>1
      <4>2. QED
        BY <2>1, <3>1, <4>1
    <3>2. CASE t = m + 1
      BY <3>2
    <3>3. QED
      BY <3>1, <3>2
  <2>3. Solves(h, m + 1)
    BY <2>2
  <2>4. \E f : Solves(f, m + 1)
    <3> HIDE DEF h, Solves
    <3>1. QED
      BY <2>3
  <2>5. QED
    BY <2>4
<1>3. n_threads \in Upto
  <2> HIDE DEF Upto
  <2>1. QED
    BY <1>1, <1>2, NatSetInduction
<1>4. PICK e : Solves(e, n_threads)
  BY <1>3
<1>5. FirstRow(n) = CHOOSE k : Solves(k, n_threads)
  BY DEF FirstRow, NextFirst
<1>6. QED
  BY <1>4, <1>5

\* The shares are disjoint, in order, and end with the last row.
LEMMA FirstRowBounds ==
    ASSUME NEW n \in Nat
    PROVE  /\ FirstRow(n)[0] = 0 /\ FirstRow(n)[n_threads] = n
           /\ \A t \in 0 .. n_threads : FirstRow(n)[t] \in 0 .. n
           /\ \A t \in Threads : /\ Share(n, t) \in 0 .. n
                               /\ FirstRow(n)[t + 1] = FirstRow(n)[t] + Share(n, t)
<1> DEFINE F == FirstRow(n)
           Bounded == {m \in Nat : m <= n_threads => F[m] \in 0 .. n}
<1>1. F[0] = 0
  BY FirstRowDef
<1>2. ASSUME NEW t \in Threads
      PROVE  F[t + 1] = F[t] + Share(n, t)
  <2>1. t + 1 \in 0 .. n_threads /\ t + 1 # 0 /\ (t + 1) - 1 = t
    BY DEF Threads
  <2>2. F[t + 1] = NextFirst(n, F[t], t + 1)
    BY <2>1, FirstRowDef
  <2>3. QED
    BY <2>1, <2>2 DEF NextFirst, Share
<1>3. ASSUME NEW t \in Threads, F[t] \in 0 .. n
      PROVE  /\ Share(n, t) \in 0 .. n - F[t]
             /\ t = n_threads - 1 => Share(n, t) = n - F[t]
  <2>1. n - F[t] \in Nat /\ n_threads - t \in Nat /\ n_threads - t > 0
    BY <1>3 DEF Threads
  <2> HIDE DEF F
  <2>2. /\ (n - F[t]) \div (n_threads - t) \in 0 .. n - F[t]
        /\ n_threads - t = 1 => (n - F[t]) \div (n_threads - t) = n - F[t]
    BY <2>1, DivBound
  <2>3. t = n_threads - 1 => n_threads - t = 1
    BY DEF Threads
  <2>4. QED
    BY <2>2, <2>3 DEF Share, F
<1>4. n_threads \in Bounded /\ \A m \in Nat : m \in Bounded
  <2>1. 0 \in Bounded
    BY <1>1
  <2>2. ASSUME NEW m \in Nat, m \in Bounded PROVE m + 1 \in Bounded
    <3>1. CASE m + 1 <= n_threads
      <4>1. m \in Threads /\ F[m] \in 0 .. n
        BY <2>2, <3>1 DEF Threads
      <4>2. F[m + 1] \in 0 .. n
        <5> HIDE DEF F
        <5>1. QED
          BY <4>1, <1>2, <1>3
      <4>3. QED
        BY <4>2
    <3>2. QED
      BY <3>1
  <2>3. QED
    <3> HIDE DEF Bounded
    <3>1. QED
      BY <2>1, <2>2, NatSetInduction
<1>5. \A t \in 0 .. n_threads : F[t] \in 0 .. n
  BY <1>4
<1>6. F[n_threads] = n
  <2>1. n_threads - 1 \in Threads /\ n_threads - 1 \in 0 .. n_threads
    BY DEF Threads
  <2>2. F[n_threads - 1] \in 0 .. n
    BY <1>5, <2>1
  <2>3. Share(n, n_threads - 1) = n - F[n_threads - 1]
    BY <1>3, <2>1, <2>2
  <2>4. F[(n_threads - 1) + 1] = F[n_threads - 1] + Share(n, n_threads - 1)
    BY <1>2, <2>1
  <2> HIDE DEF F
  <2>5. QED
    BY <2>2, <2>3, <2>4
<1>7. ASSUME NEW t \in Threads PROVE Share(n, t) \in 0 .. n
  <2>1. F[t] \in 0 .. n
    BY <1>5 DEF Threads
  <2> HIDE DEF F
  <2>2. QED
    BY <2>1, <1>3
<1>8. QED
  BY <1>1, <1>2, <1>5, <1>6, <1>7

\* Each row of a batch is in the share of exactly one thread.
LEMMA SharesPartition ==
    ASSUME NEW n \in Nat, NEW row \in 0 .. n - 1
    PROVE  \E t \in Threads :
             /\ row \in FirstRow(n)[t] .. FirstRow(n)[t] + Share(n, t) - 1
             /\ \A u \in Threads :
                  row \in FirstRow(n)[u] .. FirstRow(n)[u] + Share(n, u) - 1 => u = t
<1> DEFINE F == FirstRow(n)
           Rising == {m \in Nat : m <= n_threads => \A t \in 0 .. m : F[t] <= F[m]}
           Covered == {m \in Nat : m <= n_threads /\ row < F[m] =>
                                      \E t \in Threads : F[t] <= row /\ row < F[t + 1]}
<1>1. /\ F[0] = 0 /\ F[n_threads] = n
      /\ \A t \in 0 .. n_threads : F[t] \in 0 .. n
      /\ \A t \in Threads : /\ Share(n, t) \in 0 .. n
                          /\ F[t + 1] = F[t] + Share(n, t)
  BY FirstRowBounds
<1> HIDE DEF F
<1>2. \A m \in Nat : m \in Rising
  <2>1. 0 \in Rising
    BY <1>1
  <2>2. ASSUME NEW m \in Nat, m \in Rising PROVE m + 1 \in Rising
    <3>1. SUFFICES ASSUME m + 1 <= n_threads, NEW t \in 0 .. m + 1
                   PROVE  F[t] <= F[m + 1]
      OBVIOUS
    <3>2. m \in Threads /\ m \in 0 .. n_threads /\ t \in 0 .. n_threads
      BY <3>1 DEF Threads
    <3>3. F[m + 1] \in Nat /\ F[m] \in Nat /\ F[m] <= F[m + 1]
      BY <1>1, <3>2
    <3>4. F[t] \in Nat
      BY <1>1, <3>2
    <3>5. CASE t <= m
      <4>1. F[t] <= F[m]
        BY <2>2, <3>1, <3>5
      <4>2. QED
        BY <3>3, <3>4, <4>1
    <3>6. CASE t = m + 1
      BY <3>6, <3>3
    <3>7. QED
      BY <3>5, <3>6
  <2>3. QED
    <3> HIDE DEF Rising
    <3>1. QED
      BY <2>1, <2>2, NatSetInduction
<1>3. \A m \in Nat : m \in Covered
  <2>1. 0 \in Covered
    BY <1>1
  <2>2. ASSUME NEW m \in Nat, m \in Covered PROVE m + 1 \in Covered
    <3>1. SUFFICES ASSUME m + 1 <= n_threads, row < F[m + 1]
                   PROVE  \E t \in Threads : F[t] <= row /\ row < F[t + 1]
      OBVIOUS
    <3>2. m \in Threads /\ F[m] \in Nat
      BY <3>1, <1>1 DEF Threads
    <3>3. CASE row < F[m]
      BY <2>2, <3>1, <3>3
    <3>4. CASE F[m] <= row
      BY <3>1, <3>2, <3>4
    <3>5. QED
      BY <3>2, <3>3, <3>4
  <2>3. QED
    <3> HIDE DEF Covered
    <3>1. QED
      BY <2>1, <2>2, NatSetInduction
<1>4. PICK t \in Threads : F[t] <= row /\ row < F[t + 1]
  <2>1. n_threads \in Covered
    BY <1>3
  <2>2. QED
    BY <2>1, <1>1
<1>5. ASSUME NEW u \in Threads, NEW z \in Threads, u < z,
             F[u] <= row, row < F[u + 1], F[z] <= row
      PROVE  FALSE
  <2>1. z \in Nat /\ z <= n_threads /\ u + 1 \in 0 .. z
        /\ z \in 0 .. n_threads /\ u + 1 \in 0 .. n_threads
    BY <1>5 DEF Threads
  <2>2. F[u + 1] <= F[z] /\ F[u + 1] \in Nat /\ F[z] \in Nat
    BY <2>1, <1>1, <1>2
  <2>3. QED
    BY <2>2, <1>5
<1>6. \A u \in Threads : row \in F[u] .. F[u] + Share(n, u) - 1 <=>
                          F[u] <= row /\ row < F[u + 1]
  <2>1. \A u \in Threads : u \in 0 .. n_threads
    BY DEF Threads
  <2>2. QED
    BY <1>1, <2>1
<1>7. \A u \in Threads : F[u] <= row /\ row < F[u + 1] => u = t
  BY <1>4, <1>5 DEF Threads
<1>8. QED
  BY <1>4, <1>6, <1>7 DEF F

-----------------------------------------------------------------------------
(* The pool: who holds the mutex, who is counted, who is where.            *)

LEMMA IdleFacts ==
    /\ IdleWorkers \subseteq Workers /\ IsFiniteSet(IdleWorkers)
    /\ Cardinality(IdleWorkers) \in 0 .. n_threads - 1
    /\ Cardinality(IdleWorkers) >= n_threads - 1 => IdleWorkers = Workers
<1>1. IdleWorkers \subseteq Workers
  BY DEF IdleWorkers
<1>2. IsFiniteSet(Workers) /\ Cardinality(Workers) = n_threads - 1
  BY FS_Interval DEF Workers
<1>3. /\ IsFiniteSet(IdleWorkers)
      /\ Cardinality(IdleWorkers) <= Cardinality(Workers)
      /\ Cardinality(Workers) = Cardinality(IdleWorkers) => Workers = IdleWorkers
  BY <1>1, <1>2, FS_Subset
<1>4. Cardinality(IdleWorkers) \in Nat
  BY <1>3, FS_CardinalityType
<1>5. QED
  BY <1>1, <1>2, <1>3, <1>4

LEMMA InitPool == Init => PoolInv
<1> SUFFICES ASSUME Init PROVE PoolInv
  OBVIOUS
<1> USE DEF Init, Workers, Threads, Free
<1>1. IdleWorkers = {}
  BY DEF IdleWorkers
<1>2. TypeOK
  BY DEF TypeOK
<1>3. LockInv
  BY DEF LockInv
<1>4. CountInv
  BY <1>1, FS_EmptySet DEF CountInv
<1>5. PhaseInv
  BY DEF PhaseInv
<1>6. QED
  BY <1>2, <1>3, <1>4, <1>5 DEF PoolInv

LEMMA CreateThreadPool ==
    ASSUME PoolInv, CreateThread
    PROVE  PoolInv'
<1> USE DEF PoolInv, TypeOK, LockInv, PhaseInv, CreateThread, Workers, Threads, Free,
            mainVars, poolVars, workVars
<1>1. IdleWorkers' = IdleWorkers
  BY DEF IdleWorkers
<1>2. TypeOK'
  OBVIOUS
<1>3. LockInv'
  OBVIOUS
<1>4. CountInv'
  BY <1>1 DEF CountInv
<1>5. PhaseInv'
  BY <1>1
<1>6. QED
  BY <1>2, <1>3, <1>4, <1>5

LEMMA CostLockPool ==
    ASSUME PoolInv, CostLock
    PROVE  PoolInv'
<1> USE DEF PoolInv, TypeOK, LockInv, PhaseInv, CostLock, Workers, Threads, Free,
            mainVars, poolVars, workVars
<1>1. IdleWorkers' = IdleWorkers
  BY DEF IdleWorkers
<1>2. TypeOK'
  OBVIOUS
<1>3. LockInv'
  OBVIOUS
<1>4. CountInv'
  BY <1>1 DEF CountInv
<1>5. PhaseInv'
  BY <1>1 DEF IdleWorkers
<1>6. QED
  BY <1>2, <1>3, <1>4, <1>5

LEMMA OwnSharePool ==
    ASSUME PoolInv, OwnShare
    PROVE  PoolInv'
<1> USE DEF PoolInv, TypeOK, LockInv, PhaseInv, OwnShare, Workers, Threads, Free,
            mainVars, poolVars, workVars
<1>1. IdleWorkers' = IdleWorkers
  BY DEF IdleWorkers
<1>2. TypeOK'
  OBVIOUS
<1>3. LockInv'
  OBVIOUS
<1>4. CountInv'
  BY <1>1 DEF CountInv
<1>5. PhaseInv'
  BY <1>1
<1>6. QED
  BY <1>2, <1>3, <1>4, <1>5

LEMMA CollectPool ==
    ASSUME PoolInv, Collect
    PROVE  PoolInv'
<1> USE DEF PoolInv, TypeOK, LockInv, PhaseInv, Collect, Workers, Threads, Free,
            mainVars, poolVars, workVars
<1>1. IdleWorkers' = IdleWorkers
  BY DEF IdleWorkers
<1>2. TypeOK'
  OBVIOUS
<1>3. LockInv'
  OBVIOUS
<1>4. CountInv'
  BY <1>1 DEF CountInv
<1>5. PhaseInv'
  BY <1>1
<1>6. QED
  BY <1>2, <1>3, <1>4, <1>5

LEMMA ReturnPool ==
    ASSUME PoolInv, Return
    PROVE  PoolInv'
<1> USE DEF PoolInv, TypeOK, LockInv, PhaseInv, Return, Workers, Threads, Free,
            mainVars, poolVars, workVars
<1>1. IdleWorkers' = IdleWorkers
  BY DEF IdleWorkers
<1>2. TypeOK'
  OBVIOUS
<1>3. LockInv'
  OBVIOUS
<1>4. CountInv'
  BY <1>1 DEF CountInv
<1>5. PhaseInv'
  BY <1>1
<1>6. QED
  BY <1>2, <1>3, <1>4, <1>5

LEMMA CallDestroyPool ==
    ASSUME PoolInv, CallDestroy
    PROVE  PoolInv'
<1> USE DEF PoolInv, TypeOK, LockInv, PhaseInv, CallDestroy, Workers, Threads, Free,
            mainVars, poolVars, workVars
<1>1. IdleWorkers' = IdleWorkers
  BY DEF IdleWorkers
<1>2. TypeOK'
  OBVIOUS
<1>3. LockInv'
  OBVIOUS
<1>4. CountInv'
  BY <1>1 DEF CountInv
<1>5. PhaseInv'
  BY <1>1
<1>6. QED
  BY <1>2, <1>3, <1>4, <1>5

LEMMA JoinPool ==
    ASSUME PoolInv, Join
    PROVE  PoolInv'
<1> USE DEF PoolInv, TypeOK, LockInv, PhaseInv, Join, Workers, Threads, Free,
            mainVars, poolVars, workVars
<1>1. IdleWorkers' = IdleWorkers
  BY DEF IdleWorkers
<1>2. TypeOK'
  OBVIOUS
<1>3. LockInv'
  OBVIOUS
<1>4. CountInv'
  BY <1>1 DEF CountInv
<1>5. PhaseInv'
  BY <1>1
<1>6. QED
  BY <1>2, <1>3, <1>4, <1>5

LEMMA DestroyedPool ==
    ASSUME PoolInv, Destroyed
    PROVE  PoolInv'
<1> USE DEF PoolInv, TypeOK, LockInv, PhaseInv, Destroyed, Workers, Threads, Free,
            mainVars, poolVars, workVars
<1>1. IdleWorkers' = IdleWorkers
  BY DEF IdleWorkers
<1>2. TypeOK'
  OBVIOUS
<1>3. LockInv'
  OBVIOUS
<1>4. CountInv'
  BY <1>1 DEF CountInv
<1>5. PhaseInv'
  BY <1>1
<1>6. QED
  BY <1>2, <1>3, <1>4, <1>5

LEMMA CallCostPool ==
    ASSUME PoolInv, NEW b \in Batches, NEW j \in Jobs, CallCost(b, j)
    PROVE  PoolInv'
<1> USE DEF PoolInv, TypeOK, LockInv, PhaseInv, CallCost, Workers, Threads, Free,
            mainVars, poolVars, workVars
<1>1. IdleWorkers' = IdleWorkers
  BY DEF IdleWorkers
<1>2. TypeOK'
  OBVIOUS
<1>3. LockInv'
  OBVIOUS
<1>4. CountInv'
  BY <1>1 DEF CountInv
<1>5. PhaseInv'
  BY <1>1
<1>6. QED
  BY <1>2, <1>3, <1>4, <1>5

LEMMA WorkerLockPool ==
    ASSUME PoolInv, NEW w \in Workers, WorkerLock(w)
    PROVE  PoolInv'
<1> USE DEF PoolInv, TypeOK, LockInv, PhaseInv, WorkerLock, Workers, Threads, Free,
            mainVars, poolVars, workVars
<1>1. IdleWorkers' = IdleWorkers
  BY DEF IdleWorkers
<1>2. TypeOK'
  OBVIOUS
<1>3. LockInv'
  OBVIOUS
<1>4. CountInv'
  BY <1>1 DEF CountInv
<1>5. PhaseInv'
  BY <1>1
<1>6. QED
  BY <1>2, <1>3, <1>4, <1>5

LEMMA CondWaitPool ==
    ASSUME PoolInv, NEW w \in Workers, CondWait(w)
    PROVE  PoolInv'
<1> USE DEF PoolInv, TypeOK, LockInv, PhaseInv, CondWait, Workers, Threads, Free,
            mainVars, poolVars, workVars
<1>1. IdleWorkers' = IdleWorkers
  BY DEF IdleWorkers
<1>2. TypeOK'
  OBVIOUS
<1>3. LockInv'
  OBVIOUS
<1>4. CountInv'
  BY <1>1 DEF CountInv
<1>5. PhaseInv'
  BY <1>1
<1>6. QED
  BY <1>2, <1>3, <1>4, <1>5

LEMMA SpuriousWakeupPool ==
    ASSUME PoolInv, NEW w \in Workers, SpuriousWakeup(w)
    PROVE  PoolInv'
<1> USE DEF PoolInv, TypeOK, LockInv, PhaseInv, SpuriousWakeup, Workers, Threads, Free,
            mainVars, poolVars, workVars
<1>1. IdleWorkers' = IdleWorkers
  BY DEF IdleWorkers
<1>2. TypeOK'
  OBVIOUS
<1>3. LockInv'
  OBVIOUS
<1>4. CountInv'
  BY <1>1 DEF CountInv
<1>5. PhaseInv'
  BY <1>1
<1>6. QED
  BY <1>2, <1>3, <1>4, <1>5

LEMMA TakeActionPool ==
    ASSUME PoolInv, NEW w \in Workers, TakeAction(w)
    PROVE  PoolInv'
<1> USE DEF PoolInv, TypeOK, LockInv, PhaseInv, TakeAction, Workers, Threads, Free,
            mainVars, poolVars, workVars
<1>1. IdleWorkers' = IdleWorkers
  BY DEF IdleWorkers
<1>2. TypeOK'
  OBVIOUS
<1>3. LockInv'
  OBVIOUS
<1>4. CountInv'
  BY <1>1 DEF CountInv
<1>5. PhaseInv'
  BY <1>1
<1>6. QED
  BY <1>2, <1>3, <1>4, <1>5

LEMMA StartCostPool ==
    ASSUME PoolInv, NEW w \in Workers, StartCost(w)
    PROVE  PoolInv'
<1> USE DEF PoolInv, TypeOK, LockInv, PhaseInv, StartCost, Workers, Threads, Free,
            mainVars, poolVars, workVars
<1>1. IdleWorkers' = IdleWorkers
  BY DEF IdleWorkers
<1>2. TypeOK'
  OBVIOUS
<1>3. LockInv'
  OBVIOUS
<1>4. CountInv'
  BY <1>1 DEF CountInv
<1>5. PhaseInv'
  BY <1>1
<1>6. QED
  BY <1>2, <1>3, <1>4, <1>5

LEMMA FinishCostPool ==
    ASSUME PoolInv, NEW w \in Workers, FinishCost(w)
    PROVE  PoolInv'
<1> USE DEF PoolInv, TypeOK, LockInv, PhaseInv, FinishCost, Workers, Threads, Free,
            mainVars, poolVars, workVars
<1>1. IdleWorkers' = IdleWorkers
  BY DEF IdleWorkers
<1>2. TypeOK'
  OBVIOUS
<1>3. LockInv'
  OBVIOUS
<1>4. CountInv'
  BY <1>1 DEF CountInv
<1>5. PhaseInv'
  BY <1>1
<1>6. QED
  BY <1>2, <1>3, <1>4, <1>5

LEMMA ExitPool ==
    ASSUME PoolInv, NEW w \in Workers, Exit(w)
    PROVE  PoolInv'
<1> USE DEF PoolInv, TypeOK, LockInv, PhaseInv, Exit, Workers, Threads, Free,
            mainVars, poolVars, workVars
<1>1. IdleWorkers' = IdleWorkers
  BY DEF IdleWorkers
<1>2. TypeOK'
  OBVIOUS
<1>3. LockInv'
  OBVIOUS
<1>4. CountInv'
  BY <1>1 DEF CountInv
<1>5. PhaseInv'
  BY <1>1
<1>6. QED
  BY <1>2, <1>3, <1>4, <1>5

LEMMA SyncThreadsPool ==
    ASSUME PoolInv, SyncThreads
    PROVE  PoolInv'
<1> USE DEF PoolInv, TypeOK, LockInv, PhaseInv, SyncThreads, Workers, Threads, Free,
            mainVars, poolVars, workVars
<1>1. IdleWorkers' = IdleWorkers /\ IdleWorkers = Workers
  BY IdleFacts DEF IdleWorkers, CountInv
<1>2. TypeOK'
  OBVIOUS
<1>3. LockInv'
  OBVIOUS
<1>4. CountInv'
  BY <1>1 DEF CountInv
<1>5. PhaseInv'
  BY <1>1
<1>6. QED
  BY <1>2, <1>3, <1>4, <1>5

LEMMA SyncCostPool ==
    ASSUME PoolInv, SyncCost
    PROVE  PoolInv'
<1> USE DEF PoolInv, TypeOK, LockInv, PhaseInv, SyncCost, Workers, Threads, Free,
            mainVars, poolVars, workVars
<1>1. IdleWorkers' = IdleWorkers /\ IdleWorkers = Workers
  BY IdleFacts DEF IdleWorkers, CountInv
<1>2. TypeOK'
  OBVIOUS
<1>3. LockInv'
  OBVIOUS
<1>4. CountInv'
  BY <1>1 DEF CountInv
<1>5. PhaseInv'
  BY <1>1
<1>6. QED
  BY <1>2, <1>3, <1>4, <1>5

LEMMA KannMtCreatePool ==
    ASSUME PoolInv, KannMtCreate
    PROVE  PoolInv'
<1> USE DEF PoolInv, TypeOK, LockInv, PhaseInv, KannMtCreate, Workers, Threads, Free,
            mainVars, poolVars, workVars
<1>1. IdleWorkers' = {} /\ Cardinality({}) = 0
  BY FS_EmptySet DEF IdleWorkers
<1>2. TypeOK'
  OBVIOUS
<1>3. LockInv'
  OBVIOUS
<1>4. CountInv'
  BY <1>1 DEF CountInv
<1>5. PhaseInv'
  BY <1>1
<1>6. QED
  BY <1>2, <1>3, <1>4, <1>5

LEMMA DispatchPool ==
    ASSUME PoolInv, Dispatch
    PROVE  PoolInv'
<1> USE DEF PoolInv, TypeOK, LockInv, PhaseInv, Dispatch, Broadcast, Workers, Threads, Free,
            mainVars, poolVars, workVars
<1>1. IdleWorkers' = {} /\ Cardinality({}) = 0
  BY FS_EmptySet DEF IdleWorkers
<1>2. TypeOK'
  OBVIOUS
<1>3. LockInv'
  OBVIOUS
<1>4. CountInv'
  BY <1>1 DEF CountInv
<1>5. PhaseInv'
  BY <1>1
<1>6. QED
  BY <1>2, <1>3, <1>4, <1>5

LEMMA DestroySignalPool ==
    ASSUME PoolInv, DestroySignal
    PROVE  PoolInv'
<1> USE DEF PoolInv, TypeOK, LockInv, PhaseInv, DestroySignal, Broadcast, Workers, Threads, Free,
            mainVars, poolVars, workVars
<1>1. IdleWorkers = Workers /\ IdleWorkers' = {} /\ Cardinality({}) = 0
  BY FS_EmptySet DEF IdleWorkers
<1>2. TypeOK'
  OBVIOUS
<1>3. LockInv'
  OBVIOUS
<1>4. CountInv'
  BY <1>1 DEF CountInv
<1>5. PhaseInv'
  BY <1>1 DEF IdleWorkers
<1>6. QED
  BY <1>2, <1>3, <1>4, <1>5

LEMMA AssignPool ==
    ASSUME PoolInv, Assign
    PROVE  PoolInv'
<1> USE DEF PoolInv, TypeOK, LockInv, PhaseInv, Assign, Workers, Threads, Free,
            mainVars, poolVars, workVars
<1>1. IdleWorkers \subseteq Workers
  BY DEF IdleWorkers
<1>2. TypeOK'
  OBVIOUS
<1>3. LockInv'
  OBVIOUS
<1>4. CountInv'
  BY <1>1 DEF CountInv
<1>5. PhaseInv'
  BY <1>1
<1>6. QED
  BY <1>2, <1>3, <1>4, <1>5

LEMMA MarkIdlePool ==
    ASSUME PoolInv, NEW w \in Workers, MarkIdle(w)
    PROVE  PoolInv'
<1> USE DEF PoolInv, TypeOK, LockInv, PhaseInv, MarkIdle, Workers, Threads, Free,
            mainVars, poolVars, workVars
<1>1. IdleWorkers' = IdleWorkers \cup {w} /\ w \notin IdleWorkers
  BY DEF IdleWorkers
<1>2. /\ Cardinality(IdleWorkers') = Cardinality(IdleWorkers) + 1
      /\ Cardinality(IdleWorkers) + 1 \in 0 .. n_threads - 1
  <2>1. Cardinality(IdleWorkers) + 1 = Cardinality(IdleWorkers \cup {w})
    BY <1>1, IdleFacts, FS_AddElement
  <2>2. IdleWorkers # Workers
    BY <1>1
  <2>3. QED
    BY <1>1, <2>1, <2>2, IdleFacts
<1>3. mpc # "assign"
  OBVIOUS
<1>4. TypeOK'
  BY <1>2, <1>3 DEF CountInv
<1>5. LockInv'
  OBVIOUS
<1>6. CountInv'
  BY <1>2, <1>3 DEF CountInv
<1>7. PhaseInv'
  BY <1>1 DEF IdleWorkers
<1>8. QED
  BY <1>4, <1>5, <1>6, <1>7

LEMMA StutterPool == PoolInv /\ UNCHANGED vars => PoolInv'
<1> SUFFICES ASSUME PoolInv, UNCHANGED vars PROVE PoolInv'
  OBVIOUS
<1> USE DEF PoolInv, vars, mainVars, poolVars, workVars
<1>1. IdleWorkers' = IdleWorkers
  BY DEF IdleWorkers
<1>2. TypeOK' /\ LockInv' /\ CountInv' /\ PhaseInv'
  BY <1>1 DEF TypeOK, LockInv, CountInv, PhaseInv
<1>3. QED
  BY <1>2

LEMMA StepPool == PoolInv /\ [Next]_vars => PoolInv'
<1> SUFFICES ASSUME PoolInv, [Next]_vars PROVE PoolInv'
  OBVIOUS
<1>1. CASE Call
  BY <1>1, KannMtCreatePool, CallDestroyPool, CallCostPool DEF Call
<1>2. CASE MainStep
  BY <1>2, CreateThreadPool, SyncThreadsPool, CostLockPool, AssignPool, DispatchPool,
     OwnSharePool, SyncCostPool, CollectPool, ReturnPool, DestroySignalPool, JoinPool,
     DestroyedPool
     DEF MainStep, CostStep, DestroyStep
<1>3. ASSUME NEW w \in Workers, WorkerLock(w) \/ WorkerStep(w) \/ SpuriousWakeup(w)
      PROVE  PoolInv'
  BY <1>3, WorkerLockPool, SpuriousWakeupPool, MarkIdlePool, CondWaitPool, TakeActionPool,
     StartCostPool, FinishCostPool, ExitPool
     DEF WorkerStep
<1>4. CASE UNCHANGED vars
  BY <1>4, StutterPool
<1>5. QED
  BY <1>1, <1>2, <1>3, <1>4 DEF Next

LEMMA PoolInvariant == Spec => []PoolInv
  BY InitPool, StepPool, PTL DEF Spec

\* While the caller believes the pool idle, from the end of the busy wait to the
\* next broadcast, no worker is computing or about to (kann.c:361-396).
THEOREM CallerAlone == Spec => []CallerAloneWhenSynced
<1>1. PoolInv => CallerAloneWhenSynced
  BY DEF PoolInv, PhaseInv, CallerAloneWhenSynced, Quiet, IdleWorkers
<1>2. QED
  BY <1>1, PoolInvariant, PTL

\* A worker that computes keeps its slice and its label until it is done: nobody
\* writes them although kann_cost_core runs without the lock (kann.c:299).
THEOREM SliceKept == Spec => SliceKeptWhileRunning
<1> DEFINE Kept == \A w \in Workers :
                     wpc[w] \in {"act", "run"} /\ seen[w] = 1 =>
                       slice'[w] = slice[w] /\ request' = request
<1>1. ASSUME PoolInv, [Next]_vars PROVE Kept
  <2>1. SUFFICES ASSUME NEW w \in Workers, wpc[w] \in {"act", "run"}, seen[w] = 1
                 PROVE  slice' = slice /\ request' = request
    OBVIOUS
  <2>2. mpc \in {"create", "own", "sync", "join"}
    BY <1>1, <2>1 DEF PoolInv, TypeOK, PhaseInv, IdleWorkers
  <2>3. CASE Call
    BY <2>2, <2>3 DEF Call, KannMtCreate, CallDestroy, CallCost
  <2>4. CASE MainStep
    BY <2>2, <2>4 DEF MainStep, CostStep, DestroyStep, CreateThread, SyncThreads,
       CostLock, Assign, Dispatch, OwnShare, SyncCost, Collect, Return, DestroySignal,
       Join, Destroyed, poolVars
  <2>5. CASE \E z \in Workers : WorkerLock(z) \/ WorkerStep(z) \/ SpuriousWakeup(z)
    BY <2>5 DEF WorkerLock, WorkerStep, SpuriousWakeup, MarkIdle, CondWait, TakeAction,
       StartCost, FinishCost, Exit, poolVars
  <2>6. CASE UNCHANGED vars
    BY <2>6 DEF vars, poolVars
  <2>7. QED
    BY <1>1, <2>3, <2>4, <2>5, <2>6 DEF Next
<1>2. PoolInv /\ [Next]_vars => [Kept]_vars
  BY <1>1
<1>3. QED
  BY <1>2, PoolInvariant, PTL DEF Spec, SliceKeptWhileRunning

-----------------------------------------------------------------------------
(* The call: what is handed out, computed and added up.                    *)

LEMMA SlicesInit ==
    ASSUME NoJob \in Input
    PROVE  /\ [t \in Threads |-> [from |-> 0, d |-> Share(max_batch_size, t), input |-> NoJob]]
                \in [Threads -> Slice]
           /\ \A s \in [Threads -> Slice] :
                [t \in Threads |-> [label |-> NoJob, of |-> s[t]]] \in [Threads -> Cost]
<1>1. \A t \in Threads : Share(max_batch_size, t) \in Nat
  BY FirstRowBounds
<1>2. QED
  BY <1>1 DEF Slice, Cost

LEMMA InitCall == Init => CallInv
<1> SUFFICES ASSUME Init PROVE CallInv
  OBVIOUS
<1>1. DataType
  BY SlicesInit DEF Init, DataType, Input, Workers
<1>2. CostInv
  BY DEF Init, CostInv
<1>3. QED
  BY <1>1, <1>2 DEF CallInv

LEMMA CreateThreadCall ==
    ASSUME PoolInv, CallInv, CreateThread
    PROVE  CallInv'
<1> USE DEF CallInv, CreateThread, mainVars, poolVars, workVars
<1>1. DataType'
  BY DEF DataType
<1>2. CostInv'
  BY DEF CostInv, Assigned, Computed, IdleWorkers
<1>3. QED
  BY <1>1, <1>2

LEMMA SyncThreadsCall ==
    ASSUME PoolInv, CallInv, SyncThreads
    PROVE  CallInv'
<1> USE DEF CallInv, SyncThreads, mainVars, poolVars, workVars
<1>1. DataType'
  BY DEF DataType
<1>2. CostInv'
  BY DEF CostInv, Assigned, Computed, IdleWorkers
<1>3. QED
  BY <1>1, <1>2

LEMMA CallDestroyCall ==
    ASSUME PoolInv, CallInv, CallDestroy
    PROVE  CallInv'
<1> USE DEF CallInv, CallDestroy, mainVars, poolVars, workVars
<1>1. DataType'
  BY DEF DataType
<1>2. CostInv'
  BY DEF CostInv, Assigned, Computed, IdleWorkers
<1>3. QED
  BY <1>1, <1>2

LEMMA ReturnCall ==
    ASSUME PoolInv, CallInv, Return
    PROVE  CallInv'
<1> USE DEF CallInv, Return, mainVars, poolVars, workVars
<1>1. DataType'
  BY DEF DataType
<1>2. CostInv'
  BY DEF CostInv, Assigned, Computed, IdleWorkers
<1>3. QED
  BY <1>1, <1>2

LEMMA DestroySignalCall ==
    ASSUME PoolInv, CallInv, DestroySignal
    PROVE  CallInv'
<1> USE DEF CallInv, DestroySignal, mainVars, poolVars, workVars
<1>1. DataType'
  BY DEF DataType
<1>2. CostInv'
  BY DEF CostInv, Assigned, Computed, IdleWorkers
<1>3. QED
  BY <1>1, <1>2

LEMMA JoinCall ==
    ASSUME PoolInv, CallInv, Join
    PROVE  CallInv'
<1> USE DEF CallInv, Join, mainVars, poolVars, workVars
<1>1. DataType'
  BY DEF DataType
<1>2. CostInv'
  BY DEF CostInv, Assigned, Computed, IdleWorkers
<1>3. QED
  BY <1>1, <1>2

LEMMA DestroyedCall ==
    ASSUME PoolInv, CallInv, Destroyed
    PROVE  CallInv'
<1> USE DEF CallInv, Destroyed, mainVars, poolVars, workVars
<1>1. DataType'
  BY DEF DataType
<1>2. CostInv'
  BY DEF CostInv, Assigned, Computed, IdleWorkers
<1>3. QED
  BY <1>1, <1>2

LEMMA KannMtCreateCall ==
    ASSUME PoolInv, CallInv, KannMtCreate
    PROVE  CallInv'
<1> USE DEF CallInv, KannMtCreate, mainVars, poolVars, workVars
<1>1. DataType'
  BY SlicesInit DEF DataType, Input
<1>2. CostInv'
  BY DEF CostInv, Assigned, Computed, IdleWorkers
<1>3. QED
  BY <1>1, <1>2

LEMMA CallCostCall ==
    ASSUME PoolInv, CallInv, NEW b \in Batches, NEW j \in Jobs, CallCost(b, j)
    PROVE  CallInv'
<1> USE DEF CallInv, CallCost, mainVars, poolVars, workVars
<1>1. DataType'
  BY DEF DataType, Input
<1>2. CostInv'
  BY DEF CostInv, Assigned, Computed, IdleWorkers
<1>3. QED
  BY <1>1, <1>2

LEMMA CostLockCall ==
    ASSUME PoolInv, CallInv, CostLock
    PROVE  CallInv'
<1> USE DEF CallInv, CostLock, mainVars, poolVars, workVars
<1>1. DataType'
  BY DEF DataType
<1>2. CostInv'
  BY DEF CostInv, Assigned, Computed, IdleWorkers, Threads
<1>3. QED
  BY <1>1, <1>2

LEMMA DispatchCall ==
    ASSUME PoolInv, CallInv, Dispatch
    PROVE  CallInv'
<1> USE DEF CallInv, Dispatch, Broadcast, mainVars, poolVars, workVars
<1>1. DataType'
  BY DEF DataType
<1>2. CostInv'
  BY DEF CostInv, Assigned, Computed, IdleWorkers, PoolInv, TypeOK, LockInv, PhaseInv,
     Workers, Threads
<1>3. QED
  BY <1>1, <1>2

LEMMA OwnShareCall ==
    ASSUME PoolInv, CallInv, OwnShare
    PROVE  CallInv'
<1> USE DEF CallInv, OwnShare, DataType, mainVars, poolVars, workVars
<1>1. DataType'
  BY DEF DataType, Slice, Cost, Summand, Input
<1>2. CostInv'
  BY DEF CostInv, Assigned, Computed, IdleWorkers, Workers, Threads
<1>3. QED
  BY <1>1, <1>2

LEMMA SyncCostCall ==
    ASSUME PoolInv, CallInv, SyncCost
    PROVE  CallInv'
<1> USE DEF CallInv, SyncCost, mainVars, poolVars, workVars
<1>1. DataType'
  BY DEF DataType
<1>2. CostInv'
  BY DEF CostInv, Assigned, Computed, IdleWorkers
<1>3. QED
  BY <1>1, <1>2

LEMMA WorkerLockCall ==
    ASSUME PoolInv, CallInv, NEW w \in Workers, WorkerLock(w)
    PROVE  CallInv'
<1> USE DEF CallInv, WorkerLock, DataType, mainVars, poolVars, workVars
<1>1. DataType'
  BY DEF DataType
<1>2. CostInv'
  BY DEF CostInv, Assigned, Computed, IdleWorkers, PoolInv, TypeOK, PhaseInv, LockInv,
     Workers, Threads
<1>3. QED
  BY <1>1, <1>2

LEMMA MarkIdleCall ==
    ASSUME PoolInv, CallInv, NEW w \in Workers, MarkIdle(w)
    PROVE  CallInv'
<1> USE DEF CallInv, MarkIdle, DataType, mainVars, poolVars, workVars
<1>1. DataType'
  BY DEF DataType
<1>2. CostInv'
  BY DEF CostInv, Assigned, Computed, IdleWorkers, PoolInv, TypeOK, PhaseInv, LockInv,
     Workers, Threads
<1>3. QED
  BY <1>1, <1>2

LEMMA CondWaitCall ==
    ASSUME PoolInv, CallInv, NEW w \in Workers, CondWait(w)
    PROVE  CallInv'
<1> USE DEF CallInv, CondWait, DataType, mainVars, poolVars, workVars
<1>1. DataType'
  BY DEF DataType
<1>2. CostInv'
  BY DEF CostInv, Assigned, Computed, IdleWorkers, PoolInv, TypeOK, PhaseInv, LockInv,
     Workers, Threads
<1>3. QED
  BY <1>1, <1>2

LEMMA SpuriousWakeupCall ==
    ASSUME PoolInv, CallInv, NEW w \in Workers, SpuriousWakeup(w)
    PROVE  CallInv'
<1> USE DEF CallInv, SpuriousWakeup, DataType, mainVars, poolVars, workVars
<1>1. DataType'
  BY DEF DataType
<1>2. CostInv'
  BY DEF CostInv, Assigned, Computed, IdleWorkers, PoolInv, TypeOK, PhaseInv, LockInv,
     Workers, Threads
<1>3. QED
  BY <1>1, <1>2

LEMMA TakeActionCall ==
    ASSUME PoolInv, CallInv, NEW w \in Workers, TakeAction(w)
    PROVE  CallInv'
<1> USE DEF CallInv, TakeAction, DataType, mainVars, poolVars, workVars
<1>1. DataType'
  BY DEF DataType
<1>2. CostInv'
  BY DEF CostInv, Assigned, Computed, IdleWorkers, PoolInv, TypeOK, PhaseInv, LockInv,
     Workers, Threads
<1>3. QED
  BY <1>1, <1>2

LEMMA StartCostCall ==
    ASSUME PoolInv, CallInv, NEW w \in Workers, StartCost(w)
    PROVE  CallInv'
<1> USE DEF CallInv, StartCost, DataType, mainVars, poolVars, workVars
<1>1. DataType'
  BY DEF DataType
<1>2. CostInv'
  BY DEF CostInv, Assigned, Computed, IdleWorkers, PoolInv, TypeOK, PhaseInv, LockInv,
     Workers, Threads
<1>3. QED
  BY <1>1, <1>2

LEMMA FinishCostCall ==
    ASSUME PoolInv, CallInv, NEW w \in Workers, FinishCost(w)
    PROVE  CallInv'
<1> USE DEF CallInv, FinishCost, DataType, mainVars, poolVars, workVars
<1>1. DataType'
  BY DEF DataType, Slice, Cost, Summand, Input
<1>2. mpc \in {"create", "own", "sync", "join"}
  BY DEF PoolInv, TypeOK, PhaseInv, IdleWorkers
<1>3. mpc \in {"own", "sync"} => arg[w] = job
  BY DEF CostInv
<1>4. cost' = [cost EXCEPT ![w] = [label |-> arg[w], of |-> slice[w]]] /\ w # 0
  BY DEF Workers
<1>5. \A t \in Threads : t # w => cost'[t] = cost[t]
  BY <1>4 DEF DataType
<1>6. mpc \in {"own", "sync"} => Computed(w)'
  BY <1>3, <1>4 DEF Computed, DataType, Workers, Threads
<1>7. \A z \in Workers : z # w => wpc'[z] = wpc[z]
  BY DEF PoolInv, TypeOK
<1>8. CostInv'
  <2>1. mpc \in {"own", "sync"} => \A z \in Workers :
          /\ wpc'[z] = "run" => arg'[z] = job'
          /\ wpc'[z] \in {"lock", "mark"} \/ z \in IdleWorkers' => Computed(z)'
    BY <1>5, <1>6, <1>7 DEF CostInv, Computed, IdleWorkers, Workers, Threads, PoolInv, TypeOK
  <2>2. mpc = "sync" => Computed(0)'
    BY <1>4, <1>5 DEF CostInv, Computed, Threads
  <2>3. QED
    BY <1>2, <2>1, <2>2 DEF CostInv, Assigned
<1>9. QED
  BY <1>1, <1>8

LEMMA ExitCall ==
    ASSUME PoolInv, CallInv, NEW w \in Workers, Exit(w)
    PROVE  CallInv'
<1> USE DEF CallInv, Exit, DataType, mainVars, poolVars, workVars
<1>1. DataType'
  BY DEF DataType
<1>2. CostInv'
  BY DEF CostInv, Assigned, Computed, IdleWorkers, PoolInv, TypeOK, PhaseInv, LockInv,
     Workers, Threads
<1>3. QED
  BY <1>1, <1>2

LEMMA AssignCall ==
    ASSUME PoolInv, CallInv, Assign
    PROVE  CallInv'
<1> USE DEF CallInv, Assign, mainVars, poolVars, workVars
<1>1. i \in Threads /\ B \in Nat
  BY DEF PoolInv, TypeOK, Threads, DataType
<1>2. Share(B, i) \in Nat /\ FirstRow(B)[i] \in Nat
  <2>1. i \in 0 .. n_threads
    BY <1>1 DEF Threads
  <2>2. Share(B, i) \in 0 .. B /\ FirstRow(B)[i] \in 0 .. B
    BY <1>1, <2>1, FirstRowBounds
  <2>3. QED
    BY <1>1, <2>2
<1> DEFINE s == [from |-> FirstRow(B)[i], input |-> job, d |-> SyncDim(slice[i].d, Share(B, i))]
<1>3. s \in Slice
  BY <1>1, <1>2 DEF DataType, Slice, SyncDim
<1>4. DataType'
  BY <1>3 DEF DataType
<1>5. slice'[i] = s /\ \A t \in Threads : t # i => slice'[t] = slice[t]
  BY <1>1 DEF DataType
<1>6. \A t \in Threads : t = i => Assigned(t)'
  BY <1>5 DEF Assigned, SyncDim
<1>7. \A t \in Threads : t < i => Assigned(t)'
  BY <1>1, <1>5 DEF CostInv, Assigned, Threads
<1>8. CostInv'
  BY <1>1, <1>6, <1>7 DEF CostInv, Threads
<1>9. QED
  BY <1>4, <1>8

LEMMA CollectCall ==
    ASSUME PoolInv, CallInv, Collect
    PROVE  CallInv'
<1> USE DEF CallInv, Collect, mainVars, poolVars, workVars
<1>1. i \in Threads /\ B \in Nat
  BY DEF PoolInv, TypeOK, Threads, DataType
<1>2. Share(B, i) \in Nat
  BY <1>1, FirstRowBounds
<1> DEFINE s == [cost |-> cost[i], weight |-> Share(B, i)]
<1>3. s \in Summand
  BY <1>1, <1>2 DEF DataType, Summand
<1>4. /\ total' \in Seq(Summand) /\ Len(total') = Len(total) + 1
      /\ total'[Len(total) + 1] = s
      /\ \A t \in 1 .. Len(total) : total'[t] = total[t]
  BY <1>3 DEF DataType
<1>5. DataType'
  BY <1>4 DEF DataType
<1>6. Len(total) = i
  BY DEF CostInv
<1>7. \A t \in 1 .. i + 1 : total'[t] = [cost |-> cost[t-1], weight |-> Share(B, t-1)]
  BY <1>1, <1>4, <1>6 DEF CostInv, Threads
<1>8. CostInv'
  BY <1>1, <1>4, <1>6, <1>7 DEF CostInv, Assigned, Computed, IdleWorkers
<1>9. QED
  BY <1>5, <1>8

LEMMA StutterCall == CallInv /\ UNCHANGED vars => CallInv'
  BY DEF CallInv, DataType, CostInv, Assigned, Computed, IdleWorkers, vars, mainVars,
         poolVars, workVars

LEMMA StepCall == PoolInv /\ CallInv /\ [Next]_vars => CallInv'
<1> SUFFICES ASSUME PoolInv, CallInv, [Next]_vars PROVE CallInv'
  OBVIOUS
<1>1. CASE Call
  BY <1>1, KannMtCreateCall, CallDestroyCall, CallCostCall DEF Call
<1>2. CASE MainStep
  BY <1>2, CreateThreadCall, SyncThreadsCall, CostLockCall, AssignCall, DispatchCall,
     OwnShareCall, SyncCostCall, CollectCall, ReturnCall, DestroySignalCall, JoinCall,
     DestroyedCall
     DEF MainStep, CostStep, DestroyStep
<1>3. ASSUME NEW w \in Workers, WorkerLock(w) \/ WorkerStep(w) \/ SpuriousWakeup(w)
      PROVE  CallInv'
  BY <1>3, WorkerLockCall, SpuriousWakeupCall, MarkIdleCall, CondWaitCall, TakeActionCall,
     StartCostCall, FinishCostCall, ExitCall
     DEF WorkerStep
<1>4. CASE UNCHANGED vars
  BY <1>4, StutterCall
<1>5. QED
  BY <1>1, <1>2, <1>3, <1>4 DEF Next

LEMMA CallInvariant == Spec => []CallInv
  BY InitCall, StepCall, PoolInvariant, PTL DEF Spec

\* What has been added up at the end of a call.
LEMMA SumsOfThisCall ==
    ASSUME PoolInv, CallInv, mpc = "collect", i = n_threads
    PROVE  /\ Len(total) = n_threads
           /\ \A t \in 1 .. n_threads :
                /\ total[t].cost.label = job /\ total[t].cost.of.input = job
                /\ total[t].weight > 0 => total[t].cost.of.d = total[t].weight
                /\ RowsOf(t) = FirstRow(B)[t-1] .. FirstRow(B)[t-1] + Share(B, t-1) - 1
<1>1. B \in Nat
  BY DEF CallInv, DataType
<1>2. SUFFICES ASSUME NEW t \in 1 .. n_threads
               PROVE  /\ total[t].cost.label = job /\ total[t].cost.of.input = job
                      /\ total[t].weight > 0 => total[t].cost.of.d = total[t].weight
                      /\ RowsOf(t) = FirstRow(B)[t-1] .. FirstRow(B)[t-1] + Share(B, t-1) - 1
  BY DEF CallInv, CostInv
<1>3. PICK u \in Threads : u = t - 1
  BY DEF Threads
<1>4. Computed(u) /\ Assigned(u)
  BY DEF PoolInv, PhaseInv, CallInv, CostInv, Threads, Workers
<1>5. total[t] = [cost |-> cost[u], weight |-> Share(B, u)]
  BY <1>3 DEF CallInv, CostInv
<1>6. /\ total[t].cost.label = job /\ total[t].cost.of.input = job
      /\ total[t].weight = Share(B, u)
      /\ Share(B, u) > 0 => /\ total[t].cost.of.from = FirstRow(B)[u]
                            /\ total[t].cost.of.d = Share(B, u)
  BY <1>4, <1>5 DEF Computed, Assigned
<1>7. Share(B, u) \in Nat /\ FirstRow(B)[u] \in Nat
  <2>1. u \in 0 .. n_threads
    BY DEF Threads
  <2>2. Share(B, u) \in 0 .. B /\ FirstRow(B)[u] \in 0 .. B
    BY <1>1, <2>1, FirstRowBounds
  <2>3. QED
    BY <1>1, <2>2
<1>8. RowsOf(t) = FirstRow(B)[u] .. FirstRow(B)[u] + Share(B, u) - 1
  BY <1>6, <1>7 DEF RowsOf
<1>9. QED
  BY <1>3, <1>6, <1>8

\* kann_cost adds up costs of this call only, and each row of the batch in exactly
\* one of them with a weight, however n_threads divides the batch (kann.c:361-396).
THEOREM CostsOfThisCall == Spec => []CostOfThisCall
<1>1. ASSUME PoolInv, CallInv PROVE CostOfThisCall
  <2>1. TypeOK /\ B \in Nat
    BY <1>1 DEF PoolInv, CallInv, DataType
  <2>2. SUFFICES ASSUME mpc = "collect", i = n_threads PROVE CostOfThisCall
    BY <2>1 DEF CostOfThisCall
  <2>3. /\ Len(total) = n_threads
        /\ \A t \in 1 .. n_threads :
             /\ total[t].cost.label = job /\ total[t].cost.of.input = job
             /\ total[t].weight > 0 => total[t].cost.of.d = total[t].weight
             /\ RowsOf(t) = FirstRow(B)[t-1] .. FirstRow(B)[t-1] + Share(B, t-1) - 1
    BY <1>1, <2>2, SumsOfThisCall
  <2>4. ASSUME NEW t \in 1 .. n_threads PROVE RowsOf(t) \subseteq 0 .. B - 1
    <3>1. PICK u \in Threads : u = t - 1 /\ u \in 0 .. n_threads /\ u + 1 \in 0 .. n_threads
      BY DEF Threads
    <3>2. /\ FirstRow(B)[u] \in 0 .. B /\ FirstRow(B)[u + 1] \in 0 .. B
          /\ FirstRow(B)[u + 1] = FirstRow(B)[u] + Share(B, u) /\ Share(B, u) \in 0 .. B
      BY <2>1, <3>1, FirstRowBounds
    <3>3. RowsOf(t) = FirstRow(B)[u] .. FirstRow(B)[u] + Share(B, u) - 1
      BY <2>3, <3>1
    <3>4. QED
      BY <2>1, <3>2, <3>3
  <2>5. ASSUME NEW row \in 0 .. B - 1
        PROVE  \E t \in 1 .. n_threads :
                 /\ row \in RowsOf(t)
                 /\ \A u \in 1 .. n_threads : row \in RowsOf(u) => u = t
    <3>1. PICK t \in Threads :
             /\ row \in FirstRow(B)[t] .. FirstRow(B)[t] + Share(B, t) - 1
             /\ \A u \in Threads :
                  row \in FirstRow(B)[u] .. FirstRow(B)[u] + Share(B, u) - 1 => u = t
      BY <2>1, SharesPartition
    <3>2. t + 1 \in 1 .. n_threads /\ (t + 1) - 1 = t
      BY DEF Threads
    <3>3. row \in RowsOf(t + 1)
      BY <2>3, <3>1, <3>2
    <3>4. ASSUME NEW u \in 1 .. n_threads, row \in RowsOf(u) PROVE u = t + 1
      <4>1. u - 1 \in Threads
        BY DEF Threads
      <4>2. u - 1 = t
        BY <2>3, <3>1, <3>4, <4>1
      <4>3. QED
        BY <4>2 DEF Threads
    <3>5. QED
      BY <3>2, <3>3, <3>4
  <2>6. QED
    BY <2>1, <2>3, <2>4, <2>5 DEF CostOfThisCall
<1>2. QED
  BY <1>1, PoolInvariant, CallInvariant, PTL
=============================================================================
