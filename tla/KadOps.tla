------------------------------- MODULE KadOps -------------------------------
(***************************************************************************)
(* The operators of kautodiff.c that only add, multiply, compare and move  *)
(* numbers, on one node: KAD_SYNC_DIM when the node is made, then passes   *)
(* of KAD_FORWARD and KAD_BACKWARD.  Arrays are flat and indexed from 0, as*)
(* kad_node_t::x is.                                                       *)
(***************************************************************************)
EXTENDS KadNum

CONSTANTS
  Cases,   \* [op, par, q]: operator, parameters, and [d, kind] of the operands
  Seeds,   \* numbers the values of the operands are generated from
  Tile     \* x of kad_sgemm_simple

Kinds == {"var", "const", "feed", "unbound", "net"}  \* "net": an operator
OpsAssumption ==
  /\ Tile \in Nat \ {0} /\ Seeds \subseteq Nat
  /\ \A c \in Cases : \A k \in DOMAIN c.q : /\ c.q[k].kind \in Kinds
                                           /\ c.op = "max" => c.q[k].kind \in {"var", "net"}

VARIABLES
  case,  \* the node: operator, parameters, operands
  q,     \* the operands, with x and g
  p,     \* the node, with d, x and g
  gtmp,  \* drawn in the forward pass of dropout and sample_normal
  phase  \* "new", "rejected", "ready", "forward", "above", "backward"

vars == <<case, q, p, gtmp, phase>>

Binary == {"add", "sub", "mul", "cmul", "matmul"}
Random == {"dropout", "sample_normal"}
Unary  == {"square", "1minus", "relu"} \cup Random
Reduce == {"reduce_sum", "reduce_mean"}
Pool   == {"avg", "max", "stack", "select"}

IsBack(c) == c.kind \in {"var", "net"}
Len0 == KadLen(q[1].d)
Len1 == KadLen(q[2].d)
Outer(d, axis) == KadLen(SubSeq(d, 1, axis))
Inner(d, axis) == KadLen(SubSeq(d, axis + 2, Len(d)))
AxisOK(d, axis) == axis >= 0 /\ axis < Len(d)

-----------------------------------------------------------------------------
(* kad_sgemm_simple: what it adds to C[i, j], flattened. *)

\* Mutant of Tiles: the last tile is left out when it is not full.
TilesFullOnly(n, i) == {t \in 0 .. n : t % Tile = 0 /\ t <= i /\ i < t + Tile /\ t + Tile <= n}

Tiles(n, i) == {t \in 0 .. n - 1 : t % Tile = 0 /\ t <= i /\ i < (IF n < t + Tile THEN n ELSE t + Tile)}

SgemmNT(M, N, K, a, b) ==
  Array(LAMBDA e : Cardinality(Tiles(M, e \div N)) * Cardinality(Tiles(N, e % N))
                   * Sum(LAMBDA k : a[((e \div N) * K) + k] * b[((e % N) * K) + k], K), M * N)
SgemmNN(M, N, K, a, b) ==
  Array(LAMBDA e : Sum(LAMBDA k : a[((e \div N) * K) + k] * b[(k * N) + (e % N)], K), M * N)
SgemmTN(M, N, K, a, b) ==
  Array(LAMBDA e : Sum(LAMBDA k : a[(k * M) + (e \div N)] * b[(k * N) + (e % N)], K), M * N)

(* kad_op_cmul: a row ends once it is as long as the longer last dimension. *)
NCol == LET a == Last(q[1].d) b == Last(q[2].d) IN IF a > b THEN a ELSE b
ColsOf(d) == FoldRight(LAMBDA m, n : IF n < NCol THEN n * m ELSE n, d, 1)

RowsOf(d) == IF Len(d) = 1 THEN 1 ELSE d[1]   \* kad_op_matmul

-----------------------------------------------------------------------------
(* KAD_SYNC_DIM: the shape of the node, or Rejected. *)
Rejected == <<0>>

(* kad_op_reshape infers dimensions that are not positive. *)
Reshape(aux, d) ==
  LET Missing(s) == {i \in DOMAIN s : s[i] <= 0}
      LenOf(s) == KadLen(SelectSeq(s, LAMBDA n : n > 0))
      Take(s, i) == IF s[i] <= 0 /\ i <= Len(d) /\ Cardinality(Missing(s)) > 1
                    THEN [s EXCEPT ![i] = d[i]] ELSE s
      t == FoldLeft(Take, aux, [i \in DOMAIN aux |-> i])
  IN  IF aux = <<>> THEN d
      ELSE IF Missing(aux) = {} THEN (IF LenOf(aux) = KadLen(d) THEN aux ELSE Rejected)
      ELSE IF Cardinality(Missing(t)) > 1 \/ KadLen(d) % LenOf(t) # 0 THEN Rejected
      ELSE [i \in DOMAIN t |-> IF t[i] <= 0 THEN KadLen(d) \div LenOf(t) ELSE t[i]]

(* kad_op_select counts its operands from the end, too.                      *)
Which(par, n) == IF par[1] < 0 THEN par[1] + n + 1 ELSE par[1] + 1

SyncDim(op, par, c) ==
  LET d == c[1].d
      SameLen == \A k \in DOMAIN c : KadLen(c[k].d) = KadLen(d)
      If(ok, shape) == IF ok THEN shape ELSE Rejected
  IN
  CASE op \in {"add", "sub", "mul"} -> If(Len0 % Len1 = 0, d)
    [] op = "cmul" -> If(ColsOf(d) = ColsOf(c[2].d), <<Len0 \div ColsOf(d), Len1 \div ColsOf(c[2].d)>>)
    [] op = "matmul" ->
         If(Len0 \div RowsOf(d) = RowsOf(c[2].d), <<RowsOf(d), Len1 \div RowsOf(c[2].d)>>)
    [] op \in Unary \cup {"reverse"} -> d
    [] op \in Reduce -> If(AxisOK(d, par[1]), RemoveAt(d, par[1] + 1))
    [] op = "slice" ->
         IF AxisOK(d, par[1])
         THEN If(par[2] < par[3] /\ par[2] >= 0 /\ par[3] <= d[par[1] + 1],
                 [d EXCEPT ![par[1] + 1] = par[3] - par[2]])
         ELSE Rejected
    [] op = "concat" ->
         If(\A k \in DOMAIN c : /\ Len(c[k].d) = Len(d)
                                /\ \A j \in DOMAIN d : j = par[1] + 1 \/ c[k].d[j] = d[j],
            [d EXCEPT ![par[1] + 1] = FoldLeft(LAMBDA n, e : n + e.d[par[1] + 1], 0, c)])
    [] op = "reshape" -> Reshape(par, d)
    [] op = "mse" -> If(SameLen, <<>>)
    [] op \in {"avg", "max"} -> If(SameLen, d)
    [] op = "stack" -> If(SameLen, <<Len(c)>> \o d)
    [] op = "select" -> LET s == c[Which(par, Len(c))].d
                        IN  If(SameLen /\ \A k \in DOMAIN c : Len(c[k].d) = Len(s), s)

-----------------------------------------------------------------------------
(* KAD_FORWARD: kad_node_t::x from the operands c and the draws r. *)

AxisOf == IF case.par[1] < 0 THEN case.par[1] + Len(q[1].d) ELSE case.par[1]
Chosen == Which(case.par, Len(q))

(* The flat index of position j on the axis with i outside and l inside, and *)
(* the three parts of an index.                                             *)
Flat(d, ax, i, j, l) == (i * d[ax + 1] + j) * Inner(d, ax) + l
Out(d, ax, e) == e \div (d[ax + 1] * Inner(d, ax))
Pos(d, ax, e) == (e \div Inner(d, ax)) % d[ax + 1]
Ins(d, ax, e) == e % Inner(d, ax)

Before(c, ax, k) == Sum(LAMBDA j : c[j + 1].d[ax + 1], k - 1)
BeforeBack(c, ax, k) == Sum(LAMBDA j : IF IsBack(c[j + 1]) THEN c[j + 1].d[ax + 1] ELSE 0, k - 1)

\* Mutant of FirstMax: operands are compared with the first one only.
FirstMaxOverFirst(c, i) ==
  CHOOSE k \in DOMAIN c :
    IF k = Len(c) THEN Greater(c[k].x[i], c[1].x[i]) ELSE k = 1 /\ ~Greater(c[Len(c)].x[i], c[1].x[i])

FirstMax(c, i) ==
  CHOOSE k \in DOMAIN c : \A j \in DOMAIN c :
    IF j < k THEN Greater(c[k].x[i], c[j].x[i]) ELSE ~Greater(c[j].x[i], c[k].x[i])

BinaryForward(c) ==
  LET x == c[1].x   y == c[2].x   d == p.d   n == KadLen(p.d)
      bound == \A k \in DOMAIN c : c[k].kind # "unbound" IN
  CASE case.op = "add" -> Array(LAMBDA e : x[e] + y[e % Len1], n)
    [] case.op = "sub" -> Array(LAMBDA e : x[e] - y[e % Len1], n)
    [] case.op \notin {"add", "sub"} /\ ~bound -> Array(LAMBDA e : 0, n)
    [] case.op = "mul" /\ bound -> Array(LAMBDA e : x[e] * y[e % Len1], n)
    [] case.op = "cmul" /\ bound -> SgemmNT(d[1], d[2], NCol, x, y)
    [] case.op = "matmul" /\ bound -> SgemmNN(d[1], d[2], RowsOf(c[2].d), x, y)

(* dropout and sample_normal scale each element by what was drawn for it.    *)
UnaryForward(x, r) ==
  LET n == KadLen(p.d) IN
  CASE case.op = "square" -> Array(LAMBDA e : x[e] * x[e], n)
    [] case.op = "1minus" -> Array(LAMBDA e : 1 - x[e], n)
    [] case.op = "relu" -> Array(LAMBDA e : IF Positive(x[e]) THEN x[e] ELSE 0, n)
    [] case.op \in Random -> Array(LAMBDA e : x[e] * r[e], n)

ReduceForward(c) ==
  LET ax == AxisOf   m == c.d[ax + 1]   d1 == Inner(c.d, ax)
      t == IF case.op = "reduce_sum" THEN 1 ELSE Inv(m)
  IN  Array(LAMBDA e : t * Sum(LAMBDA j : c.x[Flat(c.d, ax, e \div d1, j, e % d1)], m), KadLen(p.d))

SliceForward(c) ==
  LET ax == AxisOf   d == p.d IN
  Array(LAMBDA e : c.x[Flat(c.d, ax, Out(d, ax, e), case.par[2] + Pos(d, ax, e), Ins(d, ax, e))], KadLen(d))

ConcatForward(c) ==
  LET ax == AxisOf   d == p.d
      Holds(k, j) == j \in Before(c, ax, k) .. Before(c, ax, k) + c[k].d[ax + 1] - 1
      At(e) == LET j == Pos(d, ax, e)   k == CHOOSE k \in DOMAIN c : Holds(k, j)
               IN  c[k].x[Flat(c[k].d, ax, Out(d, ax, e), j - Before(c, ax, k), Ins(d, ax, e))]
  IN  Array(At, KadLen(d))

(* Forwards and backwards alike: kad_op_reverse is its own inverse.          *)
Reversed(x) ==
  LET ax == AxisOf   d == p.d IN
  Array(LAMBDA e : x[Flat(d, ax, Out(d, ax, e), d[ax + 1] - 1 - Pos(d, ax, e), Ins(d, ax, e))], KadLen(d))

PoolForward(c) ==
  LET n == KadLen(p.d) IN
  CASE case.op = "avg" -> Array(LAMBDA e : Inv(Len(c)) * Sum(LAMBDA k : c[k + 1].x[e], Len(c)), n)
    [] case.op = "max" -> Array(LAMBDA e : c[FirstMax(c, e)].x[e], n)
    [] case.op = "stack" -> Array(LAMBDA e : c[(e \div Len0) + 1].x[e % Len0], n)
    [] case.op = "select" -> c[Chosen].x

MseForward(x, y) ==
  Array(LAMBDA e : Inv(Len1) * Sum(LAMBDA i : (x[i] - y[i]) * (x[i] - y[i]), Len1), 1)

Forward(c, r) ==
  CASE case.op \in Binary -> BinaryForward(c)
    [] case.op \in Unary -> UnaryForward(c[1].x, r)
    [] case.op \in Reduce -> ReduceForward(c[1])
    [] case.op = "slice" -> SliceForward(c[1])
    [] case.op = "concat" -> ConcatForward(c)
    [] case.op = "reshape" -> c[1].x
    [] case.op = "reverse" -> Reversed(c[1].x)
    [] case.op \in Pool -> PoolForward(c)
    [] case.op = "mse" -> MseForward(c[1].x, c[2].x)

-----------------------------------------------------------------------------
(* KAD_BACKWARD: what is added to the gradient of operand k, which is KAD_VAR. *)

Zeros(k) == Array(LAMBDA e : 0, KadLen(q[k].d))

(* The second operand is used once for every row of the first.               *)
OverRows(F(_)) == Array(LAMBDA e : Sum(LAMBDA i : F(i * Len1 + e), KadLen(p.d) \div Len1), Len1)

BinaryBackward(k) ==
  LET x == q[1].x   y == q[2].x   pg == p.g   d == p.d
      bound == q[3 - k].kind # "unbound" IN
  CASE case.op = "add" -> IF k = 1 THEN pg ELSE OverRows(LAMBDA i : pg[i])
    [] case.op = "sub" -> IF k = 1 THEN pg ELSE OverRows(LAMBDA i : -pg[i])
    [] case.op \notin {"add", "sub"} /\ ~bound -> Zeros(k)
    [] case.op = "mul" /\ bound ->
         IF k = 1 THEN Array(LAMBDA e : pg[e] * y[e % Len1], Len0) ELSE OverRows(LAMBDA i : pg[i] * x[i])
    [] case.op = "cmul" /\ bound ->
         IF k = 1 THEN SgemmNN(d[1], NCol, d[2], pg, y) ELSE SgemmTN(d[2], NCol, d[1], pg, x)
    [] case.op = "matmul" /\ bound ->
         IF k = 1 THEN SgemmNT(d[1], RowsOf(q[2].d), d[2], pg, y) ELSE SgemmTN(RowsOf(q[2].d), d[2], d[1], x, pg)

UnaryBackward(x) ==
  CASE case.op = "square" -> Array(LAMBDA e : p.g[e] * (x[e] + x[e]), Len0)
    [] case.op = "1minus" -> Array(LAMBDA e : -p.g[e], Len0)
    [] case.op = "relu" -> Array(LAMBDA e : IF Positive(x[e]) THEN p.g[e] ELSE 0, Len0)
    [] case.op \in Random -> Array(LAMBDA e : p.g[e] * gtmp[e], Len0)

ReduceBackward(d) ==
  LET ax == AxisOf   t == IF case.op = "reduce_sum" THEN 1 ELSE Inv(d[ax + 1]) IN
  Array(LAMBDA e : t * p.g[Out(d, ax, e) * Inner(d, ax) + Ins(d, ax, e)], Len0)

SliceBackward(d) ==
  LET ax == AxisOf   At(e) == Pos(d, ax, e) - case.par[2] IN
  Array(LAMBDA e : IF At(e) \in 0 .. p.d[ax + 1] - 1
                   THEN p.g[Flat(p.d, ax, Out(d, ax, e), At(e), Ins(d, ax, e))] ELSE 0, Len0)

(* k += q->d[axis] is not reached for an operand without gradient.           *)
ConcatBackward(k) ==
  LET ax == AxisOf   d == q[k].d IN
  Array(LAMBDA e : p.g[Flat(p.d, ax, Out(d, ax, e), BeforeBack(q, ax, k) + Pos(d, ax, e), Ins(d, ax, e))],
        KadLen(d))

PoolBackward(k) ==
  CASE case.op = "avg" -> Array(LAMBDA e : Inv(Len(q)) * p.g[e], Len0)
    [] case.op = "max" -> Array(LAMBDA e : IF FirstMax(q, e) = k THEN p.g[e] ELSE 0, Len0)
    [] case.op = "stack" -> Array(LAMBDA e : p.g[(k - 1) * Len0 + e], Len0)
    [] case.op = "select" -> IF k = Chosen THEN p.g ELSE Zeros(k)

MseBackward(x, y) == Array(LAMBDA e : 2 * p.g[0] * Inv(Len1) * (x[e] - y[e]), Len1)

Backward(k) ==
  CASE case.op \in Binary -> BinaryBackward(k)
    [] case.op \in Unary -> IF k = 1 THEN UnaryBackward(q[1].x) ELSE Zeros(k)
    [] case.op \in Reduce -> ReduceBackward(q[1].d)
    [] case.op = "slice" -> SliceBackward(q[1].d)
    [] case.op = "concat" -> ConcatBackward(k)
    [] case.op = "reshape" -> p.g
    [] case.op = "reverse" -> Reversed(p.g)
    [] case.op \in Pool -> PoolBackward(k)
    [] case.op = "mse" -> IF k = 1 THEN MseBackward(q[1].x, q[2].x) ELSE Zeros(k)

-----------------------------------------------------------------------------
Fill(s, k, n) == Array(LAMBDA e : s * (e + k) + e * e + k, n)
Operands(cs, s) ==
  [k \in DOMAIN cs.q |-> [d |-> cs.q[k].d, kind |-> cs.q[k].kind,
                          x |-> Fill(s, k, KadLen(cs.q[k].d)), g |-> Fill(s + 1, k, KadLen(cs.q[k].d))]]

Init ==
  /\ case \in Cases
  /\ \E s \in Seeds : q = Operands(case, s)
  /\ p = [d |-> <<>>, x |-> <<>>, g |-> <<>>]
  /\ gtmp = <<>> /\ phase = "new"

(* kad_finalize_node: the node or, when KAD_SYNC_DIM fails, no node. *)
Finalize ==
  /\ phase = "new"
  /\ LET d == SyncDim(case.op, case.par, q) IN
     IF d = Rejected THEN phase' = "rejected" /\ UNCHANGED p
     ELSE phase' = "ready" /\ p' = [p EXCEPT !.d = d]
  /\ UNCHANGED <<case, q, gtmp>>

(* dropout keeps an element with the factor 1 / (1 - rate), at rate 0 each  *)
(* one; the operand of a network is dropped, not a parameter or data.       *)
Draws ==
  LET n == 0 .. KadLen(p.d) - 1
      rate == IF q[1].kind \in {"const", "var"} THEN 0 ELSE q[2].x[0]
      z == Inv((1 - rate) % P)
  IN
  CASE case.op = "dropout" -> IF rate = 0 THEN {[e \in n |-> z]} ELSE [n -> {0, z}]
    [] case.op = "sample_normal" -> [n -> Num]
    [] OTHER -> {<<>>}

ForwardPass ==
  /\ phase = "ready"
  /\ gtmp' \in Draws
  /\ p' = [p EXCEPT !.x = Forward(q, gtmp')]
  /\ phase' = "forward"
  /\ UNCHANGED <<case, q>>

(* The nodes above have put a gradient here: one component at a time shows  *)
(* where it goes, as the pass is linear in it.                              *)
GradArrives ==
  /\ phase = "forward"
  /\ \E i \in DOMAIN p.x : p' = [p EXCEPT !.g = [e \in DOMAIN p.x |-> IF e = i THEN 1 ELSE 0]]
  /\ phase' = "above"
  /\ UNCHANGED <<case, q, gtmp>>

(* kad_op_max alone does not ask whether an operand has a gradient: it is    *)
(* given operands that have (OpsAssumption).                                *)
Receives(c) == IsBack(c) \/ case.op = "max"

BackwardPass ==
  /\ phase = "above"
  /\ q' = [k \in DOMAIN q |-> IF Receives(q[k]) THEN [q[k] EXCEPT !.g = AddTo(@, Backward(k))] ELSE q[k]]
  /\ phase' = "backward"
  /\ UNCHANGED <<case, p, gtmp>>

(* Other rows are copied to the bound feeds, after the variables have been   *)
(* trained: the next round.                                                 *)
NextRound(s) ==
  /\ phase = "backward"
  /\ q' = Operands(case, s)
  /\ p' = [p EXCEPT !.g = <<>>]
  /\ phase' = "ready"
  /\ UNCHANGED <<case, gtmp>>

(* The program sees that there is no node, or that it has no other round.   *)
Stop == phase = "rejected" /\ UNCHANGED vars

Next ==
  \/ Finalize \/ ForwardPass \/ GradArrives \/ BackwardPass \/ Stop
  \/ \E s \in Seeds : NextRound(s)

Spec == Init /\ [][Next]_vars

-----------------------------------------------------------------------------
TypeOK ==
  /\ phase \in {"new", "rejected", "ready", "forward", "above", "backward"}
  /\ \A k \in DOMAIN q : {q[k].x, q[k].g} \subseteq [0 .. KadLen(q[k].d) - 1 -> Num]
  /\ phase \notin {"new", "rejected"} => \A i \in DOMAIN p.d : p.d[i] > 0
  /\ phase \in {"forward", "above", "backward"} => p.x \in [0 .. KadLen(p.d) - 1 -> Num]

-----------------------------------------------------------------------------
(* What kautodiff.h says the value of a node is, by coordinates.            *)
Stride(d, i) == KadLen(SubSeq(d, i + 1, Len(d)))
Coordinates(d, e) == [i \in DOMAIN d |-> (e \div Stride(d, i)) % d[i]]
At(c, t) == c.x[FoldLeft(LAMBDA n, i : n + t[i] * Stride(c.d, i), 0, [i \in DOMAIN t |-> i])]
ZeroIfUnbound(c) == IF c.kind = "unbound" THEN [c EXCEPT !.x = [e \in DOMAIN @ |-> 0]] ELSE c

Moving == {"add", "sub", "mul", "cmul", "matmul", "reduce_sum", "reduce_mean", "slice", "concat",
           "reshape", "reverse", "stack", "max"}
Documented(e) ==
  LET t == Coordinates(p.d, e)
      c == [k \in DOMAIN q |-> ZeroIfUnbound(q[k])]
      x == c[1].x   y == c[2].x   ax == AxisOf + 1   inner == Len0 \div p.d[1]
      From(k) == FoldLeft(LAMBDA n, b : n + b.d[ax], 0, SubSeq(q, 1, k - 1))
      Row == {At(c[1], InsertAt(t, ax, j)) : j \in 0 .. q[1].d[ax] - 1}
  IN
  CASE case.op = "add" -> {x[e] + y[e % Len1]}
    [] case.op = "sub" -> {x[e] - y[e % Len1]}
    [] case.op = "mul" -> {x[e] * y[e % Len1]}
    [] case.op = "cmul" -> {Sum(LAMBDA k : x[t[1] * inner + k] * y[t[2] * inner + k], inner)}
    [] case.op = "matmul" -> {Sum(LAMBDA k : x[t[1] * inner + k] * y[k * p.d[2] + t[2]], inner)}
    [] case.op = "reduce_sum" -> {Sum(LAMBDA j : At(q[1], InsertAt(t, ax, j)), q[1].d[ax])}
    [] case.op = "reduce_mean" ->
         {m \in Num : (m * q[1].d[ax]) % P = Sum(LAMBDA j : At(q[1], InsertAt(t, ax, j)), q[1].d[ax]) % P}
    [] case.op = "slice" -> {At(q[1], [t EXCEPT ![ax] = @ + case.par[2]])}
    [] case.op = "concat" ->
         {At(q[k], [t EXCEPT ![ax] = @ - From(k)]) :
            k \in {k \in DOMAIN q : t[ax] \in From(k) .. From(k) + q[k].d[ax] - 1}}
    [] case.op = "reshape" -> {x[e]}
    [] case.op = "reverse" -> {At(q[1], [t EXCEPT ![ax] = q[1].d[ax] - 1 - @])}
    [] case.op = "stack" -> {At(q[t[1] + 1], Tail(t))}
    [] case.op = "max" ->
         {n \in {q[k].x[e] : k \in DOMAIN q} : \A k \in DOMAIN q : ~Greater(q[k].x[e], n)}

(* The loops over rows, tiles, axes and offsets put into each element what   *)
(* kautodiff.h:173-223 says is there, and each shape that KAD_SYNC_DIM       *)
(* accepts keeps them inside the arrays of the operands.                     *)
ValueAsDocumented ==
  phase = "forward" /\ case.op \in Moving =>
    \A e \in DOMAIN p.x : {p.x[e]} = {n % P : n \in Documented(e)}

(* kad_check_grad: the gradient agrees with the difference quotient, which   *)
(* is exact here as no operator is of a higher degree than two.             *)
Nudged(k, e, h) == [q EXCEPT ![k].x[e] = (@ + h) % P]
Slope(k, e, i) == (Inv(2) * (Forward(Nudged(k, e, 1), gtmp)[i] - Forward(Nudged(k, e, -1), gtmp)[i])) % P
Component == CHOOSE i \in DOMAIN p.g : p.g[i] = 1

(* Every operand that needs one gets its gradient, added to what other nodes *)
(* have left there (kautodiff.c:1059-1490, 1768-1870).                       *)
GradIsSlope ==
  [][phase' = "backward" /\ case.op \notin {"relu", "max"} =>
       \A k \in DOMAIN q : IsBack(q[k]) =>
         \A e \in DOMAIN q[k].x : q'[k].g[e] = (q[k].g[e] + Slope(k, e, Component)) % P]_vars

(* That of relu passes where the node has kept its operand, and only there.  *)
ReluGradWhereOpen ==
  [][phase' = "backward" /\ case.op = "relu" =>
       \A e \in DOMAIN p.x :
         q'[1].g[e] = (q[1].g[e] + (IF p.x[e] # 0 THEN p.g[e] ELSE 0)) % P]_vars

(* The gradient of a maximum goes to one operand, and that has the maximum.  *)
MaxGradHasOneTaker ==
  [][phase' = "backward" /\ case.op = "max" =>
       LET takers == {k \in DOMAIN q : q'[k].g # q[k].g} IN
       /\ Cardinality(takers) = 1
       /\ \A k \in takers, j \in DOMAIN q : ~Greater(q[j].x[Component], q[k].x[Component])]_vars
=============================================================================
