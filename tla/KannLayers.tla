----------------------------- MODULE KannLayers -----------------------------
(***************************************************************************)
(* The layers of kann.c as compiled graphs of scalars: a graph is the      *)
(* sequence of its nodes, a child before its parents, and an operator of   *)
(* this module puts the nodes of a layer after those that are there.  The  *)
(* last node is the layer.  Normalization and dropout are left out.        *)
(***************************************************************************)
EXTENDS KadNum

Leaf(op) == [op |-> op, child |-> <<>>, pre |-> 0]
N(op, child) == [op |-> op, child |-> child, pre |-> 0]
Out(v) == Len(v)

(* act(in # W + h # U + b), the part that all recurrent layers have; its     *)
(* parameters are the nodes n + 1 (U), n + 2 (b) and n + 4 (W).              *)
Gate(v, in, h, act) ==
  LET n == Len(v) IN
  v \o <<Leaf("var"), Leaf("var"), N("mul", <<h, n + 1>>), Leaf("var"), N("mul", <<in, n + 4>>),
         N("add", <<n + 5, n + 3>>), N("add", <<n + 6, n + 2>>), N(act, <<n + 7>>)>>

InputLayer == <<Leaf("feed")>>
Dense(v) ==
  LET n == Len(v) IN
  v \o <<Leaf("var"), Leaf("var"), N("mul", <<n, n + 1>>), N("add", <<n + 3, n + 2>>)>>

(* A recurrent layer on the last node; h0 is a variable or a constant.       *)
Rnn(v, h0) ==
  LET n == Len(v)
      h == Gate(Append(v, Leaf(h0)), n, n + 1, "tanh")
  IN  [h EXCEPT ![Len(h)].pre = n + 1]

\* Mutant of Gru: the old value is kept for 1 - z.
GruSwapped(v, h0) ==
  LET n == Len(v)
      z == Gate(Append(v, Leaf(h0)), n, n + 1, "sigm")
      r == Gate(z, n, n + 1, "sigm")
      s == Gate(Append(r, N("mul", <<Out(r), n + 1>>)), n, Len(r) + 1, "tanh")
      m == Len(s)
  IN  s \o <<N("1minus", <<Out(z)>>), N("mul", <<m + 1, n + 1>>), N("mul", <<Out(z), m>>),
             [N("add", <<m + 2, m + 3>>) EXCEPT !.pre = n + 1]>>

Gru(v, h0) ==
  LET n == Len(v)
      z == Gate(Append(v, Leaf(h0)), n, n + 1, "sigm")
      r == Gate(z, n, n + 1, "sigm")
      s == Gate(Append(r, N("mul", <<Out(r), n + 1>>)), n, Len(r) + 1, "tanh")
      m == Len(s)
  IN  s \o <<N("1minus", <<Out(z)>>), N("mul", <<m + 1, m>>), N("mul", <<Out(z), n + 1>>),
             [N("add", <<m + 2, m + 3>>) EXCEPT !.pre = n + 1]>>

Lstm(v, h0) ==
  LET n == Len(v)
      i == Gate(v \o <<Leaf(h0), Leaf(h0)>>, n, n + 1, "sigm")
      f == Gate(i, n, n + 1, "sigm")
      o == Gate(f, n, n + 1, "sigm")
      g == Gate(o, n, n + 1, "tanh")
      m == Len(g)
  IN  g \o <<N("mul", <<Out(f), n + 2>>), N("mul", <<Out(g), Out(i)>>),
             [N("add", <<m + 1, m + 2>>) EXCEPT !.pre = n + 2],
             N("tanh", <<m + 3>>), [N("mul", <<m + 4, Out(o)>>) EXCEPT !.pre = n + 1]>>

(* kann_layer_cost with KANN_C_MSE.                                          *)
Cost(v) ==
  LET d == Dense(v)   n == Len(d) IN
  d \o <<Leaf("feed"), N("sub", <<n, n + 1>>), N("square", <<n + 2>>)>>
Pivot(v, op) == Append(v, N(op, <<Len(v)>>))
Model(layer) == Pivot(Cost(layer), "avg")

-----------------------------------------------------------------------------
(* The operators on scalars.  The activations are any two functions that    *)
(* differ.                                                                   *)
Act(op, n) == IF op = "sigm" THEN (n * n + 3) % P ELSE (n * n * n + 1) % P
Pools == {"avg", "last"}    \* kad_avg, and kad_select of the last
Unary == {"sigm", "tanh", "square", "1minus"}
Binary == {"add", "sub", "mul"}
OpValue(op, c) ==
  CASE op = "add"    -> (c[1] + c[2]) % P
    [] op = "sub"    -> (c[1] - c[2]) % P
    [] op = "mul"    -> (c[1] * c[2]) % P
    [] op = "square" -> (c[1] * c[1]) % P
    [] op = "1minus" -> (1 - c[1]) % P
    [] op \in {"sigm", "tanh"} -> Act(op, c[1])
    [] op = "avg"    -> (FoldLeft(LAMBDA s, n : s + n, 0, c) * Inv(Len(c))) % P
    [] op = "last"   -> c[Len(c)]

-----------------------------------------------------------------------------
(* The comments of kann_layer_gru2 and kann_layer_lstm: one step from the    *)
(* state h, or c and h, with the input n and the parameters p[1], p[2], ...,  *)
(* each of them with W, U and b.                                             *)
Affine(p, n, h) == (n * p.W + (h % P) * p.U + p.b) % P
DocRnn(p, n, h) == Act("tanh", Affine(p[1], n, h))
DocGru(p, n, h) ==
  LET z == Act("sigm", Affine(p[1], n, h))
      r == Act("sigm", Affine(p[2], n, h))
      s == Act("tanh", Affine(p[3], n, h * r))
  IN  (z * h + (1 - z) * s) % P
DocLstm(p, n, c, h) ==
  LET i == Act("sigm", Affine(p[1], n, h))
      f == Act("sigm", Affine(p[2], n, h))
      o == Act("sigm", Affine(p[3], n, h))
      g == Act("tanh", Affine(p[4], n, h))
      next == (c * f + g * i) % P
  IN  <<next, (Act("tanh", next) * o) % P>>
=============================================================================
