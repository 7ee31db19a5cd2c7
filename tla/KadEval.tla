------------------------------ MODULE KadEval ------------------------------
(***************************************************************************)
(* Evaluation and back-propagation on a compiled graph: kad_eval_at,       *)
(* kad_eval_marked and kad_grad in kautodiff.c, and the calls kann.c makes *)
(* of them.  Every node is a scalar and the numbers are the integers       *)
(* modulo the prime P: sums, products and formal derivatives are exact     *)
(* there, so a wrong term is a wrong number.                               *)
(***************************************************************************)
EXTENDS Integers, FiniteSets, SequencesExt

CONSTANTS
  Networks,  \* graphs: sequences of [op, child, ext], a child before its parents
  P

Exts == {"", "out", "cost"}   \* ext_flag
Ops == {"var", "feed", "add", "mul", "square", "select", "switch"}

(* What the constructors make: kad_op2_core, kad_op1_core, kad_pooling_general *)
(* and kad_switch; a leaf has no operands.                                  *)
Arity(op) ==
  CASE op \in {"var", "feed"} -> {0}
    [] op \in {"add", "mul"} -> {2}
    [] op = "square" -> {1}
    [] op \in {"select", "switch"} -> Nat \ {0}
WellBuilt ==
  /\ P \in Nat \ {0, 1}
  /\ \A v \in Networks :
       /\ v \in Seq([op : Ops, child : Seq(Nat), ext : Exts])
       /\ \A i \in DOMAIN v :
            Len(v[i].child) \in Arity(v[i].op) /\ ToSet(v[i].child) \subseteq 1 .. i - 1
ASSUME EvalAssumption == WellBuilt

VARIABLES
  v,     \* the compiled graph
  sel,   \* what ptr of the switches and selects holds: the chosen child
  x, g,  \* values and gradients
  mark,  \* kad_node_t::tmp: 1 needed, 0 not, -1 disabled
  last   \* the last call: its kind, the nodes asked for, the nodes disabled

evalVars == <<v, sel, x, g, mark, last>>

Num  == 0 .. P - 1
Nodes == DOMAIN v
Leaf(i) == v[i].child = <<>>
Var(i)  == v[i].op = "var"
Ext(e)  == {i \in Nodes : v[i].ext = e}
Selectors == {i \in Nodes : v[i].op \in {"switch", "select"}}   \* op 12

(* KAD_VAR, after kad_mark_back. *)
IsBack == LET b[i \in Nodes] == Var(i) \/ \E q \in ToSet(v[i].child) : b[q] IN b

-----------------------------------------------------------------------------
(* kad_op_add, kad_op_mul, kad_op_square, kad_op_select on scalars. *)

Forward(xs, i) ==
  LET c == v[i].child IN
  CASE v[i].op = "add"    -> (xs[c[1]] + xs[c[2]]) % P
    [] v[i].op = "mul"    -> (xs[c[1]] * xs[c[2]]) % P
    [] v[i].op = "square" -> (xs[c[1]] * xs[c[1]]) % P
    [] i \in Selectors      -> xs[c[sel[i]]]

(* What the operand in position k gets for each unit of p->g. *)
Partial(i, k) ==
  LET c == v[i].child IN
  CASE v[i].op = "add"    -> 1
    [] v[i].op = "mul"    -> x[c[3 - k]]
    [] v[i].op = "square" -> x[c[1]] + x[c[1]]
    [] i \in Selectors      -> IF k = sel[i] THEN 1 ELSE 0

BackwardOne(gs, i, k) ==
  LET q == v[i].child[k] IN
  IF IsBack[q] THEN [gs EXCEPT ![q] = (@ + gs[i] * Partial(i, k)) % P] ELSE gs
Backward(gs, i) ==
  LET gg[k \in 0 .. Len(v[i].child)] == IF k = 0 THEN gs ELSE BackwardOne(gg[k - 1], i, k)
  IN  gg[Len(v[i].child)]

-----------------------------------------------------------------------------
(* The child of a node that its mark is passed to. *)
\* Mutant of Wanted: a switch passes its mark to the child in position 1.
WantedFirst(i) == IF v[i].op = "switch" THEN {v[i].child[1]} ELSE ToSet(v[i].child)

Wanted(i) == IF v[i].op = "switch" THEN {v[i].child[sel[i]]} ELSE ToSet(v[i].child)

PassMark(t, i) ==
  IF t[i] > 0 THEN [q \in Nodes |-> IF q \in Wanted(i) /\ t[q] = 0 THEN 1 ELSE t[q]] ELSE t
(* From the last node to the first. *)
PropagateMarks(t) ==
  LET m[k \in 0 .. Len(v)] == IF k = 0 THEN t ELSE PassMark(m[k - 1], Len(v) + 1 - k)
  IN  m[Len(v)]

ForwardOne(xs, i, m) == IF ~Leaf(i) /\ m[i] > 0 THEN [xs EXCEPT ![i] = Forward(xs, i)] ELSE xs
EvalMarked(t) ==
  LET m == PropagateMarks(t)
      xs[k \in 0 .. Len(v)] == IF k = 0 THEN x ELSE ForwardOne(xs[k - 1], k, m)
  IN  xs[Len(v)]

MarkOnly(from) == [i \in Nodes |-> IF i = from THEN 1 ELSE 0]

(* The gradients with which the backward loop starts. *)
\* Mutant of ZeroGrads: only the variables start from zero.
ZeroGradsOfVars(m, from) ==
  [i \in Nodes |-> IF i = from THEN 1 ELSE IF Var(i) /\ m[i] > 0 THEN 0 ELSE g[i]]

ZeroGrads(m, from) ==
  [i \in Nodes |-> IF i = from THEN 1 ELSE IF IsBack[i] /\ m[i] > 0 THEN 0 ELSE g[i]]

(* From the node itself to the first. *)
BackPropagated(m, from) ==
  LET gs[k \in 0 .. from] ==
        LET i == from + 1 - k IN
        IF k = 0 THEN ZeroGrads(m, from)
        ELSE IF ~Leaf(i) /\ m[i] > 0 THEN Backward(gs[k - 1], i)
        ELSE gs[k - 1]
  IN  gs[from]

-----------------------------------------------------------------------------
(* Internal nodes have memory from realloc: whatever was there.  The        *)
(* gradients of the variables are cleared by kad_ext_collate.               *)
EvalInit ==
  /\ v \in Networks
  /\ sel = [i \in Selectors |-> IF v[i].op = "switch" THEN 1 ELSE Len(v[i].child)]
  /\ \E junk \in Num :
       /\ x = [i \in Nodes |-> IF Leaf(i) THEN 1 ELSE junk]
       /\ g = [i \in Nodes |-> IF Leaf(i) THEN 0 ELSE junk]
  /\ mark = [i \in Nodes |-> 0]
  /\ last = [kind |-> "none", roots |-> {}, off |-> {}]

(* A variable is trained or a feed is bound to other data. *)
SetLeaf(i, n) ==
  /\ Leaf(i) /\ x[i] # n
  /\ x' = [x EXCEPT ![i] = n]
  /\ last' = [kind |-> "none", roots |-> {}, off |-> {}]
  /\ UNCHANGED <<v, sel, g, mark>>

(* kann_switch_core: all nodes of operator 12 with two children. *)
KannSwitch(train) ==
  /\ sel' = [i \in Selectors |-> IF Len(v[i].child) = 2 THEN (IF train THEN 2 ELSE 1) ELSE sel[i]]
  /\ sel' # sel
  /\ last' = [kind |-> "none", roots |-> {}, off |-> {}]
  /\ UNCHANGED <<v, x, g, mark>>

(* kad_eval_disable, before kann_eval: of one node. *)
Disable(i) ==
  /\ \A q \in Nodes : mark[q] = 0
  /\ ~Leaf(i)
  /\ mark' = [mark EXCEPT ![i] = -1]
  /\ last' = [last EXCEPT !.kind = "none"]
  /\ UNCHANGED <<v, sel, x, g>>

(* kann_eval: the nodes with a label are marked, then kad_eval_marked. *)
\* Mutant of KannEval: the marks stay.
KannEvalNoReset(labelled) ==
  LET t == [i \in Nodes |-> IF i \in labelled THEN 1 ELSE mark[i]] IN
  /\ x' = EvalMarked(t)
  /\ mark' = PropagateMarks(t)
  /\ last' = [kind |-> "eval", roots |-> labelled, off |-> {i \in Nodes : t[i] = -1}]
  /\ UNCHANGED <<v, sel, g>>

KannEval(labelled) ==
  LET t == [i \in Nodes |-> IF i \in labelled THEN 1 ELSE mark[i]] IN
  /\ x' = EvalMarked(t)
  /\ mark' = [i \in Nodes |-> 0]
  /\ last' = [kind |-> "eval", roots |-> labelled, off |-> {i \in Nodes : t[i] = -1}]
  /\ UNCHANGED <<v, sel, g>>

(* kad_eval_at: it sets every tmp, so that a node is no longer disabled.  *)
KadEvalAt(from) ==
  /\ x' = EvalMarked(MarkOnly(from))
  /\ mark' = [i \in Nodes |-> 0]
  /\ last' = [kind |-> "eval", roots |-> {from}, off |-> {}]
  /\ UNCHANGED <<v, sel, g>>

(* kad_grad, which kann_cost_core calls after kad_eval_at of the same node. *)
KadGrad(from) ==
  /\ last.kind = "eval" /\ last.roots = {from} /\ last.off = {} /\ ~Leaf(from)
  /\ LET m == PropagateMarks(MarkOnly(from)) IN
     /\ g' = BackPropagated(m, from)
     /\ mark' = [i \in Nodes |-> IF i <= from THEN 0 ELSE m[i]]
  /\ last' = [last EXCEPT !.kind = "grad"]
  /\ UNCHANGED <<v, sel, x>>

EvalNext ==
  \/ \E i \in Nodes, n \in Num : SetLeaf(i, n)
  \/ \E train \in BOOLEAN : KannSwitch(train)
  \/ \E i \in Nodes : Disable(i)
  \/ \E i \in Ext("cost") : KadEvalAt(i) \/ KadGrad(i)
  \/ KannEval(Ext("out"))

EvalSpec == EvalInit /\ [][EvalNext]_evalVars

-----------------------------------------------------------------------------
EvalTypeOK ==
  /\ v \in Networks
  /\ x \in [Nodes -> Num] /\ g \in [Nodes -> Num]
  /\ mark \in [Nodes -> -1 .. 1]
  /\ \A i \in Selectors : sel[i] \in DOMAIN v[i].child
  /\ last.kind \in {"none", "eval", "grad"} /\ last.roots \cup last.off \subseteq Nodes

(* The value of a node, from the leaves and the disabled nodes. *)
Value ==
  LET f[i \in Nodes] ==
        IF Leaf(i) \/ i \in last.off THEN x[i]
        ELSE LET c == v[i].child IN
             CASE v[i].op = "add"    -> (f[c[1]] + f[c[2]]) % P
               [] v[i].op = "mul"    -> (f[c[1]] * f[c[2]]) % P
               [] v[i].op = "square" -> (f[c[1]] * f[c[1]]) % P
               [] i \in Selectors      -> f[c[sel[i]]]
  IN  f

(* The derivative of every node by variable w, from the leaves up. *)
Derivative(w) ==
  LET d[i \in Nodes] ==
        IF Leaf(i) THEN (IF i = w THEN 1 ELSE 0)
        ELSE LET c == v[i].child IN
             CASE v[i].op = "add"    -> (d[c[1]] + d[c[2]]) % P
               [] v[i].op = "mul"    -> (d[c[1]] * Value[c[2]] + Value[c[1]] * d[c[2]]) % P
               [] v[i].op = "square" -> (2 * Value[c[1]] * d[c[1]]) % P
               [] i \in Selectors      -> d[c[sel[i]]]
  IN  d

(* After an evaluation no node asked for has a stale value.                  *)
ValueIsCurrent == last.kind = "eval" => \A i \in last.roots : x[i] = Value[i]

(* kautodiff.h:98: the next compilation, clone or evaluation would take a    *)
(* mark that is left for its own.                                            *)
NoMarkLeft == last.kind # "none" => \A i \in Nodes : mark[i] = 0

(* An evaluation leaves the current value at every node asked for, however   *)
(* stale the values were and whatever the switches select, and no mark; a    *)
(* disabled node keeps the value it had (kautodiff.c:563-600).               *)
EvalGivesValue == EvalTypeOK /\ ValueIsCurrent /\ NoMarkLeft

(* Back-propagation gives each variable the function depends on its partial  *)
(* derivative, summed over all paths through the selected branches, however  *)
(* the gradients were left by the call before (kautodiff.c:602-616).         *)
Visited(from) == LET m == PropagateMarks(MarkOnly(from)) IN {i \in Nodes : m[i] > 0}
GradIsDerivative ==
  last.kind = "grad" =>
    \A from \in last.roots : \A w \in Visited(from) : Var(w) => g[w] = Derivative(w)[from]
=============================================================================
