----------------------------- MODULE KannUnroll -----------------------------
(***************************************************************************)
(* kad_unroll: a recurrent network is copied step by step into one that    *)
(* has no recurrence, the copy is evaluated, and with kann_rnn_start its   *)
(* next block of steps goes on where the last one ended.  Nodes are        *)
(* scalars with values modulo P.                                           *)
(***************************************************************************)
EXTENDS KannLayers

CONSTANTS
  RnnGraphs,      \* compiled networks
  Lens,           \* lengths to unroll to
  Blocks,         \* bound: evaluations of the unrolled network
  Param(_),       \* the value of leaf n
  Input(_, _, _)  \* what feed n gets in a block, at a step

UnrollOps == {"var", "const", "feed"} \cup Unary \cup Binary \cup Pools
External(v, n) == v[n].op \in {"var", "const"}
IsPivot(v, n) == v[n].op \in Pools /\ Len(v[n].child) = 1

(* Flag 16: what is copied at each step, down to other pivots.  It is passed *)
(* from node n's users to n, from the last node to the first.                *)
FlagNode(v, p, f, n) ==
  IF \E m \in f \cup {p} : n \in ToSet(v[m].child) /\ (m = p \/ ~IsPivot(v, m)) THEN f \cup {n} ELSE f
Flagged(v, p) ==
  LET f[n \in 0 .. p - 1] == IF n = 0 THEN {} ELSE FlagNode(v, p, f[n - 1], p - n)
  IN  f[p - 1]

(* A node comes after its operands and its predecessor.  What a pivot pools  *)
(* is computed at each step, and a recurrent node uses its predecessor.      *)
ASSUME UnrollAssumption ==
  /\ Lens \subseteq Nat \ {0} /\ Blocks \in Nat
  /\ \A v \in RnnGraphs :
       /\ v \in Seq([op : UnrollOps, child : Seq(Nat), pre : Nat])
       /\ \A n \in DOMAIN v : ToSet(v[n].child) \subseteq 1 .. n - 1 /\ v[n].pre \in 0 .. n - 1
       /\ \A p \in DOMAIN v : IsPivot(v, p) =>
            /\ ~External(v, v[p].child[1]) /\ ~IsPivot(v, v[p].child[1])
            /\ \A n \in Flagged(v, p) : v[n].pre # v[p].child[1] /\ v[n].pre \in Flagged(v, p) \cup {0}

VARIABLES
  net,      \* v, the network
  lens,     \* len, the length for each pivot
  uphase,   \* "helper", "rest", "ready", "running"
  pv, turn, node,  \* the pivot, step (l) and node (i) that kad_unroll_helper is at
  flag,     \* for each pivot, the nodes with flag 16
  copies,   \* t, the latest copy of each node
  firsts,   \* aux, the first copy of a node with flag 2
  made,     \* the copies: [of, child, pre]
  wlist,    \* w, the new graph, in its order
  started,  \* kann_rnn_start was called
  block, cells     \* blocks evaluated, and the contents of the array of each copy

unrollVars ==
  <<net, lens, uphase, pv, turn, node, flag, copies, firsts, made, wlist, started, block, cells>>

NetNodes == DOMAIN net
Op(n) == net[n].child # <<>>
(* "collect pivots" *)
PivotList ==
  LET s[n \in 0 .. Len(net)] ==
        IF n = 0 THEN <<>> ELSE IF IsPivot(net, n) THEN Append(s[n - 1], n) ELSE s[n - 1]
  IN  s[Len(net)]
Pres == {net[n].pre : n \in flag[pv]} \ {0}               \* flag 2

\* Mutant of Once: a variable is copied at each step.
OnceOnlyPre(n) == n \in Pres \/ IsPivot(net, n)

(* Flags 1 and 2: not to be copied again. *)
Once(n) == External(net, n) \/ IsPivot(net, n) \/ n \in Pres

-----------------------------------------------------------------------------
UnrollInit ==
  /\ net \in RnnGraphs
  /\ lens \in [DOMAIN PivotList -> Lens]
  /\ uphase = "helper" /\ pv = 1 /\ turn = 0 /\ node = 1 /\ flag = <<>>
  /\ copies = [n \in NetNodes |-> 0] /\ firsts = [n \in NetNodes |-> 0]
  /\ made = <<>> /\ wlist = <<>>
  /\ started = FALSE /\ block = 0 /\ cells = <<>>

P0 == PivotList[pv]
Dup(n) == [of |-> n, child |-> [j \in DOMAIN net[n].child |-> copies[net[n].child[j]]], pre |-> 0]
Id == Len(made) + 1

\* Mutant of StartPivot: the pivot comes before what it pools.
StartPivotPushes ==
  /\ uphase = "helper" /\ pv <= Len(PivotList) /\ turn = 0
  /\ made' = Append(made, [of |-> P0, child |-> [j \in 1 .. lens[pv] |-> 0], pre |-> 0])
  /\ copies' = [copies EXCEPT ![P0] = Id] /\ firsts' = [n \in NetNodes |-> 0]
  /\ flag' = Append(flag, Flagged(net, P0)) /\ wlist' = Append(wlist, Id)
  /\ turn' = 1 /\ node' = 1
  /\ UNCHANGED <<net, lens, uphase, pv, started, block, cells>>

StartPivot ==
  /\ uphase = "helper" /\ pv <= Len(PivotList) /\ turn = 0
  /\ made' = Append(made, [of |-> P0, child |-> [j \in 1 .. lens[pv] |-> 0], pre |-> 0])
  /\ copies' = [copies EXCEPT ![P0] = Id] /\ firsts' = [n \in NetNodes |-> 0]
  /\ flag' = Append(flag, Flagged(net, P0))
  /\ turn' = 1 /\ node' = 1
  /\ UNCHANGED <<net, lens, uphase, pv, wlist, started, block, cells>>

\* Mutant of Copy: the cycle is closed at the first step.
CopyClosesEarly ==
  LET pre == net[node].pre
      new == IF pre # 0 /\ turn = 1 THEN [Dup(node) EXCEPT !.pre = firsts[pre]] ELSE Dup(node)
      more == Append(made, new)
  IN  /\ made' = IF node = net[P0].child[1] THEN [more EXCEPT ![copies[P0]].child[turn] = Id] ELSE more
      /\ copies' = [n \in NetNodes |-> IF n = node \/ n = pre THEN Id ELSE copies[n]]
      /\ firsts' = IF turn = 1 /\ node \in Pres THEN [firsts EXCEPT ![node] = Id] ELSE firsts
      /\ wlist' = Append(wlist, Id)

(* A node at a step: its copy stands for its predecessor at the next step,   *)
(* and that of the last step for the first copy of it: "this forms a cycle!" *)
Copy ==
  LET pre == net[node].pre
      new == IF pre # 0 /\ turn = lens[pv] THEN [Dup(node) EXCEPT !.pre = firsts[pre]] ELSE Dup(node)
      more == Append(made, new)
  IN  /\ made' = IF node = net[P0].child[1] THEN [more EXCEPT ![copies[P0]].child[turn] = Id] ELSE more
      /\ copies' = [n \in NetNodes |-> IF n = node \/ n = pre THEN Id ELSE copies[n]]
      /\ firsts' = IF turn = 1 /\ node \in Pres THEN [firsts EXCEPT ![node] = Id] ELSE firsts
      /\ wlist' = Append(wlist, Id)

Visit ==
  /\ uphase = "helper" /\ turn > 0 /\ node < P0
  /\ IF node \notin flag[pv] \/ (Once(node) /\ copies[node] # 0)
     THEN UNCHANGED <<made, copies, firsts, wlist>>
     ELSE Copy
  /\ node' = node + 1
  /\ UNCHANGED <<net, lens, flag, uphase, pv, turn, started, block, cells>>
NextStep ==
  /\ uphase = "helper" /\ turn > 0 /\ node = P0 /\ turn < lens[pv]
  /\ turn' = turn + 1 /\ node' = 1
  /\ UNCHANGED <<net, lens, flag, uphase, pv, copies, firsts, made, wlist, started, block, cells>>
PushPivot ==
  /\ uphase = "helper" /\ turn > 0 /\ node = P0 /\ turn = lens[pv]
  /\ wlist' = Append(wlist, copies[P0])
  /\ pv' = pv + 1 /\ turn' = 0 /\ node' = 1
  /\ UNCHANGED <<net, lens, flag, uphase, copies, firsts, made, started, block, cells>>

(* "copy over the rest of nodes" *)
AllUnrolled ==
  /\ uphase = "helper" /\ pv > Len(PivotList)
  /\ uphase' = "rest"
  /\ UNCHANGED <<net, lens, flag, pv, turn, node, copies, firsts, made, wlist, started, block, cells>>
CopyRest ==
  /\ uphase = "rest" /\ node <= Len(net)
  /\ IF copies[node] # 0 THEN UNCHANGED <<made, copies, wlist>>
     ELSE /\ made' = Append(made, Dup(node)) /\ copies' = [copies EXCEPT ![node] = Id]
          /\ wlist' = Append(wlist, Id)
  /\ node' = node + 1
  /\ UNCHANGED <<net, lens, flag, uphase, pv, turn, firsts, started, block, cells>>

LeafValue(m) == IF External(net, made[m].of) THEN Param(made[m].of) ELSE 0
Unrolled ==
  /\ uphase = "rest" /\ node > Len(net)
  /\ uphase' = "ready"
  /\ cells' = [m \in DOMAIN made |-> LeafValue(m)]
  /\ UNCHANGED <<net, lens, flag, pv, turn, node, copies, firsts, made, wlist, started, block>>

-----------------------------------------------------------------------------
(* kann_rnn_start gives the first copy of the predecessor and the last one   *)
(* of the recurrent node the same array.                                     *)
Cell(m) ==
  LET p == {q \in DOMAIN made : made[q].pre = m} IN
  IF started /\ p # {} THEN CHOOSE q \in p : TRUE ELSE m
RnnStart ==
  /\ uphase = "ready" /\ block = 0 /\ ~started
  /\ started' = TRUE
  /\ cells' = [m \in DOMAIN made |-> IF made[m].pre # 0 THEN cells[made[m].pre] ELSE cells[m]]
  /\ UNCHANGED <<net, lens, flag, uphase, pv, turn, node, copies, firsts, made, wlist, block>>

(* The copies of a feed are bound in the order of the new graph, then it is  *)
(* evaluated in that order.                                                  *)
CopyNumber(m) ==
  Cardinality({q \in DOMAIN wlist : made[wlist[q]].of = made[m].of /\ q <= (CHOOSE r \in DOMAIN wlist : wlist[r] = m)})
EvalOne(y, m) ==
  LET c == made[m].child IN
  IF c # <<>> THEN [y EXCEPT ![Cell(m)] = OpValue(net[made[m].of].op, [j \in DOMAIN c |-> y[Cell(c[j])]])]
  ELSE IF net[made[m].of].op = "feed" THEN [y EXCEPT ![m] = Input(made[m].of, block + 1, CopyNumber(m))]
  ELSE y
Evaluate ==
  /\ uphase \in {"ready", "running"} /\ block < Blocks
  /\ uphase' = "running" /\ block' = block + 1
  /\ cells' = FoldLeft(EvalOne, cells, wlist)
  /\ UNCHANGED <<net, lens, flag, pv, turn, node, copies, firsts, made, wlist, started>>

UnrollStop == uphase = "running" /\ block = Blocks /\ UNCHANGED unrollVars

UnrollNext ==
  \/ StartPivot \/ Visit \/ NextStep \/ PushPivot \/ AllUnrolled \/ CopyRest \/ Unrolled
  \/ RnnStart \/ Evaluate \/ UnrollStop
UnrollSpec == UnrollInit /\ [][UnrollNext]_unrollVars

-----------------------------------------------------------------------------
(* What the network means: the value of node n at step s of block b.         *)
PivotOf(n) == {q \in DOMAIN flag : n \in flag[q]}
LenOf(n) == IF PivotOf(n) = {} THEN 1 ELSE lens[CHOOSE q \in PivotOf(n) : TRUE]
Recurs(n) == {m \in NetNodes : net[m].pre = n}
RefLeaf(n, b, s) == IF net[n].op = "feed" THEN Input(n, b, s) ELSE Param(n)
Ref ==
  LET ref[b \in 1 .. Blocks, s \in 1 .. Max(Lens), n \in NetNodes] ==
        LET before == CHOOSE m \in Recurs(n) : TRUE
            Operand(j) == LET c == net[n].child[j] IN ref[b, IF PivotOf(n) = {} THEN LenOf(c) ELSE s, c]
        IN  CASE Recurs(n) # {} /\ s > 1 -> ref[b, s - 1, before]
              [] Recurs(n) # {} /\ s = 1 /\ b > 1 /\ started -> ref[b - 1, LenOf(before), before]
              [] IsPivot(net, n) ->
                   OpValue(net[n].op, [m \in 1 .. lens[CHOOSE q \in DOMAIN PivotList : PivotList[q] = n] |->
                                        ref[b, m, net[n].child[1]]])
              [] Op(n) /\ ~IsPivot(net, n) -> OpValue(net[n].op, [j \in DOMAIN net[n].child |-> Operand(j)])
              [] OTHER -> RefLeaf(n, b, s)
  IN  ref

Done == uphase \in {"ready", "running"}
Active == uphase = "helper" /\ turn > 0     \* in kad_unroll_helper

UnrollTypeOK ==
  /\ uphase \in {"helper", "rest", "ready", "running"}
  /\ pv \in 1 .. Len(PivotList) + 1 /\ node \in 1 .. Len(net) + 1
  /\ Active => pv <= Len(PivotList) /\ turn \in 1 .. lens[pv] /\ node <= P0
  /\ \A m \in DOMAIN made : made[m].of \in NetNodes /\ made[m].pre \in 0 .. Len(made)
  /\ ToSet(copies) \cup ToSet(firsts) \subseteq 0 .. Len(made)
  /\ ToSet(wlist) \subseteq DOMAIN made

(* The new graph holds each copy once, after all its operands, so that one   *)
(* pass from the first node to the last evaluates it.                        *)
ChildrenFirst ==
  Done => /\ IsInjective(wlist) /\ ToSet(wlist) = DOMAIN made
          /\ \A q \in DOMAIN wlist : ToSet(made[wlist[q]].child) \subseteq {wlist[r] : r \in 1 .. q - 1}

(* "these arrays are shared" (kann.c:110): the optimizer takes the sizes of   *)
(* the parameters from the new graph and their arrays from the old one.      *)
OneCopyOfParameters ==
  Done => \A n \in NetNodes : External(net, n) => Cardinality({m \in DOMAIN made : made[m].of = n}) = 1

(* assert(kad_is_pivot(v[i_pivot]) && t[i_pivot] == 0) (kautodiff.c:775).    *)
PivotsAreNew ==
  uphase = "helper" /\ turn = 0 /\ pv <= Len(PivotList) => IsPivot(net, P0) /\ copies[P0] = 0

(* kad_unroll makes a graph like those of kad_compile_array, whatever it is  *)
(* given: a copy comes once and after its operands, and there is one copy of *)
(* each parameter, although a node may be reached from several pivots and    *)
(* at each step (kautodiff.c:769-858).                                       *)
UnrolledGraph == UnrollTypeOK /\ ChildrenFirst /\ OneCopyOfParameters /\ PivotsAreNew

(* In each block, a pivot of the unrolled network has the value that it has  *)
(* if the network is evaluated step by step, and so have the nodes above it: *)
(* from the initial values, or, after kann_rnn_start, from those in which    *)
(* the block before ended.                                                   *)
BlocksGoOn ==
  uphase = "running" =>
    LET ref == Ref IN
    \A n \in NetNodes : PivotOf(n) = {} /\ Op(n) => cells[Cell(copies[n])] = ref[block, LenOf(n), n]

(* The values of a recurrent layer at each step of the unrolled network are  *)
(* those of the formulas in the comments of kann_layer_gru2 (kann.c:586-611)  *)
(* and kann_layer_lstm (kann.c:680-703).                                     *)
InputAt(n, j) ==
  IF started THEN Input(n, (j - 1) \div lens[1] + 1, ((j - 1) % lens[1]) + 1) ELSE Input(n, block, j)
Parameters(n) == [U |-> Param(n + 1), b |-> Param(n + 2), W |-> Param(n + 4)]
ValuesOf(n) ==
  LET of == SelectSeq(wlist, LAMBDA m : made[m].of = n) IN [s \in DOMAIN of |-> cells[Cell(of[s])]]
LayersAsDocumented ==
  uphase = "running" =>
    LET before == IF started THEN (block - 1) * lens[1] ELSE 0
        Agree(values, doc) == \A s \in 1 .. lens[1] : values[s] = doc[before + s]
        Steps == 0 .. before + lens[1]
        rnn[j \in Steps] == IF j = 0 THEN Param(2) ELSE DocRnn(<<Parameters(2)>>, InputAt(1, j), rnn[j - 1])
        gru[j \in Steps] ==
          IF j = 0 THEN Param(2)
          ELSE DocGru(<<Parameters(2), Parameters(10), Parameters(19)>>, InputAt(1, j), gru[j - 1])
        lstm[j \in Steps] ==
          IF j = 0 THEN <<Param(3), Param(2)>>
          ELSE DocLstm(<<Parameters(3), Parameters(11), Parameters(19), Parameters(27)>>, InputAt(1, j), lstm[j - 1][1], lstm[j - 1][2])
    IN  \A h0 \in {"var", "const"} :
          /\ net = Model(Rnn(InputLayer, h0))  => Agree(ValuesOf(10), rnn)
          /\ net = Model(Gru(InputLayer, h0))  => Agree(ValuesOf(31), gru)
          /\ net = Model(Lstm(InputLayer, h0)) => Agree(ValuesOf(40), [j \in Steps |-> lstm[j][2]])

(* The unrolled network computes the recurrence, and each layer the formulas *)
(* in its comments, in each block of steps.                                  *)
UnrollsTheRecurrence ==
  /\ Done => DOMAIN cells = DOMAIN made /\ ToSet(cells) \subseteq Num
  /\ BlocksGoOn /\ LayersAsDocumented
=============================================================================
