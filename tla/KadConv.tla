------------------------------ MODULE KadConv -------------------------------
(***************************************************************************)
(* The convolution and pooling operators of kautodiff.c on one node: the   *)
(* sizes and the padding are found when the node is made, then passes of   *)
(* KAD_FORWARD and KAD_BACKWARD.  A loop nest is the set of the products   *)
(* it adds up, each <<index in the output, in the kernel, in the input>>;  *)
(* the same set is walked in all three directions, as the macros of the    *)
(* code are.  The inner product of conv2d_loop2 is computed by the         *)
(* accelerator, from transfers of a fixed length.                          *)
(***************************************************************************)
EXTENDS KadNum

CONSTANTS
  Cases,      \* [op, d, w, stride, pad, back]: w is the shape of the kernel, for
              \* pooling its size; back tells which operands need a gradient
  Seeds,      \* numbers the values are generated from
  Threshold,  \* shorter kernel rows, over all channels, use the first algorithm
  Transfer    \* words of one transfer to the accelerator

Conv == {"conv2d", "conv1d"}
Pool == {"max2d", "max1d", "avg1d"}
Two  == {"conv2d", "max2d"}      \* two dimensions; the others have one

RowLen(w) == w[2] * Last(w)      \* w->d[3] * w->d[1], w->d[2] * w->d[1]
ConvAssumption ==
  /\ Seeds \subseteq Nat
  /\ \A c \in Cases :
       /\ c.op \in Conv \cup Pool /\ \A i \in DOMAIN c.d : c.d[i] > 0
       /\ c.op = "conv2d" /\ Len(c.w) = 4 /\ RowLen(c.w) >= Threshold => RowLen(c.w) >= Transfer
       /\ c.op \in Pool => 1 \in c.back /\ \A i \in DOMAIN c.w : c.w[i] >= c.stride[i]

VARIABLES
  case,   \* the node: operator, operands and parameters
  aux,    \* conv_conf_t: [kernel_size, stride, pad0, pad1] of each dimension
  q, w,   \* the operands, with x and g
  p,      \* the node, with d, x and g
  gtmp,   \* max: the index taken; avg: the number of elements summed
  phase   \* "new", "rejected", "ready", "forward", "above", "backward"

vars == <<case, aux, q, w, p, gtmp, phase>>

-----------------------------------------------------------------------------
KAD_PAD_SAME == -2

(* conv_find_par: the padding on both sides makes the key equation exact.   *)
OutSize(in, kernel, stride, pad) ==
  IF pad = KAD_PAD_SAME /\ stride = 1 THEN in
  ELSE (in - kernel + (IF pad > 0 THEN pad ELSE 0) + stride - 1) \div stride + 1

\* Mutant of FindPar: the larger half is put in front.
FindParInFront(in, kernel, stride, pad) ==
  LET both == (OutSize(in, kernel, stride, pad) - 1) * stride + kernel - in IN
  [kernel_size |-> kernel, stride |-> stride, pad0 |-> both - both \div 2, pad1 |-> both \div 2]

FindPar(in, kernel, stride, pad) ==
  LET both == (OutSize(in, kernel, stride, pad) - 1) * stride + kernel - in IN
  [kernel_size |-> kernel, stride |-> stride, pad0 |-> both \div 2, pad1 |-> both - both \div 2]

Conv2dGenAux(c, kernel) ==
  [a \in 1 .. 2 |-> FindPar(c.d[a + 2], kernel[a], c.stride[a], c.pad[a])]
Conv1dGenAux(c, kernel) == <<FindPar(c.d[3], kernel[1], c.stride[1], c.pad[1])>>

ConvOutSize(in, a) == (in - a.kernel_size + a.pad0 + a.pad1) \div a.stride + 1

Fits(c) ==
  /\ Len(c.d) = (IF c.op \in Two THEN 4 ELSE 3)
  /\ c.op \in Conv => Len(c.w) = Len(c.d) /\ c.d[2] = c.w[2]

AuxOf(c) ==
  LET kernel == IF c.op \in Conv THEN SubSeq(c.w, 3, Len(c.w)) ELSE c.w IN
  IF c.op \in Two THEN Conv2dGenAux(c, kernel) ELSE Conv1dGenAux(c, kernel)
SyncDim(c, a) ==
  <<c.d[1], IF c.op \in Conv THEN c.w[1] ELSE c.d[2]>> \o [i \in DOMAIN a |-> ConvOutSize(c.d[i + 2], a[i])]

-----------------------------------------------------------------------------
(* Indices in a flat array of shape d.                                      *)
At(d, t) == FoldLeft(LAMBDA e, i : e * d[i] + t[i], 0, [i \in DOMAIN d |-> i])
Area(d) == KadLen(SubSeq(d, 3, Len(d)))

\* Mutant of Rot180: each row is reversed by itself.
Rot180ByRow(d, x) == Array(LAMBDA e : x[(e \div Last(d)) * Last(d) + Last(d) - 1 - (e % Last(d))], KadLen(d))

(* conv_rot180: each kernel is reversed.                                    *)
Rot180(d, x) ==
  LET a == Area(d) IN Array(LAMBDA e : x[(e \div a) * a + a - 1 - (e % a)], KadLen(d))

(* conv2d_move_1to3 and conv2d_add_3to1: where an element of the NCHW shape *)
(* is in the NHWC shape.                                                    *)
To3(d, e) ==
  LET l == e % d[4]   k == (e \div d[4]) % d[3]   j == (e \div (d[4] * d[3])) % d[2]   i == e \div (d[4] * d[3] * d[2])
  IN  ((i * d[3] + k) * d[4] + l) * d[2] + j
(* conv1d_move_1to2 and conv1d_add_2to1.                                    *)
To2(d, e) ==
  LET i == e % d[3]   j == (e \div d[3]) % d[2]   k == e \div (d[3] * d[2])
  IN  (k * d[3] + i) * d[2] + j

ChannelsLast(d, e) == IF Len(d) = 4 THEN To3(d, e) ELSE To2(d, e)
Moved(d, x) == Array(LAMBDA f : x[CHOOSE e \in DOMAIN x : ChannelsLast(d, e) = f], KadLen(d))
AddMoved(d, x, y) == AddTo(x, Array(LAMBDA e : y[ChannelsLast(d, e)], KadLen(d)))

Below(n) == 0 .. n - 1
Pad == -1                            \* a zero of x_padded
Within(i, n, e) == IF i \in Below(n) THEN e ELSE Pad
ColAux == Last(aux)
XPadded == ColAux.pad0 + ColAux.pad1 > 0

(* The output rows of kernel row k: its loop ends at the first input row    *)
(* that does not exist.                                                     *)
InRow(k, i) == k - aux[1].pad0 + i * aux[1].stride
Rows(k) == {i \in Below(p.d[3]) : \A h \in 0 .. i : InRow(k, h) \in Below(q.d[3])}

Conv2dLoop1 ==
  UNION {{<<At(p.d, <<n, c1, i, j>>), At(w.d, <<c1, c0, k, l>>),
            LET col == l - aux[2].pad0 + j * aux[2].stride
            IN  Within(col, q.d[4], At(q.d, <<n, c0, InRow(k, i), col>>))>> :
          n \in Below(q.d[1]), c1 \in Below(w.d[1]), c0 \in Below(w.d[2]), i \in Rows(k),
          l \in Below(w.d[4]), j \in Below(p.d[4])} : k \in Below(w.d[3])}

(* One inner product of the given number of words for each output element;  *)
(* channels are last.                                                       *)
Conv2dLoop2(words) ==
  UNION {{<<At(p.d, <<n, c1, i, j>>), (c1 * w.d[3] + k) * RowLen(w.d) + o,
            LET e == (j * aux[2].stride - aux[2].pad0) * q.d[2] + o
            IN  Within(e, q.d[4] * q.d[2], (n * q.d[3] + InRow(k, i)) * q.d[4] * q.d[2] + e)>> :
          n \in Below(q.d[1]), c1 \in Below(w.d[1]), i \in Rows(k),
          j \in Below(p.d[4]), o \in Below(words)} : k \in Below(w.d[3])}

Conv1dLoop1 ==
  {<<At(p.d, <<n, c1, j>>), At(w.d, <<c1, c0, l>>),
     LET col == l - aux[1].pad0 + j * aux[1].stride IN Within(col, q.d[3], At(q.d, <<n, c0, col>>))>> :
   n \in Below(q.d[1]), c1 \in Below(w.d[1]), c0 \in Below(w.d[2]), l \in Below(w.d[3]), j \in Below(p.d[3])}

Conv1dLoop2 ==
  {<<At(p.d, <<n, c1, j>>), c1 * RowLen(w.d) + o,
     LET e == (j * aux[1].stride - aux[1].pad0) * q.d[2] + o
     IN  Within(e, q.d[3] * q.d[2], n * q.d[2] * q.d[3] + e)>> :
   n \in Below(q.d[1]), c1 \in Below(w.d[1]), o \in Below(RowLen(w.d)), j \in Below(p.d[3])}

AlgoSwitch == RowLen(w.d) >= Threshold
Loop(words) ==
  CASE case.op = "conv2d" /\ ~AlgoSwitch -> Conv2dLoop1
    [] case.op = "conv2d" /\ AlgoSwitch -> Conv2dLoop2(words)
    [] case.op = "conv1d" /\ ~AlgoSwitch -> Conv1dLoop1
    [] case.op = "conv1d" /\ AlgoSwitch -> Conv1dLoop2
ForwardLoop == Loop(Transfer)
BackwardLoop == Loop(RowLen(w.d))

(* The arrays the loops work on, and the three directions.                  *)
View(d, x) == IF AlgoSwitch THEN Moved(d, x) ELSE x
InputAt(x, e) == IF e = Pad THEN 0 ELSE x[e]
SumOver(T, F(_)) == MapThenSumSet(F, T)

ConvForward(x, wx) ==
  LET T == ForwardLoop   xs == View(q.d, x)   ws == View(w.d, Rot180(w.d, wx)) IN
  Array(LAMBDA e : SumOver({t \in T : t[1] = e}, LAMBDA t : ws[t[2]] * InputAt(xs, t[3])), KadLen(p.d))

(* What is added to a row of x_padded does not come back to the input.      *)
ConvBackX ==
  LET T == BackwardLoop   ws == View(w.d, Rot180(w.d, w.x))
      G == Array(LAMBDA e : IF XPadded THEN 0
                            ELSE SumOver({t \in T : t[3] = e}, LAMBDA t : ws[t[2]] * p.g[t[1]]), KadLen(q.d))
  IN  IF AlgoSwitch THEN AddMoved(q.d, q.g, G) ELSE AddTo(q.g, G)

\* Mutant of ConvBackW: the gradient is not turned back.
ConvBackWRotated ==
  LET T == BackwardLoop   xs == View(q.d, q.x)   g == Rot180(w.d, w.g)
      G == Array(LAMBDA e : SumOver({t \in T : t[2] = e}, LAMBDA t : InputAt(xs, t[3]) * p.g[t[1]]), KadLen(w.d))
  IN  IF AlgoSwitch THEN AddMoved(w.d, g, G) ELSE AddTo(g, G)

ConvBackW ==
  LET T == BackwardLoop   xs == View(q.d, q.x)   g == Rot180(w.d, w.g)
      G == Array(LAMBDA e : SumOver({t \in T : t[2] = e}, LAMBDA t : InputAt(xs, t[3]) * p.g[t[1]]), KadLen(w.d))
  IN  Rot180(w.d, IF AlgoSwitch THEN AddMoved(w.d, g, G) ELSE AddTo(g, G))
-----------------------------------------------------------------------------
(* Pooling: <<k, l, v>>, element v seen through position k, l of the kernel *)
(* of output element e.  A position in the padding on the left sees the     *)
(* element at the start of the row.                                         *)
Start(l, a) == IF l > a.pad0 THEN l - a.pad0 ELSE 0

Max2dWindow(e) ==
  LET col == p.d[4]   j == e % col   i == (e \div col) % p.d[3]   t == e \div (col * p.d[3])
      Col(l) == Start(l, aux[2]) + j * aux[2].stride
      In(k) == i * aux[1].stride + k - aux[1].pad0 IN
  {<<k, l, (t * q.d[3] + In(k)) * q.d[4] + Col(l)>> :
     <<k, l>> \in {s \in Below(aux[1].kernel_size) \X Below(aux[2].kernel_size) :
                     In(s[1]) \in Below(q.d[3]) /\ Col(s[2]) < q.d[4]}}
Pool1dWindow(e) ==
  LET j == e % p.d[3]   t == e \div p.d[3]   Col(l) == Start(l, aux[1]) + j * aux[1].stride IN
  {<<0, l, t * q.d[3] + Col(l)>> : l \in {l \in Below(aux[1].kernel_size) : Col(l) < q.d[3]}}
Window(e) == IF case.op = "max2d" THEN Max2dWindow(e) ELSE Pool1dWindow(e)

\* Mutant of Taken: of equal elements the last one is taken.
TakenLast(x, e) ==
  (CHOOSE s \in Window(e) : \A r \in Window(e) :
     IF s[1] < r[1] \/ (s[1] = r[1] /\ s[2] < r[2]) THEN Greater(x[s[3]], x[r[3]])
     ELSE ~Greater(x[r[3]], x[s[3]]))[3]

(* kad_op_max2d, kad_op_max1d: the first of the greatest elements.          *)
Taken(x, e) ==
  (CHOOSE s \in Window(e) : \A r \in Window(e) :
     IF r[1] < s[1] \/ (r[1] = s[1] /\ r[2] < s[2]) THEN Greater(x[s[3]], x[r[3]])
     ELSE ~Greater(x[r[3]], x[s[3]]))[3]

\* Mutant of Avg: divided by the size of the kernel.
AvgOfKernel(x, e) == Inv(aux[1].kernel_size) * SumOver(Window(e), LAMBDA s : x[s[3]])

(* kad_op_avg1d.                                                            *)
Avg(x, e) == Inv(Cardinality(Window(e))) * SumOver(Window(e), LAMBDA s : x[s[3]])

PoolForward(x) ==
  Array(LAMBDA e : IF case.op = "avg1d" THEN Avg(x, e) ELSE x[Taken(x, e)], KadLen(p.d))
PoolGtmp ==
  [e \in Below(KadLen(p.d)) |-> IF case.op = "avg1d" THEN Cardinality(Window(e)) ELSE Taken(q.x, e)]
PoolBack ==
  LET outputs == Below(KadLen(p.d))
      Share(e, v) == IF case.op = "avg1d"
                     THEN Cardinality({s \in Window(e) : s[3] = v}) * p.g[e] * Inv(gtmp[e])
                     ELSE IF gtmp[e] = v THEN p.g[e] ELSE 0
  IN  AddTo(q.g, Array(LAMBDA v : SumOver(outputs, LAMBDA e : Share(e, v)), KadLen(q.d)))

Forward(x, wx) == IF case.op \in Conv THEN ConvForward(x, wx) ELSE PoolForward(x)

-----------------------------------------------------------------------------
Fill(s, n) == Array(LAMBDA e : s * (e + 1) + e * e + (e * e * e) \div 2, n)
Node(d, s) == [d |-> d, x |-> Fill(s, KadLen(d)), g |-> Fill(s + 1, KadLen(d))]
KernelShape(c) == IF c.op \in Conv THEN c.w ELSE <<1>>

Init ==
  /\ case \in Cases
  /\ \E s \in Seeds : q = Node(case.d, s) /\ w = Node(KernelShape(case), s + 2)
  /\ aux = <<>> /\ p = [d |-> <<>>, x |-> <<>>, g |-> <<>>]
  /\ gtmp = <<>> /\ phase = "new"

(* kad_conv2d, kad_max2d, kad_conv1d, kad_max1d, kad_avg1d.                  *)
Finalize ==
  /\ phase = "new"
  /\ IF Fits(case)
     THEN aux' = AuxOf(case) /\ p' = [p EXCEPT !.d = SyncDim(case, aux')] /\ phase' = "ready"
     ELSE phase' = "rejected" /\ UNCHANGED <<aux, p>>
  /\ UNCHANGED <<case, q, w, gtmp>>

\* Mutant of ForwardPass: the kernel stays reversed.
ForwardPassReversed ==
  /\ phase = "ready"
  /\ p' = [p EXCEPT !.x = Forward(q.x, w.x)]
  /\ w' = IF case.op \in Conv THEN [w EXCEPT !.x = Rot180(w.d, @)] ELSE w
  /\ gtmp' = IF case.op \in Pool THEN PoolGtmp ELSE <<>>
  /\ phase' = "forward"
  /\ UNCHANGED <<case, aux, q>>

(* The kernel is reversed before the loops and again after them, in place.  *)
ForwardPass ==
  /\ phase = "ready"
  /\ p' = [p EXCEPT !.x = Forward(q.x, w.x)]
  /\ w' = IF case.op \in Conv THEN [w EXCEPT !.x = Rot180(w.d, Rot180(w.d, @))] ELSE w
  /\ gtmp' = IF case.op \in Pool THEN PoolGtmp ELSE <<>>
  /\ phase' = "forward"
  /\ UNCHANGED <<case, aux, q>>

(* A gradient comes from above, one component at a time as in KadOps.       *)
GradArrives ==
  /\ phase = "forward"
  /\ \E i \in DOMAIN p.x : p' = [p EXCEPT !.g = [e \in DOMAIN p.x |-> IF e = i THEN 1 ELSE 0]]
  /\ phase' = "above"
  /\ UNCHANGED <<case, aux, q, w, gtmp>>

BackwardPass ==
  /\ phase = "above"
  /\ q' = IF 1 \notin case.back THEN q
          ELSE [q EXCEPT !.g = IF case.op \in Conv THEN ConvBackX ELSE PoolBack]
  /\ w' = IF 2 \notin case.back THEN w
          ELSE [w EXCEPT !.g = ConvBackW, !.x = Rot180(w.d, Rot180(w.d, @))]
  /\ phase' = "backward"
  /\ UNCHANGED <<case, aux, p, gtmp>>

(* The kernel is trained and other data is fed.                             *)
NextRound(s) ==
  /\ phase = "backward"
  /\ q' = Node(q.d, s) /\ w' = Node(w.d, s + 2)
  /\ p' = [p EXCEPT !.g = <<>>]
  /\ phase' = "ready"
  /\ UNCHANGED <<case, aux, gtmp>>

Stop == phase = "rejected" /\ UNCHANGED vars

Next ==
  \/ Finalize \/ ForwardPass \/ GradArrives \/ BackwardPass \/ Stop
  \/ \E s \in Seeds : NextRound(s)

Spec == Init /\ [][Next]_vars

-----------------------------------------------------------------------------
TypeOK ==
  /\ phase \in {"new", "rejected", "ready", "forward", "above", "backward"}
  /\ {q.x, q.g} \subseteq [Below(KadLen(q.d)) -> Num] /\ {w.x, w.g} \subseteq [Below(KadLen(w.d)) -> Num]
  /\ \A i \in DOMAIN p.d : p.d[i] > 0
  /\ phase \in {"forward", "above", "backward"} => p.x \in [Below(KadLen(p.d)) -> Num]

(* The sizes the loops rely on: with the padding that was found, the last    *)
(* window of each dimension ends where the padded input does, and asking     *)
(* for the same size gives it (kautodiff.h:187-188).                        *)
LastWindowEndsAtTheEnd ==
  phase \notin {"new", "rejected"} =>
    \A a \in DOMAIN aux :
      /\ (p.d[a + 2] - 1) * aux[a].stride + aux[a].kernel_size = q.d[a + 2] + aux[a].pad0 + aux[a].pad1
      /\ aux[a].pad0 \in {aux[a].pad1, aux[a].pad1 - 1}
      /\ case.pad[a] = KAD_PAD_SAME /\ aux[a].stride = 1 => p.d[a + 2] = q.d[a + 2]

(* The padded input seen from position t of the kernel, by coordinates.     *)
Coordinates(d, e) == [i \in DOMAIN d |-> (e \div KadLen(SubSeq(d, i + 1, Len(d)))) % d[i]]
Seen(t, k) == [a \in DOMAIN aux |-> t[a + 2] * aux[a].stride + k[a] - aux[a].pad0]
Inside(v) == \A a \in DOMAIN aux : v[a] \in Below(q.d[a + 2])
Positions == {Tail(Tail(Coordinates(w.d, e))) : e \in Below(Area(w.d))}
Flipped(k) == [a \in DOMAIN k |-> aux[a].kernel_size - 1 - k[a]]

(* "convolution with weight matrix flipped" (kautodiff.h:190, 192), in both  *)
(* algorithms: "Both algorithms should produce identical results"           *)
(* (kautodiff.c:1946).                                                      *)
ConvAsDocumented ==
  phase = "forward" /\ case.op \in Conv =>
    \A e \in DOMAIN p.x :
      LET t == Coordinates(p.d, e)
          Product(c, k) == LET v == Seen(t, k) IN
            IF Inside(v) THEN w.x[At(w.d, <<t[2], c>> \o Flipped(k))] * q.x[At(q.d, <<t[1], c>> \o v)] ELSE 0
      IN  p.x[e] = SumOver(Below(w.d[2]) \X Positions, LAMBDA s : Product(s[1], s[2])) % P

(* The elements of the padded input under the window of output element e.   *)
Kernel == IF case.op \in Two THEN Below(aux[1].kernel_size) \X Below(aux[2].kernel_size)
          ELSE {<<l>> : l \in Below(aux[1].kernel_size)}
Under(e) ==
  LET t == Coordinates(p.d, e) IN
  {At(q.d, <<t[1], t[2]>> \o Seen(t, k)) : k \in {k \in Kernel : Inside(Seen(t, k))}}

(* "max pooling" and "average pooling" (kautodiff.h:191, 193, 194): of the   *)
(* elements under the window, which is where a convolution with the same     *)
(* parameters has it.                                                       *)
PoolAsDocumented ==
  phase = "forward" /\ case.op \in Pool =>
    \A e \in DOMAIN p.x :
      IF case.op = "avg1d"
      THEN (p.x[e] * Cardinality(Under(e))) % P = SumOver(Under(e), LAMBDA v : q.x[v]) % P
      ELSE /\ p.x[e] \in {q.x[v] : v \in Under(e)}
           /\ \A v \in Under(e) : ~Greater(q.x[v], p.x[e])

Component == CHOOSE i \in DOMAIN p.g : p.g[i] = 1
Nudged(x, e) == [x EXCEPT ![e] = (@ + 1) % P]
Slope(x, wx) == (Forward(x, wx)[Component] - p.x[Component]) % P

(* The gradients of input and kernel are the derivatives of the value,       *)
(* exact as it is linear in each, and are added to what is there.           *)
GradIsSlope ==
  [][phase' = "backward" /\ case.op \in Conv \cup {"avg1d"} =>
       /\ 1 \in case.back => \A e \in DOMAIN q.x : q'.g[e] = (q.g[e] + Slope(Nudged(q.x, e), w.x)) % P
       /\ 2 \in case.back => \A e \in DOMAIN w.x : w'.g[e] = (w.g[e] + Slope(q.x, Nudged(w.x, e))) % P]_vars

(* The gradient of a maximum goes to the first of the elements that have it, *)
(* the one that the forward pass took, whatever has been written since.     *)
MaxGradGoesWhereTaken ==
  [][phase' = "backward" /\ case.op \in {"max2d", "max1d"} =>
       LET best == {v \in Under(Component) : q.x[v] = p.x[Component]}
           first == CHOOSE v \in best : \A u \in best : v <= u
       IN  q'.g = [q.g EXCEPT ![first] = (@ + 1) % P]]_vars

(* The passes turn the kernel in place: they leave it as they found it.     *)
KernelRestored == [][phase' \in {"forward", "backward"} => w'.x = w.x]_vars
=============================================================================
