----------------------------- MODULE KannStore ------------------------------
(***************************************************************************)
(* The memory of a network through the calls of kann.h: compilation,       *)
(* changes of the batch size, training steps, cloning, saving and loading, *)
(* the continuous feeding of a recurrent network, deletion.  A block is a  *)
(* function from its cells to their contents; a pointer to a freed block   *)
(* becomes Dead, and the first wrong access is noted in "bad".  The        *)
(* content of a cell is the number of steps of the recurrence that led to  *)
(* it.  One cell stands for a row of an array, the rest of the array being *)
(* of a fixed size.                                                        *)
(***************************************************************************)
EXTENDS Integers, FiniteSets, SequencesExt

CONSTANTS
  V,        \* the nodes: [kind, child, pre], a child before its parents
  Batches,  \* batch sizes
  MaxSteps  \* bound: steps of one continuous feeding

\* Where an operator allocates gtmp: nowhere, in KAD_ALLOC, or in KAD_SYNC_DIM.
OpKinds == {"plain", "alloc", "max"}
Node == DOMAIN V
Up == [i \in Node |-> i]
StoreAssumption ==
  /\ Batches \subseteq Nat \ {0} /\ 1 \in Batches /\ MaxSteps \in Nat
  /\ \A i \in Node :
       /\ V[i].kind \in OpKinds \cup {"feed", "var", "const"}
       /\ V[i].kind \in OpKinds <=> V[i].child # <<>>
       /\ ToSet(V[i].child) \subseteq 1 .. i - 1 /\ V[i].pre \in 0 .. i - 1

VARIABLES
  mem,      \* [heap, net, bad]: net[s] is the network in slot s, if there is one
  started,  \* slots between kann_rnn_start and kann_rnn_end
  steps,    \* steps taken since kann_rnn_start
  file      \* what kann_save wrote: the contents of ann->x and ann->c

vars == <<mem, started, steps, file>>

Main == 1
Other == 2               \* a clone, or a network that was loaded
Slots == {Main, Other}
ArrX == 1                \* ann->x, ann->g and ann->c
ArrG == 2
ArrC == 3
None == "none"
NoNet == <<>>

Kind(i) == V[i].kind
Op(i) == Kind(i) \in OpKinds
Vars == {i \in Node : Kind(i) = "var"}
Consts == {i \in Node : Kind(i) = "const"}
Recurrent == {i \in Node : V[i].pre # 0}
(* kad_mark_back. *)
IsBack == LET b[i \in Node] == Kind(i) = "var" \/ \E q \in ToSet(V[i].child) : b[q] IN b
(* Where a leaf is in the collated array of its kind. *)
IndexIn(S, i) == Cardinality({j \in S : j < i})

-----------------------------------------------------------------------------
(* The heap. *)
Null == <<0, 0>>
Dead == <<-1, 0>>
User == <<-2, 0>>        \* the array of the program that kann_feed_bind binds
Ptr(b, i) == <<b, i>>

Fail(m, what) == IF m.bad = None THEN [m EXCEPT !.bad = what] ELSE m
Gone == <<-1>>           \* a block that was freed
Live(m, b) == b \in DOMAIN m.heap /\ m.heap[b] # Gone
Fresh(m) == CHOOSE b \in 1 .. Len(m.heap) + 1 : ~Live(m, b) /\ \A c \in 1 .. b - 1 : Live(m, c)
Tuple(f) == SubSeq(f, 1, Len(f))   \* f, which TLC then holds as a sequence
Cells(n, content) == Tuple([c \in 1 .. n |-> content])
Each(p) == Tuple([i \in Node |-> p])
Malloc(m, cells) ==
  [m EXCEPT !.heap = IF Fresh(m) > Len(m.heap) THEN Append(m.heap, cells) ELSE [m.heap EXCEPT ![Fresh(m)] = cells]]

Kill(net, b) ==
  LET Bury(f) == Tuple([i \in DOMAIN f |-> IF f[i][1] = b THEN Dead ELSE f[i]])
      In(n) == IF n = NoNet THEN NoNet ELSE [n EXCEPT !.x = Bury(@), !.g = Bury(@), !.gtmp = Bury(@), !.arr = Bury(@)]
  IN  <<In(net[Main]), In(net[Other])>>
Free(m, p) ==
  IF p = Null THEN m
  ELSE IF ~Live(m, p[1]) \/ p[2] # 0 THEN Fail(m, "free")
  ELSE [m EXCEPT !.heap[p[1]] = Gone, !.net = Kill(m.net, p[1])]

Reaches(m, p, n) == p = User \/ (Live(m, p[1]) /\ p[2] + n <= Len(m.heap[p[1]]))
Touch(m, p, n) == IF Reaches(m, p, n) THEN m ELSE Fail(m, "access")
Content(m, p) == IF Live(m, p[1]) /\ p[2] < Len(m.heap[p[1]]) THEN m.heap[p[1]][p[2] + 1] ELSE 0
Write(m, p, n, content) ==
  IF ~Live(m, p[1]) \/ ~Reaches(m, p, n) THEN Fail(m, "access")
  ELSE LET b == m.heap[p[1]] IN
       [m EXCEPT !.heap[p[1]] = Tuple([c \in 1 .. Len(b) |-> IF c \in p[2] + 1 .. p[2] + n THEN content ELSE b[c]])]

(* Field f of node i of network s. *)
Get(m, s, f, i) == m.net[s][f][i]
Set(m, s, f, i, p) == [m EXCEPT !.net[s][f][i] = p]
New(m, s, f, i, cells) == Set(Malloc(m, cells), s, f, i, Ptr(Fresh(m), 0))
(* realloc: the block stays or moves, all blocks of one call alike. *)
Realloc(m, s, f, i, n, moves) ==
  LET p == Get(m, s, f, i)
      cells == Tuple([c \in 1 .. n |-> Content(m, Ptr(p[1], c - 1))])
  IN  IF p = Null THEN New(m, s, f, i, cells)
      ELSE IF ~Reaches(m, p, 0) \/ p[2] # 0 THEN Fail(m, "free")
      ELSE IF moves THEN New(Free(m, p), s, f, i, cells)
      ELSE [m EXCEPT !.heap[p[1]] = cells]
(* F(m), and F(.., i) for each node i of S in turn.  The singleton makes    *)
(* TLC evaluate m before F(m), not where F uses it.                         *)
With(m, F(_)) == CHOOSE t \in {F(n) : n \in {m}} : TRUE
Over(m, S, F(_, _)) ==
  LET Step(n, i) == IF i \in S THEN With(n, LAMBDA t : F(t, i)) ELSE n
  IN  With(m, LAMBDA n : FoldLeft(Step, n, Up))
Ops == {i \in Node : Op(i)}

-----------------------------------------------------------------------------
(* KAD_SYNC_DIM copies the shape of the first operand; kad_op_max also      *)
(* takes a new gtmp and does not free the old one.                          *)
SyncDim(m, s, i) ==
  LET n == Get(m, s, "d", V[i].child[1])   t == Set(m, s, "d", i, n) IN
  IF Kind(i) = "max" THEN New(t, s, "gtmp", i, Cells(n, 0)) ELSE t
KadAlloc(m, s, i, moves) ==
  IF Kind(i) = "alloc" THEN Realloc(m, s, "gtmp", i, Get(m, s, "d", i), moves) ELSE m

AllocateInternal(m, s, moves) ==
  LET One(n, i) ==
        LET len == Get(n, s, "d", i)   t == Realloc(n, s, "x", i, len, moves) IN
        IF IsBack[i] THEN KadAlloc(Realloc(t, s, "g", i, len, moves), s, i, moves) ELSE t
  IN  Over(m, Ops, One)

\* Mutant of KadSyncDim: arrays are not allocated again for a larger batch.
KadSyncDimNoGrowth(m, s, batch, moves) ==
  LET d == m.net[s].d
      Changes(i) == \E f \in 1 .. i : Kind(f) = "feed" /\ d[f] # batch
      One(n, i) == IF Kind(i) = "feed" THEN Set(n, s, "d", i, batch)
                   ELSE IF Op(i) /\ Changes(i) THEN SyncDim(n, s, i) ELSE n
      t == Over(m, Node, One)
  IN  IF \E i \in Ops : m.net[s].x[i] = Null THEN AllocateInternal(t, s, moves) ELSE t

(* kad_sync_dim: the old batch size is that of the last feed. *)
KadSyncDim(m, s, batch, moves) ==
  LET d == m.net[s].d
      Changes(i) == \E f \in 1 .. i : Kind(f) = "feed" /\ d[f] # batch
      One(n, i) == IF Kind(i) = "feed" THEN Set(n, s, "d", i, batch)
                   ELSE IF Op(i) /\ Changes(i) THEN SyncDim(n, s, i) ELSE n
      t == Over(m, Node, One)
      oldSize == FoldLeft(LAMBDA o, i : IF Kind(i) = "feed" THEN d[i] ELSE o, 0, Up)
  IN  IF oldSize < batch \/ \E i \in Ops : m.net[s].x[i] = Null THEN AllocateInternal(t, s, moves) ELSE t

-----------------------------------------------------------------------------
(* kad_eval_at at the last node, then kad_grad: operands are read, values   *)
(* and gtmp written, gradients added to those of the operands, by kad_op_max *)
(* without asking whether they have one.                                    *)
ForwardOne(m, s, i) ==
  LET c == ToSet(V[i].child)   len == Get(m, s, "d", i)
      Read(n, k) == Touch(n, Get(n, s, "x", k), Get(n, s, "d", k))
      r == Over(m, c, Read)
      latest == CHOOSE t \in {Content(m, Get(m, s, "x", k)) : k \in c} :
                  \A k \in c : t >= Content(m, Get(m, s, "x", k))
      content == IF i \in Recurrent THEN (latest + 1) % (MaxSteps + 1) ELSE latest
      t == Write(r, Get(r, s, "x", i), len, content)
  IN  IF Kind(i) = "plain" THEN t ELSE Write(t, Get(t, s, "gtmp", i), len, 0)
Eval(m, s) == Over(m, Ops, LAMBDA n, i : ForwardOne(n, s, i))

BackwardOne(m, s, i) ==
  LET Add(n, k) == IF IsBack[k] \/ Kind(i) = "max" THEN Touch(n, Get(n, s, "g", k), Get(n, s, "d", k)) ELSE n
      t == Over(m, ToSet(V[i].child), Add)
  IN  IF IsBack[i] THEN Touch(t, Get(t, s, "g", i), Get(t, s, "d", i)) ELSE t
Grad(m, s) == Over(m, Ops, LAMBDA n, i : BackwardOne(n, s, i))

-----------------------------------------------------------------------------
\* Mutant of ExtCollate: the arrays of the leaves are not freed.
ExtCollateKeeps(m, s) ==
  LET ax == New(m, s, "arr", ArrX, Cells(Cardinality(Vars), 0))
      ag == New(ax, s, "arr", ArrG, Cells(Cardinality(Vars), 0))
      ac == New(ag, s, "arr", ArrC, Cells(Cardinality(Consts), 0))
      Move(n, i) ==
        LET S == IF i \in Vars THEN Vars ELSE Consts
            a == Get(n, s, "arr", IF i \in Vars THEN ArrX ELSE ArrC)
            p == Get(n, s, "x", i)
            w == Write(n, Ptr(a[1], IndexIn(S, i)), 1, Content(n, p))
            x == Set(w, s, "x", i, Ptr(a[1], IndexIn(S, i)))
        IN  IF i \in Vars THEN Set(x, s, "g", i, Ptr(Get(x, s, "arr", ArrG)[1], IndexIn(S, i))) ELSE x
  IN  Over(ac, Vars \cup Consts, Move)

(* kad_ext_collate: the leaves are moved into three arrays. *)
ExtCollate(m, s) ==
  LET ax == New(m, s, "arr", ArrX, Cells(Cardinality(Vars), 0))
      ag == New(ax, s, "arr", ArrG, Cells(Cardinality(Vars), 0))
      ac == New(ag, s, "arr", ArrC, Cells(Cardinality(Consts), 0))
      Move(n, i) ==
        LET S == IF i \in Vars THEN Vars ELSE Consts
            a == Get(n, s, "arr", IF i \in Vars THEN ArrX ELSE ArrC)
            p == Get(n, s, "x", i)
            w == Write(Touch(n, p, 1), Ptr(a[1], IndexIn(S, i)), 1, Content(n, p))
            x == Set(Free(w, p), s, "x", i, Ptr(a[1], IndexIn(S, i)))
        IN  IF i \in Vars THEN Set(x, s, "g", i, Ptr(Get(x, s, "arr", ArrG)[1], IndexIn(S, i))) ELSE x
  IN  Over(ac, Vars \cup Consts, Move)

(* kad_ext_sync: the leaves point into the arrays again. *)
ExtSync(m, s) ==
  LET a == m.net[s].arr
      One(n, i) ==
        IF i \in Vars
        THEN Set(Set(n, s, "x", i, Ptr(a[ArrX][1], IndexIn(Vars, i))), s, "g", i, Ptr(a[ArrG][1], IndexIn(Vars, i)))
        ELSE Set(n, s, "x", i, Ptr(a[ArrC][1], IndexIn(Consts, i)))
  IN  Over(m, Vars \cup Consts, One)

Empty(d) ==
  [d |-> d, x |-> Each(Null), g |-> Each(Null), gtmp |-> Each(Null), arr |-> <<Null, Null, Null>>]
Put(m, s, n) == [m EXCEPT !.net[s] = n]
Mallocs(m, s, S, F(_)) == Over(m, S, LAMBDA n, i : New(n, s, "x", i, Cells(1, F(i))))

(* kann_new: the leaves have been made, the operators by kad_finalize_node. *)
Compiled(moves) ==
  LET m == Put([heap |-> <<>>, net |-> <<NoNet, NoNet>>, bad |-> None], Main, Empty(Each(1)))
      t == Over(Mallocs(m, Main, Vars \cup Consts, LAMBDA i : 0), Ops, LAMBDA n, i : SyncDim(n, Main, i))
  IN  ExtCollate(AllocateInternal(t, Main, moves), Main)

\* Mutant of Cloned: kad_dup1 leaves x of operators as it was copied.
ClonedShallow(m, batch, moves) ==
  LET from == m.net[Main]
      kept == Tuple([i \in Node |-> IF i \in Vars \cup Consts THEN Null ELSE from.x[i]])
      t == Put(m, Other, [Empty(from.d) EXCEPT !.x = kept])
      leaves == Mallocs(t, Other, Vars \cup Consts, LAMBDA i : Content(t, Get(t, Main, "x", i)))
  IN  ExtCollate(KadSyncDim(leaves, Other, batch, moves), Other)

(* kann_clone, with kad_dup1 and kad_clone: gtmp, and x and g of operators, *)
(* are not copied.                                                          *)
Cloned(m, batch, moves) ==
  LET from == m.net[Main]
      feeds == Tuple([i \in Node |-> IF Kind(i) = "feed" THEN from.x[i] ELSE Null])
      t == Put(m, Other, [Empty(from.d) EXCEPT !.x = feeds])
      read == Over(t, Vars \cup Consts, LAMBDA n, i : Touch(n, Get(n, Main, "x", i), 1))
      leaves == Mallocs(read, Other, Vars \cup Consts, LAMBDA i : Content(read, Get(read, Main, "x", i)))
  IN  ExtCollate(KadSyncDim(leaves, Other, batch, moves), Other)

(* kann_load_fp, kad_load: KAD_ALLOC comes first, when a node has no        *)
(* dimensions and kad_len of it is 1.                                       *)
Loaded(m, saved, moves) ==
  LET t == Put(m, Other, Empty(Each(1)))
      One(n, i) == SyncDim(KadAlloc(n, Other, i, moves), Other, i)
      ax == New(Over(t, Ops, One), Other, "arr", ArrX, saved.x)
      ag == New(ax, Other, "arr", ArrG, Cells(Cardinality(Vars), 0))
  IN  ExtSync(New(ag, Other, "arr", ArrC, saved.c), Other)

(* kann_delete, kad_delete. *)
Deleted(m, s) ==
  LET a == FoldLeft(LAMBDA n, f : Free(n, Get(n, s, "arr", f)), m, <<ArrX, ArrG, ArrC>>)
      One(n, i) ==
        LET t == IF Op(i) THEN LET f == Free(n, Get(n, s, "x", i)) IN Free(f, Get(f, s, "g", i)) ELSE n
        IN  Free(t, Get(t, s, "gtmp", i))
      all == Over(a, Node, One)
  IN  Put(all, s, NoNet)

-----------------------------------------------------------------------------
\* Mutant of RnnStarted: the predecessor keeps an array of its own.
RnnStartedApart(m, s, moves) ==
  LET One(n, i) ==
        LET q == V[i].pre   qx == Get(n, s, "x", q) IN
        IF qx = Null THEN n ELSE Write(n, Get(n, s, "x", i), Get(n, s, "d", i), Content(n, qx))
  IN  Over(KadSyncDim(m, s, 1, moves), Recurrent, One)

(* kann_rnn_start: the recurrent node and its predecessor share an array.   *)
RnnStarted(m, s, moves) ==
  LET One(n, i) ==
        LET q == V[i].pre   px == Get(n, s, "x", i)   qx == Get(n, s, "x", q)   len == Get(n, s, "d", i)
            copied == IF qx = Null THEN Write(n, px, len, 0) ELSE Write(Touch(n, qx, len), px, len, Content(n, qx))
            freed == IF Op(q) THEN Free(copied, qx) ELSE copied
        IN  Set(freed, s, "x", q, Get(freed, s, "x", i))
  IN  Over(KadSyncDim(m, s, 1, moves), Recurrent, One)

\* Mutant of RnnEnded: the leaves are left where they point to.
RnnEndedNoSync(m, s) ==
  Over(m, {i \in Recurrent : Op(V[i].pre)},
       LAMBDA n, i : New(n, s, "x", V[i].pre, Cells(Get(n, s, "d", V[i].pre), 0)))

(* kann_rnn_end. *)
RnnEnded(m, s) ==
  Over(ExtSync(m, s), {i \in Recurrent : Op(V[i].pre)},
       LAMBDA n, i : New(n, s, "x", V[i].pre, Cells(Get(n, s, "d", V[i].pre), 0)))

Bind(m, s) == Over(m, {i \in Node : Kind(i) = "feed"}, LAMBDA n, i : Set(n, s, "x", i, User))

-----------------------------------------------------------------------------
Nets == {s \in Slots : mem.net[s] # NoNet}
Exists(s) == s \in Nets
Saved(s) == [x |-> mem.heap[mem.net[s].arr[ArrX][1]], c |-> mem.heap[mem.net[s].arr[ArrC][1]]]

Init ==
  /\ \E moves \in BOOLEAN : mem = Compiled(moves)
  /\ started = {} /\ steps = 0 /\ file = <<>>

(* A mini-batch of kann_train_fnn1.  It is not run during continuous        *)
(* feeding, "BE CAREFUL of the interaction" (kann.c:212), nor is kann_clone, *)
(* which would copy the hidden values into the parameters of the clone.     *)
TrainStep(s, batch, moves) ==
  /\ Exists(s) /\ s \notin started
  /\ mem' = Grad(Eval(KadSyncDim(Bind(mem, s), s, batch, moves), s), s)
  /\ UNCHANGED <<started, steps, file>>

(* kann_apply1; during continuous feeding it is the next step.              *)
Apply1(s, moves) ==
  /\ Exists(s) /\ (s \in started => steps < MaxSteps)
  /\ mem' = Eval(Bind(KadSyncDim(mem, s, 1, moves), s), s)
  /\ steps' = IF s \in started THEN steps + 1 ELSE steps
  /\ UNCHANGED <<started, file>>

RnnStart(s, moves) ==
  /\ Exists(s) /\ started = {} /\ Recurrent # {}
  /\ mem' = RnnStarted(mem, s, moves)
  /\ started' = {s} /\ steps' = 0
  /\ UNCHANGED file
RnnEnd(s) ==
  /\ s \in started
  /\ mem' = RnnEnded(mem, s)
  /\ started' = {} /\ steps' = 0
  /\ UNCHANGED file

Clone(batch, moves) ==
  /\ Exists(Main) /\ ~Exists(Other) /\ Main \notin started
  /\ mem' = Cloned(mem, batch, moves)
  /\ UNCHANGED <<started, steps, file>>

(* kann_save_fp sets the batch size to 1 first. *)
Save(s, moves) ==
  /\ Exists(s)
  /\ mem' = KadSyncDim(mem, s, 1, moves)
  /\ file' = Saved(s)
  /\ UNCHANGED <<started, steps>>
Load(moves) ==
  /\ file # <<>> /\ ~Exists(Other)
  /\ mem' = Loaded(mem, file, moves)
  /\ UNCHANGED <<started, steps, file>>

Delete(s) ==
  /\ Exists(s) /\ s \notin started
  /\ mem' = Deleted(mem, s)
  /\ UNCHANGED <<started, steps, file>>

(* All networks are deleted and there is none to load. *)
Stop == Nets = {} /\ file = <<>> /\ UNCHANGED vars

Next ==
  \/ \E s \in Slots, moves \in BOOLEAN :
       \/ \E batch \in Batches : TrainStep(s, batch, moves)
       \/ Apply1(s, moves) \/ RnnStart(s, moves) \/ Save(s, moves)
  \/ \E s \in Slots : RnnEnd(s) \/ Delete(s)
  \/ \E moves \in BOOLEAN, batch \in Batches : Clone(batch, moves)
  \/ \E moves \in BOOLEAN : Load(moves)
  \/ Stop

Spec == Init /\ [][Next]_vars

-----------------------------------------------------------------------------
LiveBlocks == {b \in DOMAIN mem.heap : Live(mem, b)}
Pointers(s) ==
  LET n == mem.net[s] IN Range(n.x) \cup Range(n.g) \cup Range(n.gtmp) \cup Range(n.arr)

TypeOK ==
  /\ mem.bad \in {None, "access", "free"} /\ Nets \subseteq Slots
  /\ \A b \in LiveBlocks : ToSet(mem.heap[b]) \subseteq 0 .. MaxSteps
  /\ \A s \in Nets : ToSet(mem.net[s].d) \subseteq Batches
  /\ started \subseteq Nets /\ steps \in 0 .. MaxSteps

(* No call reads, writes or frees what is not there: each array has room for *)
(* the rows of the current batch whenever a call uses it, whatever batches   *)
(* came before (kautodiff.c:414-447).                                       *)
NoBadAccess == mem.bad = None

(* Every block can still be freed: a network has a pointer to its start, so  *)
(* that kann_delete, kad_delete and the optimizer find all of it            *)
(* (kautodiff.c:361-379).                                                   *)
NothingLeaked ==
  mem.bad = None => \A b \in LiveBlocks : \E s \in Nets : Ptr(b, 0) \in Pointers(s)

(* A clone has its own memory: the worker threads of kann_cost rely on it   *)
(* (kann.c:330-392).                                                        *)
NothingShared ==
  \A b \in LiveBlocks :
    Cardinality({s \in Nets : \E p \in Pointers(s) : p[1] = b}) <= 1

(* "Get an RNN ready for continuous feeding" (kann.h:160): each step goes on *)
(* from the hidden values of the one before.                                *)
FeedingContinues ==
  mem.bad = None =>
    \A s \in started, i \in Recurrent : Content(mem, mem.net[s].x[i]) = steps

(* Continuous feeding leaves the parameters alone, and after it each leaf is *)
(* where the optimizer looks for it, in the collated array.                 *)
ParametersKept ==
  mem.bad = None =>
    \A s \in Nets :
      /\ \A i \in Vars : mem.heap[mem.net[s].arr[ArrX][1]][IndexIn(Vars, i) + 1] = 0
      /\ s \notin started =>
           \A i \in Vars : /\ mem.net[s].x[i] = Ptr(mem.net[s].arr[ArrX][1], IndexIn(Vars, i))
                           /\ mem.net[s].g[i] = Ptr(mem.net[s].arr[ArrG][1], IndexIn(Vars, i))
=============================================================================
