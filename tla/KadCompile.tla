----------------------------- MODULE KadCompile -----------------------------
(***************************************************************************)
(* Graph linearization, kad_compile_array in kautodiff.c, and the call of  *)
(* it that kann_new makes twice when a recurrent network has no pivot.     *)
(* Nodes are numbered in the order the program created them, so that a     *)
(* child has a smaller number than its parents; a node may be an operand   *)
(* of another more than once.  One action is one turn of a loop.           *)
(***************************************************************************)
EXTENDS Naturals, FiniteSets, SequencesExt

CONSTANTS
  Graphs,    \* functions from node numbers to sequences of children
  MaxRoots

ASSUME GraphAssumption ==
  /\ MaxRoots \in Nat \ {0}
  /\ \A c \in Graphs : c \in Seq(Seq(Nat)) /\ \A p \in DOMAIN c : ToSet(c[p]) \subseteq 1 .. p - 1

VARIABLES
  child,   \* the graph
  vars0,   \* its leaves that are variables
  roots,
  tmp,     \* kad_node_t::tmp
  stack, a,
  back,    \* nodes with KAD_VAR set
  phase,   \* "ready", "count", "sort", "done"
  pivot    \* the node kann_new adds, or 0

vars == <<child, vars0, roots, tmp, stack, a, back, phase, pivot>>

Node == DOMAIN child
Leaves(c) == {p \in DOMAIN c : c[p] = <<>>}

-----------------------------------------------------------------------------
(* The bodies of the two inner loops, over the children of a node. *)

\* Mutant of CountChild: a node is pushed for every parent.
CountChildAlways(s, q) ==
  [tmp |-> [s.tmp EXCEPT ![q] = @ + 2], stack |-> Append(s.stack, q)]

CountChild(s, q) ==
  [tmp |-> [s.tmp EXCEPT ![q] = @ + 2],
   stack |-> IF s.tmp[q] = 0 THEN Append(s.stack, q) ELSE s.stack]

\* Mutant of ReleaseChild: the root bit is not shifted out.
ReleaseChildNoShift(s, q) ==
  LET t == [s.tmp EXCEPT ![q] = @ - 2]
  IN  [tmp |-> t, stack |-> IF t[q] = 0 THEN Append(s.stack, q) ELSE s.stack]

ReleaseChild(s, q) ==
  LET t == [s.tmp EXCEPT ![q] = @ - 2]
  IN  [tmp |-> t, stack |-> IF t[q] \div 2 = 0 THEN Append(s.stack, q) ELSE s.stack]

(* The inner loops: one child after the other, after the node is popped. *)
Counted(p) ==
  LET s[k \in 0 .. Len(child[p])] ==
        IF k = 0 THEN [tmp |-> tmp, stack |-> Front(stack)] ELSE CountChild(s[k - 1], child[p][k])
  IN  s[Len(child[p])]

Released(p) ==
  LET s[k \in 0 .. Len(child[p])] ==
        IF k = 0 THEN [tmp |-> tmp, stack |-> Front(stack)] ELSE ReleaseChild(s[k - 1], child[p][k])
  IN  s[Len(child[p])]

(* The roots nobody uses are pushed. *)
PushUnused(s, r) == IF tmp[r] \div 2 = 0 THEN Append(s, r) ELSE s
FreeRoots ==
  LET s[k \in 0 .. Len(roots)] == IF k = 0 THEN <<>> ELSE PushUnused(s[k - 1], roots[k])
  IN  s[Len(roots)]

(* kad_mark_back on the linearized nodes. *)
\* Mutant of MarkBack: flags are set but never cleared.
MarkBackOnly(b, p) ==
  IF \E q \in ToSet(child[p]) : q \in b THEN b \cup {p} ELSE b

MarkBack(b, p) ==
  IF child[p] = <<>> THEN b
  ELSE IF \E q \in ToSet(child[p]) : q \in b THEN b \cup {p} ELSE b \ {p}

MarkedBack(list) ==
  LET b[k \in 0 .. Len(list)] == IF k = 0 THEN back ELSE MarkBack(b[k - 1], list[k])
  IN  b[Len(list)]

-----------------------------------------------------------------------------
RootLists(c) == {r \in UNION {[1 .. k -> DOMAIN c] : k \in 1 .. MaxRoots} : IsInjective(r)}

(* kad_finalize_node has set KAD_VAR on operators when they were made: any  *)
(* flags on the operators here.                                             *)
Init ==
  /\ child \in Graphs
  /\ vars0 \in SUBSET Leaves(child)
  /\ roots \in RootLists(child)
  /\ tmp = [p \in Node |-> 0]
  /\ stack = <<>> /\ a = <<>>
  /\ \E junk \in {{}, Node \ Leaves(child)} : back = vars0 \cup junk
  /\ phase = "ready" /\ pivot = 0

MarkRoots ==
  /\ phase = "ready"
  /\ tmp' = [p \in Node |-> IF p \in ToSet(roots) THEN 1 ELSE tmp[p]]
  /\ stack' = roots /\ a' = <<>>
  /\ phase' = "count"
  /\ UNCHANGED <<child, vars0, roots, back, pivot>>

CountParents ==
  /\ phase = "count" /\ stack # <<>>
  /\ LET s == Counted(Last(stack))
     IN  tmp' = s.tmp /\ stack' = s.stack
  /\ UNCHANGED <<child, vars0, roots, a, back, phase, pivot>>

\* Mutant of StartSort: every root is pushed, operand of another or not.
StartSortAllRoots ==
  /\ phase = "count" /\ stack = <<>>
  /\ stack' = roots
  /\ phase' = "sort"
  /\ UNCHANGED <<child, vars0, roots, tmp, a, back, pivot>>

StartSort ==
  /\ phase = "count" /\ stack = <<>>
  /\ stack' = FreeRoots
  /\ phase' = "sort"
  /\ UNCHANGED <<child, vars0, roots, tmp, a, back, pivot>>

Sort ==
  /\ phase = "sort" /\ stack # <<>>
  /\ a' = Append(a, Last(stack))
  /\ LET s == Released(Last(stack))
     IN  tmp' = s.tmp /\ stack' = s.stack
  /\ UNCHANGED <<child, vars0, roots, back, phase, pivot>>

\* Mutant of Finish: tmp is left as it is.
FinishNoReset ==
  /\ phase = "sort" /\ stack = <<>>
  /\ a' = Reverse(a)
  /\ back' = MarkedBack(a')
  /\ phase' = "done"
  /\ UNCHANGED <<child, vars0, roots, tmp, stack, pivot>>

(* The assertion, the reset of tmp, the reversal, kad_allocate_internal. *)
Finish ==
  /\ phase = "sort" /\ stack = <<>>
  /\ \A p \in ToSet(a) : tmp[p] \div 2 = 0
  /\ tmp' = [p \in Node |-> IF p \in ToSet(a) THEN 0 ELSE tmp[p]]
  /\ a' = Reverse(a)
  /\ back' = MarkedBack(a')
  /\ phase' = "done"
  /\ UNCHANGED <<child, vars0, roots, stack, pivot>>

(* kann_new puts a pivot on top of the last root, the cost, and compiles    *)
(* again: once, as then there is a pivot.                                   *)
AddPivot ==
  /\ phase = "done" /\ pivot = 0
  /\ pivot' = Cardinality(Node) + 1
  /\ child' = Append(child, <<Last(roots)>>)
  /\ roots' = Append(Front(roots), pivot')
  /\ tmp' = Append(tmp, 0)
  /\ back' = IF Last(roots) \in back THEN back \cup {pivot'} ELSE back
  /\ stack' = <<>> /\ a' = <<>> /\ phase' = "ready"
  /\ UNCHANGED vars0

Step == MarkRoots \/ CountParents \/ StartSort \/ Sort \/ Finish
Stop == phase = "done" /\ UNCHANGED vars
Next == Step \/ AddPivot \/ Stop

Spec == Init /\ [][Next]_vars

-----------------------------------------------------------------------------
Operands(p) == ToSet(child[p])

TypeOK ==
  /\ \A p \in Node : Operands(p) \subseteq 1 .. p - 1
  /\ DOMAIN tmp = Node /\ ToSet(tmp) \subseteq Nat
  /\ ToSet(roots) \cup ToSet(stack) \cup ToSet(a) \cup back \cup vars0 \subseteq Node
  /\ phase \in {"ready", "count", "sort", "done"}

(* The nodes the roots need: the least set with the roots and the operands of *)
(* its members.                                                              *)
Needed(S) == ToSet(roots) \subseteq S /\ \A p \in S : Operands(p) \subseteq S
Reachable == {p \in Node : \A S \in SUBSET Node : Needed(S) => p \in S}

(* Kahn's algorithm (kautodiff.c:479-491): while nodes are put out, the upper *)
(* bits of tmp count the operand positions of nodes still to come, and the   *)
(* stack holds each node whose count is down to zero, once.  Roots that are  *)
(* operands of other roots and nodes used twice by one node are where this   *)
(* could go wrong.                                                           *)
Uses(S, q) == UNION {{<<p, k>> : k \in {k \in DOMAIN child[p] : child[p][k] = q}} : p \in S}
CountsAreOpenUses ==
  phase = "sort" =>
    LET open == Reachable \ ToSet(a) IN
    /\ \A q \in Reachable : tmp[q] \div 2 = Cardinality(Uses(open, q))
    /\ ToSet(stack) = {q \in open : tmp[q] \div 2 = 0}
    /\ IsInjective(stack)

(* kad_compile_array returns every node the roots need, once, operands before *)
(* the nodes that use them (kautodiff.h:115-125).                            *)
Linearized ==
  phase = "done" =>
    /\ ToSet(a) = Reachable /\ IsInjective(a)
    /\ \A k \in DOMAIN a : Operands(a[k]) \subseteq {a[j] : j \in 1 .. k - 1}

(* The nodes that depend on a variable.                                      *)
Varying(S) == vars0 \subseteq S /\ \A p \in Node : Operands(p) \cap S # {} => p \in S
Depends == {p \in Node : \A S \in SUBSET Node : Varying(S) => p \in S}

(* After kad_mark_back a gradient is kept for exactly the nodes that depend   *)
(* on a variable, whatever the flags were before (kautodiff.c:401-412).      *)
FlagsFollowVariables == phase = "done" => \A p \in Reachable : p \in back <=> p \in Depends

(* kautodiff.c:459 "kad_node_t::tmp MUST BE set to zero before calling this   *)
(* function": it leaves it so, for the second call in kann_new.              *)
TmpIsZeroOutside == phase \in {"ready", "done"} => \A p \in Node : tmp[p] = 0

(* kad_compile_array gives each node the roots need once, operands first,   *)
(* with flags as of now and tmp as it was, whichever nodes are shared.      *)
CompiledGraph == TypeOK /\ CountsAreOpenUses /\ Linearized /\ FlagsFollowVariables /\ TmpIsZeroOutside
=============================================================================
