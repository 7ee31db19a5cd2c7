---------------------------- MODULE MCKautodiff -----------------------------
(***************************************************************************)
(* The four modules of kautodiff.c on small instances.  They have nothing  *)
(* to do with each other while they run, so a behaviour is one of one of   *)
(* them, chosen at the start.  KadCompile and KadEval are extended: their  *)
(* variables stay at the start of a compilation and of an evaluation while *)
(* another part runs.  The variables of the two others are then Unused.    *)
(***************************************************************************)
EXTENDS Integers, KadCompile, KadEval

VARIABLES
  part,
  ocase, oq, op, ogtmp, ophase,                                  \* KadOps
  case, aux, q, w, p, gtmp, cphase                               \* KadConv

opsVars == <<ocase, oq, op, ogtmp, ophase>>
convVars == <<case, aux, q, w, p, gtmp, cphase>>
allVars == <<part, vars, evalVars, opsVars, convVars>>

-----------------------------------------------------------------------------
(* All graphs of four nodes with at most two operands per node, a leaf      *)
(* first.                                                                   *)
OperandLists(n) == UNION {[1 .. k -> 1 .. n - 1] : k \in 0 .. 2}
CompileGraphs ==
  {c \in [1 .. 4 -> OperandLists(4)] : \A n \in 1 .. 4 : ToSet(c[n]) \subseteq 1 .. n - 1}

(* A variable used twice along different paths and a select; a switch       *)
(* between two networks that share a variable, as dropout layers have it;   *)
(* two costs, of which the second uses the first.                           *)
ENode(o, c) == [op |-> o, child |-> c, ext |-> ""]
Out(o, c) == [ENode(o, c) EXCEPT !.ext = "out"]
Cost(o, c) == [ENode(o, c) EXCEPT !.ext = "cost"]

Shared == << ENode("var", <<>>), ENode("feed", <<>>), Out("mul", <<1, 2>>), ENode("square", <<1>>),
             Out("select", <<3, 4>>), Cost("add", <<3, 5>>) >>
Branch == << ENode("var", <<>>), ENode("var", <<>>), ENode("mul", <<1, 2>>), ENode("square", <<1>>),
             Out("switch", <<3, 4>>), Cost("mul", <<5, 1>>) >>
Costs  == << ENode("var", <<>>), ENode("var", <<>>), Cost("mul", <<1, 1>>), Out("add", <<3, 2>>),
             ENode("select", <<4>>), Cost("mul", <<5, 3>>) >>

EvalNetworks == {Shared, Branch, Costs}

(* The operators on small shapes: broadcasting, rows longer and shorter     *)
(* than a tile, the first, a middle and the last axis, parameters that are  *)
(* rejected, operands without gradient and feeds that are not bound.        *)
V(d) == [d |-> d, kind |-> "var"]
F(d) == [d |-> d, kind |-> "feed"]
Net(d) == [d |-> d, kind |-> "net"]
K(d) == [d |-> d, kind |-> "const"]
U(d) == [d |-> d, kind |-> "unbound"]
OpCase(o, par, operands) == [op |-> o, par |-> par, q |-> operands]

Pairs == {<<V(<<2, 3>>), V(<<3>>)>>, <<V(<<2, 2>>), F(<<2, 2>>)>>, <<F(<<4>>), V(<<1>>)>>,
          <<U(<<2>>), V(<<2>>)>>, <<V(<<2>>), V(<<2, 2>>)>>}
Elementwise == {OpCase(o, <<>>, s) : o \in {"add", "sub"}, s \in {s \in Pairs : s[1].kind # "unbound"}}
               \cup {OpCase("mul", <<>>, s) : s \in Pairs}
Products ==
  {OpCase("cmul", <<>>, s) :
     s \in {<<V(<<3, 2>>), V(<<3, 2>>)>>, <<Net(<<1, 2, 2>>), V(<<3, 4>>)>>, <<F(<<2, 3>>), V(<<1, 3>>)>>,
            <<V(<<2, 2>>), U(<<2, 2>>)>>, <<V(<<2, 3>>), V(<<2, 2>>)>>}}
  \cup {OpCase("matmul", <<>>, s) :
     s \in {<<V(<<3, 2>>), V(<<2, 3>>)>>, <<V(<<2>>), V(<<2, 2>>)>>, <<F(<<1, 3>>), V(<<3, 2>>)>>,
            <<V(<<2, 2>>), V(<<3, 2>>)>>, <<V(<<2, 1>>), U(<<1, 2>>)>>}}
OneOperand == {OpCase(o, <<>>, <<V(<<2, 2>>)>>) : o \in {"square", "1minus", "relu"}}
Axes ==
  {OpCase(o, <<ax>>, <<Net(<<2, 3, 2>>)>>) : o \in {"reduce_sum", "reduce_mean"}, ax \in {0, 1, 2, 3}}
  \cup {OpCase("reverse", <<ax>>, <<V(<<2, 3, 2>>)>>) : ax \in {-1, 0, 1}}
  \cup {OpCase("slice", r, <<V(<<2, 3, 2>>)>>) :
          r \in {<<0, 1, 2>>, <<1, 1, 3>>, <<1, 0, 2>>, <<2, 0, 1>>, <<1, 2, 4>>, <<1, 2, 2>>, <<-1, 0, 1>>}}
  \cup {OpCase("concat", <<1>>, s) :
          s \in {<<V(<<2, 1, 2>>), V(<<2, 2, 2>>), F(<<2, 1, 2>>)>>, <<V(<<2, 1, 2>>), V(<<1, 1, 2>>)>>,
                 <<V(<<2, 2>>), Net(<<2, 1>>)>>}}
  \cup {OpCase("concat", <<0>>, <<V(<<1, 2>>), V(<<2, 2>>)>>)}
Shapes ==
  {OpCase("reshape", r, <<V(<<2, 3, 2>>)>>) :
     r \in {<<>>, <<12>>, <<4, 3>>, <<0, 6>>, <<-1, -1, 2>>, <<-1, 3, -1>>, <<5, -1>>, <<5, 2>>, <<2, -1, -1, -1>>}}
Pooled ==
  {OpCase(o, <<>>, <<V(<<2>>), Net(<<2>>), V(<<2>>)>>) : o \in {"avg", "max", "stack"}}
  \cup {OpCase("stack", <<>>, <<V(<<2, 2>>), F(<<2, 2>>)>>), OpCase("stack", <<>>, <<V(<<2, 2>>), F(<<2>>)>>)}
  \cup {OpCase("select", <<k>>, <<V(<<2>>), V(<<2>>), F(<<2>>)>>) : k \in {-1, 0, 1}}
  \cup {OpCase("select", <<k>>, <<V(<<1, 4>>), V(<<2, 2>>)>>) : k \in {-1, 0}}
Drawn ==
  {OpCase("dropout", <<>>, <<s, K(<<>>)>>) : s \in {Net(<<2, 2>>), V(<<2>>), F(<<2>>)}}
  \cup {OpCase("sample_normal", <<>>, <<Net(<<2>>)>>)}
MeanSquares == {OpCase("mse", <<>>, <<Net(d), F(d)>>) : d \in {<<2, 2>>, <<3>>}}

OpsCases == Elementwise \cup Products \cup OneOperand \cup Axes \cup Shapes \cup Pooled \cup Drawn \cup MeanSquares

Operators == INSTANCE KadOps WITH
  Cases <- OpsCases, Seeds <- {0, 1, 4}, Tile <- 2, P <- 5,
  case <- ocase, q <- oq, p <- op, gtmp <- ogtmp, phase <- ophase

(* Convolutions and pooling on small shapes: several samples and channels,  *)
(* strides that do and do not divide, on both sides of the switch between   *)
(* the algorithms.                                                          *)
ConvCase(o, d, k, stride, pad, required) ==
  [op |-> o, d |-> d, w |-> k, stride |-> stride, pad |-> pad, back |-> required]

Conv2d ==
  {ConvCase("conv2d", <<2, 1, 3, 3>>, <<2, 1, 2, 2>>, <<1, 1>>, <<0, 0>>, {1, 2}),
   ConvCase("conv2d", <<1, 2, 3, 3>>, <<2, 2, 2, 2>>, <<1, 1>>, <<0, 0>>, {1, 2}),
   ConvCase("conv2d", <<2, 1, 4, 3>>, <<1, 1, 2, 1>>, <<2, 2>>, <<0, 0>>, {1, 2}),
   ConvCase("conv2d", <<1, 2, 2, 4>>, <<1, 2, 2, 2>>, <<1, 2>>, <<0, 0>>, {2}),
   ConvCase("conv2d", <<1, 2, 3, 3>>, <<1, 2, 2, 2>>, <<2, 1>>, <<0, -2>>, {2}),
   ConvCase("conv2d", <<1, 1, 3, 3>>, <<1, 1, 2, 3>>, <<2, 2>>, <<0, 2>>, {2}),
   ConvCase("conv2d", <<1, 2, 3, 3>>, <<1, 1, 2, 2>>, <<1, 1>>, <<0, 0>>, {}),
   ConvCase("conv2d", <<1, 2, 3>>, <<1, 2, 2>>, <<1, 1>>, <<0, 0>>, {})}
Conv1d ==
  {ConvCase("conv1d", <<2, 1, 4>>, <<2, 1, 3>>, <<1>>, <<0>>, {1, 2}),
   ConvCase("conv1d", <<2, 2, 4>>, <<2, 2, 2>>, <<2>>, <<0>>, {1, 2}),
   ConvCase("conv1d", <<1, 2, 3>>, <<1, 2, 2>>, <<1>>, <<-2>>, {2}),
   ConvCase("conv1d", <<1, 1, 4>>, <<2, 1, 3>>, <<1>>, <<2>>, {2}),
   ConvCase("conv1d", <<1, 2, 3>>, <<1, 1, 2>>, <<1>>, <<0>>, {})}
Windows ==
  {ConvCase("max2d", <<1, 2, 4, 4>>, <<2, 2>>, <<2, 2>>, <<0, 0>>, {1}),
   ConvCase("max2d", <<1, 1, 3, 3>>, <<2, 2>>, <<1, 1>>, <<-2, 0>>, {1}),
   ConvCase("max2d", <<1, 1, 3, 3>>, <<3, 2>>, <<1, 2>>, <<-2, 0>>, {1})}
  \cup {ConvCase(o, d, <<2>>, <<s>>, <<0>>, {1}) : o \in {"max1d", "avg1d"}, d \in {<<1, 2, 4>>, <<1, 1, 5>>}, s \in {1, 2}}

ConvCases == Conv2d \cup Conv1d \cup Windows

Conv == INSTANCE KadConv WITH
  Cases <- ConvCases, Seeds <- {0, 1, 3}, P <- 7, Threshold <- 4, Transfer <- 4, phase <- cphase

ASSUME Assumptions ==
  /\ Operators!PAssumption /\ Operators!OpsAssumption /\ Conv!PAssumption /\ Conv!ConvAssumption

-----------------------------------------------------------------------------
Unused == "unused"
CompileIdle ==
  /\ child = << <<>> >> /\ vars0 = {} /\ roots = <<1>> /\ tmp = <<0>> /\ stack = <<>> /\ a = <<>>
  /\ back = {} /\ phase = "ready" /\ pivot = 0
EvalIdle == EvalInit /\ v = Shared /\ g = [n \in Nodes |-> 0]
OpsUnused ==
  /\ ocase = Unused /\ oq = Unused /\ op = Unused /\ ogtmp = Unused /\ ophase = Unused
ConvUnused ==
  /\ case = Unused /\ aux = Unused /\ q = Unused /\ w = Unused /\ p = Unused
  /\ gtmp = Unused /\ cphase = Unused

MCInit ==
  \/ part = "compile" /\ Init /\ EvalIdle /\ OpsUnused /\ ConvUnused
  \/ part = "eval" /\ EvalInit /\ CompileIdle /\ OpsUnused /\ ConvUnused
  \/ part = "ops" /\ Operators!Init /\ CompileIdle /\ EvalIdle /\ ConvUnused
  \/ part = "conv" /\ Conv!Init /\ CompileIdle /\ EvalIdle /\ OpsUnused

MCNext ==
  \/ part = "compile" /\ Next /\ UNCHANGED <<part, evalVars, opsVars, convVars>>
  \/ part = "eval" /\ EvalNext /\ UNCHANGED <<part, vars, opsVars, convVars>>
  \/ part = "ops" /\ Operators!Next /\ UNCHANGED <<part, vars, evalVars, convVars>>
  \/ part = "conv" /\ Conv!Next /\ UNCHANGED <<part, vars, evalVars, opsVars>>

MCSpec == MCInit /\ [][MCNext]_allVars

-----------------------------------------------------------------------------
(* The loops of the operators put into each element what kautodiff.h says.  *)
ValueAsDocumented ==
  /\ part = "ops" => Operators!TypeOK /\ Operators!ValueAsDocumented
  /\ part = "conv" => /\ Conv!TypeOK /\ Conv!LastWindowEndsAtTheEnd
                      /\ Conv!ConvAsDocumented /\ Conv!PoolAsDocumented

(* Each operator adds to the gradients of its operands the derivative of    *)
(* what it computed, and leaves their values as they are.                   *)
GradIsSlope ==
  /\ Operators!GradIsSlope /\ Operators!ReluGradWhereOpen /\ Operators!MaxGradHasOneTaker
  /\ Conv!GradIsSlope /\ Conv!MaxGradGoesWhereTaken /\ Conv!KernelRestored
=============================================================================
