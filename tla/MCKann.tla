------------------------------- MODULE MCKann -------------------------------
(***************************************************************************)
(* The single-threaded modules of kann.c on small instances: a behaviour   *)
(* is one of KannStore, of KannUnroll or of KannTrain, as in MCKautodiff.  *)
(* KannUnroll and KannTrain are extended: their variables stay at the      *)
(* start of an unrolling and of a training while another part runs.        *)
(***************************************************************************)
EXTENDS KannUnroll, KannTrain

VARIABLES
  part,
  mem, hasStarted, steps, file                                                \* KannStore

storeVars == <<mem, hasStarted, steps, file>>
vars == <<part, storeVars, unrollVars, trainVars>>

-----------------------------------------------------------------------------
(* A recurrent network with a layer normalization: h0, its product with a   *)
(* weight, the hidden node, its normalization, the cost.                    *)
StoreLeaf(kind) == [kind |-> kind, child |-> <<>>, pre |-> 0]
StoreNode(kind, child) == [kind |-> kind, child |-> child, pre |-> 0]
Recurrent(child, pre) == [kind |-> "plain", child |-> child, pre |-> pre]
Network == <<StoreLeaf("feed"), StoreLeaf("var"), StoreLeaf("var"), StoreNode("plain", <<2, 3>>),
             Recurrent(<<1, 4>>, 2), StoreNode("alloc", <<5>>), StoreLeaf("const"), StoreLeaf("feed"),
             StoreNode("plain", <<6, 7>>), StoreNode("plain", <<9, 8>>)>>

Store == INSTANCE KannStore WITH V <- Network, Batches <- {1, 2}, MaxSteps <- 2, started <- hasStarted

(* Networks of each recurrent layer, of two layers, with a second root that *)
(* does not lead to the cost, and with an encoder whose pivot is the input  *)
(* of a decoder.                                                            *)
WithOutput(layer) ==
  LET m == Model(layer)
  IN  m \o <<N("square", <<Len(layer)>>), N("add", <<Len(m), Len(m) + 1>>)>>
Encoder == Pivot(Rnn(InputLayer, "var"), "last")
Recurrents == {
  Model(Rnn(InputLayer, "const")),
  Model(Rnn(Rnn(InputLayer, "var"), "const")),
  Model(Gru(InputLayer, "var")),
  Model(Lstm(InputLayer, "var")),
  WithOutput(Rnn(InputLayer, "var")),
  Model(Rnn(Encoder, "var"))}
ParamOf(n) == (n * n + 2 * n + 3) % P
InputOf(n, b, s) == (5 * n + 7 * b * b + 11 * s * s * s + s + 1) % P

ASSUME Assumptions ==
  /\ Store!StoreAssumption
  /\ PAssumption

-----------------------------------------------------------------------------
Unused == "unused"
StoreUnused == mem = Unused /\ hasStarted = Unused /\ steps = Unused /\ file = Unused
UnrollIdle == UnrollInit /\ net = Model(Rnn(InputLayer, "const")) /\ lens = <<1>>
TrainIdle == TrainInit /\ nVal = 0 /\ rows = <<1, 2, 3, 4>>

Init ==
  \/ part = "store" /\ Store!Init /\ UnrollIdle /\ TrainIdle
  \/ part = "unroll" /\ UnrollInit /\ StoreUnused /\ TrainIdle
  \/ part = "train" /\ TrainInit /\ StoreUnused /\ UnrollIdle

Next ==
  \/ part = "store" /\ Store!Next /\ UNCHANGED <<part, unrollVars, trainVars>>
  \/ part = "unroll" /\ UnrollNext /\ UNCHANGED <<part, storeVars, trainVars>>
  \/ part = "train" /\ TrainNext /\ UNCHANGED <<part, storeVars, unrollVars>>

Spec == Init /\ [][Next]_vars

-----------------------------------------------------------------------------
(* Whatever the order of the calls, none touches memory it does not own,    *)
(* all memory can be freed, a clone shares none of it, the parameters stay  *)
(* where the optimizer looks for them, and continuous feeding goes on from  *)
(* the step before.                                                         *)
MemorySound ==
  part = "store" => /\ Store!TypeOK /\ Store!NoBadAccess /\ Store!NothingLeaked
                    /\ Store!NothingShared /\ Store!ParametersKept /\ Store!FeedingContinues
=============================================================================
