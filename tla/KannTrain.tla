------------------------------ MODULE KannTrain -----------------------------
(***************************************************************************)
(* kann_train_fnn1 and kann_cost_fnn1: how the rows of the data become     *)
(* mini-batches, which of them are kept for validation, when training      *)
(* stops and which parameters the network has then.  Parameters are known  *)
(* by the number of updates that led to them; the cost of validation is    *)
(* any of a few, counted in quarters of the precision of a float.          *)
(***************************************************************************)
EXTENDS Integers, FiniteSets, SequencesExt

CONSTANTS
  NRow,           \* n
  NVals,          \* values of (int)(n * frac_val)
  MiniSize,
  MaxEpoch,
  MaxDropStreak,
  ValCosts,       \* what validation may give
  Infinity,       \* FLT_MAX
  CostMini        \* the 64 of kann_cost_fnn1

ASSUME TrainAssumption ==
  /\ NRow \in Nat \ {0} /\ NVals \subseteq 0 .. NRow
  /\ MiniSize \in Nat \ {0} /\ CostMini \in Nat \ {0}
  /\ MaxEpoch \in Nat /\ MaxDropStreak \in Nat \ {0}
  /\ ValCosts \subseteq Nat /\ Infinity \in Nat /\ \A c \in ValCosts : c < Infinity

VARIABLES
  stage,        \* "epoch", "train", "validate", "judge", "returned", "cost", "done"
  nVal,
  rows, shuf,   \* x and y after the first shuffle, and the order of the epoch
  epoch, nProc,
  buf, batch,   \* the rows in x1 and y1, and the batch size of the network
  isTrain,      \* what kann_switch chose
  ann,          \* the updates that ann->x has had
  dropStreak, minVal, min,     \* drop_streak, min_val_cost, and min_x if min_set
  seen,         \* history: the rows of this pass, in the order in which they were costed
  trained, validated,          \* history: all rows used in either way
  judged,       \* history: <<parameters, cost>> of the epochs that were judged
  cost          \* of kann_cost_fnn1: the weight each row has in it, a fraction

data == <<nVal, rows>>
best == <<dropStreak, minVal, min, judged>>
trainVars == <<stage, data, shuf, epoch, nProc, buf, batch, isTrain, ann, best, seen,
               trained, validated, cost>>

NotSet == -1
NTrain == NRow - nVal
Least(m, n) == IF m < n THEN m ELSE n
ToFloat(c) == 4 * ((c + 2) \div 4)     \* (float)val_cost

-----------------------------------------------------------------------------
(* kann_shuffle, with draws[i] for (int)(i * kad_drand(0)).                  *)
Swap(s, a, b) == [s EXCEPT ![a] = s[b], ![b] = s[a]]
Draws(n) == {d \in [1 .. n -> 0 .. n - 1] : \A j \in 1 .. n : d[j] < j}
Shuffled(n, draws) ==
  LET s[k \in 0 .. n] == IF k = 0 THEN [j \in 1 .. n |-> j]
                         ELSE Swap(s[k - 1], draws[n + 1 - k] + 1, n + 1 - k)
  IN  s[n]

(* memcpy of rows into the buffers; those behind keep what they held.        *)
Fill(b, taken) == [j \in DOMAIN b |-> IF j <= Len(taken) THEN taken[j] ELSE b[j]]
Costed(b, size) == SubSeq(b, 1, size)

TrainInit ==
  /\ stage = "epoch" /\ nVal \in NVals
  /\ \E d \in Draws(NRow) : rows = Shuffled(NRow, d)
  /\ shuf = <<>> /\ epoch = 0 /\ nProc = 0
  /\ buf = [j \in 1 .. MiniSize |-> 0] /\ batch = 1 /\ isTrain = FALSE
  /\ ann = 0 /\ dropStreak = 0 /\ minVal = Infinity /\ min = NotSet
  /\ seen = <<>> /\ trained = {} /\ validated = {} /\ judged = <<>> /\ cost = <<>>

\* Mutant of StartEpoch: all rows are shuffled for training.
StartEpochAll ==
  /\ stage = "epoch" /\ epoch < MaxEpoch
  /\ \E d \in Draws(NRow) : shuf' = Shuffled(NRow, d)
  /\ stage' = "train" /\ nProc' = 0 /\ seen' = <<>> /\ isTrain' = TRUE
  /\ UNCHANGED <<data, epoch, buf, batch, ann, best, trained, validated, cost>>

StartEpoch ==
  /\ stage = "epoch" /\ epoch < MaxEpoch
  /\ \E d \in Draws(NTrain) : shuf' = Shuffled(NTrain, d)
  /\ stage' = "train" /\ nProc' = 0 /\ seen' = <<>> /\ isTrain' = TRUE
  /\ UNCHANGED <<data, epoch, buf, batch, ann, best, trained, validated, cost>>

(* The size of the next batch of a pass over n rows, and its rows, one from   *)
(* each place of the order.                                                  *)
Ms(n, size) == Least(n - nProc, size)
TrainRows == [j \in 1 .. Ms(NTrain, MiniSize) |-> rows[shuf[nProc + j]]]
ValRows == [j \in 1 .. Ms(nVal, MiniSize) |-> rows[NTrain + nProc + j]]

\* Mutant of TrainBatch: the network keeps its batch size for the last rows.
TrainBatchFull ==
  /\ stage = "train" /\ nProc < NTrain
  /\ buf' = Fill(buf, TrainRows)
  /\ batch' = IF nProc = 0 THEN Ms(NTrain, MiniSize) ELSE batch
  /\ seen' = seen \o Costed(buf', batch') /\ trained' = trained \cup ToSet(Costed(buf', batch'))
  /\ ann' = ann + 1 /\ nProc' = nProc + Ms(NTrain, MiniSize)
  /\ UNCHANGED <<stage, data, shuf, epoch, isTrain, best, validated, cost>>

TrainBatch ==
  /\ stage = "train" /\ nProc < NTrain
  /\ buf' = Fill(buf, TrainRows) /\ batch' = Ms(NTrain, MiniSize)
  /\ seen' = seen \o Costed(buf', batch') /\ trained' = trained \cup ToSet(Costed(buf', batch'))
  /\ ann' = ann + 1 /\ nProc' = nProc + Ms(NTrain, MiniSize)
  /\ UNCHANGED <<stage, data, shuf, epoch, isTrain, best, validated, cost>>

StartValidation ==
  /\ stage = "train" /\ nProc >= NTrain
  /\ stage' = "validate" /\ nProc' = 0 /\ seen' = <<>> /\ isTrain' = FALSE
  /\ UNCHANGED <<data, shuf, epoch, buf, batch, ann, best, trained, validated, cost>>

ValidateBatch ==
  /\ stage = "validate" /\ nProc < nVal
  /\ buf' = Fill(buf, ValRows) /\ batch' = Ms(nVal, MiniSize)
  /\ seen' = seen \o Costed(buf', batch') /\ validated' = validated \cup ToSet(Costed(buf', batch'))
  /\ nProc' = nProc + Ms(nVal, MiniSize)
  /\ UNCHANGED <<stage, data, shuf, epoch, isTrain, ann, best, trained, cost>>

EndValidation ==
  /\ stage = "validate" /\ nProc >= nVal
  /\ stage' = "judge"
  /\ UNCHANGED <<data, shuf, epoch, nProc, buf, batch, isTrain, ann, best, seen, trained, validated, cost>>

Restored == IF min = NotSet THEN ann ELSE min
Returns == stage' = "returned" /\ ann' = Restored /\ epoch' = epoch
Continues == stage' = "epoch" /\ ann' = ann /\ epoch' = epoch + 1

\* Mutant of Improve: drop_streak goes on counting.
ImproveKeepsStreak(c) ==
  /\ c < minVal
  /\ min' = ann /\ minVal' = ToFloat(c) /\ dropStreak' = dropStreak
  /\ Continues

Improve(c) ==
  /\ c < minVal
  /\ min' = ann /\ minVal' = ToFloat(c) /\ dropStreak' = 0
  /\ Continues

\* Mutant of NoDrop: the comparison is with the last cost.
NoDropLast(c) ==
  /\ ~(c < minVal)
  /\ dropStreak' = dropStreak + 1 /\ min' = min /\ minVal' = ToFloat(c)
  /\ IF dropStreak' >= MaxDropStreak THEN Returns ELSE Continues

NoDrop(c) ==
  /\ ~(c < minVal)
  /\ dropStreak' = dropStreak + 1 /\ UNCHANGED <<min, minVal>>
  /\ IF dropStreak' >= MaxDropStreak THEN Returns ELSE Continues

(* The first max_drop_streak epochs are not judged.                          *)
Judge ==
  /\ stage = "judge"
  /\ IF epoch >= MaxDropStreak /\ nVal > 0
     THEN \E c \in ValCosts : (Improve(c) \/ NoDrop(c)) /\ judged' = Append(judged, <<ann, c>>)
     ELSE Continues /\ UNCHANGED best
  /\ UNCHANGED <<data, shuf, nProc, buf, batch, isTrain, seen, trained, validated, cost>>

EndTraining ==
  /\ stage = "epoch" /\ epoch >= MaxEpoch
  /\ Returns
  /\ UNCHANGED <<data, shuf, nProc, buf, batch, isTrain, best, seen, trained, validated, cost>>

-----------------------------------------------------------------------------
(* Fractions: <<numerator, denominator>>.                                    *)
Plus(f, g) == <<f[1] * g[2] + g[1] * f[2], f[2] * g[2]>>
Times(f, n) == <<f[1] * n, f[2]>>
Over(f, n) == <<f[1], f[2] * n>>

CostSize == Least(CostMini, NRow)
CostRows == [j \in 1 .. Ms(NRow, CostSize) |-> nProc + j]
StartCost ==
  /\ stage = "returned"
  /\ stage' = "cost" /\ nProc' = 0 /\ seen' = <<>> /\ isTrain' = FALSE
  /\ cost' = [r \in 1 .. NRow |-> <<0, 1>>]
  /\ buf' = [j \in 1 .. CostSize |-> 0]
  /\ UNCHANGED <<data, shuf, epoch, batch, ann, best, trained, validated>>

(* kann_cost is the mean over the batch.                                     *)
MeanCost(b) == [r \in 1 .. NRow |-> <<Cardinality({j \in DOMAIN b : b[j] = r}), Len(b)>>]

\* Mutant of CostBatch: the mean over the batches is taken.
CostBatchUnweighted ==
  /\ stage = "cost" /\ nProc < NRow
  /\ buf' = Fill(buf, CostRows) /\ batch' = Ms(NRow, CostSize)
  /\ seen' = seen \o Costed(buf', batch')
  /\ cost' = [r \in 1 .. NRow |-> Plus(cost[r], Times(MeanCost(Costed(buf', batch'))[r], CostSize))]
  /\ nProc' = nProc + Ms(NRow, CostSize)
  /\ UNCHANGED <<stage, data, shuf, epoch, isTrain, ann, best, trained, validated>>

CostBatch ==
  /\ stage = "cost" /\ nProc < NRow
  /\ buf' = Fill(buf, CostRows) /\ batch' = Ms(NRow, CostSize)
  /\ seen' = seen \o Costed(buf', batch')
  /\ cost' = [r \in 1 .. NRow |-> Plus(cost[r], Times(MeanCost(Costed(buf', batch'))[r], batch'))]
  /\ nProc' = nProc + Ms(NRow, CostSize)
  /\ UNCHANGED <<stage, data, shuf, epoch, isTrain, ann, best, trained, validated>>

EndCost ==
  /\ stage = "cost" /\ nProc >= NRow
  /\ stage' = "done" /\ cost' = [r \in 1 .. NRow |-> Over(cost[r], NRow)]
  /\ UNCHANGED <<data, shuf, epoch, nProc, buf, batch, isTrain, ann, best, seen, trained, validated>>

TrainEnd == stage = "done" /\ UNCHANGED trainVars

TrainNext ==
  \/ StartEpoch \/ TrainBatch \/ StartValidation \/ ValidateBatch \/ EndValidation \/ Judge \/ EndTraining
  \/ StartCost \/ CostBatch \/ EndCost \/ TrainEnd
TrainSpec == TrainInit /\ [][TrainNext]_trainVars

-----------------------------------------------------------------------------
TrainTypeOK ==
  /\ IsInjective(rows) /\ ToSet(rows) = 1 .. NRow
  /\ ToSet(buf) \subseteq 0 .. NRow /\ batch \in 1 .. NRow
  /\ stage \in {"train", "validate"} => IsInjective(shuf) /\ ToSet(shuf) = 1 .. NTrain
  /\ epoch \in 0 .. MaxEpoch /\ dropStreak \in 0 .. MaxDropStreak

(* Each pass over the data uses each of its rows once, whatever is left in   *)
(* the buffers from the batch before, when the last batch is smaller         *)
(* (kann.c:846-874, 920-929).                                                *)
PassOver(set) == IsInjective(seen) /\ ToSet(seen) = set
EachRowOnce ==
  /\ stage = "train" /\ nProc >= NTrain => PassOver({rows[j] : j \in 1 .. NTrain}) /\ isTrain
  /\ stage = "judge" => PassOver({rows[j] : j \in NTrain + 1 .. NRow}) /\ ~isTrain
  /\ stage = "done"  => PassOver(1 .. NRow) /\ ~isTrain

(* No row the network is validated with is ever one it was trained with,     *)
(* although each epoch shuffles again.                                       *)
ValidationStaysOut == trained \cap validated = {}

(* kann_cost_fnn1 gives the mean over all rows, each with the weight 1/n,    *)
(* although its last batch may be smaller: the mean of a batch counts with   *)
(* its rows (kann.c:927).                                                    *)
CostIsMean == stage = "done" => \A r \in 1 .. NRow : cost[r][1] * NRow = cost[r][2]

(* Every pass over the data uses the rows it should use, each once and with *)
(* its weight; no row is used both for training and for validation.         *)
RowsUsedOnce == TrainTypeOK /\ EachRowOnce /\ ValidationStaysOut /\ CostIsMean

(* Of the epochs that were judged, the network has the parameters of one     *)
(* with the least cost, up to the precision in which that is kept, and       *)
(* training stops before its last epoch only if as many epochs after it      *)
(* brought nothing better; the network has the last parameters if none was   *)
(* judged (kann.c:885-898).                                                  *)
BestRestored ==
  stage \in {"returned", "cost", "done"} =>
    IF judged = <<>>
    THEN epoch = MaxEpoch /\ ann = epoch * ((NTrain + MiniSize - 1) \div MiniSize)
    ELSE \E j \in DOMAIN judged :
           /\ judged[j][1] = ann
           /\ \A q \in DOMAIN judged : ToFloat(judged[j][2]) <= ToFloat(judged[q][2])
           /\ epoch < MaxEpoch => Len(judged) - j >= MaxDropStreak
=============================================================================
