------------------------------- MODULE KannMt -------------------------------
(***************************************************************************)
(* The worker pool of KANN (kann.c, "@@MT"): kann_mt starts n_threads - 1  *)
(* workers, kann_cost splits a mini-batch among them and the caller, and   *)
(* mt_destroy stops them.  One action is one stretch of code between two   *)
(* points at which another thread can run: taking the lock, a write that   *)
(* somebody reads without the lock, waiting, leaving the lock.             *)
(*                                                                         *)
(* Memory is sequentially consistent, as on the machines the pool is built *)
(* for: n_idle is volatile and is read without the lock.                   *)
(***************************************************************************)
EXTENDS Integers, Sequences

CONSTANTS
  n_threads,       \* threads, the caller included, after kann_mt's cap
  max_batch_size,  \* rows the clones are allocated for
  Batches,         \* batch sizes kann_cost is called with
  Jobs,            \* (label, weights, input) of a call of kann_cost
  NoJob            \* before the first call

ASSUME MtAssumption ==
  /\ n_threads \in Nat /\ n_threads >= 2
  /\ max_batch_size \in Nat /\ max_batch_size >= n_threads
  /\ Batches \subseteq 1 .. max_batch_size
  /\ NoJob \notin Jobs

Workers == 1 .. n_threads - 1
Threads == 0 .. n_threads - 1
Free == n_threads   \* nobody holds the mutex

VARIABLES
  mpc,      \* where the calling thread is
  i,        \* its loop index
  B,        \* batch size of the current call
  job,      \* the current call
  request,  \* mt->cost_label, mt->cal_grad
  mtx,      \* holder of the mutex
  n_idle,
  action,   \* mt->mt[w].action
  slice,    \* what clone w works on: first row, rows, weights and input
  cost,     \* mt->mt[w].cost and the gradient: label, slice computed from
  wpc,      \* where worker w is
  seen,     \* the worker's own variable action
  arg,      \* the label its kann_cost_core was called with
  total     \* what the caller has added up, thread by thread

mainVars == <<mpc, i, B, job, total>>
workVars == <<wpc, seen, arg, cost>>
poolVars == <<request, mtx, n_idle, action, slice>>
vars == <<mainVars, workVars, poolVars>>

-----------------------------------------------------------------------------
(* Splitting n rows: first row of each thread, and its number of rows. *)

FirstRow(n) ==
  LET k[t \in 0 .. n_threads] ==
        IF t = 0 THEN 0
        ELSE k[t-1] + (n - k[t-1]) \div (n_threads - (t-1))
  IN  k
Share(n, t) == (n - FirstRow(n)[t]) \div (n_threads - t)

(* kad_sync_dim on a clone; a batch size of zero leaves the old one. *)
SyncDim(d, size) == IF size > 0 THEN size ELSE d

-----------------------------------------------------------------------------
(* The calling thread. *)

(* kann_mt clones the network for every thread ... *)
KannMtCreate ==
  /\ mpc = "none"
  /\ mpc' = "create" /\ i' = 1
  /\ n_idle' = 0 /\ mtx' = Free
  /\ action' = [w \in Threads |-> 0]
  /\ slice' = [w \in Threads |-> [from |-> 0, d |-> Share(max_batch_size, w), input |-> NoJob]]
  /\ cost' = [w \in Threads |-> [label |-> NoJob, of |-> slice'[w]]]
  /\ UNCHANGED <<B, job, total, request, wpc, seen, arg>>

(* ... starts the workers one by one ... *)
CreateThread ==
  /\ mpc = "create" /\ i < n_threads
  /\ wpc' = [wpc EXCEPT ![i] = "lock"]
  /\ i' = i + 1
  /\ UNCHANGED <<mpc, B, job, total, seen, arg, cost, poolVars>>

(* ... and waits until they are all idle. *)
SyncThreads ==
  /\ mpc = "create" /\ i = n_threads /\ n_idle >= n_threads - 1
  /\ mpc' = "ready"
  /\ UNCHANGED <<i, B, job, total, workVars, poolVars>>

CallCost(b, j) ==
  /\ mpc = "ready"
  /\ mpc' = "cost" /\ B' = b /\ job' = j
  /\ UNCHANGED <<i, total, workVars, poolVars>>

CostLock ==
  /\ mpc = "cost" /\ mtx = Free
  /\ mtx' = 0 /\ request' = job
  /\ mpc' = "assign" /\ i' = 0
  /\ UNCHANGED <<B, job, total, workVars, n_idle, action, slice>>

(* One turn of the loop of kann_cost: feeds, batch size, weights, action. *)
Assign ==
  /\ mpc = "assign" /\ i < n_threads
  /\ slice' = [slice EXCEPT ![i] = [from |-> FirstRow(B)[i], input |-> job,
                                    d |-> SyncDim(slice[i].d, Share(B, i))]]
  /\ action' = [action EXCEPT ![i] = 1]
  /\ i' = i + 1
  /\ UNCHANGED <<mpc, B, job, total, workVars, request, mtx, n_idle>>

Broadcast == wpc' = [w \in Workers |-> IF wpc[w] = "wait" THEN "relock" ELSE wpc[w]]

\* Mutants of Dispatch: the counter is not reset; nobody is woken.
DispatchNoReset ==
  /\ mpc = "assign" /\ i = n_threads
  /\ Broadcast
  /\ mtx' = Free
  /\ mpc' = "own"
  /\ UNCHANGED <<i, B, job, total, seen, arg, cost, request, action, slice, n_idle>>

DispatchNoBroadcast ==
  /\ mpc = "assign" /\ i = n_threads
  /\ n_idle' = 0
  /\ mtx' = Free
  /\ mpc' = "own"
  /\ UNCHANGED <<i, B, job, total, workVars, request, action, slice>>

Dispatch ==
  /\ mpc = "assign" /\ i = n_threads
  /\ n_idle' = 0
  /\ Broadcast
  /\ mtx' = Free
  /\ mpc' = "own"
  /\ UNCHANGED <<i, B, job, total, seen, arg, cost, request, action, slice>>

OwnShare ==
  /\ mpc = "own"
  /\ cost' = [cost EXCEPT ![0] = [label |-> job, of |-> slice[0]]]
  /\ mpc' = "sync"
  /\ UNCHANGED <<i, B, job, total, wpc, seen, arg, poolVars>>

\* Mutant of SyncCost: one worker fewer is waited for.
SyncCostEarly ==
  /\ mpc = "sync" /\ n_idle >= n_threads - 2
  /\ mpc' = "collect" /\ i' = 0 /\ total' = <<>>
  /\ UNCHANGED <<B, job, workVars, poolVars>>

SyncCost ==
  /\ mpc = "sync" /\ n_idle >= n_threads - 1
  /\ mpc' = "collect" /\ i' = 0 /\ total' = <<>>
  /\ UNCHANGED <<B, job, workVars, poolVars>>

(* One thread's cost and gradient are added with the weight of its share,  *)
(* and its rows copied back at recurrent nodes.                            *)
Collect ==
  /\ mpc = "collect" /\ i < n_threads
  /\ total' = Append(total, [cost |-> cost[i], weight |-> Share(B, i)])
  /\ i' = i + 1
  /\ UNCHANGED <<mpc, B, job, workVars, poolVars>>

Return ==
  /\ mpc = "collect" /\ i = n_threads
  /\ mpc' = "ready"
  /\ UNCHANGED <<i, B, job, total, workVars, poolVars>>

(* kann_mt(ann, 1, _) or kann_delete *)
CallDestroy ==
  /\ mpc = "ready"
  /\ mpc' = "destroy"
  /\ UNCHANGED <<i, B, job, total, workVars, poolVars>>

DestroySignal ==
  /\ mpc = "destroy" /\ mtx = Free
  /\ n_idle' = 0
  /\ action' = [w \in Threads |-> IF w \in Workers THEN -1 ELSE action[w]]
  /\ Broadcast
  /\ mpc' = "join" /\ i' = 1
  /\ UNCHANGED <<B, job, total, seen, arg, cost, request, mtx, slice>>

Join ==
  /\ mpc = "join" /\ i < n_threads
  /\ wpc[i] = "exited"
  /\ i' = i + 1
  /\ UNCHANGED <<mpc, B, job, total, workVars, poolVars>>

Destroyed ==
  /\ mpc = "join" /\ i = n_threads
  /\ mpc' = "none"
  /\ UNCHANGED <<i, B, job, total, workVars, poolVars>>

-----------------------------------------------------------------------------
(* mt_worker. *)

WorkerLock(w) ==
  /\ wpc[w] \in {"lock", "relock"} /\ mtx = Free
  /\ mtx' = w
  /\ wpc' = [wpc EXCEPT ![w] = IF @ = "lock" THEN "mark" ELSE "test"]
  /\ UNCHANGED <<mainVars, seen, arg, cost, request, n_idle, action, slice>>

(* The caller reads n_idle without the lock: it may go on before the worker *)
(* has begun to wait.                                                       *)
MarkIdle(w) ==
  /\ wpc[w] = "mark"
  /\ action' = [action EXCEPT ![w] = 0]
  /\ n_idle' = n_idle + 1
  /\ wpc' = [wpc EXCEPT ![w] = "test"]
  /\ UNCHANGED <<mainVars, seen, arg, cost, request, mtx, slice>>

CondWait(w) ==
  /\ wpc[w] = "test" /\ action[w] = 0
  /\ mtx' = Free
  /\ wpc' = [wpc EXCEPT ![w] = "wait"]
  /\ UNCHANGED <<mainVars, seen, arg, cost, request, n_idle, action, slice>>

SpuriousWakeup(w) ==
  /\ wpc[w] = "wait"
  /\ wpc' = [wpc EXCEPT ![w] = "relock"]
  /\ UNCHANGED <<mainVars, seen, arg, cost, poolVars>>

\* Mutant of TakeAction: the condition is not looked at before or after a wait.
TakeActionUntested(w) ==
  /\ wpc[w] = "test"
  /\ seen' = [seen EXCEPT ![w] = action[w]]
  /\ mtx' = Free
  /\ wpc' = [wpc EXCEPT ![w] = "act"]
  /\ UNCHANGED <<mainVars, arg, cost, request, n_idle, action, slice>>

TakeAction(w) ==
  /\ wpc[w] = "test" /\ action[w] # 0
  /\ seen' = [seen EXCEPT ![w] = action[w]]
  /\ mtx' = Free
  /\ wpc' = [wpc EXCEPT ![w] = "act"]
  /\ UNCHANGED <<mainVars, arg, cost, request, n_idle, action, slice>>

StartCost(w) ==
  /\ wpc[w] = "act" /\ seen[w] # -1
  /\ arg' = [arg EXCEPT ![w] = request]
  /\ wpc' = [wpc EXCEPT ![w] = "run"]
  /\ UNCHANGED <<mainVars, seen, cost, poolVars>>

FinishCost(w) ==
  /\ wpc[w] = "run"
  /\ cost' = [cost EXCEPT ![w] = [label |-> arg[w], of |-> slice[w]]]
  /\ wpc' = [wpc EXCEPT ![w] = "lock"]
  /\ UNCHANGED <<mainVars, seen, arg, poolVars>>

Exit(w) ==
  /\ wpc[w] = "act" /\ seen[w] = -1
  /\ wpc' = [wpc EXCEPT ![w] = "exited"]
  /\ UNCHANGED <<mainVars, seen, arg, cost, poolVars>>

-----------------------------------------------------------------------------
Init ==
  /\ mpc = "none" /\ i = 0 /\ B = max_batch_size /\ job = NoJob /\ total = <<>>
  /\ request = NoJob /\ mtx = Free /\ n_idle = 0
  /\ action = [w \in Threads |-> 0]
  /\ slice = [w \in Threads |-> [from |-> 0, d |-> Share(max_batch_size, w), input |-> NoJob]]
  /\ cost = [w \in Threads |-> [label |-> NoJob, of |-> slice[w]]]
  /\ wpc = [w \in Workers |-> "exited"]
  /\ seen = [w \in Workers |-> 0]
  /\ arg = [w \in Workers |-> NoJob]

CostStep == CostLock \/ Assign \/ Dispatch \/ OwnShare \/ SyncCost \/ Collect \/ Return
DestroyStep == DestroySignal \/ Join \/ Destroyed
Call == KannMtCreate \/ CallDestroy \/ \E b \in Batches, j \in Jobs : CallCost(b, j)
MainStep == CreateThread \/ SyncThreads \/ CostStep \/ DestroyStep
WorkerStep(w) ==
  MarkIdle(w) \/ CondWait(w) \/ TakeAction(w) \/ StartCost(w) \/ FinishCost(w) \/ Exit(w)

Next ==
  \/ Call
  \/ MainStep
  \/ \E w \in Workers : WorkerLock(w) \/ WorkerStep(w) \/ SpuriousWakeup(w)

Spec == Init /\ [][Next]_vars

(* Threads that can run do run, and a thread that finds the mutex free     *)
(* again and again gets it.  The application need not call.                *)
FairSpec ==
  /\ Spec
  /\ WF_vars(MainStep) /\ SF_vars(CostLock) /\ SF_vars(DestroySignal)
  /\ \A w \in Workers : WF_vars(WorkerStep(w)) /\ SF_vars(WorkerLock(w))

-----------------------------------------------------------------------------
TypeOK ==
  /\ mpc \in {"none", "create", "ready", "cost", "assign", "own", "sync", "collect",
             "destroy", "join"}
  /\ i \in 0 .. n_threads
  /\ mtx \in Threads \cup {Free}
  /\ n_idle \in 0 .. n_threads - 1
  /\ action \in [Threads -> {-1, 0, 1}]
  /\ wpc \in [Workers -> {"lock", "relock", "mark", "test", "wait", "act", "run", "exited"}]
  /\ seen \in [Workers -> {-1, 0, 1}]

(* While the caller believes the pool idle - from the end of the busy wait   *)
(* to the next broadcast - no worker is computing, nor about to.  What the   *)
(* caller then writes without the worker's knowledge (kann.c:361-375) and    *)
(* reads (381-396) is its own.                                               *)
Quiet(w) == wpc[w] \in {"test", "wait", "relock"} /\ (action[w] = 0 \/ mpc = "assign")
CallerAloneWhenSynced ==
  mpc \in {"ready", "cost", "assign", "collect", "destroy"} => \A w \in Workers : Quiet(w)

(* A worker that computes keeps its slice and its label until it is done:    *)
(* kann_cost_core runs without the lock (kann.c:299).                        *)
SliceKeptWhileRunning ==
  [][\A w \in Workers :
       wpc[w] \in {"act", "run"} /\ seen[w] = 1 =>
         slice'[w] = slice[w] /\ request' = request]_vars

(* kann_cost adds up the costs of this call only: each was computed with     *)
(* this call's label, weights and input, and every row of the batch is in    *)
(* the share of exactly one thread whose cost has a weight; the weight is    *)
(* the number of rows.  (A thread without a share works on rows of an        *)
(* earlier call, weight 0.)                                                  *)
RowsOf(t) == IF total[t].weight > 0
             THEN total[t].cost.of.from .. total[t].cost.of.from + total[t].cost.of.d - 1
             ELSE {}
CostOfThisCall ==
  /\ TypeOK
  /\ mpc = "collect" /\ i = n_threads =>
    /\ Len(total) = n_threads
    /\ \A t \in 1 .. n_threads :
         /\ total[t].cost.label = job /\ total[t].cost.of.input = job
         /\ total[t].weight > 0 => total[t].cost.of.d = total[t].weight
         /\ RowsOf(t) \subseteq 0 .. B - 1
    /\ \A row \in 0 .. B - 1 : \E t \in 1 .. n_threads :
         /\ row \in RowsOf(t)
         /\ \A u \in 1 .. n_threads : row \in RowsOf(u) => u = t

(* Every call of kann_cost returns, and kann_mt and mt_destroy come to an    *)
(* end: no wakeup is lost although the caller waits on a counter and the     *)
(* workers on a condition variable.                                          *)
CallsReturn ==
  /\ (mpc = "cost") ~> (mpc = "ready")
  /\ (mpc = "create") ~> (mpc = "ready")
  /\ (mpc = "destroy") ~> (mpc = "none")

=============================================================================
