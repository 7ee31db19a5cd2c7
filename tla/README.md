# Simple Neural Network Accelerator: TLA+ models and proofs

This directory holds TLA+ models of the hardware blocks in
`src/Custom-Hardware-Blocks`, of the software that drives them and of the neural
network library (KANN) around it, TLC runs that check the models on small
instances, and TLAPS proofs that hold for every instance.  Run
`tlc -config X.cfg M` with the pairs in the table under "Runs", and `tlapm M.tla`
for the modules whose name ends in `Proofs`.

Contents: 1. the system; 2. modules and correspondence; 3. runs and bounds;
4. fairness; 5. proofs; 6. findings and observations; 7. what is not modelled;
8. plan.

## 1. The system

A Nios II processor runs an inference program built on the KANN library.  The
inner loop, a dot product of a row of weights and a row of image words, is moved
to a hardware block on the Avalon bus; a DMA engine carries the words.  The
repository holds three such blocks, of which the generated system
(`nios_system.v:428`) instantiates the first:

| Part | State | Operations | Talks to |
|---|---|---|---|
| `data_buffer` ring buffer | two pointers with a wrap bit, cells | read and write enable at a clock edge, reset; flags | enclosed in the slaves |
| `nn_acc_single_non_burst` (deployed slave) | weight ring, image buffer, adder operands, word counter, result register, readdata | bus read and write | the DMA engine, the CPU |
| `weight_buffer_write`, `image_buffer_write` in `kautodiff.c` | DMA registers | start a transfer, poll BUSY, load the result | the DMA engine, the slave |
| `nn_acc_single` (burst slave) | three ring buffers, burst registers, adder operands, word counter | single and burst reads and writes with waitrequest | a bus master |
| `AcceleratorTopMod` (eight lanes) | pixel ring, coefficient buffer, latch, state machine, shift registers, result ring | coefficient, pixel and command writes, result reads | `tbAccl.sv`, `MacAcceleratorDriver.h` |
| `datapath`, `pipeline_registers` | four register stages | one clock edge with four enables | enclosed in `AcceleratorTopMod` |
| `fp_adder`, `fp_multiplier` | the adder's normalizer, unintentionally | a function of two words | all of the above |
| `kad_sgemm_simple` in the MLP program | loop variables, the output matrix | a tiled matrix product, one transfer per element | the DMA engine, the slave |
| KANN core, `kautodiff.c` | a graph of nodes: shape, value, gradient, mark, flags | linearise, mark, evaluate, back-propagate, duplicate, unroll, one function per operator | `kann.c`, the accelerator |
| KANN network, `kann.c` | collated parameters, recurrent links, mini-batch buffers, best parameters so far | build, clone, save, load, feed continuously, train | `kautodiff.c`, the application |
| KANN worker pool, `kann.c` | mutex, condition variable, `n_idle`, an action and a clone per worker | `kann_mt`, `kann_cost`, `mt_destroy` | the thread that trains |
| `mnist-cnn.c`, `mlp.c`, `kann_data.c` | files | read, call the library, print | KANN |

What is hard in it:

- *Many registers move at one edge.*  Each block is a handful of processes that
  read each other's values from before the edge; an error by one edge is
  invisible until two events meet.
- *Missing flow control.*  The ring buffer obeys its enables when it is full or
  empty; the deployed slave has no waitrequest; the overflow flag of the
  eight-lane block is read by nobody.  Correctness rests on what the other side
  sends and how fast it can send it.
- *Counters that must agree without being compared.*  The weight ring's pointer
  and the word counter; the slave's burst counter and the master's; the read
  offsets and the status latch.
- *State that several functions share.*  One field of a node holds marks, parent
  counts, positions and the batch size in turn; arrays of values are collated,
  moved, shared between steps and cloned by different functions.
- *Index arithmetic at borders*: tiles that are cut off, strides that do not divide,
  padding, the last mini-batch, a batch smaller than the pool.
- *Threads* that hand work over under a lock and wait for it without one.
- *Operations that take many edges*, while the bus goes on: a row that is being
  consumed, a result that is still in the pipeline, a reset command that arrives
  in the middle.

For each part, what makes it correct:

- ring buffer: a bounded FIFO for a client that respects the flags;
- slave with its driver: each call returns the dot product of its row with the
  row of weights sent last, and leaves the slave at the beginning of a row;
- burst slave: no overrun whatever the bus does, rows do not mix, results come
  once and in order, waitrequest always comes down;
- eight-lane block: only complete rows are read, in order, with the right
  coefficients; no ring overflows; every filter row stores its sum;
- adder and multiplier: results accurate to one unit in the last place, and a
  function of the operands;
- autodiff core: a compiled graph lists each needed node once, operands first; each
  node asked for has its current value; each variable gets its derivative over all
  paths; each operator computes what its comment says and adds its derivative;
- network: no call touches memory it does not own; the unrolled network computes
  the recurrence; every row is used as intended; the best parameters are returned;
- worker pool: the caller is alone when it believes so, rounds do not mix, every
  call returns.

`PROJECT.json` lists the parts and the hazards with the line where each bites.

## 2. Modules and how they correspond to the code

### Hardware and its drivers

Here *one step is one clock edge* (or an asynchronous reset).  Combinational
signals are operators over the current state, registers are variables, an
`always_ff` block is an operator over primed variables, and the action of a block
is the conjunction of its processes, so that all of them see the state before the
edge.  The 32-bit words are a set `Float` with a `Zero`, and `fp_adder` and
`fp_multiplier` are operator parameters `FpAdd` and `FpMul`: nothing is assumed of
them, in particular neither associativity nor commutativity, and expected values
are written in the hardware's own order of operations.  Operators announced by a
comment "Mutant of" are deliberately wrong variants; no specification uses them.

**`DataBuffer`** (`data_buffer.sv`).  `write_ptr` and `read_ptr` are records of an
index and the wrap bit; `NextState`, `buffer_full`, `buffer_empty` and `read_data`
are the `assign`s; `Write`, `Read` and `Clock` the two processes.
**`BoundedFifo`** is the abstract queue: a sequence, at most `Capacity` long, whose
clock edge may remove the front and append a word.  **`DataBufferClient`** adds the
discipline the flags ask for and the refinement mapping (`Contents`, the stored
words in order).

**`NnAccNonBurst`** (`nn_acc_single_non_burst.sv`) instantiates the ring buffer
twice.  `adder_enable` stands for the three equal enables; `weight_read_en_reg`,
`image_read_en_reg` and `adder_en_reg` are left out because the expressions that
read them never select them (when both other conditions fail the buffer is empty
or the count complete).  `BusSpec` drives the block with any access at any edge.

**`AccelOffload`** composes it with the software (`kautodiff.c:26-46` and the calls
in `conv2d_loop2`) and the DMA engine.  `phase` is the place in the software,
`sent` the words the engine has written, `Pause` an edge at which it waits for its
source.  The CPU and the engine never use the slave at one edge: the CPU polls
the engine's own registers meanwhile.  The result load takes two edges
(`ReadResult`, `ReturnResult`), as the slave translator is generated with one wait
cycle.  A row of weights may be followed by any number of image rows, also none.

**`DotService`** is what a program may expect of an accelerator: it sends a row of
weights, asks with rows of image words, and takes the dot product of each with the
weights sent last.  `AccelOffload!ImplementsService` says that slave, DMA engine and
software of the CNN program together implement it.

**`MlpOffload`** is `kad_sgemm_simple` of the MLP program: the four loops (`Advance`),
the transfer of a row (`WeightBufferWrite`), the transfer and load for an element
(`ImageBufferWrite`, `ReadResult`), and the path without the accelerator
(`DotInSoftware`).  A transfer is one step, in which each word goes to the next cell
of the ring (`WriteWord`) or is multiplied with it (`MultiplyWord`); after
`WEIGHT_BUFFER_SIZE` products the adder is cleared and the result register loaded.
The ring, the pointers, the adder and the result survive from row to row and from
call to call.  The length of the rows and the size of the ring are independent, as in
the repository (784 and 96): this program is no client of `DotService`.

**`NnAccSingle`** (`nn_acc_single.sv`): three ring buffers, the burst registers and
the handshake.  `bus` is a record of the master's signals, `taken` the common form
of the three enables.  **`BurstOffload`** composes it with a bus master that sends
weights, sends one or more image rows, or reads results, as one burst or word by
word, and holds an access while waitrequest is up.  The repository has no such
master in use; the one of `nn_acc_single_tb.sv:107-206` is commented out in part
(the test now drives the non-burst block), so the Avalon side of this module is
external and written from what the slave's ports expect.

**`Datapath`** (`datapath.sv`, `pipeline_registers.sv`): one variable per register
stage; the ranks of adders are one operator, `AddPairs`.  **`AcceleratorTopMod`**
keeps the names of the `always` blocks (`wrData`, `rdLogic`, `sm`, `macWait`,
`macPipe`, ...).  `bfrWrStsFlags` is a level-sensitive latch: it is computed from
the primed offsets, because it follows them within the same cycle.
**`AcceleratorClient`** sends the traffic of `tbAccl.sv:110-159` and of
`MacAcceleratorDriver.h` at any pace: rounds of coefficients and pixels, result
reads at any time, the reset command.  Its history variables count rows and
results.  The value of a result is written from the filter's side (`RowSum`): its own
blocks, each once and in order, on top of one of few things (`Starts`).

**`FpWord`**, **`FpAdder`**, **`FpMultiplier`**: words are records of sign, exponent and
mantissa with `ExpBits` and `ManBits` bits (8 and 23 in the code); each operator is
one `if` of the source, with the widths of the source's vectors written as `%`.
The multiplier is a function.  The adder is not: its normalizer is a chain of
`else if` without a last `else`, so its outputs are a latch, here the variable
`normalizer_out`.  **`FpTb`** is `fp_tb.sv`: both blocks on the same two operands,
which change again and again; its comparison with the simulator's own arithmetic
is replaced by comparison with exact integers (`Value`, a word in units of the
smallest subnormal).

### The library

`kautodiff.c` and `kann.c` are modelled from the copies of the CNN program.  Those of
the MLP program differ only in the length of a transfer and in which inner product
calls the accelerator (`kann.c` is the same file); the reference directories hold
the library without the accelerator.  Two
abstractions are used throughout.  *Numbers are the integers modulo a prime* (`P`
in `KadNum`): sums, products, quotients by small counts and formal derivatives are
exact there, so that a missing, doubled or misplaced term is a different number
and no property depends on rounding.  *Loops over floats are folds*: what a loop
nest writes to each element is written down as the sum over its indices, with the
index expressions of the code.

**`KadCompile`**: `kad_compile_array`, one action per turn of its loops, with `tmp` as
the code packs it (the lowest bit marks a root, the others count parents),
`kad_mark_back`, and the second compilation that `kann_new` makes when it adds a
pivot.  The inner loops are recursive functions over the operands of a node, the
roots or the nodes of the list (`Counted`, `Released`, `FreeRoots`, `MarkedBack`).  **`KadEval`**: `kad_propagate_marks`, `kad_eval_marked`, `kad_eval_at`,
`kad_grad`, `kann_switch`, `kann_eval` and disabled nodes, in any order, on graphs of
scalars.  Its loops over nodes and operands are recursive functions, one turn each
an operator (`PassMark`, `ForwardOne`, `BackwardOne`), so that they can be reasoned
about; `mark` is the field `tmp`, and `Arity` what the constructors make.  **`KadOps`**: twenty operators on arrays of any shape, made
(`Finalize`, the `KAD_SYNC_DIM` part), run forwards, given a gradient from above and
run backwards, then with other data again.  **`KadConv`**: the two convolution
algorithms and the poolings: sizes and padding (`FindPar`), the kernel turned in
place, the macros (`Conv2dLoop1`, `Conv2dLoop2`: sets of index triples, walked in
three directions), the copy for padding, and the accelerator in the inner product
of the second algorithm (`Transfer` words).

**`KannStore`**: the heap.  Blocks, pointers into them and one cell per row of an
array; every call of `kann.h` that allocates, moves, shares or frees
(`KadSyncDim`, `ExtCollate`, `RnnStart`, `RnnEnd`, `Clone`, `Save`, `Load`, `Delete`).
`Realloc` may move a block or not.  A wrong access does not stop the model; it sets
`bad`.  **`KannLayers`**: dense, RNN, GRU and LSTM layers as graphs, and the formulas
of their comments.  **`KannUnroll`**: `kad_unroll` with its flags, pivot by pivot and
step by step, then evaluation in blocks with and without `kann_rnn_start`.  `copies`
is the array `t`, `wlist` the list `w`; the loops that set the flags and collect the
pivots are functions of the network (`Flagged`, `PivotList`).
**`KannTrain`**: `kann_train_fnn1` and `kann_cost_fnn1`: shuffling, mini-batches,
validation split, early stopping and the copy of the best parameters, which are
known by the number of updates that led to them.  The cost is a fraction for each
row, its weight in the mean, and not a number: what the rows cost does not matter.

**`KannMt`**: the worker pool.  One action is one stretch of code between two points
at which another thread can run.  Wakeups may be spurious; `n_idle` is read without
the lock, as in the code.  Memory is sequentially consistent.  The pool is created
and destroyed again and again.

`MC...` modules hold the values TLC needs.  In `MCAccelOffload`, `MCBurstOffload`
and `MCAcceleratorClient` a word is a *formal sum*, a sequence of products of
numbered inputs, so that a wrong, missing, doubled or misplaced term is a
different value.  In `MCNnAccSingle`, where any word may arrive at any time, only
zero and one token are told apart.  **`MCBlocks`**, **`MCKautodiff`** and **`MCKann`** each
run several modules at once: these share nothing while they run, so `part`
chooses one of them in the initial state, the variables of the others stay
`Unused` or at a start, and each property of the MC module names the properties of the parts that
make it up.  `KadCompile`, `KadEval`, `KannUnroll` and `KannTrain` are extended rather than
instantiated, so that their assumptions are evaluated and the properties that are
proved are what is checked; while another part runs their variables stand at the
start of a compilation, an evaluation, an unrolling or a training.

## 3. Runs

| Run | Module and configuration | Question |
|---|---|---|
| Blocks | `MCBlocks` / `Blocks.cfg` | is the ring buffer a FIFO for a disciplined client (`ImplementsFifo`, `NoOverrun`)?  Are sums and products accurate (`SumWithinUlp`, `ProductWithinUlp`), and are sums a function of the operands (`NoMemory`)? |
| AccelOffload | `MCAccelOffload` / `AccelOffload.cfg` | does each call return its dot product (`ReturnsDotProduct`), aligned (`AlignedBetweenCalls`), without overrun (`ImageNeverOverruns`), summing the right words on the way (`SumMatchesCount`)?  Is it the service (`ImplementsService`)? |
| MlpOffload | `MCMlpOffload` / `MlpOffload.cfg` | does the tiled product give each element one sum, of words of its own two rows only, whatever rows and calls before have left in the accelerator (`EachElementOnce`)? |
| MlpProduct | `MCMlpOffload` / `MlpProduct.cfg` | is that sum the product of the two rows when they are longer than the ring (`ProductOfRows`)?  It is not. |
| NnAccSingle | `MCNnAccSingle` / `NnAccSingle.cfg` | what does the handshake alone guarantee (`ImageNeverOverruns`, `RowIsAtomic`, `RowStartsClean`)? |
| BurstOffload | `MCBurstOffload` / `BurstOffload.cfg` | are results delivered once and in order (`ResultsInOrder`, `EveryRowHasItsResult`), do both sides count alike (`CountsAgree`), does every transfer end (`TransferEnds`)? |
| AcceleratorClient | `MCAcceleratorClient` / `AcceleratorClient.cfg` | does each result hold the blocks of its own filter row, each once, and not the sum of another (`ResultsOfOwnRows`), is no row lost (`NothingLostWhenQuiet`), does each result come (`EveryRowIsStored`)? |
| AcceleratorAnyCommand | `MCAcceleratorClient` / `AcceleratorAnyCommand.cfg` | what survives a reset command at any edge (`ReadsCompleteRows`, `PixelRingNeverFull`, `OperandsInOrder`, `AtMostOneStaleResult`)? |
| FpTbCancel | `MCFpTb` / `FpTbCancel.cfg` | do a word and its opposite cancel (`OppositesCancel`)?  They do not. |
| Kautodiff | `MCKautodiff` / `Kautodiff.cfg` | is the compiled graph right (`CompiledGraph`), are values current (`EvalGivesValue`), gradients derivatives (`GradIsDerivative`), operators as documented (`ValueAsDocumented`, `GradIsSlope`)? |
| Kann | `MCKann` / `Kann.cfg` | is memory used soundly and does continuous feeding go on (`MemorySound`), is the unrolled graph well made (`UnrolledGraph`) and does it compute the recurrence (`UnrollsTheRecurrence`), are rows used once (`RowsUsedOnce`), is the best kept (`BestRestored`)? |
| KannMt | `KannMt` / `KannMt.cfg` | is the caller alone when it believes so (`CallerAloneWhenSynced`), is a worker left alone while it computes (`SliceKeptWhileRunning`), are only this call's costs added (`CostOfThisCall`), does every call return (`CallsReturn`)? |

Bounds, and why they are enough:

- *Ring buffer*: 5 cells (not a power of two, as 96 and 24 are not).  The state
  space is complete: pointers go round without limit, so any number of laps is
  covered.  Two different words suffice because cells are never compared.
- *Slaves*: rows of 3 under any traffic; rows of 5 and an image buffer of 3,
  shorter than a row as in the generated system (96 and 8), under the DMA's
  traffic.  Two rows of weights and two of image words make a mixed or repeated row
  visible.  The number of calls is not bounded.
- *Burst slave*: rows of 3, a result buffer of 2, transfers of up to two rows
  (`MaxRows`), so that a burst is stopped in the middle by a full image buffer and
  the result buffer fills and wraps.  The number of transfers is not bounded.
- *Eight-lane block*: a pixel ring of 4 rows (16 in the code), 2 blocks and 2 cells
  per filter row (4 and 3), a result ring of 2 (24): small enough to wrap both
  rings in one round.  The number of lanes and the latency are those of the code.
  A round has 13 pixel rows (3 results and one row over) or 9, and there are at
  most two reset commands (`MaxCommands`): a leak from one round into the next is
  the only effect a command can have, since it resets all state but the shift
  registers and the datapath.  A hardware reset may come at any edge.
- *MLP product*: tiles of 2 and matrices of up to 3 by 5, so that tiles are whole,
  cut off in either direction or both, and single; rows of the length that is
  offloaded and of another; any sequence of calls.  The ring has 3 cells and an
  offloaded row 5 words: the pointers begin at another cell and the adder with
  another number of products from row to row, and 2 * 3 - 1 is the shortest row for
  which `EachElementOnce` holds (with 4, a result may still hold products of the row
  before).  In `MlpProduct` rows have 8 words, over two times around the ring and 2
  more, as 784 is eight times 96 and 16 more.
- *Adder and multiplier*: 3 exponent and 4 mantissa bits: shifts from none to
  beyond the mantissa, every class of word, both sides of overflow and underflow.
  The first operands are any pair; later ones are a selection (`MCInputs`), because
  what a pair leaves behind is only the latch, of which `NoMemory` tries the ends
  of the range as well.  The theorems of section 5 are about every width.
- *Compilation*: all graphs of 4 nodes with up to two operands each, repeated
  operands included, and all lists of one or two roots; a node used three times, and
  a root below another root, are the cases of interest and need no more.
- *Evaluation*: three graphs, for the ways a node can be shared: over two paths,
  over two branches of a switch, over two costs.  All values modulo 3; any order of
  calls, without a bound.
- *Operators*: shapes of one to three dimensions of size up to 4, with tiles of 2:
  broadcasting, every axis, parameters that are rejected, operands that need no
  gradient, feeds that are not bound, a choice between operands of one length and
  different shapes.  Each case runs any number of rounds with
  three sets of data.
- *Convolution*: several samples, input and output channels, strides that do and do
  not divide, padding behind the image, kernel rows on both sides of the switch
  between the algorithms.
- *Memory*: one recurrent network with a layer normalization, batches of 1 and 2,
  one other network (clone or loaded copy) at a time, two steps of continuous
  feeding; the number of calls is not bounded.
- *Unrolling*: the three recurrent layers, two layers on top of each other, a second
  output, an encoder with a decoder; one to three steps, two blocks.
- *Training*: four rows in batches of two, with no or one row for validation, six
  epochs, three costs of validation of which two are one float.
- *Worker pool*: three workers, batches of 2 (fewer rows than threads) and 6 (not a
  multiple of 4), two different calls.

No run switches off the deadlock check.

## 4. Fairness

Safety runs assume none.  Three runs check a liveness property:

- `BurstOffload!FairSpec`: weak fairness of `Transfer`.  A master in the middle of
  a transfer goes on driving it, and the clock does not stop.  Starting a
  transfer, pausing and reset are not fair.  The slave has no fairness of its own:
  it moves with the clock.
- `AcceleratorClient!FairSpec`: weak fairness of `ReadResult \/ Pause`, the edges at
  which the client writes nothing.  It says only that the clock does not stop; no
  word, command or reset has to come.
- `KannMt!FairSpec`: a thread that can run does run (weak fairness of the caller's
  steps and of each worker's), and a thread that finds the mutex free again and
  again gets it (strong fairness of taking the lock).  POSIX promises the second
  only by scheduling priority; without it a worker could be kept from the lock for
  ever by the others.  The application is not obliged to call.

## 5. Proofs

All constants are arbitrary within the named assumptions of the modules.
`SizeAssumption`, `TransferAssumption` and the like say that sizes are positive and
rows fit their rings.  `BurstAssumption` bounds a transfer by 2047 words, because
`burstcount` is 11 bits wide (`nn_acc_single.sv:14`).  `FloatAssumption` and the
typing of `Coeff` and `Pixels` say that the inputs are words.  `FpClosed`, a
hypothesis of the theorems that need it, says that sums and products of words are
words.

**`BlockProofs`**, the ring buffer.  `TypeCorrect`: pointers and cells stay in range whatever the
enables do.  `ClientNoOverrun`: for a disciplined client the distance of the
pointers (`Occupancy`) stays between 0 and `BufferSize`; this with the types is
inductive (`ClientInv`).  `ClientImplementsFifo`: the initial state, each clock edge
and each reset map to those of `BoundedFifo`.  The step needs how one edge changes
`Contents` (`ClockContents`): a write extends it, a read drops the first word, and
indices that wrap do not meet because of `ClientInv`.

**`BlockProofs`**, the adder.  For every `ExpBits` and `ManBits` of at least 2 and every
`LowestBit` below `ManBits`, hence for the code's 8, 23 and 3.  The state needs no
more than types (`TbInv`); the work is the arithmetic of one sum:

- `Sums` says what a mantissa is worth before it is aligned: in units of the last
  place of the larger operand it is the exact sum, cut off by less than one unit, on
  the right side of both operands.  Shifted operands (`ShiftedSums`, by division by
  the power of two), equal exponents (`EqualSums`) and hence `AdderOut` (`AdderSums`)
  have it;
- the leading one is found by the chain of cases if it is not below `LowestBit`
  (`LeadingBit`), and shifting it up changes the exponent by as much, so the value is
  kept and the latch is not used (`NormalizedSum`).  A carry is shifted out and costs
  at most a unit (`AlignedSum`);
- `RegularSum` puts them together, with the hidden bit removed from the result.

`SumsAreAccurate` and `SumsHaveNoMemory` follow.  The hypotheses are those of
`Regular`, and the finding `FpTbCancel` is outside them.

**`BlockProofs`**, the multiplier, for the same widths.  The product of two mantissas has
one of two lengths (`MantissaProduct`), and rounding adds at most one
(`RoundedProduct`).  The exact product is a power of two times a normalized mantissa
(`ExactProduct`, `Factors`), so that comparing it with the smallest and the largest
word is comparing exponents (`FactorsOrder`, `ProductBounds`): the block's tests of the
exponent are right for underflow, overflow and the range between (`ProductCases`).
`RoundingError` bounds what is lost there, and nothing is if the exact product is a
word.  `ProductsAreAccurate` follows, with the carry of rounding excluded as in its
run.

**`AccelOffloadProofs`.**  `BusSafe` is about the slave under any bus traffic, also
traffic no driver produces: the types are kept, the read position agrees with the
word counter (`ReadPositionIsCount`) and a row starts with a cleared adder
(`AccumulatorClean`).  Together they are inductive.

The properties of `AccelOffload` follow from
`OffloadInv`, needed because none of them is inductive alone.  Its parts:

- `AccInv`, from the module before, and the software's types;
- `Drained`: the image buffer holds at most one word, and none while a result is
  taken.  The deployed slave is safe without flow control for this reason only;
- `Positions`: where the software is in a transfer determines the pointers and the
  word counter;
- `WeightsInPlace`, `ImageInPlace`: which words the buffers hold;
- `SumsInPlace`: what the adder, the result register and readdata hold.

There is one lemma per action (`SendImageInv`, `SettleInv`, ...) over common
lemmas about one edge of the slave (`SlaveEdge`, `SumEdge`, `Edge`).  The sum of a
row is defined by recursion; the proof never unrolls it.  `SumIs(weights, image, n, s)` says that the
recursive equation has a solution up to `n` and that all its solutions end in `s`.
It holds for no terms (`SumZero`), is extended by one term at each edge
(`SumNext`), and gives the value of the recursive definition (`SumValue`).

`OffloadImplementsService`: with the row in force and the answer as the refinement
mapping, the initial state is one of `DotService`, and each action is one of its
steps or a stutter: the start of a transfer of weights is `SendWeights`, the load of
the result is `Ask`, the return is `Take`, and everything else does not show.

**`MlpOffloadProofs`.**  The tiled product, for all shapes and sizes of tiles, of the ring
and of the rows that are sent to it, if these have at least two rings of words less
one (`MlpAssumption`); the code's 784 words and 96 cells are a case of it.  `Done(r, c)`
says that the loops have been at an element; the invariant (`MlpInv`) is that an element
has one sum of its own rows if they have, nothing otherwise, and that every cell of the
ring holds a word of the row of `A` in force, wherever the pointers are.  `AdvanceStep`
shows that the four loops add exactly the current element to those done.  What a
transfer does is shown word by word, by induction:

- weights (`WordWritten`, `RowWritten`): after n words the n cells behind the pointer,
  counted from where it began, hold words of this row, so a row as long as the ring
  leaves no older word in it;
- image (`WordMultiplied`, `RowMultiplied`): the adder may hold up to
  `WEIGHT_BUFFER_SIZE - 1` products of the row before, which go into the first result of
  this one; the result that counts is the last, and one that began within this row is
  complete once the row has gone on for two rings less a word.

`ElementsOnce` follows.  That the sum is the whole product of the rows is not proved: it is
false (`MlpProduct`).

**`KannProofs`**, first part.  The linearization, for every graph, every list of different
roots and whatever flags are set before.  `Tally(S)` says that `tmp` of every node is
twice the number of operand positions in the nodes of `S` that hold it, plus the bit
of the roots.  The invariant (`CompileInv`) is about three sets of nodes:

- counting (`CountInv`): `Tally` of the nodes that are marked and no longer on the
  stack.  When the stack is empty the marked nodes are closed under operands, hence
  all that the roots need, the least such set (`AllCounted`);
- sorting (`SortInv`): `Tally` of the nodes that are needed and not yet put out; the
  stack holds those of them nobody in the set uses, once; the users of a node that
  is out were put out before it (`UsersFirst`).  A root that is an operand of
  another root has its bit, and no place on the stack before its count is down;
- at the end: a set of nodes in which each is used by another is empty
  (`EveryNodeUsed`, by induction over the numbers of the nodes), so every node is
  out, and `tmp` is zero everywhere; the flags follow node by node along the list.

Each inner loop has a lemma about one turn (`CountOne`, `ReleaseOne`, `FreeOne`,
`MarkOne`) and one about the loop, from `RecursionExists` and `LoopKeeps`.
`GraphIsCompiled` is all of `CompiledGraph`, for the second compilation too.

**`KannProofs`**, second part.  Training, for every number of rows, any way to split
off the rows for validation, all sizes of batches and any sequence of costs.
A shuffle is a permutation whatever is drawn (`ShuffledOrder`, by `LoopKeeps`).  The
invariant (`TrainInv`) has four parts:

- `PassInv`: the rows costed in a pass are the first `nProc` of its order, so at its
  end they are each of the rows once; the rows trained with are the first `NTrain`
  places of the first shuffle, those validated with the others.  `BatchStep` shows
  that what a smaller last batch leaves in the buffers is not costed;
- `CostInv`: a row that `kann_cost_fnn1` has costed has the weight 1, the others 0.
  `Weights` is the arithmetic of the fractions;
- `AnnInv`: the number of updates, a whole number of times the quotient of rows and
  batch size, rounded up (`Ceiling`);
- `JudgeInv`: the parameters kept are from an epoch that was judged, whose cost as a
  float is the least, and `drop_streak` is the number of epochs judged since
  (`Leads`).  A cost below the least may round to the same float, but never to a
  larger one (`Rounded`).

`RowsAreUsedOnce` and `TheBestIsRestored` follow.  They need that `FLT_MAX` is more
than any cost, and a limit of at least one epoch without a better one.

**`KannProofs`**, third part.  Unrolling, for every network and every length of each
pivot.  Under `UnrollAssumption` operands and predecessors come before the nodes
that name them, what a pivot pools is computed at each step (it is neither a
parameter, a pivot nor a predecessor), and a predecessor is among the nodes that are
unrolled with the node that follows it.  The loops come first: `PivotListIs` (all pivots, in
their order) and `FlaggedIs` (the flagged nodes hold the operands of the pivot and of
each flagged node that is no pivot).  The order of the new graph is a matter of one
lemma, `OrderGrows`: a copy may be appended when its operands are listed.  What
makes them so is the invariant (`UInv`), which says what the array `t` holds in the
midst of a step:

- `UDone`: the pivots before, and the flagged nodes before the one at hand, have a
  copy; a flagged pivot is therefore skipped, and the operands of any other flagged
  node are there;
- `UNew`: nothing above the pivot at hand has one, which is the assertion of
  `kad_unroll_helper`;
- `UList`, `UPivot`: the only copy that is not listed is that of the pivot at hand, and
  the places it has for the steps done are filled with listed copies;
- `UOne`: a parameter has a copy exactly if `t` is set, although `t` of a predecessor is
  overwritten by the copy of the node that follows it.

`UnrollingIsSound` follows.

**`BurstOffloadProofs`**, first part.  The burst slave under any bus traffic.  Both buffers, the
word counter and `calcinprogress_reg` are tied together by `RowPhase`: a row is
being consumed exactly while the image buffer holds the words that are still
missing from the count, and the weight ring's read position is the count.  With
the types (`AccTypeOK`) and the occupancies this is inductive (`SlaveInv`), and
`ImageNeverOverruns`, `RowIsAtomic` and `RowStartsClean` follow.

Second part.  The slave with its master.  `BurstOffloadInv` adds to
`SlaveInv`:

- `MasterInv`: what a transfer has left to do (`TransferInv`), and how many results
  the slave owes (`OwedInv`);
- `BurstInv`: slave and master count alike;
- `WeightsInv`, `ImageInv`: which words the two rings hold, by their place in a row;
- `RowInv`: what the adder and the result register hold of the row in progress;
- `QueueInv`: the result ring holds the dot products of the oldest rows that are
  owed, in their order.

One lemma per action says what the edge is for the slave (`Quiet`, `SendsWeight`,
`SendsImage` or `GetsResult`); each part is then kept by each kind of edge
(`WeightsStep`, `ImageStep`, `RowStep`, `QueueStep`).  The theorems are
`OwedResultsInOrder`, `RestingSlaveOwesNothing` and `BurstCountsAgree`.

**`AcceleratorClientProofs`.**  The eight-lane block with its client.  The
invariants are built in the order of the pipeline:

- `ControlInv`: the words sent determine the ring's offsets and the status latch, and
  the state machine's wait counter is due at one known edge; `RowsComplete` and
  `RingNeverFull` follow;
- `FrontInv`: the rows in the ring, the row that was read last and the place of its
  coefficients in the filter; `OperandsMatch` follows;
- `PipeInv`: which enables are travelling through the shift registers, hence how
  many results are stored or in flight; `OneStaleResult` and `NothingLost` follow;
- `ResultInv`: what each pipeline stage, the accumulator and the result ring hold;
  the last as a running sum, which is turned into the sum of a row
  (`RunningSumOfRow`); `ResultsAreOwnRows` follows.

`NothingLost` and `ResultsAreOwnRows` are under `QuietCommands`, as their run is:
without it a command loses what is on its way, which is what
`AtMostOneStaleResult` is about.

**`KannCostProofs`**, first part.  Evaluation and back-propagation, for every graph,
modulus (prime or not), choice of operands and order of calls, under
`EvalAssumption`: operands come before the nodes that use them, as many as the
constructors give.  Two closed forms stand in for the recursive
definitions: `Values(x, off)`, the one solution of the equations of the nodes
(`ValuesAre`, `ValuesUnique`), and `Reached(S)`, the least set that holds `S` and the
operands wanted by its members.

- Marks (`MarksAre`): after `kad_propagate_marks` the marked nodes are the reached
  ones.  The loop goes from the last node to the first, and a node passes its mark
  to smaller ones only, so one pass is enough.
- Evaluation (`EvalMarkedIs`, `EvalMarkedGives`): after `k` turns the first `k` nodes
  hold their value if they are marked and what they held before if not; a marked
  node uses marked nodes and disabled ones only.
- Back-propagation (`BackwardKeeps`): let D be the derivatives of all nodes by one
  variable.  The sum of `g[j] * D[j]`, over the marked nodes whose turn is still to
  come and the marked leaves, does not change modulo `P` when a node takes its turn,
  because D of the node is the sum of the partial derivatives times D of the
  operands (`ChainRule`).  At the start the sum is D of the function; at the end
  only leaves are left, of which one has a D that is not zero.

`EvalInv` is the inductive invariant.  The two properties are about a call that has
just ended, and `KadGrad` relies on the evaluation before it: hence `UpToDate`, that
*every* node a call reached, not only those it was asked for, holds its value until a
leaf or a switch changes.  `EvaluationCorrect` and `BackPropagationCorrect` follow.

**`KannCostProofs`**, second part.  The worker pool, for any number of workers, rows and calls.
`PoolInv` says who holds the mutex, that `n_idle` is the number of workers that have
marked themselves idle since it was reset, and what is true in each phase of the
caller; `CallerAlone` and `SliceKept` follow.  `CallInv` adds which worker has been
given which rows (`Assigned`) and which has computed its cost (`Computed`), and that
the rows given add up to the batch; `CostsOfThisCall` follows.

**`NaturalLemmas`.**  Induction over a set of naturals instead of an operator: a set
that holds 0, and with every number the next, holds all of them.  It follows from
the well-founded order of the finite sets (`FiniteSetTheorems`).  From it:
a recursive function exists if its step is a function (`RecursionExists`), and what
each step keeps holds of the last value (`LoopKeeps`).  Powers of two, of which the
provers know only that they are numbers, are counted as subsets of an interval
(`PowerNext`); sums, order and the leading bit follow by induction.  Division is
brought back to products (`Division`, `QuotientUnique`).

Congruences and finite sums, of which neither the provers nor the library know
anything, are built up in the same way: `Cong` and its rules (`CongSum`,
`CongProduct`), `SumTo` and what one changed term does to a sum (`SumChange`).  That
equations over the nodes of a graph, each in terms of smaller nodes, have one
solution is `RuleHasSolution`.

Only model-checked: liveness, which is out of the provers' reach; what the operators
on arrays compute (`ValueAsDocumented`, `GradIsSlope`: nested sums over index
expressions, a closed form for each of some thirty loop nests); the memory of
`KannStore` (`MemorySound`: each call is a composition of folds over the nodes whose
steps are given as operators, and each fold would need an invariant of its own on
the half-changed heap); and the values of the unrolled and the continuously fed
network (`UnrollsTheRecurrence`), whose recurrence is over steps and nodes at once.
The library's induction theorems take operators, which the provers
cannot instantiate; `NaturalLemmas` is the way around that, and carries the proofs
about loops, arithmetic and graphs so far.

## 6. Findings and observations

Two runs show a disagreement with the source's own words.

- The header of `fp_adder.sv` promises IEEE 754 addition, but a word and its opposite
  give what an earlier sum left in the normalizer (`FpTbCancel`).
- `kad_op_cmul` of the MLP program calls `kad_sgemm_simple` for `Y = X * trans(W)`
  (`kautodiff.c:1176` of that program), and the inner product that was replaced is still
  there as a comment (line 958).  The program sends 784 words to a ring of 96 cells of
  the generated system (lines 30 and 944, `nios_system.v:429`).  What it reads is a sum of
  96 products of words of the two rows, in part of words at different places: not the
  product of the rows (`MlpProduct`).  `EachElementOnce` says what does hold.

The following were met while modelling, mostly as counterexamples of TLC with other
constants than those of the runs.  The runs are kept to the inputs for which the
code works; each restriction is named here.

- *Ring buffer.*  `data_buffer_tb.sv:89-91` asserts that the buffer is full after
  writing two words more than it holds.  It is not: `buffer_full` is up for exactly
  one distance of the pointers, and the write pointer has passed it.
- *Eight-lane block.*  Every filter row but the first of a round starts with
  the last block of the row before: `accumulatorReset` clears the sum but loads
  stage 3, where that block still stands (`pipeline_registers.sv:112`).  Nothing in
  the repository states the expected value: `ResultsOfOwnRows` allows such a block
  (`Starts`), does not ask for it, and holds too if the clear is changed to load zero.  A reset
  command does not stop the shift registers: one result of the old round may be
  stored in the new one (`AtMostOneStaleResult`), and the accumulator's sum goes on
  into the next round (`carry`).  `getMACFromAcceleratorDma` starts with that command,
  which also clears the coefficients sent before it.
- *Burst slave.*  A single write at the edge after a burst is dropped, because
  `ifbursttransfer` is still up; a read burst longer than the results due holds the bus
  for good; and a row completed while the result buffer is full makes all its results
  disappear.  `BurstOffload` leaves the three to the master's discipline.
- *Adder.*  An infinite sum has the exclusive or of the operands' signs
  (`fp_adder.sv:202`); subnormal sums have the carry bit set by force (line 61); an
  exponent counted up to the largest keeps its mantissa and is a NaN (line 182).
  `Regular` excludes these.
- *Multiplier.*  Rounding up a mantissa of ones drops the carry and halves the product
  (`fp_multiplier.sv:60`, excluded by `RoundingCarries`); an infinity times a negative
  word keeps its sign (line 91).
- *MLP transfers.*  That a transfer is one step of `MlpOffload` takes for granted that no
  image word is lost.  With a word at every edge it is not so: the slave consumes no word
  at the edge at which it stores a result, and after eight results in one transfer the
  image buffer of 8 is overrun (at the 777th of 784 edges).  One pause of the DMA
  engine in a transfer is enough to avoid it.
- *Convolution transfers.*  96 words are sent whatever the length of a kernel row
  (`kautodiff.c:31, 42`); a longer row is summed in part.  `ConvAssumption` excludes
  shorter rows, the cases longer ones.
- *Convolution padding.*  With padding above the image the kernel rows that start in
  it are left out everywhere; with padding beside it the gradient of the input goes
  to a copy of the row; pooling with padding in front sees other elements than those
  under the window.  The cases have padding where the code handles it.
- *Gradients.*  `kad_grad` clears the gradients of marked nodes only: variables the
  cost does not depend on keep what an earlier call left, and the optimizer applies
  it again.  `GradIsDerivative` is about the others.
- *Switch and select.*  `kann_switch` changes the choice of every node of operator 12
  with two operands, also that of a select.
- *Maximum.*  `kad_op_max` adds to the gradient of an operand without asking whether it
  has one (`kautodiff.c:1817`), as every other operator does.  `OpsAssumption` gives it
  operands that have.
- *Concatenation.*  In the backward pass an operand without gradient is not counted
  in the offset of those behind it.  *Stacking* nodes of four dimensions writes a
  fifth beyond `d[KAD_MAX_DIM]`.
- *Memory.*  A clone with the batch size of the original has no `gtmp` for a maximum
  (`kad_dup1`); a maximum allocates it again at each change of the batch size and
  loses the old one; a layer normalization or pooling of an input has none at all
  (`KAD_ALLOC` is run for nodes with a gradient); a computed initial hidden value is
  written again at each step of continuous feeding.  The network of `MCKann` has
  none of these.
- *Unrolling.*  A network without recurrence is copied where `kann.h:89` promises NULL.
  A pivot on top of a parameter, of another pivot or of the predecessor of a recurrent
  node is given one operand at the most, and the other places stay as `realloc` left
  them; `UnrollAssumption` leaves such networks out.
- *Worker pool.*  A share of no rows leaves a clone with the rows of an earlier call
  (`kad_sync_dim` ignores a batch of 0); its cost has weight 0, but
  `kann_class_error` and the copy-back of recurrent nodes count its rows.

## 7. Not modelled

- The Qsys interconnect, the DMA engine, the board support packages and the
  reference software: generated or vendored.  What the models need of them is
  external (the definitions marked so in `PROJECT.json`).  Most lines of the
  repository are of this kind, or are further copies of `kautodiff.c` and `kann.c`,
  which are modelled once; the share of lines the models cover is small for that
  reason.
- Operators with transcendental functions (`exp`, `log`, `sin`, `sigm`, `tanh`,
  `softmax`, the cross entropies, the arithmetic of layer normalization): their
  values are not integers.  In `KannLayers` the activations stand for any function.
- `kann_RMSprop`, gradient clipping, initial weights, random numbers as such
  (what is drawn is any value), and `kann_apply1` beyond evaluation.
- The polling of the DMA registers in `MacAcceleratorDriver.h`, `datapath_tb.sv`,
  `data_buffer_tb.sv`.
- Applications, file formats and printing: input and output only.
- Registers nothing reads (`controlReg`, `pxBfrWrOvf`, `cellEndPipeSReg`, ...) and
  unused signals (`illegal_weight_access`).
- Metastability, glitches and timing below one clock cycle; compiler and memory
  models of the C code (`volatile`, weak memory).

## 8. Plan

Done: the ring buffer and its refinement; the deployed slave, its offload and the
service; the burst slave; the eight-lane block; adder and multiplier; the MLP
product; the autodiff core, the network layer and the worker pool.  Proofs of the
safety of all hardware blocks, of the accuracy of their arithmetic, of the worker
pool, of the linearization, of evaluation and back-propagation, of unrolling, and of
training.

Left:

1. Proofs: `UnrollsTheRecurrence` of `KannUnroll`, over the evaluation theorem of
   `KannCostProofs`; `NoBadAccess` of `KannStore`.
2. `MacDriver`: the polling driver of the eight-lane block with the DMA engine's
   BUSY and DONE bits and the empty waits; how early a result can be read.
3. The composition of `KannMt` with `KannStore`: the clones' memory under the pool.
