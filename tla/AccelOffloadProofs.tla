------------------------- MODULE AccelOffloadProofs -------------------------
(***************************************************************************)
(* Proofs about the deployed multiply-accumulate slave, first under any bus *)
(* traffic, then under the transfers of the software: for every row length, *)
(* every size of the buffers, all rows, and every adder and multiplier.    *)
(***************************************************************************)
EXTENDS AccelOffload, TLAPS

\* The adder and the multiplier return words.
FpClosed == \A a, b \in Float : FpAdd(a, b) \in Float /\ FpMul(a, b) \in Float

USE SizeAssumption, FloatAssumption

\* A ring buffer of the slave at one clock edge: types, and where its read
\* pointer goes.
LEMMA WeightBufferClock ==
    ASSUME WEIGHT_BUFFER!TypeOK,
           NEW re \in BOOLEAN, NEW we \in BOOLEAN, NEW wd \in Float,
           WEIGHT_BUFFER!Clock(re, we, wd)
    PROVE  /\ WEIGHT_BUFFER!TypeOK'
           /\ weight_read_ptr' =
                 IF re THEN WEIGHT_BUFFER!NextState(weight_read_ptr)
                       ELSE weight_read_ptr
<1> USE DEF WEIGHT_BUFFER!TypeOK, WEIGHT_BUFFER!Pointer, WEIGHT_BUFFER!Index,
            WEIGHT_BUFFER!Clock, WEIGHT_BUFFER!Write, WEIGHT_BUFFER!Read,
            WEIGHT_BUFFER!NextState
<1>1. weight_read_ptr' \in WEIGHT_BUFFER!Pointer
  OBVIOUS
<1>2. weight_write_ptr' \in WEIGHT_BUFFER!Pointer
  OBVIOUS
<1>3. weight_array' \in [WEIGHT_BUFFER!Index -> Float]
  OBVIOUS
<1>4. QED
  BY <1>1, <1>2, <1>3

LEMMA ImageBufferClock ==
    ASSUME IMAGE_BUFFER!TypeOK,
           NEW re \in BOOLEAN, NEW we \in BOOLEAN, NEW wd \in Float,
           IMAGE_BUFFER!Clock(re, we, wd)
    PROVE  /\ IMAGE_BUFFER!TypeOK'
           /\ image_read_ptr' =
                 IF re THEN IMAGE_BUFFER!NextState(image_read_ptr)
                       ELSE image_read_ptr
<1> USE DEF IMAGE_BUFFER!TypeOK, IMAGE_BUFFER!Pointer, IMAGE_BUFFER!Index,
            IMAGE_BUFFER!Clock, IMAGE_BUFFER!Write, IMAGE_BUFFER!Read,
            IMAGE_BUFFER!NextState
<1>1. image_read_ptr' \in IMAGE_BUFFER!Pointer
  OBVIOUS
<1>2. image_write_ptr' \in IMAGE_BUFFER!Pointer
  OBVIOUS
<1>3. image_array' \in [IMAGE_BUFFER!Index -> Float]
  OBVIOUS
<1>4. QED
  BY <1>1, <1>2, <1>3

LEMMA BuffersInit ==
    /\ WEIGHT_BUFFER!Init => WEIGHT_BUFFER!TypeOK
    /\ IMAGE_BUFFER!Init => IMAGE_BUFFER!TypeOK
  BY DEF WEIGHT_BUFFER!Init, WEIGHT_BUFFER!TypeOK, WEIGHT_BUFFER!Pointer,
         WEIGHT_BUFFER!Index, WEIGHT_BUFFER!ResetState,
         IMAGE_BUFFER!Init, IMAGE_BUFFER!TypeOK, IMAGE_BUFFER!Pointer,
         IMAGE_BUFFER!Index, IMAGE_BUFFER!ResetState

LEMMA BuffersReset ==
    /\ WEIGHT_BUFFER!Reset => WEIGHT_BUFFER!TypeOK'
    /\ IMAGE_BUFFER!Reset => IMAGE_BUFFER!TypeOK'
  BY DEF WEIGHT_BUFFER!Reset, WEIGHT_BUFFER!TypeOK, WEIGHT_BUFFER!Pointer,
         WEIGHT_BUFFER!Index, WEIGHT_BUFFER!ResetState,
         IMAGE_BUFFER!Reset, IMAGE_BUFFER!TypeOK, IMAGE_BUFFER!Pointer,
         IMAGE_BUFFER!Index, IMAGE_BUFFER!ResetState
-----------------------------------------------------------------------------
\* What the slave's registers keep, whatever the bus does.
AccInv == AccTypeOK /\ ReadPositionIsCount /\ AccumulatorClean

\* The remainder in ReadPositionIsCount, resolved.
LEMMA ReadIndex ==
    ASSUME AccInv
    PROVE  weight_read_ptr.index =
              IF calccount = WEIGHT_BUFFER_SIZE THEN 0 ELSE calccount
  BY DEF AccInv, AccTypeOK, ReadPositionIsCount

LEMMA AccInvInit == AccInit => AccInv
<1> SUFFICES ASSUME AccInit PROVE AccInv
  OBVIOUS
<1>1. AccTypeOK
  BY BuffersInit DEF AccInit, AccTypeOK
<1>2. ReadPositionIsCount
  BY DEF AccInit, ReadPositionIsCount, WEIGHT_BUFFER!Init,
         WEIGHT_BUFFER!ResetState
<1>3. QED
  BY <1>1, <1>2 DEF AccInit, AccInv, AccumulatorClean

LEMMA AccInvReset == AccReset => AccInv'
<1> SUFFICES ASSUME AccReset PROVE AccInv'
  OBVIOUS
<1>1. AccTypeOK'
  BY BuffersReset DEF AccReset, AccTypeOK
<1>2. ReadPositionIsCount'
  BY DEF AccReset, ReadPositionIsCount, WEIGHT_BUFFER!Reset,
         WEIGHT_BUFFER!ResetState
<1>3. QED
  BY <1>1, <1>2 DEF AccReset, AccInv, AccumulatorClean

LEMMA AccInvClock ==
    ASSUME FpClosed, AccInv,
           NEW read \in BOOLEAN, NEW write \in BOOLEAN, NEW address \in Int,
           NEW writedata \in Float,
           Clock(read, write, address, writedata)
    PROVE  AccInv'
<1> USE DEF AccInv, AccTypeOK
<1>1. /\ adder_enable \in BOOLEAN
      /\ weight_write_enable(write, address) \in BOOLEAN
      /\ image_write_enable(write, address) \in BOOLEAN
  BY DEF adder_enable, weight_write_enable, image_write_enable,
         result_write_enable
<1>2. /\ WEIGHT_BUFFER!TypeOK'
      /\ weight_read_ptr' =
            IF adder_enable THEN WEIGHT_BUFFER!NextState(weight_read_ptr)
                            ELSE weight_read_ptr
  BY <1>1, WeightBufferClock DEF Clock
<1>3. IMAGE_BUFFER!TypeOK'
  BY <1>1, ImageBufferClock DEF Clock
<1>4. adder_output \in Float /\ multiplier_output \in Float
  BY DEF FpClosed, adder_output, multiplier_output, WEIGHT_BUFFER!read_data,
         IMAGE_BUFFER!read_data, WEIGHT_BUFFER!TypeOK, IMAGE_BUFFER!TypeOK,
         WEIGHT_BUFFER!Pointer, IMAGE_BUFFER!Pointer
<1>5. adder_input_a' \in Float /\ adder_input_b' \in Float
  BY <1>4 DEF Clock, AccumulateStep
<1>6. calccount' \in 0 .. WEIGHT_BUFFER_SIZE
  BY DEF Clock, CountStep, result_write_enable
<1>7. result_register' \in Float /\ readdata' \in Float
  BY <1>4 DEF Clock, ResultStep, ReadStep
<1>8. ReadPositionIsCount'
  <2>1. weight_read_ptr.index \in 0 .. WEIGHT_BUFFER_SIZE - 1
    BY DEF WEIGHT_BUFFER!TypeOK, WEIGHT_BUFFER!Pointer, WEIGHT_BUFFER!Index
  <2>2. weight_read_ptr.index =
           IF calccount = WEIGHT_BUFFER_SIZE THEN 0 ELSE calccount
    BY ReadIndex
  <2>3. CASE result_write_enable
    BY <1>2, <2>2, <2>3
       DEF Clock, CountStep, adder_enable, result_write_enable,
           ReadPositionIsCount
  <2>4. CASE ~result_write_enable /\ adder_enable
    <3>1. calccount' = calccount + 1 /\ calccount < WEIGHT_BUFFER_SIZE
      BY <2>4 DEF Clock, CountStep, result_write_enable
    <3>2. weight_read_ptr'.index =
             IF calccount = WEIGHT_BUFFER_SIZE - 1 THEN 0 ELSE calccount + 1
      BY <1>2, <2>1, <2>2, <2>4, <3>1
         DEF WEIGHT_BUFFER!NextState, result_write_enable
    <3>3. QED
      BY <3>1, <3>2 DEF ReadPositionIsCount
  <2>5. CASE ~result_write_enable /\ ~adder_enable
    BY <1>2, <2>5 DEF Clock, CountStep, ReadPositionIsCount
  <2>6. QED
    BY <2>3, <2>4, <2>5
<1>9. AccumulatorClean'
  BY DEF Clock, CountStep, AccumulateStep, AccumulatorClean,
         result_write_enable
<1>10. QED
  BY <1>2, <1>3, <1>5, <1>6, <1>7, <1>8, <1>9

LEMMA AccInvStutter == AccInv /\ UNCHANGED accVars => AccInv'
  BY DEF AccInv, AccTypeOK, ReadPositionIsCount, AccumulatorClean, accVars,
         weightVars, imageVars, WEIGHT_BUFFER!TypeOK, IMAGE_BUFFER!TypeOK

\* Whatever the bus does, and across resets: types, the weight ring's read
\* position in step with the word counter, and no operand of a finished row
\* left in the adder (nn_acc_single_non_burst.sv:45-120).
THEOREM BusSafe ==
    ASSUME FpClosed
    PROVE  BusSpec => [](AccTypeOK /\ ReadPositionIsCount /\ AccumulatorClean)
<1>1. AccInv /\ [AccReset \/ BusClock]_accVars => AccInv'
  <2> SUFFICES ASSUME AccInv, [AccReset \/ BusClock]_accVars PROVE AccInv'
    OBVIOUS
  <2>1. CASE AccReset
    BY <2>1, AccInvReset
  <2>2. CASE BusClock
    BY <2>2, AccInvClock DEF BusClock
  <2>3. CASE UNCHANGED accVars
    BY <2>3, AccInvStutter
  <2>4. QED
    BY <2>1, <2>2, <2>3
<1>2. BusSpec => []AccInv
  BY <1>1, AccInvInit, PTL DEF BusSpec
<1>3. QED
  BY <1>2, PTL DEF AccInv
-----------------------------------------------------------------------------
USE TransferAssumption, RowAssumption

(***************************************************************************)
(* Partial sums.  Without induction over the row, what a recursive         *)
(* definition computes is stated by the equation it solves: Sums(f, n)     *)
(* says that f is the function of the partial sums up to n.                *)
(***************************************************************************)
Sums(f, weights, image, n) ==
    f = [i \in 0 .. n |->
            IF i = 0 THEN FpAdd(Zero, Zero)
                     ELSE FpAdd(f[i - 1], FpMul(weights[i], image[i]))]

\* s is the sum of the first n products, and there is such a sum.
SumIs(weights, image, n, s) ==
    /\ \E f : Sums(f, weights, image, n)
    /\ \A f : Sums(f, weights, image, n) => f[n] = s

LEMMA SumZero ==
    ASSUME NEW weights, NEW image
    PROVE  SumIs(weights, image, 0, FpAdd(Zero, Zero))
<1>1. Sums([i \in 0 .. 0 |-> FpAdd(Zero, Zero)], weights, image, 0)
  BY DEF Sums
<1>2. \A f : Sums(f, weights, image, 0) => f[0] = FpAdd(Zero, Zero)
  BY DEF Sums
<1>3. QED
  BY <1>1, <1>2 DEF SumIs

LEMMA SumNext ==
    ASSUME NEW weights, NEW image, NEW n \in Nat, NEW s,
           SumIs(weights, image, n, s)
    PROVE  SumIs(weights, image, n + 1,
                 FpAdd(s, FpMul(weights[n + 1], image[n + 1])))
<1> DEFINE next == FpAdd(s, FpMul(weights[n + 1], image[n + 1]))
<1>1. \E g : Sums(g, weights, image, n + 1)
  <2>1. PICK f : Sums(f, weights, image, n)
    BY DEF SumIs
  <2>2. f[n] = s
    BY <2>1 DEF SumIs
  <2> DEFINE g == [i \in 0 .. n + 1 |-> IF i = n + 1 THEN next ELSE f[i]]
  <2>3. \A i \in 0 .. n + 1 :
           g[i] = IF i = 0 THEN FpAdd(Zero, Zero)
                           ELSE FpAdd(g[i - 1], FpMul(weights[i], image[i]))
    <3>1. TAKE i \in 0 .. n + 1
    <3>2. CASE i = n + 1
      BY <2>2, <3>2
    <3>3. CASE i # n + 1
      <4>1. f[i] = IF i = 0 THEN FpAdd(Zero, Zero)
                            ELSE FpAdd(f[i - 1], FpMul(weights[i], image[i]))
        BY <2>1, <3>3 DEF Sums
      <4>2. i > 0 => g[i - 1] = f[i - 1]
        BY <3>3
      <4>3. QED
        BY <3>3, <4>1, <4>2
    <3>4. QED
      BY <3>2, <3>3
  <2>4. Sums(g, weights, image, n + 1)
    BY <2>3 DEF Sums
  <2>5. QED
    BY <2>4
<1>2. ASSUME NEW g, Sums(g, weights, image, n + 1)
      PROVE  g[n + 1] = next
  <2> DEFINE f == [i \in 0 .. n |-> g[i]]
  <2>1. \A i \in 0 .. n + 1 :
           g[i] = IF i = 0 THEN FpAdd(Zero, Zero)
                           ELSE FpAdd(g[i - 1], FpMul(weights[i], image[i]))
    BY <1>2 DEF Sums
  <2>2. \A i \in 0 .. n :
           f[i] = IF i = 0 THEN FpAdd(Zero, Zero)
                           ELSE FpAdd(f[i - 1], FpMul(weights[i], image[i]))
    BY <2>1
  <2>3. Sums(f, weights, image, n)
    BY <2>2 DEF Sums
  <2>4. f[n] = s
    BY <2>3 DEF SumIs
  <2>5. QED
    BY <2>1, <2>4
<1>3. QED
  BY <1>1, <1>2 DEF SumIs

\* The recursive definition names that sum.
LEMMA SumValue ==
    ASSUME NEW weights, NEW image, NEW n \in Nat, NEW s,
           SumIs(weights, image, n, s)
    PROVE  PartialSum(weights, image, n) = s
<1> DEFINE sum == CHOOSE f : Sums(f, weights, image, n)
<1>1. Sums(sum, weights, image, n)
  BY DEF SumIs
<1>2. sum[n] = s
  BY <1>1 DEF SumIs
<1>3. PartialSum(weights, image, n) = sum[n]
  BY DEF PartialSum, Sums
<1>4. QED
  BY <1>2, <1>3
-----------------------------------------------------------------------------
(***************************************************************************)
(* The inductive invariant.                                                *)
(***************************************************************************)
ImageEmpty == IMAGE_BUFFER!buffer_empty
ImageOne == image_write_ptr = IMAGE_BUFFER!NextState(image_read_ptr)

\* The image buffer holds at most one word, and none while a result is taken.
Drained == /\ ImageEmpty \/ ImageOne
           /\ ImageOne => calccount < WEIGHT_BUFFER_SIZE

\* Where the software is in a transfer determines where the slave is in a row.
Positions ==
    /\ phase \in {"start", "loop", "read"} =>
          weight_write_ptr.index = 0 /\ calccount = 0 /\ ImageEmpty
    /\ phase = "weights" =>
          /\ weight_write_ptr.index = sent /\ sent < DmaWords
          /\ calccount = 0 /\ ImageEmpty
    /\ phase = "image" =>
          /\ weight_write_ptr.index = 0 /\ sent < DmaWords
          /\ calccount = IF ImageOne THEN sent - 1 ELSE sent
    /\ phase = "settle" =>
          /\ weight_write_ptr.index = 0 /\ sent = DmaWords
          /\ ImageOne <=> settled = 0
          /\ calccount = IF settled = 0 THEN DmaWords - 1
                         ELSE IF settled = 1 THEN DmaWords ELSE 0

\* The weight ring holds the row sent last, or its beginning during a transfer.
WeightsInPlace ==
    phase # "start" =>
        \A i \in 1 .. (IF phase = "weights" THEN sent ELSE DmaWords) :
            weight_array[i - 1] = Weights[weightRow][i]

\* The word in the image buffer is the one sent last.
ImageInPlace == ImageOne => IMAGE_BUFFER!read_data = Images[imageRow][sent]

IsSum(n, s) == SumIs(Weights[weightRow], Images[imageRow], n, s)

\* The adder holds the sum of the counted products; the sum of all of them is
\* in the result register two edges after the last word, and on the bus during
\* the read.
SumsInPlace == /\ IsSum(calccount, adder_output)
               /\ phase = "settle" /\ settled >= 2 =>
                     IsSum(DmaWords, result_register)
               /\ phase = "read" => IsSum(DmaWords, readdata)

SoftTypeOK == /\ phase \in Phase
              /\ weightRow \in DOMAIN Weights
              /\ imageRow \in DOMAIN Images
              /\ sent \in 0 .. DmaWords
              /\ settled \in 0 .. SettleCycles

OffloadInv == /\ AccInv
              /\ SoftTypeOK
              /\ Drained
              /\ Positions
              /\ WeightsInPlace
              /\ ImageInPlace
              /\ SumsInPlace
-----------------------------------------------------------------------------
(***************************************************************************)
(* One clock edge of the slave while its image buffer keeps up.            *)
(***************************************************************************)
LEMMA OneNotEmpty == ASSUME IMAGE_BUFFER!TypeOK PROVE ~(ImageOne /\ ImageEmpty)
  BY DEF ImageOne, ImageEmpty, IMAGE_BUFFER!buffer_empty,
         IMAGE_BUFFER!NextState, IMAGE_BUFFER!TypeOK, IMAGE_BUFFER!Pointer,
         IMAGE_BUFFER!Index

\* A waiting image word is consumed at the edge, and a word written at the same
\* edge is the only one left.
LEMMA ImageEdge ==
    ASSUME IMAGE_BUFFER!TypeOK, ImageEmpty \/ ImageOne,
           NEW we \in BOOLEAN, NEW wd \in Float,
           IMAGE_BUFFER!Clock(~ImageEmpty, we, wd)
    PROVE  /\ we => ImageOne' /\ IMAGE_BUFFER!read_data' = wd
           /\ ~we => ImageEmpty'
<1>1. image_read_ptr' = image_write_ptr
  BY DEF IMAGE_BUFFER!Clock, IMAGE_BUFFER!Read, ImageEmpty, ImageOne,
         IMAGE_BUFFER!buffer_empty
<1>2. CASE we
  <2>1. image_write_ptr' = IMAGE_BUFFER!NextState(image_write_ptr)
    BY <1>2 DEF IMAGE_BUFFER!Clock, IMAGE_BUFFER!Write
  <2>2. image_array'[image_write_ptr.index] = wd
    BY <1>2 DEF IMAGE_BUFFER!Clock, IMAGE_BUFFER!Write, IMAGE_BUFFER!TypeOK,
                IMAGE_BUFFER!Pointer
  <2>3. QED
    BY <1>1, <1>2, <2>1, <2>2
       DEF ImageOne, IMAGE_BUFFER!NextState, IMAGE_BUFFER!read_data
<1>3. CASE ~we
  BY <1>1, <1>3 DEF IMAGE_BUFFER!Clock, IMAGE_BUFFER!Write, ImageEmpty,
                    IMAGE_BUFFER!buffer_empty
<1>4. QED
  BY <1>2, <1>3

LEMMA WeightEdge ==
    ASSUME WEIGHT_BUFFER!TypeOK,
           NEW re \in BOOLEAN, NEW we \in BOOLEAN, NEW wd \in Float,
           WEIGHT_BUFFER!Clock(re, we, wd)
    PROVE  /\ we => /\ weight_array' = [weight_array EXCEPT
                                            ![weight_write_ptr.index] = wd]
                    /\ weight_write_ptr'.index =
                          IF weight_write_ptr.index = WEIGHT_BUFFER_SIZE - 1
                          THEN 0 ELSE weight_write_ptr.index + 1
           /\ ~we => /\ weight_array' = weight_array
                     /\ weight_write_ptr' = weight_write_ptr
  BY DEF WEIGHT_BUFFER!Clock, WEIGHT_BUFFER!Write, WEIGHT_BUFFER!NextState

\* The registers of the slave.
LEMMA SlaveEdge ==
    ASSUME AccInv, Drained,
           NEW read \in BOOLEAN, NEW write \in BOOLEAN, NEW address \in Int,
           NEW wd \in Float,
           Clock(read, write, address, wd)
    PROVE  /\ adder_enable = ImageOne
           /\ adder_enable = ~ImageEmpty
           /\ calccount' = IF calccount = WEIGHT_BUFFER_SIZE THEN 0
                           ELSE IF ImageOne THEN calccount + 1 ELSE calccount
           /\ adder_output' =
                 IF calccount = WEIGHT_BUFFER_SIZE THEN FpAdd(Zero, Zero)
                 ELSE IF ImageOne
                 THEN FpAdd(adder_output,
                            FpMul(weight_array[calccount],
                                  IMAGE_BUFFER!read_data))
                 ELSE adder_output
           /\ result_register' = IF calccount = WEIGHT_BUFFER_SIZE
                                 THEN adder_output ELSE result_register
           /\ result_read_enable(read, address) => readdata' = result_register
<1>1. ~(ImageOne /\ ImageEmpty)
  BY OneNotEmpty DEF AccInv, AccTypeOK
<1>2. adder_enable = ImageOne /\ adder_enable = ~ImageEmpty
  <2>1. ImageOne => calccount # WEIGHT_BUFFER_SIZE
    BY DEF Drained
  <2>2. ImageOne \in BOOLEAN /\ ImageEmpty \in BOOLEAN /\ adder_enable \in BOOLEAN
    BY DEF ImageOne, ImageEmpty, IMAGE_BUFFER!buffer_empty, adder_enable
  <2>3. adder_enable <=> ~ImageEmpty /\ calccount # WEIGHT_BUFFER_SIZE
    BY DEF adder_enable, ImageEmpty, result_write_enable
  <2>4. ImageOne <=> ~ImageEmpty
    BY <1>1 DEF Drained
  <2>5. QED
    BY <2>1, <2>2, <2>3, <2>4
<1>3. ImageOne => weight_read_ptr.index = calccount
  BY ReadIndex DEF Drained
<1>4. calccount' = IF calccount = WEIGHT_BUFFER_SIZE THEN 0
                   ELSE IF ImageOne THEN calccount + 1 ELSE calccount
  BY <1>2 DEF Clock, CountStep, result_write_enable
<1>5. adder_output' =
         IF calccount = WEIGHT_BUFFER_SIZE THEN FpAdd(Zero, Zero)
         ELSE IF ImageOne
         THEN FpAdd(adder_output, FpMul(weight_array[calccount],
                                        IMAGE_BUFFER!read_data))
         ELSE adder_output
  BY <1>2, <1>3 DEF Clock, AccumulateStep, adder_output, multiplier_output,
                    result_write_enable, WEIGHT_BUFFER!read_data
<1>6. QED
  BY <1>2, <1>4, <1>5
     DEF Clock, ResultStep, ReadStep, result_write_enable
-----------------------------------------------------------------------------
\* The waiting image word and the weight it meets have the same number.
LEMMA PairInPlace ==
    ASSUME OffloadInv, ImageOne
    PROVE  /\ calccount \in 0 .. DmaWords - 1
           /\ weight_array[calccount] = Weights[weightRow][calccount + 1]
           /\ IMAGE_BUFFER!read_data = Images[imageRow][calccount + 1]
<1>1. ~ImageEmpty
  BY OneNotEmpty DEF OffloadInv, AccInv, AccTypeOK
<1>2. phase \in {"image", "settle"}
  BY <1>1 DEF OffloadInv, SoftTypeOK, Phase, Positions
<1>3. sent = calccount + 1 /\ calccount \in 0 .. DmaWords - 1
  BY <1>2 DEF OffloadInv, SoftTypeOK, Positions, Drained, AccInv, AccTypeOK
<1>4. weight_array[(calccount + 1) - 1] = Weights[weightRow][calccount + 1]
  BY <1>2, <1>3 DEF OffloadInv, WeightsInPlace
<1>5. QED
  BY <1>3, <1>4 DEF OffloadInv, ImageInPlace

\* The sum after an edge, still of the rows before it.
LEMMA SumEdge ==
    ASSUME OffloadInv,
           NEW read \in BOOLEAN, NEW write \in BOOLEAN, NEW address \in Int,
           NEW wd \in Float,
           Clock(read, write, address, wd)
    PROVE  SumIs(Weights[weightRow], Images[imageRow],
                 calccount', adder_output')
<1>1. /\ calccount' = IF calccount = WEIGHT_BUFFER_SIZE THEN 0
                      ELSE IF ImageOne THEN calccount + 1 ELSE calccount
      /\ adder_output' =
             IF calccount = WEIGHT_BUFFER_SIZE THEN FpAdd(Zero, Zero)
             ELSE IF ImageOne
             THEN FpAdd(adder_output, FpMul(weight_array[calccount],
                                            IMAGE_BUFFER!read_data))
             ELSE adder_output
  BY SlaveEdge DEF OffloadInv
<1>2. SumIs(Weights[weightRow], Images[imageRow], calccount, adder_output)
  BY DEF OffloadInv, SumsInPlace, IsSum
<1>3. CASE calccount = WEIGHT_BUFFER_SIZE
  BY <1>1, <1>3, SumZero
<1>4. CASE calccount # WEIGHT_BUFFER_SIZE /\ ImageOne
  <2>1. /\ calccount \in Nat
        /\ weight_array[calccount] = Weights[weightRow][calccount + 1]
        /\ IMAGE_BUFFER!read_data = Images[imageRow][calccount + 1]
    BY <1>4, PairInPlace
  <2>2. PICK n, s, w, x : /\ n = calccount /\ n \in Nat /\ s = adder_output
                         /\ w = Weights[weightRow]
                         /\ x = Images[imageRow]
    BY <2>1
  <2>3. SumIs(w, x, n + 1, FpAdd(s, FpMul(w[n + 1], x[n + 1])))
    BY <1>2, <2>2, SumNext
  <2>4. QED
    BY <1>1, <1>4, <2>1, <2>2, <2>3
<1>5. CASE calccount # WEIGHT_BUFFER_SIZE /\ ~ImageOne
  BY <1>1, <1>2, <1>5
<1>6. QED
  BY <1>3, <1>4, <1>5

\* What every action of the software uses of a clock edge.
LEMMA Edge ==
    ASSUME FpClosed, OffloadInv,
           NEW read \in BOOLEAN, NEW write \in BOOLEAN, NEW address \in Int,
           NEW wd \in Float,
           Clock(read, write, address, wd)
    PROVE  /\ AccInv'
           /\ image_write_enable(write, address) =>
                 /\ ImageOne' /\ ~ImageEmpty'
                 /\ IMAGE_BUFFER!read_data' = wd
           /\ ~image_write_enable(write, address) => ImageEmpty' /\ ~ImageOne'
           /\ weight_write_enable(write, address) =>
                 /\ weight_array' = [weight_array EXCEPT
                                        ![weight_write_ptr.index] = wd]
                 /\ weight_write_ptr'.index =
                       IF weight_write_ptr.index = WEIGHT_BUFFER_SIZE - 1
                       THEN 0 ELSE weight_write_ptr.index + 1
           /\ ~weight_write_enable(write, address) =>
                 weight_array' = weight_array
                 /\ weight_write_ptr' = weight_write_ptr
<1>1. AccInv'
  BY AccInvClock DEF OffloadInv
<1>2. IMAGE_BUFFER!TypeOK /\ WEIGHT_BUFFER!TypeOK /\ AccInv /\ Drained
  BY DEF OffloadInv, AccInv, AccTypeOK
<1>3. ~(ImageOne' /\ ImageEmpty')
  <2>1. IMAGE_BUFFER!TypeOK => ~(ImageOne /\ ImageEmpty)
    BY OneNotEmpty
  <2>2. IMAGE_BUFFER!TypeOK'
    BY <1>1 DEF AccInv, AccTypeOK
  <2>3. QED
    BY <2>2 DEF ImageOne, ImageEmpty, IMAGE_BUFFER!buffer_empty,
         IMAGE_BUFFER!NextState, IMAGE_BUFFER!TypeOK, IMAGE_BUFFER!Pointer,
         IMAGE_BUFFER!Index
<1>4. /\ image_write_enable(write, address) \in BOOLEAN
      /\ weight_write_enable(write, address) \in BOOLEAN
      /\ adder_enable \in BOOLEAN
  BY DEF image_write_enable, weight_write_enable, adder_enable
<1>5. adder_enable = ~ImageEmpty
  BY <1>2, SlaveEdge
<1>6. /\ image_write_enable(write, address) =>
            ImageOne' /\ IMAGE_BUFFER!read_data' = wd
      /\ ~image_write_enable(write, address) => ImageEmpty'
  <2>1. IMAGE_BUFFER!Clock(~ImageEmpty, image_write_enable(write, address), wd)
    BY <1>5 DEF Clock
  <2>2. QED
    BY <1>2, <1>4, <2>1, ImageEdge DEF Drained
<1>7. WEIGHT_BUFFER!Clock(adder_enable, weight_write_enable(write, address), wd)
  BY DEF Clock
<1>8. QED
  BY <1>1, <1>2, <1>3, <1>4, <1>6, <1>7, WeightEdge

LEMMA AddressDecode ==
    /\ Zero \in Float
    /\ ~image_write_enable(FALSE, 0) /\ ~weight_write_enable(FALSE, 0)
    /\ ~image_write_enable(FALSE, ResultAddress)
    /\ ~weight_write_enable(FALSE, ResultAddress)
    /\ result_read_enable(TRUE, ResultAddress)
    /\ weight_write_enable(TRUE, WeightAddress)
    /\ ~image_write_enable(TRUE, WeightAddress)
    /\ image_write_enable(TRUE, ImageAddress)
    /\ ~weight_write_enable(TRUE, ImageAddress)
  BY DEF image_write_enable, weight_write_enable, result_read_enable,
         WeightAddress, ImageAddress, ResultAddress
-----------------------------------------------------------------------------
\* Between two rows the adder's sum is the empty one, of any rows.
LEMMA FreshSum ==
    ASSUME AccInv', calccount' = 0
    PROVE  SumIs(Weights[weightRow'], Images[imageRow'],
                 calccount', adder_output')
<1>1. adder_output' = FpAdd(Zero, Zero)
  BY DEF AccInv, AccumulatorClean, adder_output
<1>2. QED
  BY <1>1, SumZero

\* A clock edge without an access to a buffer: idle, or a read.
LEMMA QuietEdge ==
    ASSUME FpClosed, OffloadInv, NEW read \in BOOLEAN, NEW address \in Int,
           ~image_write_enable(FALSE, address),
           ~weight_write_enable(FALSE, address),
           Clock(read, FALSE, address, Zero)
    PROVE  /\ AccInv' /\ ImageEmpty' /\ ~ImageOne'
           /\ weight_array' = weight_array
           /\ weight_write_ptr' = weight_write_ptr
           /\ calccount' = IF calccount = WEIGHT_BUFFER_SIZE THEN 0
                           ELSE IF ImageOne THEN calccount + 1 ELSE calccount
           /\ SumIs(Weights[weightRow], Images[imageRow],
                    calccount', adder_output')
           /\ result_register' = IF calccount = WEIGHT_BUFFER_SIZE
                                 THEN adder_output ELSE result_register
           /\ result_read_enable(read, address) => readdata' = result_register
<1>1. /\ AccInv' /\ ImageEmpty' /\ ~ImageOne'
      /\ weight_array' = weight_array /\ weight_write_ptr' = weight_write_ptr
  BY Edge
<1>2. AccInv /\ Drained
  BY DEF OffloadInv
<1>3. /\ calccount' = IF calccount = WEIGHT_BUFFER_SIZE THEN 0
                      ELSE IF ImageOne THEN calccount + 1 ELSE calccount
      /\ result_register' = IF calccount = WEIGHT_BUFFER_SIZE
                            THEN adder_output ELSE result_register
      /\ result_read_enable(read, address) => readdata' = result_register
  BY <1>2, SlaveEdge
<1>4. SumIs(Weights[weightRow], Images[imageRow], calccount', adder_output')
  BY SumEdge
<1>5. QED
  BY <1>1, <1>3, <1>4

\* A clock edge at which the software does not use the slave.
LEMMA IdleEdge ==
    ASSUME FpClosed, OffloadInv, IdleClock
    PROVE  /\ AccInv' /\ ImageEmpty' /\ ~ImageOne'
           /\ weight_array' = weight_array
           /\ weight_write_ptr' = weight_write_ptr
           /\ calccount' = IF calccount = WEIGHT_BUFFER_SIZE THEN 0
                           ELSE IF ImageOne THEN calccount + 1 ELSE calccount
           /\ SumIs(Weights[weightRow], Images[imageRow],
                    calccount', adder_output')
           /\ result_register' = IF calccount = WEIGHT_BUFFER_SIZE
                                 THEN adder_output ELSE result_register
<1>1. PICK read \in BOOLEAN, address \in Int : read = FALSE /\ address = 0
  <2>1. FALSE \in BOOLEAN /\ FALSE = FALSE
    BY Zenon
  <2>2. 0 \in Int /\ 0 = 0
    BY SMT
  <2>3. QED
    BY <2>1, <2>2, Zenon
<1>2. Clock(read, FALSE, address, Zero)
  BY <1>1, Zenon DEF IdleClock
<1>3. /\ ~image_write_enable(FALSE, address)
      /\ ~weight_write_enable(FALSE, address)
  BY <1>1, AddressDecode
<1>4. QED
  BY <1>2, <1>3, QuietEdge

LEMMA StartWeightsInv ==
    ASSUME FpClosed, OffloadInv, StartWeights
    PROVE  OffloadInv'
<1>1. /\ weight_write_ptr.index = 0 /\ calccount = 0 /\ ImageEmpty /\ ~ImageOne
  BY OneNotEmpty
     DEF StartWeights, OffloadInv, Positions, AccInv, AccTypeOK
<1>2. /\ AccInv' /\ ImageEmpty' /\ ~ImageOne'
      /\ weight_array' = weight_array /\ weight_write_ptr' = weight_write_ptr
      /\ calccount' = 0
  BY <1>1, IdleEdge DEF StartWeights
<1>3. SoftTypeOK'
  BY DEF StartWeights, OffloadInv, SoftTypeOK, Phase
<1>4. phase' = "weights" /\ sent' = 0
  BY DEF StartWeights
<1>5. Drained' /\ Positions' /\ ImageInPlace'
  BY <1>1, <1>2, <1>4 DEF Drained, Positions, ImageInPlace
<1>6. WeightsInPlace'
  BY <1>4 DEF WeightsInPlace
<1>7. SumsInPlace'
  BY <1>2, <1>4, FreshSum DEF SumsInPlace, IsSum
<1>8. QED
  BY <1>2, <1>3, <1>5, <1>6, <1>7 DEF OffloadInv

LEMMA StartImageInv ==
    ASSUME FpClosed, OffloadInv, StartImage
    PROVE  OffloadInv'
<1>1. /\ weight_write_ptr.index = 0 /\ calccount = 0 /\ ImageEmpty /\ ~ImageOne
  BY OneNotEmpty
     DEF StartImage, OffloadInv, Positions, AccInv, AccTypeOK
<1>2. /\ AccInv' /\ ImageEmpty' /\ ~ImageOne'
      /\ weight_array' = weight_array /\ weight_write_ptr' = weight_write_ptr
      /\ calccount' = 0
  BY <1>1, IdleEdge DEF StartImage
<1>3. SoftTypeOK'
  BY DEF StartImage, OffloadInv, SoftTypeOK, Phase
<1>4. phase = "loop" /\ phase' = "image" /\ sent' = 0
      /\ weightRow' = weightRow
  BY DEF StartImage
<1>5. Drained' /\ Positions' /\ ImageInPlace'
  BY <1>1, <1>2, <1>4 DEF Drained, Positions, ImageInPlace
<1>6. WeightsInPlace'
  BY <1>2, <1>4 DEF OffloadInv, WeightsInPlace
<1>7. SumsInPlace'
  BY <1>2, <1>4, FreshSum DEF SumsInPlace, IsSum
<1>8. QED
  BY <1>2, <1>3, <1>5, <1>6, <1>7 DEF OffloadInv

LEMMA SendWeightInv ==
    ASSUME FpClosed, OffloadInv, SendWeight
    PROVE  OffloadInv'
<1> DEFINE wd == Weights[weightRow][sent + 1]
<1>1. /\ phase = "weights" /\ weight_write_ptr.index = sent
      /\ sent \in 0 .. DmaWords - 1 /\ calccount = 0
      /\ ImageEmpty /\ ~ImageOne
  BY OneNotEmpty
     DEF SendWeight, OffloadInv, SoftTypeOK, Positions, AccInv, AccTypeOK
<1>2. wd \in Float
  BY <1>1 DEF OffloadInv, SoftTypeOK
<1>3. Clock(FALSE, TRUE, WeightAddress, wd) /\ sent' = sent + 1
      /\ phase' = (IF sent + 1 = DmaWords THEN "loop" ELSE phase)
      /\ settled' = 0 /\ weightRow' = weightRow /\ imageRow' = imageRow
  BY DEF SendWeight, DmaWrite
<1>4. /\ AccInv' /\ ImageEmpty' /\ ~ImageOne'
      /\ weight_array' = [weight_array EXCEPT ![weight_write_ptr.index] = wd]
      /\ weight_write_ptr'.index =
            IF weight_write_ptr.index = WEIGHT_BUFFER_SIZE - 1
            THEN 0 ELSE weight_write_ptr.index + 1
      /\ calccount' = 0
  <2>1. WeightAddress \in Int
    BY DEF WeightAddress
  <2> HIDE DEF wd
  <2>2. QED
    BY <1>1, <1>2, <1>3, <2>1, Edge, SlaveEdge, AddressDecode DEF OffloadInv
<1>5. SoftTypeOK'
  BY <1>1, <1>3 DEF OffloadInv, SoftTypeOK, Phase
<1>6. Drained' /\ ImageInPlace'
  BY <1>4 DEF Drained, ImageInPlace
<1>7. Positions'
  BY <1>1, <1>3, <1>4 DEF Positions
<1>8. WeightsInPlace'
  <2>1. \A i \in 1 .. sent : weight_array[i - 1] = Weights[weightRow][i]
    BY <1>1 DEF OffloadInv, WeightsInPlace
  <2>2. DOMAIN weight_array = 0 .. DmaWords - 1
    BY DEF OffloadInv, AccInv, AccTypeOK, WEIGHT_BUFFER!TypeOK,
           WEIGHT_BUFFER!Index
  <2>3. \A i \in 1 .. sent + 1 : weight_array'[i - 1] = Weights[weightRow][i]
    <3> SUFFICES ASSUME NEW i \in 1 .. sent + 1
                 PROVE  weight_array'[i - 1] = Weights[weightRow][i]
      OBVIOUS
    <3> HIDE DEF wd
    <3>1. /\ weight_write_ptr.index = sent /\ sent \in 0 .. DmaWords - 1
          /\ weight_array' = [weight_array EXCEPT ![sent] = wd]
      BY <1>1, <1>4
    <3>2. CASE i = sent + 1
      BY <2>2, <3>1, <3>2 DEF wd
    <3>3. CASE i # sent + 1
      BY <2>1, <2>2, <3>1, <3>3
    <3>4. QED
      BY <3>2, <3>3
  <2>4. (IF phase' = "weights" THEN sent' ELSE DmaWords) = sent + 1
    BY <1>1, <1>3
  <2>5. QED
    BY <1>3, <2>3, <2>4 DEF WeightsInPlace
<1>9. SumsInPlace'
  BY <1>1, <1>3, <1>4, FreshSum DEF SumsInPlace, IsSum
<1>10. QED
  BY <1>4, <1>5, <1>6, <1>7, <1>8, <1>9 DEF OffloadInv

LEMMA SendImageInv ==
    ASSUME FpClosed, OffloadInv, SendImage
    PROVE  OffloadInv'
<1> DEFINE wd == Images[imageRow][sent + 1]
<1>1. /\ phase = "image" /\ weight_write_ptr.index = 0
      /\ sent \in 0 .. DmaWords - 1
      /\ calccount = IF ImageOne THEN sent - 1 ELSE sent
  BY DEF SendImage, OffloadInv, SoftTypeOK, Positions
<1>2. wd \in Float
  BY <1>1 DEF OffloadInv, SoftTypeOK
<1>3. Clock(FALSE, TRUE, ImageAddress, wd) /\ sent' = sent + 1
      /\ phase' = (IF sent + 1 = DmaWords THEN "settle" ELSE phase)
      /\ settled' = 0 /\ weightRow' = weightRow /\ imageRow' = imageRow
  BY DEF SendImage, DmaWrite
<1>4. /\ AccInv' /\ ImageOne' /\ IMAGE_BUFFER!read_data' = wd
      /\ weight_array' = weight_array /\ weight_write_ptr' = weight_write_ptr
      /\ calccount' = sent
      /\ SumIs(Weights[weightRow], Images[imageRow], calccount', adder_output')
  <2>1. ImageAddress \in Int
    BY DEF ImageAddress
  <2> HIDE DEF wd
  <2>2. calccount # WEIGHT_BUFFER_SIZE /\ calccount \in Int
    BY <1>1 DEF OffloadInv, AccInv, AccTypeOK
  <2>3. calccount' = IF ImageOne THEN calccount + 1 ELSE calccount
    BY <1>2, <1>3, <2>1, <2>2, SlaveEdge DEF OffloadInv
  <2>4. calccount' = sent
    BY <1>1, <2>2, <2>3
  <2>5. SumIs(Weights[weightRow], Images[imageRow], calccount', adder_output')
    BY <1>2, <1>3, <2>1, SumEdge
  <2>6. QED
    BY <1>2, <1>3, <2>1, <2>4, <2>5, Edge, AddressDecode
<1>5. SoftTypeOK'
  BY <1>1, <1>3 DEF OffloadInv, SoftTypeOK, Phase
<1>6. Drained' /\ ImageInPlace'
  BY <1>1, <1>3, <1>4 DEF Drained, ImageInPlace
<1>7. Positions'
  BY <1>1, <1>3, <1>4 DEF Positions
<1>8. WeightsInPlace'
  BY <1>1, <1>3, <1>4 DEF OffloadInv, WeightsInPlace
<1>9. SumsInPlace'
  BY <1>1, <1>3, <1>4 DEF SumsInPlace, IsSum
<1>10. QED
  BY <1>4, <1>5, <1>6, <1>7, <1>8, <1>9 DEF OffloadInv

LEMMA PauseInv ==
    ASSUME FpClosed, OffloadInv, Pause
    PROVE  OffloadInv'
<1>1. /\ phase \in {"start", "weights", "loop", "image"}
      /\ phase' = phase /\ weightRow' = weightRow /\ imageRow' = imageRow
      /\ sent' = sent /\ settled' = settled
  BY DEF Pause, softVars
<1>2. /\ AccInv' /\ ImageEmpty' /\ ~ImageOne'
      /\ weight_array' = weight_array /\ weight_write_ptr' = weight_write_ptr
      /\ calccount' = IF calccount = WEIGHT_BUFFER_SIZE THEN 0
                      ELSE IF ImageOne THEN calccount + 1 ELSE calccount
      /\ SumIs(Weights[weightRow], Images[imageRow], calccount', adder_output')
  BY IdleEdge DEF Pause
<1>3. SoftTypeOK'
  BY <1>1 DEF OffloadInv, SoftTypeOK
<1>4. Drained' /\ ImageInPlace'
  BY <1>2 DEF Drained, ImageInPlace
<1>5. Positions'
  <2>1. calccount \in Int /\ sent \in Int
    BY DEF OffloadInv, AccInv, AccTypeOK, SoftTypeOK
  <2>2. ImageEmpty => ~ImageOne
    BY OneNotEmpty DEF OffloadInv, AccInv, AccTypeOK
  <2>3. QED
    BY <1>1, <1>2, <2>1, <2>2 DEF OffloadInv, Positions, Drained
<1>6. WeightsInPlace'
  BY <1>1, <1>2 DEF OffloadInv, WeightsInPlace
<1>7. SumsInPlace'
  BY <1>1, <1>2 DEF SumsInPlace, IsSum
<1>8. QED
  BY <1>2, <1>3, <1>4, <1>5, <1>6, <1>7 DEF OffloadInv

LEMMA SettleInv ==
    ASSUME FpClosed, OffloadInv, Settle
    PROVE  OffloadInv'
<1>1. /\ phase = "settle" /\ phase' = phase
      /\ weightRow' = weightRow /\ imageRow' = imageRow /\ sent' = sent
      /\ settled' = IF settled < SettleCycles THEN settled + 1 ELSE settled
      /\ settled \in 0 .. SettleCycles /\ sent = DmaWords
      /\ ImageOne <=> settled = 0
      /\ calccount = IF settled = 0 THEN DmaWords - 1
                     ELSE IF settled = 1 THEN DmaWords ELSE 0
      /\ weight_write_ptr.index = 0
  BY DEF Settle, OffloadInv, SoftTypeOK, Positions
<1>2. /\ AccInv' /\ ImageEmpty' /\ ~ImageOne'
      /\ weight_array' = weight_array /\ weight_write_ptr' = weight_write_ptr
      /\ calccount' = IF calccount = WEIGHT_BUFFER_SIZE THEN 0
                      ELSE IF ImageOne THEN calccount + 1 ELSE calccount
      /\ SumIs(Weights[weightRow], Images[imageRow], calccount', adder_output')
      /\ result_register' = IF calccount = WEIGHT_BUFFER_SIZE
                            THEN adder_output ELSE result_register
  BY IdleEdge DEF Settle
<1>3. SoftTypeOK'
  BY <1>1 DEF OffloadInv, SoftTypeOK
<1>4. Drained' /\ ImageInPlace'
  BY <1>2 DEF Drained, ImageInPlace
<1>5. Positions'
  BY <1>1, <1>2 DEF Positions
<1>6. WeightsInPlace'
  BY <1>1, <1>2 DEF OffloadInv, WeightsInPlace
<1>7. SumsInPlace'
  <2>1. ASSUME settled' >= 2
        PROVE  SumIs(Weights[weightRow], Images[imageRow], DmaWords,
                     result_register')
    <3>1. CASE settled = 1
      BY <1>1, <1>2, <3>1 DEF OffloadInv, SumsInPlace, IsSum
    <3>2. CASE settled >= 2
      BY <1>1, <1>2, <3>2 DEF OffloadInv, SumsInPlace, IsSum
    <3>3. QED
      BY <1>1, <2>1, <3>1, <3>2
  <2>2. QED
    BY <1>1, <1>2, <2>1 DEF SumsInPlace, IsSum
<1>8. QED
  BY <1>2, <1>3, <1>4, <1>5, <1>6, <1>7 DEF OffloadInv

LEMMA ReadResultInv ==
    ASSUME FpClosed, OffloadInv, ReadResult
    PROVE  OffloadInv'
<1>1. /\ phase = "settle" /\ phase' = "read"
      /\ weightRow' = weightRow /\ imageRow' = imageRow
      /\ sent' = sent /\ settled' = settled
      /\ settled = SettleCycles /\ settled >= 2
      /\ ~ImageOne /\ calccount = 0 /\ weight_write_ptr.index = 0
  BY DEF ReadResult, OffloadInv, Positions
<1>2. /\ AccInv' /\ ImageEmpty' /\ ~ImageOne'
      /\ weight_array' = weight_array /\ weight_write_ptr' = weight_write_ptr
      /\ calccount' = 0
      /\ SumIs(Weights[weightRow], Images[imageRow], calccount', adder_output')
      /\ readdata' = result_register
  <2>1. ResultAddress \in Int
    BY DEF ResultAddress
  <2>2. Clock(TRUE, FALSE, ResultAddress, Zero)
    BY DEF ReadResult
  <2>3. QED
    BY <1>1, <2>1, <2>2, QuietEdge, AddressDecode
<1>3. SoftTypeOK'
  BY <1>1 DEF OffloadInv, SoftTypeOK, Phase
<1>4. Drained' /\ ImageInPlace'
  BY <1>2 DEF Drained, ImageInPlace
<1>5. Positions'
  BY <1>1, <1>2 DEF Positions
<1>6. WeightsInPlace'
  BY <1>1, <1>2 DEF OffloadInv, WeightsInPlace
<1>7. SumsInPlace'
  BY <1>1, <1>2 DEF OffloadInv, SumsInPlace, IsSum
<1>8. QED
  BY <1>2, <1>3, <1>4, <1>5, <1>6, <1>7 DEF OffloadInv

LEMMA ReturnResultInv ==
    ASSUME FpClosed, OffloadInv, ReturnResult
    PROVE  OffloadInv'
<1>1. /\ phase = "read" /\ phase' = "loop"
      /\ weightRow' = weightRow /\ imageRow' = imageRow
      /\ sent' = sent /\ settled' = settled
      /\ ImageEmpty /\ ~ImageOne /\ calccount = 0
      /\ weight_write_ptr.index = 0
  BY OneNotEmpty
     DEF ReturnResult, OffloadInv, Positions, AccInv, AccTypeOK
<1>2. /\ AccInv' /\ ImageEmpty' /\ ~ImageOne'
      /\ weight_array' = weight_array /\ weight_write_ptr' = weight_write_ptr
      /\ calccount' = 0
      /\ SumIs(Weights[weightRow], Images[imageRow], calccount', adder_output')
  <2>1. ResultAddress \in Int
    BY DEF ResultAddress
  <2>2. Clock(TRUE, FALSE, ResultAddress, Zero)
    BY DEF ReturnResult
  <2>3. QED
    BY <1>1, <2>1, <2>2, QuietEdge, AddressDecode
<1>3. SoftTypeOK'
  BY <1>1 DEF OffloadInv, SoftTypeOK, Phase
<1>4. Drained' /\ ImageInPlace'
  BY <1>2 DEF Drained, ImageInPlace
<1>5. Positions'
  BY <1>1, <1>2 DEF Positions
<1>6. WeightsInPlace'
  BY <1>1, <1>2 DEF OffloadInv, WeightsInPlace
<1>7. SumsInPlace'
  BY <1>1, <1>2 DEF OffloadInv, SumsInPlace, IsSum
<1>8. QED
  BY <1>2, <1>3, <1>4, <1>5, <1>6, <1>7 DEF OffloadInv
-----------------------------------------------------------------------------
LEMMA OffloadInvInit == Init => OffloadInv
<1> SUFFICES ASSUME Init PROVE OffloadInv
  OBVIOUS
<1>1. AccInv
  BY AccInvInit DEF Init
<1>2. /\ phase = "start" /\ sent = 0 /\ settled = 0 /\ calccount = 0
      /\ weight_write_ptr.index = 0 /\ image_read_ptr = image_write_ptr
  BY DEF Init, AccInit, WEIGHT_BUFFER!Init, WEIGHT_BUFFER!ResetState,
         IMAGE_BUFFER!Init
<1>3. ImageEmpty /\ ~ImageOne
  <2>1. ImageEmpty
    BY <1>2 DEF ImageEmpty, IMAGE_BUFFER!buffer_empty
  <2>2. QED
    BY <1>1, <2>1, OneNotEmpty DEF AccInv, AccTypeOK
<1>4. SoftTypeOK
  BY <1>2 DEF Init, SoftTypeOK, Phase
<1>5. Drained /\ ImageInPlace /\ Positions /\ WeightsInPlace
  BY <1>2, <1>3 DEF Drained, ImageInPlace, Positions, WeightsInPlace
<1>6. SumsInPlace
  <2>1. adder_output = FpAdd(Zero, Zero)
    BY DEF Init, AccInit, adder_output
  <2>2. IsSum(calccount, adder_output)
    BY <1>2, <2>1, SumZero DEF IsSum
  <2>3. QED
    BY <1>2, <2>2 DEF SumsInPlace
<1>7. QED
  BY <1>1, <1>4, <1>5, <1>6 DEF OffloadInv

LEMMA OffloadInvStutter == OffloadInv /\ UNCHANGED vars => OffloadInv'
<1> SUFFICES ASSUME OffloadInv, UNCHANGED vars PROVE OffloadInv'
  OBVIOUS
<1>1. UNCHANGED accVars /\ UNCHANGED softVars
  BY DEF vars
<1>2. AccInv'
  BY <1>1, AccInvStutter DEF OffloadInv
<1>3. /\ ImageEmpty' = ImageEmpty /\ ImageOne' = ImageOne
      /\ IMAGE_BUFFER!read_data' = IMAGE_BUFFER!read_data
      /\ adder_output' = adder_output
  BY <1>1 DEF accVars, imageVars, ImageEmpty, ImageOne, adder_output,
              IMAGE_BUFFER!buffer_empty, IMAGE_BUFFER!NextState,
              IMAGE_BUFFER!read_data
<1>4. SoftTypeOK'
  BY <1>1 DEF OffloadInv, SoftTypeOK, softVars
<1>5. Drained' /\ Positions' /\ WeightsInPlace' /\ ImageInPlace'
  BY <1>1, <1>3 DEF OffloadInv, Drained, Positions, WeightsInPlace,
                    ImageInPlace, accVars, weightVars, imageVars, softVars
<1>6. SumsInPlace'
  BY <1>1, <1>3 DEF OffloadInv, SumsInPlace, IsSum, accVars, softVars
<1>7. QED
  BY <1>2, <1>4, <1>5, <1>6 DEF OffloadInv

LEMMA OffloadInvariant == ASSUME FpClosed PROVE Spec => []OffloadInv
<1>1. OffloadInv /\ [Next]_vars => OffloadInv'
  <2> SUFFICES ASSUME OffloadInv, [Next]_vars PROVE OffloadInv'
    OBVIOUS
  <2>1. CASE StartWeights
    BY <2>1, StartWeightsInv
  <2>2. CASE StartImage
    BY <2>2, StartImageInv
  <2>3. CASE SendWeight
    BY <2>3, SendWeightInv
  <2>4. CASE SendImage
    BY <2>4, SendImageInv
  <2>5. CASE Pause
    BY <2>5, PauseInv
  <2>6. CASE Settle
    BY <2>6, SettleInv
  <2>7. CASE ReadResult
    BY <2>7, ReadResultInv
  <2>8. CASE ReturnResult
    BY <2>8, ReturnResultInv
  <2>9. CASE UNCHANGED vars
    BY <2>9, OffloadInvStutter
  <2>10. QED
    BY <2>1, <2>2, <2>3, <2>4, <2>5, <2>6, <2>7, <2>8, <2>9 DEF Next
<1>2. QED
  BY <1>1, OffloadInvInit, PTL DEF Spec
-----------------------------------------------------------------------------
(***************************************************************************)
(* The theorems.                                                           *)
(***************************************************************************)

\* The registers of the slave and the variables of the software keep their
\* types under the traffic of kautodiff.c:26-46.
THEOREM OffloadTypeCorrect == ASSUME FpClosed PROVE Spec => []TypeOK
<1>1. OffloadInv => TypeOK
  BY DEF OffloadInv, AccInv, SoftTypeOK, TypeOK
<1>2. QED
  BY <1>1, OffloadInvariant, PTL

\* The value image_buffer_write returns (kautodiff.c:36-46) is the dot product
\* of its row and the row of weights sent last, in the slave's order of
\* additions, for every row length and every adder and multiplier.
THEOREM OffloadReturnsDotProduct ==
    ASSUME FpClosed PROVE Spec => []ReturnsDotProduct
<1>1. OffloadInv => ReturnsDotProduct
  <2> SUFFICES ASSUME OffloadInv, phase = "read"
               PROVE  readdata = DotProduct(Weights[weightRow],
                                            Images[imageRow])
    BY DEF ReturnsDotProduct
  <2>1. SumIs(Weights[weightRow], Images[imageRow], DmaWords, readdata)
    BY DEF OffloadInv, SumsInPlace, IsSum
  <2>2. DmaWords \in Nat
    OBVIOUS
  <2>3. QED
    BY <2>1, <2>2, SumValue DEF DotProduct
<1>2. QED
  BY <1>1, OffloadInvariant, PTL

\* Between two calls of the software the ring pointers and the word counter of
\* the slave are at the beginning of a row, so no row starts shifted
\* (nn_acc_single_non_burst.sv:64-77, :83, :86).
THEOREM OffloadAligned == ASSUME FpClosed PROVE Spec => []AlignedBetweenCalls
<1>1. OffloadInv => AlignedBetweenCalls
  <2> SUFFICES ASSUME OffloadInv, phase = "loop"
               PROVE  /\ weight_write_ptr.index = 0
                      /\ weight_read_ptr.index = 0
                      /\ calccount = 0
                      /\ IMAGE_BUFFER!buffer_empty
    BY DEF AlignedBetweenCalls
  <2>1. weight_write_ptr.index = 0 /\ calccount = 0 /\ ImageEmpty
    BY DEF OffloadInv, Positions
  <2>2. weight_read_ptr.index = calccount
    BY <2>1, ReadIndex DEF OffloadInv
  <2>3. QED
    BY <2>1, <2>2 DEF ImageEmpty
<1>2. QED
  BY <1>1, OffloadInvariant, PTL

\* The image buffer never holds more than one word (IMAGE_BUFFER_SIZE only has
\* to be above 1), although nothing can hold the DMA back
\* (nn_acc_single_non_burst.sv:83-90).
THEOREM OffloadNeverOverruns == ASSUME FpClosed PROVE Spec => []ImageNeverOverruns
<1>1. OffloadInv => ImageNeverOverruns
  <2> SUFFICES ASSUME OffloadInv PROVE IMAGE_BUFFER!Occupancy \in {0, 1}
    BY DEF ImageNeverOverruns
  <2>1. IMAGE_BUFFER!TypeOK /\ (ImageEmpty \/ ImageOne)
    BY DEF OffloadInv, AccInv, AccTypeOK, Drained
  <2>2. QED
    BY <2>1 DEF IMAGE_BUFFER!Occupancy, IMAGE_BUFFER!TypeOK,
                IMAGE_BUFFER!Pointer, IMAGE_BUFFER!Index,
                IMAGE_BUFFER!NextState, IMAGE_BUFFER!buffer_empty,
                ImageEmpty, ImageOne
<1>2. QED
  BY <1>1, OffloadInvariant, PTL

\* In the middle of a row the adder holds the sum of exactly the counted
\* products, of the right rows (nn_acc_single_non_burst.sv:45-77).
THEOREM OffloadSumMatchesCount == ASSUME FpClosed PROVE Spec => []SumMatchesCount
<1>1. OffloadInv => SumMatchesCount
  <2> SUFFICES ASSUME OffloadInv
               PROVE  adder_output = PartialSum(Weights[weightRow],
                                                Images[imageRow], calccount)
    BY DEF SumMatchesCount
  <2>1. SumIs(Weights[weightRow], Images[imageRow], calccount, adder_output)
    BY DEF OffloadInv, SumsInPlace, IsSum
  <2>2. calccount \in Nat
    BY DEF OffloadInv, AccInv, AccTypeOK
  <2>3. PICK n, s, w, x : /\ n = calccount /\ n \in Nat /\ s = adder_output
                         /\ w = Weights[weightRow]
                         /\ x = Images[imageRow]
    BY <2>2
  <2>4. PartialSum(w, x, n) = s
    BY <2>1, <2>3, SumValue
  <2>5. QED
    BY <2>3, <2>4
<1>2. QED
  BY <1>1, OffloadInvariant, PTL

\* A step that changes neither the row in force nor the phase "read" does not
\* show in the service.
LEMMA ServiceStutter ==
    ASSUME weightRow' = weightRow,
           phase = "start" <=> phase' = "start",
           phase # "read", phase' # "read"
    PROVE  UNCHANGED Service!serviceVars
  BY DEF Service!serviceVars

\* The offload implements the service of DotService: kautodiff.c:26-46 over the
\* deployed slave answers with dot products of the row asked for and the row
\* of weights sent last, whatever the sizes and the arithmetic.
THEOREM OffloadImplementsService ==
    ASSUME FpClosed PROVE Spec => ImplementsService
<1>1. Init => Service!Init
  BY DEF Init, Service!Init
<1>2. ASSUME OffloadInv, ReturnsDotProduct', [Next]_vars
      PROVE  [Service!Next]_(Service!serviceVars)
  <2>1. weightRow \in DOMAIN Weights /\ imageRow \in DOMAIN Images
    BY <1>2 DEF OffloadInv, SoftTypeOK
  <2>2. CASE StartWeights
    <3>1. phase' = "weights" /\ weightRow' \in DOMAIN Weights
      BY <2>2 DEF StartWeights
    <3>2. Service!SendWeights
      BY <3>1 DEF Service!SendWeights
    <3>3. QED
      BY <3>2 DEF Service!Next
  <2>3. CASE ReadResult
    <3>1. /\ phase = "settle" /\ phase' = "read"
          /\ UNCHANGED <<weightRow, imageRow>>
      BY <2>3 DEF ReadResult
    <3>2. readdata' = DotProduct(Weights[weightRow], Images[imageRow])
      BY <1>2, <3>1 DEF ReturnsDotProduct
    <3>3. Service!Ask
      BY <2>1, <3>1, <3>2 DEF Service!Ask
    <3>4. QED
      BY <3>3 DEF Service!Next
  <2>4. CASE ReturnResult
    BY <2>4 DEF ReturnResult, Service!Take, Service!Next
  <2>5. CASE StartImage \/ SendWeight \/ SendImage \/ Pause \/ Settle
    <3>1. /\ weightRow' = weightRow
          /\ phase = "start" <=> phase' = "start"
          /\ phase # "read" /\ phase' # "read"
      BY <2>5 DEF StartImage, SendWeight, SendImage, DmaWrite, Pause, Settle,
                  softVars
    <3>2. QED
      BY <3>1, ServiceStutter
  <2>6. CASE UNCHANGED vars
    BY <2>6 DEF vars, accVars, softVars, Service!serviceVars
  <2>7. QED
    BY <1>2, <2>2, <2>3, <2>4, <2>5, <2>6 DEF Next
<1>3. QED
  BY <1>1, <1>2, OffloadInvariant, OffloadReturnsDotProduct, PTL
     DEF Spec, ImplementsService, Service!Spec
=============================================================================
