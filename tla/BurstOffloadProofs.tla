------------------------- MODULE BurstOffloadProofs -------------------------
(***************************************************************************)
(* Proofs about the burst-capable slave, first under any traffic on the    *)
(* bus, then with a master that follows its handshake: for every row       *)
(* length, every result buffer, all rows, bursts of every length the count *)
(* can hold, and every adder and multiplier.                               *)
(***************************************************************************)
EXTENDS BurstOffload, SequenceTheorems, TLAPS

\* The adder and the multiplier return words.
FpClosed == \A a, b \in Float : FpAdd(a, b) \in Float /\ FpMul(a, b) \in Float

\* What the proofs need of the sizes.
LEMMA Sizes == /\ WEIGHT_BUFFER_SIZE \in Nat /\ WEIGHT_BUFFER_SIZE > 1
               /\ IMAGE_BUFFER_SIZE = WEIGHT_BUFFER_SIZE
               /\ RESULT_BUFFER_SIZE \in Nat /\ RESULT_BUFFER_SIZE > 1
  BY SizeAssumption

USE Sizes, FloatAssumption

\* Weights and image rows have the same length (SizeAssumption).
RowLength == WEIGHT_BUFFER_SIZE
-----------------------------------------------------------------------------
(* The three ring buffers at one clock edge.                               *)

LEMMA WeightBufferClock ==
    ASSUME WEIGHT_BUFFER!TypeOK,
           NEW re \in BOOLEAN, NEW we \in BOOLEAN, NEW wd \in Float,
           WEIGHT_BUFFER!Clock(re, we, wd)
    PROVE  /\ WEIGHT_BUFFER!TypeOK'
           /\ weight_read_ptr' = IF re THEN WEIGHT_BUFFER!NextState(weight_read_ptr)
                                     ELSE weight_read_ptr
           /\ weight_write_ptr' = IF we THEN WEIGHT_BUFFER!NextState(weight_write_ptr)
                                      ELSE weight_write_ptr
<1> USE DEF WEIGHT_BUFFER!TypeOK, WEIGHT_BUFFER!Pointer, WEIGHT_BUFFER!Index, WEIGHT_BUFFER!Clock,
            WEIGHT_BUFFER!Write, WEIGHT_BUFFER!Read, WEIGHT_BUFFER!NextState
<1>1. weight_read_ptr' \in WEIGHT_BUFFER!Pointer
  OBVIOUS
<1>2. weight_write_ptr' \in WEIGHT_BUFFER!Pointer
  OBVIOUS
<1>3. weight_array' \in [WEIGHT_BUFFER!Index -> Float]
  OBVIOUS
<1>4. QED
  BY <1>1, <1>2, <1>3

LEMMA ImageBufferClock ==
    ASSUME IMAGE_BUFFER!TypeOK,
           NEW re \in BOOLEAN, NEW we \in BOOLEAN, NEW wd \in Float,
           IMAGE_BUFFER!Clock(re, we, wd)
    PROVE  /\ IMAGE_BUFFER!TypeOK'
           /\ image_read_ptr' = IF re THEN IMAGE_BUFFER!NextState(image_read_ptr)
                                     ELSE image_read_ptr
           /\ image_write_ptr' = IF we THEN IMAGE_BUFFER!NextState(image_write_ptr)
                                      ELSE image_write_ptr
<1> USE DEF IMAGE_BUFFER!TypeOK, IMAGE_BUFFER!Pointer, IMAGE_BUFFER!Index, IMAGE_BUFFER!Clock,
            IMAGE_BUFFER!Write, IMAGE_BUFFER!Read, IMAGE_BUFFER!NextState
<1>1. image_read_ptr' \in IMAGE_BUFFER!Pointer
  OBVIOUS
<1>2. image_write_ptr' \in IMAGE_BUFFER!Pointer
  OBVIOUS
<1>3. image_array' \in [IMAGE_BUFFER!Index -> Float]
  OBVIOUS
<1>4. QED
  BY <1>1, <1>2, <1>3

LEMMA ResultBufferClock ==
    ASSUME RESULT_BUFFER!TypeOK,
           NEW re \in BOOLEAN, NEW we \in BOOLEAN, NEW wd \in Float,
           RESULT_BUFFER!Clock(re, we, wd)
    PROVE  /\ RESULT_BUFFER!TypeOK'
           /\ result_read_ptr' = IF re THEN RESULT_BUFFER!NextState(result_read_ptr)
                                     ELSE result_read_ptr
           /\ result_write_ptr' = IF we THEN RESULT_BUFFER!NextState(result_write_ptr)
                                      ELSE result_write_ptr
<1> USE DEF RESULT_BUFFER!TypeOK, RESULT_BUFFER!Pointer, RESULT_BUFFER!Index, RESULT_BUFFER!Clock,
            RESULT_BUFFER!Write, RESULT_BUFFER!Read, RESULT_BUFFER!NextState
<1>1. result_read_ptr' \in RESULT_BUFFER!Pointer
  OBVIOUS
<1>2. result_write_ptr' \in RESULT_BUFFER!Pointer
  OBVIOUS
<1>3. result_array' \in [RESULT_BUFFER!Index -> Float]
  OBVIOUS
<1>4. QED
  BY <1>1, <1>2, <1>3

LEMMA BuffersInit ==
    /\ WEIGHT_BUFFER!Init => WEIGHT_BUFFER!TypeOK
    /\ IMAGE_BUFFER!Init => IMAGE_BUFFER!TypeOK
    /\ RESULT_BUFFER!Init => RESULT_BUFFER!TypeOK
    /\ WEIGHT_BUFFER!Init => weight_read_ptr.index = 0
    /\ IMAGE_BUFFER!Init => IMAGE_BUFFER!Occupancy = 0
  BY DEF WEIGHT_BUFFER!Init, WEIGHT_BUFFER!TypeOK, WEIGHT_BUFFER!Pointer, WEIGHT_BUFFER!Index,
         WEIGHT_BUFFER!ResetState,
         IMAGE_BUFFER!Init, IMAGE_BUFFER!TypeOK, IMAGE_BUFFER!Pointer, IMAGE_BUFFER!Index,
         IMAGE_BUFFER!ResetState,
         RESULT_BUFFER!Init, RESULT_BUFFER!TypeOK, RESULT_BUFFER!Pointer, RESULT_BUFFER!Index,
         RESULT_BUFFER!ResetState,
         IMAGE_BUFFER!Occupancy

LEMMA BuffersReset ==
    /\ WEIGHT_BUFFER!Reset => WEIGHT_BUFFER!TypeOK'
    /\ IMAGE_BUFFER!Reset => IMAGE_BUFFER!TypeOK'
    /\ RESULT_BUFFER!Reset => RESULT_BUFFER!TypeOK'
    /\ WEIGHT_BUFFER!Reset => weight_read_ptr'.index = 0
    /\ IMAGE_BUFFER!Reset => IMAGE_BUFFER!Occupancy' = 0
  BY DEF WEIGHT_BUFFER!Reset, WEIGHT_BUFFER!TypeOK, WEIGHT_BUFFER!Pointer, WEIGHT_BUFFER!Index,
         WEIGHT_BUFFER!ResetState,
         IMAGE_BUFFER!Reset, IMAGE_BUFFER!TypeOK, IMAGE_BUFFER!Pointer, IMAGE_BUFFER!Index,
         IMAGE_BUFFER!ResetState,
         RESULT_BUFFER!Reset, RESULT_BUFFER!TypeOK, RESULT_BUFFER!Pointer, RESULT_BUFFER!Index,
         RESULT_BUFFER!ResetState,
         IMAGE_BUFFER!Occupancy

\* The image buffer's flags, seen from the number of words in it.
LEMMA ImageFlags ==
    ASSUME IMAGE_BUFFER!TypeOK, IMAGE_BUFFER!NoOverrun
    PROVE  /\ IMAGE_BUFFER!Occupancy \in 0 .. RowLength
           /\ image_buffer_full <=> IMAGE_BUFFER!Occupancy = RowLength
           /\ image_buffer_empty <=> IMAGE_BUFFER!Occupancy = 0
  BY DEF IMAGE_BUFFER!TypeOK, IMAGE_BUFFER!NoOverrun, IMAGE_BUFFER!Occupancy,
         IMAGE_BUFFER!Pointer, IMAGE_BUFFER!Index, image_buffer_full, image_buffer_empty,
         IMAGE_BUFFER!buffer_full, IMAGE_BUFFER!buffer_empty, RowLength

\* A word more for a write, a word less for a read.
LEMMA ImageOccupancy ==
    ASSUME IMAGE_BUFFER!TypeOK, IMAGE_BUFFER!NoOverrun,
           NEW re \in BOOLEAN, NEW we \in BOOLEAN, NEW wd \in Float,
           re => IMAGE_BUFFER!Occupancy > 0,
           we => IMAGE_BUFFER!Occupancy < RowLength,
           IMAGE_BUFFER!Clock(re, we, wd)
    PROVE  IMAGE_BUFFER!Occupancy' = IMAGE_BUFFER!Occupancy + (IF we THEN 1 ELSE 0)
                                                           - (IF re THEN 1 ELSE 0)
<1> USE DEF IMAGE_BUFFER!NextState, IMAGE_BUFFER!Occupancy, RowLength
<1>1. /\ image_read_ptr.wrap \in {0, 1} /\ image_write_ptr.wrap \in {0, 1}
      /\ image_read_ptr.index \in 0 .. RowLength - 1
      /\ image_write_ptr.index \in 0 .. RowLength - 1
      /\ IMAGE_BUFFER!Occupancy \in 0 .. RowLength
  BY DEF IMAGE_BUFFER!TypeOK, IMAGE_BUFFER!Pointer, IMAGE_BUFFER!Index,
         IMAGE_BUFFER!NoOverrun
<1>2. /\ image_read_ptr' = IF re THEN IMAGE_BUFFER!NextState(image_read_ptr)
                                 ELSE image_read_ptr
      /\ image_write_ptr' = IF we THEN IMAGE_BUFFER!NextState(image_write_ptr)
                                  ELSE image_write_ptr
  BY DEF IMAGE_BUFFER!Clock, IMAGE_BUFFER!Write, IMAGE_BUFFER!Read
<1>3. CASE re /\ we
  BY <1>1, <1>2, <1>3
<1>4. CASE re /\ ~we
  BY <1>1, <1>2, <1>4
<1>5. CASE ~re /\ we
  BY <1>1, <1>2, <1>5
<1>6. CASE ~re /\ ~we
  BY <1>1, <1>2, <1>6
<1>7. QED
  BY <1>3, <1>4, <1>5, <1>6
-----------------------------------------------------------------------------
(* The inductive invariant.                                                *)

\* Where a row is: it is being collected (count 0, the adder switched off), being
\* consumed (as many words left as not yet counted, the bus held), or complete
\* (no word left).
RowPhase ==
    /\ calccount = 0 => ~adder_en_reg
    /\ calccount \in 1 .. RowLength - 1 =>
          /\ IMAGE_BUFFER!Occupancy = RowLength - calccount
          /\ adder_en_reg /\ calcinprogress_reg
    /\ calccount = RowLength => IMAGE_BUFFER!Occupancy = 0

SlaveInv == AccTypeOK /\ IMAGE_BUFFER!NoOverrun /\ RowPhase /\ RowStartsClean

\* The enables in each phase of a row.
LEMMA Enables ==
    ASSUME SlaveInv
    PROVE  /\ adder_enable <=> \/ IMAGE_BUFFER!Occupancy = RowLength
                               \/ calccount \in 1 .. RowLength - 1
           /\ calcinprogress = adder_enable
           /\ adder_enable => /\ IMAGE_BUFFER!Occupancy = RowLength - calccount
                              /\ calccount \in 0 .. RowLength - 1
           /\ adder_enable \in BOOLEAN
<1>1. /\ IMAGE_BUFFER!Occupancy \in 0 .. RowLength /\ calccount \in 0 .. RowLength
      /\ image_buffer_full <=> IMAGE_BUFFER!Occupancy = RowLength
      /\ image_buffer_empty <=> IMAGE_BUFFER!Occupancy = 0
      /\ RowPhase
  BY ImageFlags DEF SlaveInv, AccTypeOK, RowLength
<1>2. adder_enable <=> IMAGE_BUFFER!Occupancy = RowLength \/ calccount \in 1 .. RowLength - 1
  BY <1>1 DEF RowPhase, adder_enable, RowLength
<1>3. calcinprogress <=> IMAGE_BUFFER!Occupancy = RowLength \/ calccount \in 1 .. RowLength - 1
  BY <1>1 DEF RowPhase, calcinprogress, RowLength
<1>4. adder_enable => /\ IMAGE_BUFFER!Occupancy = RowLength - calccount
                      /\ calccount \in 0 .. RowLength - 1
  BY <1>1, <1>2 DEF RowPhase, RowLength
<1>5. adder_enable \in BOOLEAN /\ calcinprogress \in BOOLEAN
  BY DEF adder_enable, calcinprogress
<1>6. QED
  BY <1>2, <1>3, <1>4, <1>5

\* The count at the next edge.
LEMMA CountStep ==
    ASSUME SlaveInv, CalcStep
    PROVE  /\ adder_enable => calccount' = calccount + 1
           /\ calccount = RowLength => calccount' = 0 /\ ~adder_enable
           /\ calccount # RowLength /\ ~adder_enable => calccount' = calccount /\ calccount = 0
           /\ calccount' \in 0 .. RowLength
           /\ adder_en_reg' = adder_enable /\ calcinprogress_reg' = adder_enable
  BY Enables DEF SlaveInv, AccTypeOK, CalcStep, result_write_enable, RowLength

\* The remainder in RowStartsClean, resolved.
LEMMA ReadIndex ==
    ASSUME SlaveInv
    PROVE  weight_read_ptr.index = IF calccount = RowLength THEN 0 ELSE calccount
  BY DEF SlaveInv, AccTypeOK, RowStartsClean, RowLength

LEMMA SlaveInit == AccInit => SlaveInv
<1> SUFFICES ASSUME AccInit PROVE SlaveInv
  OBVIOUS
<1>1. /\ WEIGHT_BUFFER!TypeOK /\ IMAGE_BUFFER!TypeOK /\ RESULT_BUFFER!TypeOK
      /\ weight_read_ptr.index = 0 /\ IMAGE_BUFFER!Occupancy = 0
  BY BuffersInit DEF AccInit
<1>2. AccTypeOK
  <2>1. adder_en_reg \in BOOLEAN /\ calcinprogress_reg \in BOOLEAN
        /\ ifbursttransfer \in BOOLEAN /\ burstread \in BOOLEAN
    BY DEF AccInit
  <2>2. burstaddress \in 0 .. 255 /\ current_burstcount \in 0 .. 2047
        /\ calccount \in 0 .. WEIGHT_BUFFER_SIZE
    BY DEF AccInit
  <2>3. QED
    BY <1>1, <2>1, <2>2 DEF AccInit, AccTypeOK
<1>3. IMAGE_BUFFER!NoOverrun
  BY <1>1 DEF IMAGE_BUFFER!NoOverrun
<1>4. RowPhase /\ RowStartsClean
  BY <1>1 DEF AccInit, RowPhase, RowStartsClean, RowLength
<1>5. QED
  BY <1>2, <1>3, <1>4 DEF SlaveInv

LEMMA SlaveReset == AccReset => SlaveInv'
<1> SUFFICES ASSUME AccReset PROVE SlaveInv'
  OBVIOUS
<1>1. /\ WEIGHT_BUFFER!TypeOK' /\ IMAGE_BUFFER!TypeOK' /\ RESULT_BUFFER!TypeOK'
      /\ weight_read_ptr'.index = 0 /\ IMAGE_BUFFER!Occupancy' = 0
  BY BuffersReset DEF AccReset
<1>2. AccTypeOK'
  <2>1. adder_en_reg' \in BOOLEAN /\ calcinprogress_reg' \in BOOLEAN
        /\ ifbursttransfer' \in BOOLEAN /\ burstread' \in BOOLEAN
    BY DEF AccReset
  <2>2. burstaddress' \in 0 .. 255 /\ current_burstcount' \in 0 .. 2047
        /\ calccount' \in 0 .. WEIGHT_BUFFER_SIZE
    BY DEF AccReset
  <2>3. QED
    BY <1>1, <2>1, <2>2 DEF AccReset, AccTypeOK
<1>3. IMAGE_BUFFER!NoOverrun'
  BY <1>1 DEF IMAGE_BUFFER!NoOverrun
<1>4. RowPhase' /\ RowStartsClean'
  BY <1>1 DEF AccReset, RowPhase, RowStartsClean, RowLength
<1>5. QED
  BY <1>2, <1>3, <1>4 DEF SlaveInv

\* Any values a bus can have at an edge.
AnyBus == Bus(0 .. 255, 0 .. 2047, Float)

LEMMA SlaveClock ==
    ASSUME FpClosed, SlaveInv, NEW bus \in AnyBus, Clock(bus)
    PROVE  SlaveInv'
<1>1. /\ bus.begin \in BOOLEAN /\ bus.read \in BOOLEAN /\ bus.write \in BOOLEAN
      /\ bus.address \in 0 .. 255 /\ bus.burstcount \in 0 .. 2047
      /\ bus.writedata \in Float
  BY DEF AnyBus, Bus
<1>2. /\ WEIGHT_BUFFER!TypeOK /\ IMAGE_BUFFER!TypeOK /\ RESULT_BUFFER!TypeOK
      /\ IMAGE_BUFFER!NoOverrun
  BY DEF SlaveInv, AccTypeOK
<1>3. /\ adder_enable \in BOOLEAN /\ result_write_enable \in BOOLEAN
      /\ weight_write_enable(bus) \in BOOLEAN /\ image_write_enable(bus) \in BOOLEAN
      /\ result_read_enable(bus) \in BOOLEAN
  BY DEF adder_enable, result_write_enable, weight_write_enable, image_write_enable,
         result_read_enable, taken
<1>4. adder_output \in Float /\ multiplier_output \in Float
  <2>1. WEIGHT_BUFFER!read_data \in Float
    BY <1>2 DEF WEIGHT_BUFFER!read_data, WEIGHT_BUFFER!TypeOK, WEIGHT_BUFFER!Pointer
  <2>2. IMAGE_BUFFER!read_data \in Float
    BY <1>2 DEF IMAGE_BUFFER!read_data, IMAGE_BUFFER!TypeOK, IMAGE_BUFFER!Pointer
  <2>3. adder_input_a \in Float /\ adder_input_b \in Float
    BY DEF SlaveInv, AccTypeOK
  <2>4. QED
    BY <2>1, <2>2, <2>3 DEF FpClosed, adder_output, multiplier_output
<1>5. /\ WEIGHT_BUFFER!TypeOK'
      /\ weight_read_ptr' = IF adder_enable THEN WEIGHT_BUFFER!NextState(weight_read_ptr)
                                            ELSE weight_read_ptr
  BY <1>1, <1>2, <1>3, WeightBufferClock DEF Clock
<1>6. IMAGE_BUFFER!TypeOK'
  BY <1>1, <1>2, <1>3, ImageBufferClock DEF Clock
<1>7. RESULT_BUFFER!TypeOK'
  BY <1>1, <1>2, <1>3, <1>4, ResultBufferClock DEF Clock
<1>8. AccTypeOK'
  <2>1. adder_input_a' \in Float /\ adder_input_b' \in Float
    BY <1>4 DEF SlaveInv, AccTypeOK, Clock, AccumulateStep
  <2>2. /\ ifbursttransfer' \in BOOLEAN /\ burstread' \in BOOLEAN
        /\ burstaddress' \in 0 .. 255
    <3>1. /\ ifbursttransfer \in BOOLEAN /\ burstread \in BOOLEAN
          /\ burstaddress \in 0 .. 255
      BY DEF SlaveInv, AccTypeOK
    <3>2. BurstStep(bus)
      BY DEF Clock
    <3>3. ifbursttransfer' \in BOOLEAN /\ burstread' \in BOOLEAN
      <4>1. CASE ifbursttransfer' = TRUE /\ burstread' = bus.read
        BY <1>1, <4>1
      <4>2. CASE ifbursttransfer' = FALSE /\ burstread' = FALSE
        BY <4>2
      <4>3. CASE ifbursttransfer' = ifbursttransfer /\ burstread' = burstread
        BY <3>1, <4>3
      <4>4. QED
        BY <3>2, <4>1, <4>2, <4>3 DEF BurstStep
    <3>4. burstaddress' \in 0 .. 255
      BY <1>1, <3>1, <3>2 DEF BurstStep
    <3>5. QED
      BY <3>3, <3>4
  <2>3. current_burstcount' \in 0 .. 2047
    <3>1. current_burstcount \in 0 .. 2047
      BY DEF SlaveInv, AccTypeOK
    <3>2. QED
      BY <1>1, <3>1 DEF Clock, BurstCountStep
  <2>4. /\ calccount' \in 0 .. WEIGHT_BUFFER_SIZE
        /\ adder_en_reg' \in BOOLEAN /\ calcinprogress_reg' \in BOOLEAN
    BY <1>3, CountStep DEF Clock, RowLength
  <2>5. QED
    BY <1>5, <1>6, <1>7, <2>1, <2>2, <2>3, <2>4 DEF AccTypeOK
<1>9. image_write_enable(bus) => ~adder_enable /\ IMAGE_BUFFER!Occupancy < RowLength
  <2>1. image_write_enable(bus) => ~calcinprogress
    BY DEF image_write_enable, taken, waitrequest
  <2>2. IMAGE_BUFFER!Occupancy \in 0 .. RowLength
    BY <1>2, ImageFlags
  <2>3. QED
    BY <2>1, <2>2, Enables DEF RowLength
<1>10. IMAGE_BUFFER!Occupancy' = IMAGE_BUFFER!Occupancy
            + (IF image_write_enable(bus) THEN 1 ELSE 0) - (IF adder_enable THEN 1 ELSE 0)
  <2>1. adder_enable => IMAGE_BUFFER!Occupancy > 0
    BY Enables DEF RowLength
  <2>2. QED
    BY <1>1, <1>2, <1>3, <1>9, <2>1, ImageOccupancy DEF Clock
<1>11. IMAGE_BUFFER!Occupancy \in 0 .. RowLength
  BY <1>2, ImageFlags
<1>12. IMAGE_BUFFER!NoOverrun'
  BY <1>3, <1>9, <1>10, <1>11, Enables DEF IMAGE_BUFFER!NoOverrun, RowLength
<1>13. RowPhase'
  <2>1. CASE adder_enable
    BY <1>9, <1>10, <1>11, <2>1, Enables, CountStep DEF RowPhase, Clock, RowLength
  <2>2. CASE ~adder_enable
    BY <2>2, CountStep DEF RowPhase, Clock, RowLength
  <2>3. QED
    BY <2>1, <2>2
<1>14. RowStartsClean'
  <2>1. weight_read_ptr.index \in 0 .. RowLength - 1 /\ calccount \in 0 .. RowLength
    BY <1>2 DEF WEIGHT_BUFFER!TypeOK, WEIGHT_BUFFER!Pointer, WEIGHT_BUFFER!Index, RowLength,
                SlaveInv, AccTypeOK
  <2>2. weight_read_ptr'.index =
           IF adder_enable THEN (IF calccount = RowLength - 1 THEN 0 ELSE calccount + 1)
           ELSE weight_read_ptr.index
    BY <1>5, <2>1, ReadIndex, Enables DEF WEIGHT_BUFFER!NextState, RowLength
  <2>3. weight_read_ptr'.index = calccount' % WEIGHT_BUFFER_SIZE
    BY <2>1, <2>2, ReadIndex, CountStep DEF Clock, RowLength
  <2>4. calccount' = 0 => adder_input_a' = Zero /\ adder_input_b' = Zero
    BY <2>1, CountStep DEF Clock, AccumulateStep, result_write_enable, SlaveInv,
                           RowStartsClean, RowLength
  <2>5. QED
    BY <2>3, <2>4 DEF RowStartsClean
<1>15. QED
  BY <1>8, <1>12, <1>13, <1>14 DEF SlaveInv

LEMMA SlaveStutter == SlaveInv /\ UNCHANGED accVars => SlaveInv'
  BY DEF SlaveInv, AccTypeOK, RowPhase, RowStartsClean, accVars, bufferVars, burstVars,
         calcVars, WEIGHT_BUFFER!TypeOK, IMAGE_BUFFER!TypeOK, RESULT_BUFFER!TypeOK,
         IMAGE_BUFFER!NoOverrun, IMAGE_BUFFER!Occupancy

LEMMA SlaveInvariant ==
    ASSUME FpClosed
    PROVE  BusSpec => []SlaveInv
<1>1. SlaveInv /\ [AccReset \/ \E bus \in AnyBus : Clock(bus)]_accVars => SlaveInv'
  BY SlaveReset, SlaveClock, SlaveStutter
<1>2. QED
  BY <1>1, SlaveInit, PTL DEF BusSpec, AnyBus
-----------------------------------------------------------------------------
\* Whatever the bus does, inside and outside bursts: the image buffer is never
\* written when full nor read when empty (nn_acc_single.sv:125-142).
THEOREM BusNeverOverruns ==
    ASSUME FpClosed
    PROVE  BusSpec => []ImageNeverOverruns
<1>1. SlaveInv => ImageNeverOverruns
  BY DEF SlaveInv, ImageNeverOverruns
<1>2. QED
  BY <1>1, SlaveInvariant, PTL

\* No word joins a row that is being consumed, and the count is complete exactly
\* when the buffer is empty (nn_acc_single.sv:56-73, :125, :140, :144).
THEOREM BusKeepsRowsAtomic ==
    ASSUME FpClosed
    PROVE  BusSpec => []RowIsAtomic
<1>1. SlaveInv => RowIsAtomic
  BY Enables DEF SlaveInv, RowPhase, RowIsAtomic, AccTypeOK, RowLength
<1>2. QED
  BY <1>1, SlaveInvariant, PTL

\* A row starts with an empty adder, at the first weight of the ring's lap
\* (nn_acc_single.sv:56-73, :128, :140).
THEOREM BusStartsRowsClean ==
    ASSUME FpClosed
    PROVE  BusSpec => []RowStartsClean
<1>1. SlaveInv => RowStartsClean
  BY DEF SlaveInv
<1>2. QED
  BY <1>1, SlaveInvariant, PTL
-----------------------------------------------------------------------------
(***************************************************************************)
(* Partial sums, as in AccelOffloadProofs: f is the function of the sums   *)
(* up to n, and s is the sum of the first n products.                      *)
(***************************************************************************)
Sums(f, weights, image, n) ==
    f = [i \in 0 .. n |->
            IF i = 0 THEN FpAdd(Zero, Zero)
                     ELSE FpAdd(f[i - 1], FpMul(weights[i], image[i]))]

SumIs(weights, image, n, s) ==
    /\ \E f : Sums(f, weights, image, n)
    /\ \A f : Sums(f, weights, image, n) => f[n] = s
LEMMA SumZero ==
    ASSUME NEW weights, NEW image
    PROVE  SumIs(weights, image, 0, FpAdd(Zero, Zero))
<1>1. Sums([i \in 0 .. 0 |-> FpAdd(Zero, Zero)], weights, image, 0)
  BY DEF Sums
<1>2. \A f : Sums(f, weights, image, 0) => f[0] = FpAdd(Zero, Zero)
  BY DEF Sums
<1>3. QED
  BY <1>1, <1>2 DEF SumIs

LEMMA SumNext ==
    ASSUME NEW weights, NEW image, NEW n \in Nat, NEW s,
           SumIs(weights, image, n, s)
    PROVE  SumIs(weights, image, n + 1,
                 FpAdd(s, FpMul(weights[n + 1], image[n + 1])))
<1> DEFINE next == FpAdd(s, FpMul(weights[n + 1], image[n + 1]))
<1>1. \E g : Sums(g, weights, image, n + 1)
  <2>1. PICK f : Sums(f, weights, image, n)
    BY DEF SumIs
  <2>2. f[n] = s
    BY <2>1 DEF SumIs
  <2> DEFINE g == [i \in 0 .. n + 1 |-> IF i = n + 1 THEN next ELSE f[i]]
  <2>3. \A i \in 0 .. n + 1 :
           g[i] = IF i = 0 THEN FpAdd(Zero, Zero)
                           ELSE FpAdd(g[i - 1], FpMul(weights[i], image[i]))
    <3>1. TAKE i \in 0 .. n + 1
    <3>2. CASE i = n + 1
      BY <2>2, <3>2
    <3>3. CASE i # n + 1
      <4>1. f[i] = IF i = 0 THEN FpAdd(Zero, Zero)
                            ELSE FpAdd(f[i - 1], FpMul(weights[i], image[i]))
        BY <2>1, <3>3 DEF Sums
      <4>2. i > 0 => g[i - 1] = f[i - 1]
        BY <3>3
      <4>3. QED
        BY <3>3, <4>1, <4>2
    <3>4. QED
      BY <3>2, <3>3
  <2>4. Sums(g, weights, image, n + 1)
    BY <2>3 DEF Sums
  <2>5. QED
    BY <2>4
<1>2. ASSUME NEW g, Sums(g, weights, image, n + 1)
      PROVE  g[n + 1] = next
  <2> DEFINE f == [i \in 0 .. n |-> g[i]]
  <2>1. \A i \in 0 .. n + 1 :
           g[i] = IF i = 0 THEN FpAdd(Zero, Zero)
                           ELSE FpAdd(g[i - 1], FpMul(weights[i], image[i]))
    BY <1>2 DEF Sums
  <2>2. \A i \in 0 .. n :
           f[i] = IF i = 0 THEN FpAdd(Zero, Zero)
                           ELSE FpAdd(f[i - 1], FpMul(weights[i], image[i]))
    BY <2>1
  <2>3. Sums(f, weights, image, n)
    BY <2>2 DEF Sums
  <2>4. f[n] = s
    BY <2>3 DEF SumIs
  <2>5. QED
    BY <2>1, <2>4
<1>3. QED
  BY <1>1, <1>2 DEF SumIs

\* The dot product is the sum of all of them.
LEMMA SumValue ==
    ASSUME NEW weights, NEW image, NEW s, SumIs(weights, image, W, s)
    PROVE  DotProduct(weights, image) = s
<1> DEFINE sum == CHOOSE f : Sums(f, weights, image, W)
<1>1. Sums(sum, weights, image, W)
  BY DEF SumIs
<1>2. sum[W] = s
  BY <1>1 DEF SumIs
<1>3. DotProduct(weights, image) = sum[W]
  BY DEF DotProduct, Sums
<1>4. QED
  BY <1>2, <1>3
-----------------------------------------------------------------------------
(* The inductive invariant.                                                *)

\* The words in the two rings, oldest first, and their numbers.
Collected == IMAGE_BUFFER!Occupancy
Queued == RESULT_BUFFER!Occupancy
ImageWord(n) == image_array[IMAGE_BUFFER!Cell(n - 1)]
QueuedWord(n) == result_array[RESULT_BUFFER!Cell(n - 1)]

\* A row is being consumed; a complete row has not given its result yet.
Consuming == adder_enable
Pending == Collected = W \/ calccount > 0

\* Words of the image row being sent; words of the row of weights being sent;
\* weights of the last row in their cells; image rows not sent completely.
SentOfRow == IF transfer = "image" THEN Place - 1 ELSE 0
SentOfWeights == IF transfer = "weights" THEN W - left ELSE 0
WeightsInCells == IF transfer = "weights" THEN W - left
                  ELSE IF weightRow # 0 THEN W ELSE 0
RowsToSend == IF transfer = "image" THEN ((left - 1) \div W) + 1 ELSE 0

Results == {DotProduct(Weights[w], Images[x]) : w \in DOMAIN Weights, x \in DOMAIN Images}

TransferInv ==
    /\ transfer \in {"none", "weights", "image", "result"}
    /\ step \in {"none", "begin", "request", "data"}
    /\ burst \in BOOLEAN /\ left \in 0 .. 2047
    /\ transfer = "none" <=> step = "none"
    /\ transfer = "none" => left = 0 /\ ~burst
    /\ transfer # "none" => left > 0
    /\ transfer = "weights" => left <= W /\ weightRow \in DOMAIN Weights
    /\ transfer = "image" => weightRow # 0
    /\ step = "begin" => burst
    /\ step = "data" => transfer = "result" /\ burst
    /\ weightRow # 0 => weightRow \in DOMAIN Weights
    /\ imageRow \in DOMAIN Images

\* No more results are asked for than are owed, nor rows sent than can owe one.
OwedInv ==
    /\ owed \in Seq(Results)
    /\ transfer = "result" => left <= Len(owed)
    /\ Len(owed) + RowsToSend <= RESULT_BUFFER_SIZE

MasterInv == TransferInv /\ OwedInv

BurstInv == /\ CountsAgree
            /\ burst /\ step # "begin" => burstaddress = Address[transfer]

WeightsInv ==
    /\ weight_write_ptr.index = SentOfWeights
    /\ \A n \in 1 .. WeightsInCells : weight_array[n - 1] = Weights[weightRow][n]

\* What has been sent of a row waits in the image buffer; while a row is
\* consumed nothing of the next one has been sent.
ImageInv ==
    /\ ~Consuming => /\ Collected = SentOfRow
                     /\ \A n \in 1 .. Collected : ImageWord(n) = Images[imageRow][n]
    /\ Consuming => SentOfRow = 0

\* The row without a result is the newest one that owes a result, and the sum,
\* the weights and the words left are its own.
RowIs(w, x) ==
    /\ owed # <<>> /\ owed[Len(owed)] = DotProduct(Weights[w], Images[x])
    /\ SumIs(Weights[w], Images[x], calccount, adder_output)
    /\ Consuming =>
          /\ \A n \in 1 .. W : weight_array[n - 1] = Weights[w][n]
          /\ \A n \in 1 .. W - calccount : ImageWord(n) = Images[x][calccount + n]

RowInv == Pending => \E w \in DOMAIN Weights, x \in DOMAIN Images : RowIs(w, x)

\* Every row that owes a result has it in the queue, or is the pending one.
QueueInv == /\ Queued \in Nat
            /\ Queued + (IF Pending THEN 1 ELSE 0) = Len(owed)
            /\ \A n \in 1 .. Queued : QueuedWord(n) = owed[n]

BurstOffloadInv == /\ SlaveInv /\ MasterInv /\ BurstInv
                   /\ WeightsInv /\ ImageInv /\ RowInv /\ QueueInv
-----------------------------------------------------------------------------
(***************************************************************************)
(* A ring of n cells: what its pointers say of the number of words in it   *)
(* and of their cells.                                                     *)
(***************************************************************************)
RingPointer(n) == [wrap : {0, 1}, index : 0 .. n - 1]
RingNext(n, p) == IF p.index = n - 1 THEN [wrap |-> 1 - p.wrap, index |-> 0]
                                     ELSE [wrap |-> p.wrap, index |-> p.index + 1]
RingWords(n, w, r) == IF w.wrap = r.wrap THEN w.index - r.index
                                         ELSE n + w.index - r.index
RingCell(n, r, k) == IF r.index + k < n THEN r.index + k ELSE r.index + k - n

LEMMA RingStep ==
    ASSUME NEW n \in Nat, n > 1,
           NEW w \in RingPointer(n), NEW r \in RingPointer(n),
           NEW re \in BOOLEAN, NEW we \in BOOLEAN,
           NEW w2, w2 = IF we THEN RingNext(n, w) ELSE w,
           NEW r2, r2 = IF re THEN RingNext(n, r) ELSE r,
           RingWords(n, w, r) \in 0 .. n,
           re => RingWords(n, w, r) > 0, we => RingWords(n, w, r) < n
    PROVE  /\ RingWords(n, w2, r2) = RingWords(n, w, r) + (IF we THEN 1 ELSE 0)
                                                        - (IF re THEN 1 ELSE 0)
           /\ \A k \in 0 .. n - 1 : RingCell(n, r, k) \in 0 .. n - 1
           /\ \A k, m \in 0 .. n - 1 : RingCell(n, r, k) = RingCell(n, r, m) => k = m
           /\ re => \A k \in 0 .. n - 2 : RingCell(n, r2, k) = RingCell(n, r, k + 1)
           /\ re => RingCell(n, r2, n - 1) = RingCell(n, r, 0)
           /\ RingWords(n, w, r) < n => RingCell(n, r, RingWords(n, w, r)) = w.index
<1>1. /\ w.wrap \in {0, 1} /\ r.wrap \in {0, 1}
      /\ w.index \in 0 .. n - 1 /\ r.index \in 0 .. n - 1
  BY DEF RingPointer
<1>2. /\ w2.wrap = IF we /\ w.index = n - 1 THEN 1 - w.wrap ELSE w.wrap
      /\ w2.index = IF ~we THEN w.index ELSE IF w.index = n - 1 THEN 0 ELSE w.index + 1
      /\ r2.wrap = IF re /\ r.index = n - 1 THEN 1 - r.wrap ELSE r.wrap
      /\ r2.index = IF ~re THEN r.index ELSE IF r.index = n - 1 THEN 0 ELSE r.index + 1
  BY <1>1 DEF RingNext
<1>3. RingWords(n, w2, r2) = RingWords(n, w, r) + (IF we THEN 1 ELSE 0)
                                                - (IF re THEN 1 ELSE 0)
  <2>1. CASE re /\ we
    BY <1>1, <1>2, <2>1 DEF RingWords
  <2>2. CASE re /\ ~we
    BY <1>1, <1>2, <2>2 DEF RingWords
  <2>3. CASE ~re /\ we
    BY <1>1, <1>2, <2>3 DEF RingWords
  <2>4. CASE ~re /\ ~we
    BY <1>1, <1>2, <2>4 DEF RingWords
  <2>5. QED
    BY <2>1, <2>2, <2>3, <2>4
<1>4. /\ \A k \in 0 .. n - 1 : RingCell(n, r, k) \in 0 .. n - 1
      /\ \A k, m \in 0 .. n - 1 : RingCell(n, r, k) = RingCell(n, r, m) => k = m
  BY <1>1 DEF RingCell
<1>5. /\ re => \A k \in 0 .. n - 2 : RingCell(n, r2, k) = RingCell(n, r, k + 1)
      /\ re => RingCell(n, r2, n - 1) = RingCell(n, r, 0)
  BY <1>1, <1>2 DEF RingCell
<1>6. RingWords(n, w, r) < n => RingCell(n, r, RingWords(n, w, r)) = w.index
  BY <1>1 DEF RingCell, RingWords
<1>7. QED
  BY <1>3, <1>4, <1>5, <1>6

\* The next pointer; what an edge does to the words: a word written is the
\* newest, a read drops the oldest.
RingAfter(n, p, enable) == IF enable THEN RingNext(n, p) ELSE p

RingMoves(n, w, r, a, w2, r2, a2, re, we, wd) ==
    /\ RingWords(n, w2, r2) = RingWords(n, w, r) + (IF we THEN 1 ELSE 0)
                                                 - (IF re THEN 1 ELSE 0)
    /\ \A k \in 1 .. n : k <= RingWords(n, w2, r2) =>
          a2[RingCell(n, r2, k - 1)] = IF we /\ k = RingWords(n, w2, r2) THEN wd
                                       ELSE IF re THEN a[RingCell(n, r, k)]
                                       ELSE a[RingCell(n, r, k - 1)]

LEMMA RingMove ==
    ASSUME NEW n \in Nat, n > 1,
           NEW w \in RingPointer(n), NEW r \in RingPointer(n), NEW a \in [0 .. n - 1 -> Float],
           NEW re \in BOOLEAN, NEW we \in BOOLEAN, NEW wd \in Float,
           RingWords(n, w, r) \in 0 .. n,
           re => RingWords(n, w, r) > 0, we => RingWords(n, w, r) < n
    PROVE  RingMoves(n, w, r, a, RingAfter(n, w, we), RingAfter(n, r, re),
                     IF we THEN [a EXCEPT ![w.index] = wd] ELSE a, re, we, wd)
<1> DEFINE w2 == RingAfter(n, w, we)
           r2 == RingAfter(n, r, re)
           a2 == IF we THEN [a EXCEPT ![w.index] = wd] ELSE a
           words == RingWords(n, w, r)
           more == RingWords(n, w2, r2)
           c(k) == RingCell(n, r, k)
           c2(k) == RingCell(n, r2, k)
<1>1. /\ more = words + (IF we THEN 1 ELSE 0) - (IF re THEN 1 ELSE 0)
      /\ \A k \in 0 .. n - 1 : c(k) \in 0 .. n - 1
      /\ \A k, m \in 0 .. n - 1 : c(k) = c(m) => k = m
      /\ re => \A k \in 0 .. n - 2 : c2(k) = c(k + 1)
      /\ re => c2(n - 1) = c(0)
      /\ words < n => c(words) = w.index
  BY RingStep DEF RingAfter
<1>2. ASSUME NEW k \in 1 .. n, k <= more
      PROVE  a2[c2(k - 1)] = IF we /\ k = more THEN wd
                             ELSE IF re THEN a[c(k)] ELSE a[c(k - 1)]
  <2>1. ~re => c2(k - 1) = c(k - 1)
    BY DEF RingAfter
  <2>2. words \in 0 .. n
    OBVIOUS
  <2> HIDE DEF words, more, c, c2, w2, r2
  <2>3. c2(k - 1) = IF ~re THEN c(k - 1) ELSE IF k < n THEN c(k) ELSE c(0)
    BY <1>1, <2>1
  <2>4. w.index \in 0 .. n - 1
    BY DEF RingPointer
  <2>5. CASE we
    <3>1. words < n
      BY <2>5 DEF words
    <3>2. \A m \in 0 .. n - 1 : a2[c(m)] = IF m = words THEN wd ELSE a[c(m)]
      BY <1>1, <2>2, <2>4, <2>5, <3>1
    <3>3. CASE re
      <4>1. more = words /\ k < n
        BY <1>1, <1>2, <2>2, <2>5, <3>1, <3>3
      <4>2. a2[c(k)] = IF k = words THEN wd ELSE a[c(k)]
        BY <3>2, <4>1
      <4>3. QED
        BY <2>3, <2>5, <3>3, <4>1, <4>2
    <3>4. CASE ~re
      <4>1. more = words + 1
        BY <1>1, <2>2, <2>5, <3>4
      <4>2. a2[c(k - 1)] = IF k - 1 = words THEN wd ELSE a[c(k - 1)]
        BY <3>2
      <4>3. k - 1 = words <=> k = more
        BY <2>2, <4>1
      <4>4. QED
        BY <2>3, <2>5, <3>4, <4>2, <4>3
    <3>5. QED
      BY <3>3, <3>4
  <2>6. CASE ~we
    <3>1. re => k < n
      BY <1>1, <1>2, <2>2, <2>6
    <3>2. QED
      BY <2>3, <2>6, <3>1
  <2>7. QED
    BY <2>5, <2>6
<1>3. QED
  BY <1>1, <1>2 DEF RingMoves

LEMMA ImageWords ==
    ASSUME IMAGE_BUFFER!TypeOK, IMAGE_BUFFER!NoOverrun,
           NEW re \in BOOLEAN, NEW we \in BOOLEAN, NEW wd \in Float,
           re => Collected > 0, we => Collected < W, IMAGE_BUFFER!Clock(re, we, wd)
    PROVE  /\ Collected' = Collected + (IF we THEN 1 ELSE 0) - (IF re THEN 1 ELSE 0)
           /\ \A n \in 1 .. W : n <= Collected' =>
                 ImageWord(n)' = IF we /\ n = Collected' THEN wd
                                 ELSE IF re THEN ImageWord(n + 1) ELSE ImageWord(n)
<1>1. /\ image_write_ptr \in RingPointer(W) /\ image_read_ptr \in RingPointer(W)
      /\ image_array \in [0 .. W - 1 -> Float]
      /\ W \in Nat /\ W > 1
  BY DEF IMAGE_BUFFER!TypeOK, IMAGE_BUFFER!Pointer, IMAGE_BUFFER!Index, RingPointer, W
<1>2. /\ Collected = RingWords(W, image_write_ptr, image_read_ptr)
      /\ Collected' = RingWords(W, image_write_ptr', image_read_ptr')
      /\ \A n : ImageWord(n) = image_array[RingCell(W, image_read_ptr, n - 1)]
      /\ \A n : ImageWord(n)' = image_array'[RingCell(W, image_read_ptr', n - 1)]
  BY DEF Collected, ImageWord, IMAGE_BUFFER!Occupancy, IMAGE_BUFFER!Cell, RingWords, RingCell, W
<1>3. /\ image_read_ptr' = RingAfter(W, image_read_ptr, re)
      /\ image_write_ptr' = RingAfter(W, image_write_ptr, we)
      /\ image_array' = IF we THEN [image_array EXCEPT ![image_write_ptr.index] = wd]
                        ELSE image_array
  BY DEF IMAGE_BUFFER!Clock, IMAGE_BUFFER!Write, IMAGE_BUFFER!Read, IMAGE_BUFFER!NextState,
         RingNext, RingAfter, W
<1>4. RingWords(W, image_write_ptr, image_read_ptr) \in 0 .. W
      /\ (re => RingWords(W, image_write_ptr, image_read_ptr) > 0)
      /\ (we => RingWords(W, image_write_ptr, image_read_ptr) < W)
  BY <1>2 DEF Collected, IMAGE_BUFFER!NoOverrun, W
<1>5. RingMoves(W, image_write_ptr, image_read_ptr, image_array,
                image_write_ptr', image_read_ptr', image_array', re, we, wd)
  BY <1>1, <1>3, <1>4, RingMove
<1>6. \A k \in 1 .. W : ImageWord(k + 1) = image_array[RingCell(W, image_read_ptr, k)]
  BY <1>2
<1>7. QED
  BY <1>2, <1>5, <1>6 DEF RingMoves

LEMMA ResultWords ==
    ASSUME RESULT_BUFFER!TypeOK, RESULT_BUFFER!NoOverrun,
           NEW re \in BOOLEAN, NEW we \in BOOLEAN, NEW wd \in Float,
           re => Queued > 0, we => Queued < RESULT_BUFFER_SIZE, RESULT_BUFFER!Clock(re, we, wd)
    PROVE  /\ Queued' = Queued + (IF we THEN 1 ELSE 0) - (IF re THEN 1 ELSE 0)
           /\ \A n \in 1 .. RESULT_BUFFER_SIZE : n <= Queued' =>
                 QueuedWord(n)' = IF we /\ n = Queued' THEN wd
                                 ELSE IF re THEN QueuedWord(n + 1) ELSE QueuedWord(n)
<1>1. /\ result_write_ptr \in RingPointer(RESULT_BUFFER_SIZE)
      /\ result_read_ptr \in RingPointer(RESULT_BUFFER_SIZE)
      /\ result_array \in [0 .. RESULT_BUFFER_SIZE - 1 -> Float]
      /\ RESULT_BUFFER_SIZE \in Nat /\ RESULT_BUFFER_SIZE > 1
  BY DEF RESULT_BUFFER!TypeOK, RESULT_BUFFER!Pointer, RESULT_BUFFER!Index, RingPointer, W
<1>2. /\ Queued = RingWords(RESULT_BUFFER_SIZE, result_write_ptr, result_read_ptr)
      /\ Queued' = RingWords(RESULT_BUFFER_SIZE, result_write_ptr', result_read_ptr')
      /\ \A n : QueuedWord(n) = result_array[RingCell(RESULT_BUFFER_SIZE, result_read_ptr, n - 1)]
      /\ \A n : QueuedWord(n)' =
                  result_array'[RingCell(RESULT_BUFFER_SIZE, result_read_ptr', n - 1)]
  BY DEF Queued, QueuedWord, RESULT_BUFFER!Occupancy, RESULT_BUFFER!Cell, RingWords, RingCell, W
<1>3. /\ result_read_ptr' = RingAfter(RESULT_BUFFER_SIZE, result_read_ptr, re)
      /\ result_write_ptr' = RingAfter(RESULT_BUFFER_SIZE, result_write_ptr, we)
      /\ result_array' = IF we THEN [result_array EXCEPT ![result_write_ptr.index] = wd]
                        ELSE result_array
  BY DEF RESULT_BUFFER!Clock, RESULT_BUFFER!Write, RESULT_BUFFER!Read, RESULT_BUFFER!NextState,
         RingNext, RingAfter, W
<1>4. RingWords(RESULT_BUFFER_SIZE, result_write_ptr, result_read_ptr) \in 0 .. RESULT_BUFFER_SIZE
      /\ (re => RingWords(RESULT_BUFFER_SIZE, result_write_ptr, result_read_ptr) > 0)
      /\ (we => RingWords(RESULT_BUFFER_SIZE, result_write_ptr, result_read_ptr)
                  < RESULT_BUFFER_SIZE)
  BY <1>2 DEF Queued, RESULT_BUFFER!NoOverrun, W
<1>5. RingMoves(RESULT_BUFFER_SIZE, result_write_ptr, result_read_ptr, result_array,
                result_write_ptr', result_read_ptr', result_array', re, we, wd)
  BY <1>1, <1>3, <1>4, RingMove
<1>6. \A k \in 1 .. RESULT_BUFFER_SIZE :
        QueuedWord(k + 1) = result_array[RingCell(RESULT_BUFFER_SIZE, result_read_ptr, k)]
  BY <1>2
<1>7. QED
  BY <1>2, <1>5, <1>6 DEF RingMoves
-----------------------------------------------------------------------------
(***************************************************************************)
(* Quotients and remainders: the row and the place in it of the word a     *)
(* burst is at.                                                            *)
(***************************************************************************)
LEMMA QuotientRemainder ==
    ASSUME NEW n \in Nat, n > 1, NEW l \in Nat
    PROVE  l \div n \in Nat /\ l % n \in 0 .. n - 1 /\ l = n * (l \div n) + (l % n)
  OBVIOUS

LEMMA NextMultiple ==
    ASSUME NEW n \in Nat, NEW q \in Nat, NEW p \in Nat, q < p
    PROVE  n * q + n <= n * p
<1>1. p - q - 1 \in Nat /\ p = q + 1 + (p - q - 1)
  OBVIOUS
<1>2. PICK d \in Nat : p = q + 1 + d
  BY <1>1
<1>3. n * p = n * q + n + n * d
  BY <1>2
<1>4. n * d \in Nat /\ n * q \in Nat /\ n * p \in Nat
  OBVIOUS
<1>5. QED
  BY <1>3, <1>4

LEMMA UniqueQuotient ==
    ASSUME NEW n \in Nat, n > 1, NEW q \in Nat, NEW p \in Nat,
           NEW r \in 0 .. n - 1, NEW t \in 0 .. n - 1, n * q + r = n * p + t
    PROVE  q = p /\ r = t
<1>1. n * q \in Nat /\ n * p \in Nat
  OBVIOUS
<1>2. ~(q < p) /\ ~(p < q)
  BY <1>1, NextMultiple
<1>3. q = p
  BY <1>2
<1>4. QED
  BY <1>1, <1>3

LEMMA NextQuotient ==
    ASSUME NEW n \in Nat, n > 1, NEW l \in Nat
    PROVE  /\ (l + 1) % n = IF l % n = n - 1 THEN 0 ELSE (l % n) + 1
           /\ (l + 1) \div n = IF l % n = n - 1 THEN (l \div n) + 1 ELSE l \div n
<1> DEFINE q == l \div n
           r == l % n
           q2 == (l + 1) \div n
           r2 == (l + 1) % n
<1>1. l + 1 \in Nat
  OBVIOUS
<1>2. q \in Nat /\ r \in 0 .. n - 1 /\ l = n * q + r
  BY QuotientRemainder
<1>3. q2 \in Nat /\ r2 \in 0 .. n - 1 /\ l + 1 = n * q2 + r2
  BY <1>1, QuotientRemainder
<1>4. n * q \in Nat /\ n * q2 \in Nat /\ n * (q + 1) = n * q + n
  BY <1>2, <1>3
<1> HIDE DEF q, r, q2, r2
<1>5. CASE r = n - 1
  <2>1. n * (q + 1) + 0 = n * q2 + r2
    BY <1>2, <1>3, <1>4, <1>5
  <2>2. q2 = q + 1 /\ r2 = 0
    BY <2>1, <1>2, <1>3, UniqueQuotient
  <2>3. QED
    BY <2>2, <1>5 DEF q, r, q2, r2
<1>6. CASE r # n - 1
  <2>1. n * q + (r + 1) = n * q2 + r2 /\ r + 1 \in 0 .. n - 1
    BY <1>2, <1>3, <1>4, <1>6
  <2>2. q2 = q /\ r2 = r + 1
    BY <2>1, <1>2, <1>3, UniqueQuotient
  <2>3. QED
    BY <2>2, <1>6 DEF q, r, q2, r2
<1>7. QED
  BY <1>5, <1>6

\* The place in its row of the next word, and the rows left, with l words left.
PlaceOf(l) == W - ((l - 1) % W)
RowsOf(l) == ((l - 1) \div W) + 1

LEMMA Places ==
    ASSUME NEW l \in Nat, l > 0
    PROVE  /\ PlaceOf(l) \in 1 .. W /\ RowsOf(l) \in Nat /\ RowsOf(l) > 0
           /\ l <= W => PlaceOf(l) = W - l + 1
           /\ l = 1 => PlaceOf(l) = W /\ RowsOf(l) = 1
           /\ l > 1 => /\ PlaceOf(l - 1) = IF PlaceOf(l) = W THEN 1 ELSE PlaceOf(l) + 1
                       /\ RowsOf(l - 1) = IF PlaceOf(l) = W THEN RowsOf(l) - 1 ELSE RowsOf(l)
<1> DEFINE k == l - 1
           q == k \div W
           r == k % W
<1>1. W \in Nat /\ W > 1 /\ k \in Nat
  BY DEF W
<1>2. q \in Nat /\ r \in 0 .. W - 1 /\ k = W * q + r
  BY <1>1, QuotientRemainder
<1>3. PlaceOf(l) = W - r /\ RowsOf(l) = q + 1
  BY DEF PlaceOf, RowsOf
<1>4. k < W => r = k /\ q = 0
  <2>1. k < W => k = W * 0 + k /\ k \in 0 .. W - 1
    BY <1>1
  <2> HIDE DEF k, q, r
  <2>2. QED
    BY <1>1, <1>2, <2>1, UniqueQuotient
<1>5. l > 1 => /\ PlaceOf(l - 1) = IF PlaceOf(l) = W THEN 1 ELSE PlaceOf(l) + 1
               /\ RowsOf(l - 1) = IF PlaceOf(l) = W THEN RowsOf(l) - 1 ELSE RowsOf(l)
  <2> SUFFICES ASSUME l > 1
                  PROVE  /\ PlaceOf(l - 1) = IF PlaceOf(l) = W THEN 1 ELSE PlaceOf(l) + 1
                         /\ RowsOf(l - 1) = IF PlaceOf(l) = W THEN RowsOf(l) - 1 ELSE RowsOf(l)
    OBVIOUS
  <2> DEFINE j == l - 2
             s == j % W
             p == j \div W
  <2>1. j \in Nat /\ k = j + 1
    OBVIOUS
  <2>2. /\ r = IF s = W - 1 THEN 0 ELSE s + 1
        /\ q = IF s = W - 1 THEN p + 1 ELSE p
    <3> HIDE DEF j, k
    <3>1. QED
      BY <1>1, <2>1, NextQuotient
  <2>3. p \in Nat /\ s \in 0 .. W - 1
    <3> HIDE DEF j, k
    <3>1. QED
      BY <1>1, <2>1, QuotientRemainder
  <2>4. PlaceOf(l - 1) = W - s /\ RowsOf(l - 1) = p + 1
    <3>1. (l - 1) - 1 = j
      OBVIOUS
    <3>2. QED
      BY <3>1 DEF PlaceOf, RowsOf
  <2> HIDE DEF j, k, q, r, s, p
  <2>5. QED
    BY <1>1, <1>2, <1>3, <2>2, <2>3, <2>4
<1> HIDE DEF q, r
<1>6. QED
  BY <1>1, <1>2, <1>3, <1>4, <1>5

LEMMA WholeRows ==
    ASSUME NEW rows \in Nat, rows > 0
    PROVE  /\ rows * W \in Nat /\ rows * W > 0
           /\ PlaceOf(rows * W) = 1 /\ RowsOf(rows * W) = rows
<1> DEFINE k == rows * W - 1
<1>1. W \in Nat /\ W > 1
  BY DEF W
<1>2. rows - 1 \in Nat /\ rows * W = W * (rows - 1) + W /\ W * (rows - 1) \in Nat
  BY <1>1
<1>3. k \in Nat /\ k = W * (rows - 1) + (W - 1)
  BY <1>1, <1>2
<1>4. k \div W \in Nat /\ k % W \in 0 .. W - 1 /\ k = W * (k \div W) + (k % W)
  <2> HIDE DEF k
  <2>1. QED
    BY <1>1, <1>3, QuotientRemainder
<1>5. k \div W = rows - 1 /\ k % W = W - 1
  <2> DEFINE q == k \div W
             r == k % W
  <2> HIDE DEF k, q, r
  <2>1. W - 1 \in 0 .. W - 1
    BY <1>1
  <2>2. q = rows - 1 /\ r = W - 1
    BY <1>1, <1>2, <1>3, <1>4, <2>1, UniqueQuotient DEF q, r
  <2>3. QED
    BY <2>2 DEF q, r
<1>6. QED
  BY <1>1, <1>2, <1>5 DEF PlaceOf, RowsOf

LEMMA TransferFits ==
    ASSUME NEW rows \in 1 .. MaxRows
    PROVE  rows * W <= 2047
<1>1. W \in Nat /\ MaxRows \in Nat /\ MaxRows * W <= 2047
  BY RowAssumption, BurstAssumption DEF W
<1>2. rows < MaxRows => W * rows + W <= W * MaxRows
  BY <1>1, NextMultiple
<1>3. W * rows \in Nat /\ W * MaxRows \in Nat /\ rows * W = W * rows /\ MaxRows * W = W * MaxRows
  BY <1>1
<1>4. QED
  BY <1>1, <1>2, <1>3
-----------------------------------------------------------------------------
(***************************************************************************)
(* The bus at an edge of the master: what the slave takes from it.         *)
(***************************************************************************)
TakesNothing(bus) == /\ ~weight_write_enable(bus) /\ ~image_write_enable(bus)
                     /\ ~result_read_enable(bus)
TakesWeight(bus) == /\ weight_write_enable(bus) /\ ~image_write_enable(bus)
                    /\ ~result_read_enable(bus)
TakesImage(bus) == /\ ~weight_write_enable(bus) /\ image_write_enable(bus)
                   /\ ~result_read_enable(bus)
GivesResult(bus) == /\ ~weight_write_enable(bus) /\ ~image_write_enable(bus)
                    /\ result_read_enable(bus)

LEMMA EnablesBoolean ==
    ASSUME NEW bus
    PROVE  /\ weight_write_enable(bus) \in BOOLEAN /\ image_write_enable(bus) \in BOOLEAN
           /\ result_read_enable(bus) \in BOOLEAN /\ waitrequest(bus) \in BOOLEAN
  BY DEF weight_write_enable, image_write_enable, result_read_enable, taken, waitrequest

\* While the slave asks to wait it takes nothing; nor does it while a row is
\* consumed; and it never gives a result it does not have.
LEMMA WaitTakesNothing ==
    ASSUME NEW bus
    PROVE  /\ waitrequest(bus) => TakesNothing(bus)
           /\ calcinprogress => waitrequest(bus)
           /\ result_read_enable(bus) => ~result_buffer_empty
<1>1. waitrequest(bus) => TakesNothing(bus)
  BY DEF TakesNothing, weight_write_enable, image_write_enable, result_read_enable, taken
<1>2. calcinprogress => waitrequest(bus)
  BY DEF waitrequest
<1>3. ASSUME result_read_enable(bus) PROVE ~result_buffer_empty
  <2>1. ~illegal_result_access(bus)
    BY <1>3 DEF result_read_enable, taken, waitrequest
  <2>2. \/ burstread /\ burstaddress \in ResultWindow
        \/ bus.read /\ bus.address \in ResultWindow
    BY <1>3 DEF result_read_enable, taken
  <2>3. QED
    BY <2>1, <2>2 DEF illegal_result_access
<1>4. QED
  BY <1>1, <1>2, <1>3

LEMMA BusTypes ==
    ASSUME MasterInv
    PROVE  /\ NoAccess \in AnyBus
           /\ transfer # "none" => \A begin \in BOOLEAN : Access(begin) \in AnyBus
<1>1. NoAccess \in AnyBus
  BY DEF NoAccess, AnyBus, Bus
<1>2. ASSUME transfer # "none", NEW begin \in BOOLEAN
      PROVE  Access(begin) \in AnyBus
  <2>1. left \in 0 .. 2047 /\ left \in Nat /\ left > 0
    BY <1>2 DEF MasterInv, TransferInv
  <2>2. Place \in 1 .. W
    <3>1. Place = PlaceOf(left)
      BY DEF Place, PlaceOf
    <3>2. QED
      BY <2>1, <3>1, Places
  <2>3. transfer # "result" => WordToWrite \in Float
    BY <1>2, <2>2, RowAssumption DEF MasterInv, TransferInv, WordToWrite, W
  <2>4. Address[transfer] \in 0 .. 255
    <3>1. transfer \in {"weights", "image", "result"}
      BY <1>2 DEF MasterInv, TransferInv
    <3>2. QED
      BY <3>1 DEF Address
  <2>5. (IF transfer = "result" THEN Zero ELSE WordToWrite) \in Float
    BY <2>3
  <2>6. (IF begin THEN left ELSE 0) \in 0 .. 2047
    BY <2>1
  <2>7. Access(begin) \in [begin : BOOLEAN, burstcount : 0 .. 2047, address : 0 .. 255,
                          read : BOOLEAN, write : BOOLEAN, writedata : Float]
    BY <2>4, <2>5, <2>6 DEF Access
  <2>8. /\ Access(begin).read = (transfer = "result")
        /\ Access(begin).write = (transfer # "result")
    BY DEF Access
  <2>9. QED
    BY <2>7, <2>8 DEF AnyBus, Bus
<1>3. QED
  BY <1>1, <1>2

\* Without an access the slave at most gives the next result of a burst.
LEMMA NoAccessTaken ==
    ASSUME MasterInv, BurstInv
    PROVE  /\ ~NoAccess.begin
           /\ ~burst => TakesNothing(NoAccess)
           /\ step = "data" =>
                 /\ waitrequest(NoAccess) => TakesNothing(NoAccess)
                 /\ ~waitrequest(NoAccess) => GivesResult(NoAccess)
<1>1. ~NoAccess.begin /\ ~NoAccess.read /\ ~NoAccess.write
  BY DEF NoAccess
<1>2. ~weight_write_enable(NoAccess) /\ ~image_write_enable(NoAccess)
  BY <1>1 DEF weight_write_enable, image_write_enable, taken
<1>3. ASSUME ~burst PROVE ~result_read_enable(NoAccess)
  <2>1. current_burstcount = 0
    BY <1>3 DEF BurstInv, CountsAgree
  <2>2. QED
    BY <1>1, <2>1 DEF result_read_enable, taken
<1>4. ASSUME step = "data", ~waitrequest(NoAccess)
      PROVE  result_read_enable(NoAccess)
  <2>1. transfer = "result" /\ burst
    BY <1>4 DEF MasterInv, TransferInv
  <2>2. left # 0
    BY <2>1 DEF MasterInv, TransferInv
  <2>3. ifbursttransfer /\ burstread = TRUE /\ burstaddress = 193 /\ current_burstcount # 0
    BY <1>4, <2>1, <2>2 DEF BurstInv, CountsAgree, Address
  <2>4. burstread /\ burstaddress \in ResultWindow
    BY <2>3 DEF ResultWindow
  <2>5. QED
    BY <1>4, <2>3, <2>4 DEF result_read_enable, taken
<1>5. QED
  BY <1>1, <1>2, <1>3, <1>4, WaitTakesNothing DEF TakesNothing, GivesResult

\* What the slave takes of a request is what the master transfers.
LEMMA AccessTaken ==
    ASSUME MasterInv, BurstInv, step = "request", NEW bus, bus = Access(FALSE),
           ~waitrequest(bus)
    PROVE  /\ transfer = "weights" => TakesWeight(bus)
           /\ transfer = "image" => TakesImage(bus)
           /\ transfer = "result" => GivesResult(bus)
<1>1. /\ transfer \in {"weights", "image", "result"}
      /\ bus.address = Address[transfer]
      /\ bus.read = (transfer = "result") /\ bus.write = (transfer # "result")
      /\ left # 0
  BY DEF MasterInv, TransferInv, Access
<1>2. /\ Address["weights"] = 1 /\ Address["image"] = 97 /\ Address["result"] = 193
  BY DEF Address
<1>3. /\ 1 \in WeightWindow /\ 1 \notin ImageWindow /\ 1 \notin ResultWindow
      /\ 97 \notin WeightWindow /\ 97 \in ImageWindow /\ 97 \notin ResultWindow
      /\ 193 \notin WeightWindow /\ 193 \notin ImageWindow /\ 193 \in ResultWindow
  BY DEF WeightWindow, ImageWindow, ResultWindow
<1>4. /\ bus.read <=> transfer = "result"
      /\ bus.write <=> transfer # "result"
  BY <1>1, Zenon
<1>5. /\ bus.address \in WeightWindow <=> transfer = "weights"
      /\ bus.address \in ImageWindow <=> transfer = "image"
      /\ bus.address \in ResultWindow <=> transfer = "result"
  <2>1. CASE transfer = "weights"
    <3>1. bus.address = 1
      BY <1>1, <1>2, <2>1
    <3>2. QED
      BY <1>3, <2>1, <3>1
  <2>2. CASE transfer = "image"
    <3>1. bus.address = 97
      BY <1>1, <1>2, <2>2
    <3>2. QED
      BY <1>3, <2>2, <3>1
  <2>3. CASE transfer = "result"
    <3>1. bus.address = 193
      BY <1>1, <1>2, <2>3
    <3>2. QED
      BY <1>3, <2>3, <3>1
  <2>4. QED
    BY <1>1, <2>1, <2>2, <2>3
<1>6. ASSUME burst
      PROVE  /\ ifbursttransfer /\ burstaddress = bus.address /\ current_burstcount # 0
             /\ burstread <=> transfer = "result"
  BY <1>1, <1>6 DEF BurstInv, CountsAgree
<1>7. ~burst => ~ifbursttransfer
  BY DEF BurstInv, CountsAgree
<1>8. /\ weight_write_enable(bus) <=> transfer = "weights"
      /\ image_write_enable(bus) <=> transfer = "image"
      /\ result_read_enable(bus) <=> transfer = "result"
  <2>1. CASE burst
    BY <1>4, <1>5, <1>6, <2>1 DEF weight_write_enable, image_write_enable, result_read_enable, taken
  <2>2. CASE ~burst
    <3>1. weight_write_enable(bus) <=> bus.write /\ bus.address \in WeightWindow
      BY <1>7, <2>2 DEF weight_write_enable, taken
    <3>2. image_write_enable(bus) <=> bus.write /\ bus.address \in ImageWindow
      BY <1>7, <2>2 DEF image_write_enable, taken
    <3>3. result_read_enable(bus) <=> bus.read /\ bus.address \in ResultWindow
      BY <1>7, <2>2 DEF result_read_enable, taken
    <3>4. "weights" # "result" /\ "image" # "result"
      OBVIOUS
    <3>5. QED
      BY <1>4, <1>5, <3>1, <3>2, <3>3, <3>4, Zenon
  <2>3. QED
    BY <2>1, <2>2
<1>9. QED
  BY <1>8 DEF TakesWeight, TakesImage, GivesResult

\* The registers of a burst at an edge.
LEMMA BurstEdge ==
    ASSUME NEW bus, Clock(bus)
    PROVE  /\ bus.begin => /\ ifbursttransfer' = TRUE /\ burstaddress' = bus.address
                           /\ burstread' = bus.read /\ current_burstcount' = bus.burstcount
           /\ ~bus.begin /\ current_burstcount = 0 =>
                 ifbursttransfer' = FALSE /\ current_burstcount' = 0
           /\ ~bus.begin /\ current_burstcount # 0 =>
                 /\ UNCHANGED <<ifbursttransfer, burstaddress, burstread>>
                 /\ current_burstcount' = IF waitrequest(bus) THEN current_burstcount
                                          ELSE current_burstcount - 1
<1>1. BurstStep(bus) /\ BurstCountStep(bus)
  BY DEF Clock
<1>2. QED
  BY <1>1 DEF BurstStep, BurstCountStep
-----------------------------------------------------------------------------
(***************************************************************************)
(* What an edge of the master does: nothing is transferred, or a weight,   *)
(* an image word or a result is.                                           *)
(***************************************************************************)
Quiet(bus) ==
    /\ TakesNothing(bus)
    /\ owed' = owed /\ SentOfRow' = SentOfRow /\ SentOfWeights' = SentOfWeights
    /\ imageRow' = imageRow \/ SentOfRow = 0
    /\ \/ WeightsInCells' = 0
       \/ WeightsInCells' = WeightsInCells /\ weightRow' = weightRow

SendsWeight(bus) ==
    /\ TakesWeight(bus)
    /\ bus.writedata = Weights[weightRow][SentOfWeights + 1]
    /\ owed' = owed /\ weightRow' = weightRow
    /\ SentOfRow = 0 /\ SentOfRow' = 0
    /\ SentOfWeights \in 0 .. W - 1 /\ WeightsInCells = SentOfWeights
    /\ SentOfWeights' = IF SentOfWeights = W - 1 THEN 0 ELSE SentOfWeights + 1
    /\ WeightsInCells' \in {0, SentOfWeights + 1}

SendsImage(bus) ==
    /\ TakesImage(bus)
    /\ bus.writedata = Images[imageRow][SentOfRow + 1]
    /\ SentOfRow \in 0 .. W - 1
    /\ SentOfRow < W - 1 => /\ owed' = owed /\ imageRow' = imageRow
                            /\ SentOfRow' = SentOfRow + 1
    /\ SentOfRow = W - 1 =>
          /\ owed' = Append(owed, DotProduct(Weights[weightRow], Images[imageRow]))
          /\ Len(owed) < RESULT_BUFFER_SIZE
          /\ SentOfRow' = 0
    /\ weightRow' = weightRow /\ weightRow \in DOMAIN Weights
    /\ SentOfWeights' = SentOfWeights
    /\ WeightsInCells = W /\ WeightsInCells' = W

GetsResult(bus) ==
    /\ GivesResult(bus)
    /\ owed # <<>> /\ owed' = Tail(owed)
    /\ imageRow' = imageRow /\ weightRow' = weightRow
    /\ SentOfRow' = SentOfRow /\ SentOfWeights' = SentOfWeights
    /\ WeightsInCells' = WeightsInCells

Moves(bus) == Quiet(bus) \/ SendsWeight(bus) \/ SendsImage(bus) \/ GetsResult(bus)

MasterStep == /\ \E bus \in AnyBus : Clock(bus) /\ Moves(bus)
              /\ MasterInv' /\ BurstInv'
-----------------------------------------------------------------------------
\* A transfer that starts finds the slave outside a burst.
LEMMA StartStep ==
    ASSUME MasterInv, BurstInv, NEW what \in {"weights", "image", "result"},
           NEW words, Start(what, words)
    PROVE  /\ NoAccess \in AnyBus /\ Clock(NoAccess)
           /\ TakesNothing(NoAccess)
           /\ transfer = "none" /\ transfer' = what
           /\ burst' \in BOOLEAN /\ step' = IF burst' THEN "begin" ELSE "request"
           /\ BurstInv'
<1>1. ~burst /\ transfer = "none"
  BY DEF Start, MasterInv, TransferInv
<1>2. TakesNothing(NoAccess) /\ ~NoAccess.begin
  BY <1>1, NoAccessTaken
<1>3. NoAccess \in AnyBus /\ Clock(NoAccess)
  BY BusTypes DEF Start
<1>4. ifbursttransfer' = FALSE /\ current_burstcount' = 0
  <2>1. current_burstcount = 0
    BY <1>1 DEF BurstInv, CountsAgree
  <2>2. QED
    BY <1>2, <1>3, <2>1, BurstEdge
<1>5. burst' \in BOOLEAN /\ step' = IF burst' THEN "begin" ELSE "request"
  BY DEF Start
<1>6. BurstInv'
  BY <1>4, <1>5 DEF BurstInv, CountsAgree
<1>7. QED
  BY <1>1, <1>2, <1>3, <1>5, <1>6 DEF Start

LEMMA StartWeightsStep == ASSUME MasterInv, BurstInv, StartWeights PROVE MasterStep
<1>1. W \in 1 .. 2047
  BY SizeAssumption DEF W
<1>2. /\ NoAccess \in AnyBus /\ Clock(NoAccess)
      /\ TakesNothing(NoAccess)
      /\ transfer = "none" /\ transfer' = "weights"
      /\ burst' \in BOOLEAN /\ step' = IF burst' THEN "begin" ELSE "request"
      /\ BurstInv'
  BY StartStep DEF StartWeights
<1>3. weightRow' \in DOMAIN Weights /\ imageRow' = imageRow /\ owed' = owed /\ left' = W
  BY DEF StartWeights, Start
<1>4. TransferInv'
  BY <1>1, <1>2, <1>3 DEF MasterInv, TransferInv
<1>5. OwedInv'
  BY <1>2, <1>3 DEF MasterInv, OwedInv, RowsToSend
<1>6. Quiet(NoAccess)
  BY <1>1, <1>2, <1>3 DEF Quiet, SentOfRow, SentOfWeights, WeightsInCells
<1>7. QED
  BY <1>2, <1>4, <1>5, <1>6 DEF MasterStep, Moves, MasterInv

LEMMA StartImageStep == ASSUME MasterInv, BurstInv, StartImage PROVE MasterStep
<1>1. PICK rows \in 1 .. MaxRows : /\ Len(owed) + rows <= RESULT_BUFFER_SIZE
                                   /\ Start("image", rows * W)
  BY DEF StartImage
<1>2. /\ NoAccess \in AnyBus /\ Clock(NoAccess)
      /\ TakesNothing(NoAccess)
      /\ transfer = "none" /\ transfer' = "image"
      /\ burst' \in BOOLEAN /\ step' = IF burst' THEN "begin" ELSE "request"
      /\ BurstInv'
  BY <1>1, StartStep
<1>3. /\ weightRow # 0 /\ weightRow' = weightRow /\ owed' = owed
      /\ imageRow' \in DOMAIN Images /\ left' = rows * W
  BY <1>1 DEF StartImage, Start
<1>4. /\ left' \in 0 .. 2047 /\ left' > 0 /\ PlaceOf(left') = 1 /\ RowsOf(left') = rows
  <2>1. rows \in Nat /\ rows > 0
    BY <1>1, RowAssumption
  <2>2. /\ rows * W \in Nat /\ rows * W > 0 /\ rows * W <= 2047
        /\ PlaceOf(rows * W) = 1 /\ RowsOf(rows * W) = rows
    BY <2>1, WholeRows, TransferFits
  <2>3. QED
    BY <1>3, <2>2
<1>5. TransferInv'
  BY <1>2, <1>3, <1>4 DEF MasterInv, TransferInv
<1>6. RowsToSend' = rows /\ Place' = 1
  BY <1>2, <1>4 DEF RowsToSend, Place, RowsOf, PlaceOf
<1>7. OwedInv'
  BY <1>1, <1>2, <1>3, <1>6 DEF MasterInv, OwedInv
<1>8. Quiet(NoAccess)
  BY <1>2, <1>3, <1>6 DEF Quiet, SentOfRow, SentOfWeights, WeightsInCells
<1>9. QED
  BY <1>2, <1>5, <1>7, <1>8 DEF MasterStep, Moves, MasterInv

LEMMA StartResultStep == ASSUME MasterInv, BurstInv, StartResult PROVE MasterStep
<1>1. PICK words \in 1 .. Len(owed) : Start("result", words)
  BY DEF StartResult
<1>2. /\ NoAccess \in AnyBus /\ Clock(NoAccess)
      /\ TakesNothing(NoAccess)
      /\ transfer = "none" /\ transfer' = "result"
      /\ burst' \in BOOLEAN /\ step' = IF burst' THEN "begin" ELSE "request"
      /\ BurstInv'
  BY <1>1, StartStep
<1>3. /\ weightRow' = weightRow /\ owed' = owed
      /\ imageRow' = imageRow /\ left' = words
  BY <1>1 DEF StartResult, Start
<1>4. Len(owed) \in Nat /\ Len(owed) <= RESULT_BUFFER_SIZE
  BY <1>2 DEF MasterInv, OwedInv, RowsToSend
<1>5. left' \in 0 .. 2047 /\ left' > 0 /\ left' <= Len(owed)
  BY <1>1, <1>3, <1>4, BurstAssumption
<1>6. TransferInv'
  BY <1>2, <1>3, <1>5 DEF MasterInv, TransferInv
<1>7. OwedInv'
  BY <1>2, <1>3, <1>4, <1>5 DEF MasterInv, OwedInv, RowsToSend
<1>8. Quiet(NoAccess)
  BY <1>2, <1>3 DEF Quiet, SentOfRow, SentOfWeights, WeightsInCells
<1>9. QED
  BY <1>2, <1>6, <1>7, <1>8 DEF MasterStep, Moves, MasterInv

\* The first edge of a burst announces its length and its window.
LEMMA BeginBurstStep == ASSUME MasterInv, BurstInv, BeginBurst PROVE MasterStep
<1>1. /\ step = "begin" /\ step' = "request" /\ Clock(Access(TRUE))
      /\ UNCHANGED <<transfer, burst, left, weightRow, imageRow, owed>>
  BY DEF BeginBurst
<1>2. transfer # "none" /\ burst /\ transfer \in {"weights", "image", "result"}
  BY <1>1 DEF MasterInv, TransferInv
<1>3. PICK bus \in AnyBus : bus = Access(TRUE)
  BY <1>2, BusTypes
<1>4. /\ bus.begin = TRUE /\ bus.burstcount = left
      /\ bus.address = Address[transfer] /\ bus.read = (transfer = "result")
  BY <1>3 DEF Access
<1>5. TakesNothing(bus)
  BY <1>4, WaitTakesNothing DEF waitrequest
<1>6. /\ ifbursttransfer' = TRUE /\ burstaddress' = Address[transfer]
      /\ burstread' = (transfer = "result") /\ current_burstcount' = left
  BY <1>1, <1>3, <1>4, BurstEdge
<1>7. BurstInv'
  BY <1>1, <1>2, <1>6 DEF BurstInv, CountsAgree
<1>8. MasterInv'
  BY <1>1, <1>2 DEF MasterInv, TransferInv, OwedInv, RowsToSend
<1>9. Quiet(bus)
  BY <1>1, <1>5 DEF Quiet, SentOfRow, SentOfWeights, WeightsInCells, Place
<1>10. QED
  BY <1>1, <1>3, <1>7, <1>8, <1>9 DEF MasterStep, Moves

\* An edge that transfers no word leaves the burst as it is.
LEMMA BurstHeld ==
    ASSUME MasterInv, BurstInv, NEW bus, Clock(bus), ~bus.begin, step # "begin",
           waitrequest(bus) \/ ~burst, UNCHANGED <<transfer, step, burst, left>>
    PROVE  BurstInv'
<1>1. CASE burst
  <2>1. /\ current_burstcount = left /\ left # 0 /\ waitrequest(bus)
        /\ transfer # "none"
    BY <1>1 DEF BurstInv, CountsAgree, MasterInv, TransferInv
  <2>2. /\ UNCHANGED <<ifbursttransfer, burstaddress, burstread, current_burstcount>>
    BY <2>1, BurstEdge
  <2>3. QED
    BY <1>1, <2>2 DEF BurstInv, CountsAgree
<1>2. CASE ~burst
  <2>1. current_burstcount = 0
    BY <1>2 DEF BurstInv, CountsAgree
  <2>2. ifbursttransfer' = FALSE /\ current_burstcount' = 0
    BY <2>1, BurstEdge
  <2>3. QED
    BY <1>2, <2>2 DEF BurstInv, CountsAgree
<1>3. QED
  BY <1>1, <1>2

\* An edge that transfers a word is counted by the slave and by the master.
LEMMA BurstCounted ==
    ASSUME MasterInv, BurstInv, NEW bus, Clock(bus), ~bus.begin,
           step \in {"request", "data"}, ~waitrequest(bus), CountWord,
           left > 1 => step' # "begin"
    PROVE  BurstInv'
<1>1. left \in Nat /\ left # 0 /\ transfer # "none"
  BY DEF MasterInv, TransferInv
<1>2. left = 1 => transfer' = "none" /\ burst' = FALSE /\ step' = "none"
  BY DEF CountWord, Idle
<1>3. left # 1 => left' = left - 1 /\ transfer' = transfer /\ burst' = burst
  BY DEF CountWord
<1>4. CASE burst
  <2>1. current_burstcount = left
    BY <1>4 DEF BurstInv, CountsAgree
  <2>2. /\ UNCHANGED <<ifbursttransfer, burstaddress, burstread>>
        /\ current_burstcount' = left - 1
    BY <1>1, <2>1, BurstEdge
  <2>3. CASE left = 1
    BY <1>2, <2>2, <2>3 DEF BurstInv, CountsAgree
  <2>4. CASE left # 1
    BY <1>1, <1>3, <1>4, <2>2, <2>4 DEF BurstInv, CountsAgree
  <2>5. QED
    BY <2>3, <2>4
<1>5. CASE ~burst
  <2>1. current_burstcount = 0
    BY <1>5 DEF BurstInv, CountsAgree
  <2>2. ifbursttransfer' = FALSE /\ current_burstcount' = 0
    BY <2>1, BurstEdge
  <2>3. ~burst'
    BY <1>2, <1>3, <1>5
  <2>4. QED
    BY <2>2, <2>3 DEF BurstInv, CountsAgree
<1>6. QED
  BY <1>4, <1>5

\* A word sent: the last of its transfer, or the transfer goes on.
LEMMA WriteWordStep == ASSUME MasterInv, BurstInv, WriteWord PROVE MasterStep
<1>1. /\ step = "request" /\ transfer # "result" /\ ~waitrequest(Access(FALSE))
      /\ Clock(Access(FALSE)) /\ CountWord /\ (left > 1 => step' = step)
      /\ weightRow' = weightRow
  BY DEF WriteWord
<1>2. /\ transfer \in {"weights", "image"} /\ left \in 0 .. 2047 /\ left \in Nat /\ left > 0
      /\ imageRow \in DOMAIN Images /\ weightRow \in DOMAIN Weights
  BY <1>1 DEF MasterInv, TransferInv
<1>3. PICK bus \in AnyBus : bus = Access(FALSE)
  <2>1. transfer # "none"
    BY <1>2
  <2>2. QED
    BY <2>1, BusTypes
<1>4. bus.begin = FALSE /\ bus.writedata = WordToWrite
  BY <1>1, <1>3 DEF Access
<1>5. /\ transfer = "weights" => TakesWeight(bus)
      /\ transfer = "image" => TakesImage(bus)
  BY <1>1, <1>3, AccessTaken
<1>6. BurstInv'
  BY <1>1, <1>3, <1>4, BurstCounted
<1>7. /\ left = 1 => transfer' = "none" /\ step' = "none" /\ burst' = FALSE /\ left' = 0
      /\ left # 1 => left' = left - 1 /\ transfer' = transfer /\ burst' = burst
                     /\ step' = step
  BY <1>1, <1>2 DEF CountWord, Idle
<1>8. /\ Place = PlaceOf(left) /\ Place \in 1 .. W
      /\ left <= W => Place = W - left + 1
      /\ left = 1 => Place = W /\ RowsOf(left) = 1
      /\ left # 1 => /\ Place' = IF Place = W THEN 1 ELSE Place + 1
                     /\ RowsOf(left') = IF Place = W THEN RowsOf(left) - 1 ELSE RowsOf(left)
      /\ RowsOf(left) \in Nat /\ W \in Nat /\ W > 1
  <2>1. Place = PlaceOf(left) /\ Place' = PlaceOf(left')
    BY DEF Place, PlaceOf
  <2>2. W \in Nat /\ W > 1
    BY DEF W
  <2>3. /\ PlaceOf(left) \in 1 .. W /\ RowsOf(left) \in Nat
        /\ left <= W => PlaceOf(left) = W - left + 1
        /\ left = 1 => PlaceOf(left) = W /\ RowsOf(left) = 1
        /\ left > 1 =>
              /\ PlaceOf(left - 1) = IF PlaceOf(left) = W THEN 1 ELSE PlaceOf(left) + 1
              /\ RowsOf(left - 1) = IF PlaceOf(left) = W THEN RowsOf(left) - 1
                                                          ELSE RowsOf(left)
    BY <1>2, Places
  <2>4. left # 1 => left > 1
    BY <1>2
  <2>5. QED
    BY <1>7, <2>1, <2>2, <2>3, <2>4
<1>9. imageRow' \in DOMAIN Images
  BY <1>1, <1>2 DEF WriteWord
<1>10. TransferInv'
  <2>1. CASE left = 1
    <3>1. transfer' = "none" /\ step' = "none" /\ left' = 0 /\ burst' = FALSE
      BY <1>7, <2>1
    <3>2. weightRow' \in DOMAIN Weights
      BY <1>1, <1>2
    <3>3. burst' \in BOOLEAN /\ ~burst'
      BY <3>1
    <3>4. QED
      BY <1>9, <3>1, <3>2, <3>3 DEF TransferInv
  <2>2. CASE left # 1
    <3>1. left' \in 0 .. 2047 /\ left' > 0 /\ (left <= W => left' <= W)
      BY <1>2, <1>7, <1>8, <2>2
    <3>2. QED
      BY <1>1, <1>2, <1>7, <1>9, <2>2, <3>1 DEF MasterInv, TransferInv
  <2>3. QED
    BY <2>1, <2>2
<1>11. CASE transfer = "weights"
  <2>1. owed' = owed /\ imageRow' = imageRow
    BY <1>1, <1>11 DEF WriteWord
  <2>2. left <= W /\ transfer' # "image" /\ transfer' # "result"
    BY <1>7, <1>11 DEF MasterInv, TransferInv
  <2>3. OwedInv'
    BY <2>1, <2>2, <1>11 DEF MasterInv, OwedInv, RowsToSend
  <2>4. /\ SentOfWeights = W - left /\ WeightsInCells = W - left
        /\ SentOfRow = 0 /\ SentOfRow' = 0
    BY <1>11, <2>2 DEF SentOfWeights, WeightsInCells, SentOfRow
  <2>5. /\ SentOfWeights' = IF left = 1 THEN 0 ELSE W - left + 1
        /\ WeightsInCells' \in {0, W - left + 1}
    BY <1>1, <1>2, <1>7, <1>8, <1>11 DEF SentOfWeights, WeightsInCells
  <2>6. bus.writedata = Weights[weightRow][W - left + 1]
    BY <1>4, <1>8, <1>11, <2>2 DEF WordToWrite
  <2>7. SendsWeight(bus)
    BY <1>1, <1>2, <1>5, <1>8, <1>11, <2>1, <2>2, <2>4, <2>5, <2>6 DEF SendsWeight
  <2>8. QED
    BY <1>1, <1>3, <1>6, <1>10, <2>3, <2>7 DEF MasterStep, Moves, MasterInv
<1>12. CASE transfer = "image"
  <2>1. /\ RowsToSend = RowsOf(left) /\ SentOfRow = Place - 1
        /\ SentOfWeights = 0 /\ WeightsInCells = W
    BY <1>12 DEF RowsToSend, RowsOf, SentOfRow, SentOfWeights, WeightsInCells, MasterInv,
                 TransferInv
  <2>2. /\ SentOfWeights' = 0 /\ WeightsInCells' = W
        /\ SentOfRow' = IF Place = W THEN 0 ELSE Place
        /\ RowsToSend' = IF Place = W THEN RowsOf(left) - 1 ELSE RowsOf(left)
    <3>1. weightRow # 0
      BY <1>12 DEF MasterInv, TransferInv
    <3>2. CASE left = 1
      BY <1>1, <1>7, <1>8, <3>1, <3>2 DEF SentOfWeights, WeightsInCells, SentOfRow, RowsToSend
    <3>3. CASE left # 1
      <4>1. /\ SentOfRow' = Place' - 1 /\ RowsToSend' = RowsOf(left')
            /\ SentOfWeights' = 0 /\ WeightsInCells' = W
        BY <1>1, <1>7, <1>12, <3>1, <3>3 DEF SentOfRow, RowsToSend, RowsOf, SentOfWeights,
                                             WeightsInCells
      <4>2. QED
        BY <1>8, <3>3, <4>1
    <3>4. QED
      BY <3>2, <3>3
  <2>3. /\ Place = W => owed' = Append(owed, DotProduct(Weights[weightRow], Images[imageRow]))
        /\ Place # W => owed' = owed /\ imageRow' = imageRow
    BY <1>1, <1>12 DEF WriteWord
  <2>4. /\ owed \in Seq(Results) /\ Len(owed) \in Nat
        /\ Len(owed) + RowsOf(left) <= RESULT_BUFFER_SIZE
    BY <2>1 DEF MasterInv, OwedInv
  <2>5. Place = W => RowsOf(left) > 0
    BY <1>2, Places
  <2>6. OwedInv'
    <3>1. DotProduct(Weights[weightRow], Images[imageRow]) \in Results
      BY <1>2 DEF Results
    <3>2. transfer' # "result"
      BY <1>7, <1>12
    <3>3. CASE Place = W
      <4>1. owed' \in Seq(Results) /\ Len(owed') = Len(owed) + 1
        BY <2>3, <2>4, <3>1, <3>3
      <4>2. QED
        BY <1>8, <2>2, <2>4, <3>2, <3>3, <4>1 DEF OwedInv
    <3>4. CASE Place # W
      BY <1>8, <2>2, <2>3, <2>4, <3>2, <3>4 DEF OwedInv
    <3>5. QED
      BY <3>3, <3>4
  <2>7. bus.writedata = Images[imageRow][Place]
    BY <1>4, <1>12 DEF WordToWrite
  <2>8. SendsImage(bus)
    <3>1. TakesImage(bus)
      BY <1>5, <1>12
    <3>2. SentOfRow = Place - 1 /\ Place \in 1 .. W /\ W \in Nat /\ SentOfRow + 1 = Place
      BY <1>8, <2>1
    <3>3. bus.writedata = Images[imageRow][SentOfRow + 1]
      BY <2>7, <3>2
    <3>4. /\ SentOfRow \in 0 .. W - 1
          /\ SentOfRow < W - 1 => Place # W /\ SentOfRow' = SentOfRow + 1
          /\ SentOfRow = W - 1 => Place = W /\ SentOfRow' = 0
      BY <2>2, <3>2
    <3>5. SentOfRow = W - 1 => Len(owed) < RESULT_BUFFER_SIZE
      BY <1>8, <2>4, <2>5, <3>4
    <3>6. QED
      BY <1>1, <1>2, <2>1, <2>2, <2>3, <3>1, <3>3, <3>4, <3>5 DEF SendsImage
  <2>9. QED
    BY <1>1, <1>3, <1>6, <1>10, <2>6, <2>8 DEF MasterStep, Moves, MasterInv
<1>13. QED
  BY <1>2, <1>11, <1>12

\* A result read, at a request or in the rest of a burst.
LEMMA ResultStep ==
    ASSUME MasterInv, BurstInv, NEW bus \in AnyBus, Clock(bus), bus.begin = FALSE,
           transfer = "result", step \in {"request", "data"},
           GivesResult(bus), ~waitrequest(bus), owed' = Tail(owed), CountWord,
           left > 1 => step' = IF burst THEN "data" ELSE step,
           UNCHANGED <<weightRow, imageRow>>
    PROVE  MasterStep
<1>1. /\ left \in 0 .. 2047 /\ left \in Nat /\ left > 0 /\ left <= Len(owed)
      /\ owed \in Seq(Results) /\ Len(owed) <= RESULT_BUFFER_SIZE
      /\ step = "data" => burst
  BY DEF MasterInv, TransferInv, OwedInv, RowsToSend
<1>2. /\ left = 1 => transfer' = "none" /\ step' = "none" /\ burst' = FALSE /\ left' = 0
      /\ left # 1 => left' = left - 1 /\ transfer' = "result" /\ burst' = burst
                     /\ step' = IF burst THEN "data" ELSE step
  BY <1>1 DEF CountWord, Idle
<1>3. BurstInv'
  <2>1. left > 1 => step' # "begin"
    BY <1>1
  <2>2. QED
    BY <2>1, BurstCounted
<1>4. owed # <<>> /\ owed' \in Seq(Results) /\ Len(owed') = Len(owed) - 1
  BY <1>1
<1>5. OwedInv'
  <2>1. CASE left = 1
    BY <1>1, <1>2, <1>4, <2>1 DEF OwedInv, RowsToSend
  <2>2. CASE left # 1
    BY <1>1, <1>2, <1>4, <2>2 DEF OwedInv, RowsToSend
  <2>3. QED
    BY <2>1, <2>2
<1>6. TransferInv'
  <2>1. imageRow' \in DOMAIN Images /\ (weightRow' # 0 => weightRow' \in DOMAIN Weights)
    BY DEF MasterInv, TransferInv
  <2>2. CASE left = 1
    <3>1. transfer' = "none" /\ step' = "none" /\ left' = 0 /\ burst' = FALSE
      BY <1>2, <2>2
    <3>2. burst' \in BOOLEAN /\ ~burst'
      BY <3>1
    <3>3. QED
      BY <2>1, <3>1, <3>2 DEF TransferInv
  <2>3. CASE left # 1
    <3>1. transfer' = "result" /\ left' \in 0 .. 2047 /\ left' > 0
      BY <1>1, <1>2, <2>3
    <3>2. burst' \in BOOLEAN
      BY <1>2, <2>3 DEF MasterInv, TransferInv
    <3>3. step' \in {"request", "data"} /\ (step' = "data" => burst')
      BY <1>1, <1>2, <2>3
    <3>4. QED
      BY <2>1, <3>1, <3>2, <3>3 DEF TransferInv
  <2>4. QED
    BY <2>2, <2>3
<1>7. GetsResult(bus)
  <2>1. transfer' # "image" /\ transfer' # "weights"
    BY <1>2
  <2>2. QED
    BY <1>4, <2>1 DEF GetsResult, SentOfRow, SentOfWeights, WeightsInCells
<1>8. QED
  BY <1>3, <1>5, <1>6, <1>7 DEF MasterStep, Moves, MasterInv

LEMMA ReadRequestStep == ASSUME MasterInv, BurstInv, ReadRequest PROVE MasterStep
<1>1. /\ step = "request" /\ transfer = "result" /\ ~waitrequest(Access(FALSE))
      /\ Clock(Access(FALSE)) /\ owed' = Tail(owed) /\ CountWord
      /\ left > 1 => step' = IF burst THEN "data" ELSE step
      /\ UNCHANGED <<weightRow, imageRow>>
  BY DEF ReadRequest
<1>2. PICK bus \in AnyBus : bus = Access(FALSE)
  <2>1. transfer # "none"
    BY <1>1
  <2>2. QED
    BY <2>1, BusTypes
<1>3. bus.begin = FALSE
  BY <1>2 DEF Access
<1>4. GivesResult(bus)
  BY <1>1, <1>2, AccessTaken
<1>5. QED
  BY <1>1, <1>2, <1>3, <1>4, ResultStep

LEMMA ReadDataStep == ASSUME MasterInv, BurstInv, ReadData PROVE MasterStep
<1>1. step = "data" /\ Clock(NoAccess) /\ UNCHANGED <<weightRow, imageRow>>
  BY DEF ReadData
<1>2. PICK bus \in AnyBus : bus = NoAccess
  BY BusTypes
<1>3. bus.begin = FALSE
  BY <1>2 DEF NoAccess
<1>4. transfer = "result" /\ burst
  BY <1>1 DEF MasterInv, TransferInv
<1>5. /\ waitrequest(bus) => TakesNothing(bus)
      /\ ~waitrequest(bus) => GivesResult(bus)
  BY <1>1, <1>2, NoAccessTaken
<1>6. CASE waitrequest(bus)
  <2>1. UNCHANGED <<transfer, step, burst, left, owed>>
    BY <1>2, <1>5, <1>6 DEF ReadData, TakesNothing
  <2>2. BurstInv'
    BY <1>1, <1>2, <1>3, <1>6, <2>1, BurstHeld
  <2>3. MasterInv'
    BY <1>1, <2>1 DEF MasterInv, TransferInv, OwedInv, RowsToSend
  <2>4. Quiet(bus)
    BY <1>1, <1>5, <1>6, <2>1 DEF Quiet, SentOfRow, SentOfWeights, WeightsInCells, Place
  <2>5. QED
    BY <1>1, <1>2, <2>2, <2>3, <2>4 DEF MasterStep, Moves
<1>7. CASE ~waitrequest(bus)
  <2>1. owed' = Tail(owed) /\ CountWord /\ (left > 1 => step' = step)
    BY <1>2, <1>5, <1>7 DEF ReadData, GivesResult
  <2>2. left > 1 => step' = IF burst THEN "data" ELSE step
    BY <1>1, <1>4, <2>1
  <2>3. QED
    BY <1>1, <1>2, <1>3, <1>4, <1>5, <1>7, <2>1, <2>2, ResultStep
<1>8. QED
  BY <1>6, <1>7

LEMMA WaitStep == ASSUME MasterInv, BurstInv, Wait PROVE MasterStep
<1>1. /\ step = "request" /\ waitrequest(Access(FALSE)) /\ Clock(Access(FALSE))
      /\ UNCHANGED masterVars
  BY DEF Wait
<1>2. transfer # "none"
  BY <1>1 DEF MasterInv, TransferInv
<1>3. PICK bus \in AnyBus : bus = Access(FALSE)
  BY <1>2, BusTypes
<1>4. bus.begin = FALSE
  BY <1>3 DEF Access
<1>5. BurstInv'
  BY <1>1, <1>3, <1>4, BurstHeld DEF masterVars
<1>6. MasterInv'
  BY <1>1 DEF MasterInv, TransferInv, OwedInv, RowsToSend, masterVars
<1>7. Quiet(bus)
  BY <1>1, <1>3, WaitTakesNothing
     DEF Quiet, SentOfRow, SentOfWeights, WeightsInCells, Place, masterVars
<1>8. QED
  BY <1>1, <1>3, <1>5, <1>6, <1>7 DEF MasterStep, Moves

LEMMA PauseStep == ASSUME MasterInv, BurstInv, Pause PROVE MasterStep
<1>1. ~burst /\ Clock(NoAccess) /\ UNCHANGED masterVars
  BY DEF Pause
<1>2. PICK bus \in AnyBus : bus = NoAccess
  BY BusTypes
<1>3. bus.begin = FALSE
  BY <1>2 DEF NoAccess
<1>4. step # "begin"
  BY <1>1 DEF MasterInv, TransferInv
<1>5. BurstInv'
  BY <1>1, <1>2, <1>3, <1>4, BurstHeld DEF masterVars
<1>6. MasterInv'
  BY <1>1 DEF MasterInv, TransferInv, OwedInv, RowsToSend, masterVars
<1>7. Quiet(bus)
  BY <1>1, <1>2, NoAccessTaken
     DEF Quiet, SentOfRow, SentOfWeights, WeightsInCells, Place, masterVars
<1>8. QED
  BY <1>1, <1>2, <1>5, <1>6, <1>7 DEF MasterStep, Moves
-----------------------------------------------------------------------------
(***************************************************************************)
(* The slave at an edge: its counts, its words and its sum.                *)
(***************************************************************************)
Phases ==
    /\ W \in Nat /\ W > 1 /\ Collected \in 0 .. W /\ calccount \in 0 .. W
    /\ Consuming <=> Collected = W \/ calccount \in 1 .. W - 1
    /\ Consuming => Collected = W - calccount /\ calccount \in 0 .. W - 1
    /\ calccount = W => Collected = 0 /\ ~Consuming
    /\ ~Consuming => calccount \in {0, W} /\ Collected < W
    /\ Pending <=> Consuming \/ calccount = W
    /\ Consuming \in BOOLEAN
    /\ calcinprogress <=> Consuming

LEMMA SlaveFacts == SlaveInv => Phases
<1> SUFFICES ASSUME SlaveInv PROVE Phases
  OBVIOUS
<1>1. W \in Nat /\ W > 1 /\ RowLength = W /\ calccount \in 0 .. W
  BY DEF W, RowLength, SlaveInv, AccTypeOK
<1>2. Collected \in 0 .. W
  BY <1>1, ImageFlags DEF Collected, SlaveInv, AccTypeOK
<1>3. /\ Consuming <=> Collected = W \/ calccount \in 1 .. W - 1
      /\ Consuming => Collected = W - calccount /\ calccount \in 0 .. W - 1
      /\ calcinprogress <=> Consuming
      /\ Consuming \in BOOLEAN
  BY <1>1, Enables DEF Consuming, Collected
<1>4. calccount = W => Collected = 0
  BY <1>1 DEF SlaveInv, RowPhase, Collected
<1>5. Pending <=> Consuming \/ calccount = W
  BY <1>1, <1>3 DEF Pending
<1>6. QED
  BY <1>1, <1>2, <1>3, <1>4, <1>5 DEF Phases

LEMMA SlaveFactsPrime == SlaveInv' => Phases'
  BY SlaveFacts, PTL

\* The count of the products and the sum at the next edge.
LEMMA SumEdge ==
    ASSUME SlaveInv, NEW bus, Clock(bus)
    PROVE  /\ Consuming => /\ calccount' = calccount + 1
                           /\ adder_output' = FpAdd(adder_output,
                                  FpMul(weight_array[calccount], ImageWord(1)))
           /\ ~Consuming => calccount' = 0
           /\ result_write_enable <=> calccount = W
<1>1. /\ W \in Nat /\ W > 1 /\ calccount \in 0 .. W
      /\ calccount = W => ~Consuming
      /\ ~Consuming => calccount \in {0, W}
  BY SlaveFacts DEF Phases
<1>2. /\ Consuming => calccount' = calccount + 1
      /\ ~Consuming => calccount' = 0
  BY <1>1, CountStep DEF Clock, Consuming, RowLength, W
<1>3. ASSUME Consuming
      PROVE  adder_output' = FpAdd(adder_output, FpMul(weight_array[calccount], ImageWord(1)))
  <2>1. adder_input_a' = adder_output /\ adder_input_b' = multiplier_output
    BY <1>3 DEF Clock, AccumulateStep, Consuming
  <2>2. weight_read_ptr.index = calccount
    BY <1>1, <1>3, ReadIndex DEF RowLength, W
  <2>3. WEIGHT_BUFFER!read_data = weight_array[calccount]
    BY <2>2 DEF WEIGHT_BUFFER!read_data
  <2>4. IMAGE_BUFFER!read_data = ImageWord(1)
    <3>1. image_read_ptr.index \in 0 .. W - 1
      BY DEF SlaveInv, AccTypeOK, IMAGE_BUFFER!TypeOK, IMAGE_BUFFER!Pointer,
             IMAGE_BUFFER!Index, W
    <3>2. IMAGE_BUFFER!Cell(1 - 1) = image_read_ptr.index
      BY <3>1 DEF IMAGE_BUFFER!Cell, W
    <3>3. QED
      BY <3>2 DEF IMAGE_BUFFER!read_data, ImageWord
  <2>5. QED
    BY <2>1, <2>3, <2>4 DEF adder_output, multiplier_output
<1>4. result_write_enable <=> calccount = W
  BY DEF result_write_enable, W
<1>5. QED
  BY <1>2, <1>3, <1>4

\* While a row is consumed nothing is transferred.
LEMMA ConsumingIsQuiet ==
    ASSUME SlaveInv, NEW bus, Moves(bus), Consuming
    PROVE  Quiet(bus)
<1>1. TakesNothing(bus)
  BY SlaveFacts, WaitTakesNothing DEF Phases
<1>2. QED
  BY <1>1 DEF Moves, SendsWeight, SendsImage, GetsResult, TakesNothing, TakesWeight,
              TakesImage, GivesResult

\* The words in the image buffer at the next edge.
LEMMA ImageEdge ==
    ASSUME SlaveInv, NEW bus \in AnyBus, Clock(bus)
    PROVE  /\ Collected' = Collected + (IF image_write_enable(bus) THEN 1 ELSE 0)
                                     - (IF Consuming THEN 1 ELSE 0)
           /\ \A n \in 1 .. W : n <= Collected' =>
                 ImageWord(n)' = IF image_write_enable(bus) /\ n = Collected'
                                 THEN bus.writedata
                                 ELSE IF Consuming THEN ImageWord(n + 1) ELSE ImageWord(n)
<1>1. bus.writedata \in Float
  BY DEF AnyBus, Bus
<1>2. /\ IMAGE_BUFFER!TypeOK /\ IMAGE_BUFFER!NoOverrun
      /\ image_write_enable(bus) \in BOOLEAN /\ Consuming \in BOOLEAN
  BY EnablesBoolean, SlaveFacts DEF Phases, SlaveInv, AccTypeOK
<1>3. Consuming => Collected > 0
  BY SlaveFacts DEF Phases
<1>4. image_write_enable(bus) => Collected < W
  <2>1. image_write_enable(bus) => ~waitrequest(bus)
    BY DEF image_write_enable, taken
  <2>2. QED
    BY <2>1, SlaveFacts, WaitTakesNothing DEF Phases
<1>5. IMAGE_BUFFER!Clock(Consuming, image_write_enable(bus), bus.writedata)
  BY DEF Clock, Consuming
<1>6. QED
  BY <1>1, <1>2, <1>3, <1>4, <1>5, ImageWords

\* The weights at the next edge.
LEMMA WeightEdge ==
    ASSUME SlaveInv, NEW bus \in AnyBus, Clock(bus)
    PROVE  /\ weight_write_ptr.index \in 0 .. W - 1
           /\ weight_write_enable(bus) =>
                 /\ weight_write_ptr'.index = IF weight_write_ptr.index = W - 1 THEN 0
                                              ELSE weight_write_ptr.index + 1
                 /\ \A i \in 0 .. W - 1 :
                       weight_array'[i] = IF i = weight_write_ptr.index THEN bus.writedata
                                          ELSE weight_array[i]
           /\ ~weight_write_enable(bus) => weight_write_ptr' = weight_write_ptr
                                           /\ weight_array' = weight_array
<1>1. /\ weight_write_ptr.index \in 0 .. W - 1
      /\ weight_array \in [0 .. W - 1 -> Float]
  BY DEF SlaveInv, AccTypeOK, WEIGHT_BUFFER!TypeOK, WEIGHT_BUFFER!Pointer,
         WEIGHT_BUFFER!Index, W
<1>2. WEIGHT_BUFFER!Write(weight_write_enable(bus), bus.writedata)
  BY DEF Clock, WEIGHT_BUFFER!Clock
<1>3. QED
  BY <1>1, <1>2 DEF WEIGHT_BUFFER!Write, WEIGHT_BUFFER!NextState, W
-----------------------------------------------------------------------------
(***************************************************************************)
(* The invariant is kept, part by part.                                    *)
(***************************************************************************)
LEMMA WeightsStep ==
    ASSUME SlaveInv, WeightsInv, NEW bus \in AnyBus, Clock(bus), Moves(bus)
    PROVE  WeightsInv'
<1>1. weight_write_ptr.index = SentOfWeights
  BY DEF WeightsInv
<1>2. CASE ~SendsWeight(bus)
  <2>1. weight_write_ptr' = weight_write_ptr /\ weight_array' = weight_array
    BY <1>2, WeightEdge DEF Moves, Quiet, SendsImage, GetsResult, TakesNothing, TakesImage,
                            GivesResult
  <2>2. /\ SentOfWeights' = SentOfWeights
        /\ \/ WeightsInCells' = 0
           \/ WeightsInCells' = WeightsInCells /\ weightRow' = weightRow
    BY <1>2 DEF Moves, Quiet, SendsImage, GetsResult
  <2>3. QED
    BY <2>1, <2>2 DEF WeightsInv
<1>3. CASE SendsWeight(bus)
  <2>1. /\ weight_write_enable(bus) /\ weightRow' = weightRow
        /\ bus.writedata = Weights[weightRow][SentOfWeights + 1]
        /\ SentOfWeights \in 0 .. W - 1 /\ WeightsInCells = SentOfWeights
        /\ SentOfWeights' = IF SentOfWeights = W - 1 THEN 0 ELSE SentOfWeights + 1
        /\ WeightsInCells' \in {0, SentOfWeights + 1}
    BY <1>3 DEF SendsWeight, TakesWeight
  <2>2. weight_write_ptr'.index = SentOfWeights'
    BY <1>1, <2>1, WeightEdge
  <2>3. ASSUME NEW n \in 1 .. SentOfWeights + 1
        PROVE  weight_array'[n - 1] = Weights[weightRow][n]
    <3>1. n - 1 \in 0 .. W - 1 /\ n \in Nat /\ W \in Nat
      BY <2>1, SlaveFacts DEF Phases
    <3>2. weight_array'[n - 1] = IF n - 1 = SentOfWeights THEN bus.writedata
                                 ELSE weight_array[n - 1]
      BY <1>1, <2>1, <3>1, WeightEdge
    <3>3. CASE n - 1 = SentOfWeights
      <4>1. SentOfWeights + 1 = n
        BY <3>1, <3>3
      <4>2. QED
        BY <2>1, <3>2, <3>3, <4>1
    <3>4. CASE n - 1 # SentOfWeights
      <4>1. n \in 1 .. WeightsInCells
        BY <2>1, <2>3, <3>1, <3>4
      <4>2. QED
        BY <3>2, <3>4, <4>1 DEF WeightsInv
    <3>5. QED
      BY <3>3, <3>4
  <2>4. WeightsInCells' = 0 \/ WeightsInCells' = SentOfWeights + 1
    BY <2>1
  <2>5. QED
    BY <2>1, <2>2, <2>3, <2>4 DEF WeightsInv
<1>4. QED
  BY <1>2, <1>3

LEMMA ImageStep ==
    ASSUME SlaveInv, SlaveInv', ImageInv, NEW bus \in AnyBus, Clock(bus), Moves(bus)
    PROVE  ImageInv'
<1>1. /\ W \in Nat /\ W > 1 /\ Collected \in 0 .. W /\ calccount \in 0 .. W
      /\ Consuming => Collected = W - calccount /\ calccount \in 0 .. W - 1
      /\ ~Consuming => Collected < W
  BY SlaveFacts DEF Phases
<1>2. /\ Consuming' <=> Collected' = W \/ calccount' \in 1 .. W - 1
      /\ Consuming' => Collected' = W - calccount'
  BY SlaveFactsPrime DEF Phases
<1>3. CASE Consuming
  <2>1. /\ SentOfRow' = 0 /\ ~image_write_enable(bus)
    BY <1>3, ConsumingIsQuiet DEF ImageInv, Quiet, TakesNothing
  <2>2. calccount' = calccount + 1 /\ Collected' = Collected - 1
    BY <1>1, <1>3, <2>1, SumEdge, ImageEdge
  <2>3. ~Consuming' => Collected' = 0
    BY <1>1, <1>2, <1>3, <2>2
  <2>4. QED
    BY <2>1, <2>3 DEF ImageInv
<1>4. CASE ~Consuming
  <2>1. /\ Collected = SentOfRow
        /\ \A n \in 1 .. Collected : ImageWord(n) = Images[imageRow][n]
    BY <1>4 DEF ImageInv
  <2>2. calccount' = 0
    BY <1>4, SumEdge
  <2>3. CASE ~SendsImage(bus)
    <3>1. /\ ~image_write_enable(bus) /\ SentOfRow' = SentOfRow
          /\ imageRow' = imageRow \/ SentOfRow = 0
      BY <2>3 DEF Moves, Quiet, SendsWeight, GetsResult, TakesNothing, TakesWeight, GivesResult
    <3>2. /\ Collected' = Collected
          /\ \A n \in 1 .. W : n <= Collected' => ImageWord(n)' = ImageWord(n)
      BY <1>1, <1>4, <3>1, ImageEdge
    <3>3. ~Consuming'
      BY <1>1, <1>2, <1>4, <2>2, <3>2
    <3>4. \A n \in 1 .. Collected' : ImageWord(n)' = Images[imageRow'][n]
      BY <1>1, <2>1, <3>1, <3>2
    <3>5. QED
      BY <2>1, <3>1, <3>2, <3>3, <3>4 DEF ImageInv
  <2>4. CASE SendsImage(bus)
    <3>1. /\ image_write_enable(bus)
          /\ bus.writedata = Images[imageRow][SentOfRow + 1]
          /\ SentOfRow < W - 1 => imageRow' = imageRow /\ SentOfRow' = SentOfRow + 1
          /\ SentOfRow = W - 1 => SentOfRow' = 0
      BY <2>4 DEF SendsImage, TakesImage
    <3>2. /\ Collected' = Collected + 1
          /\ \A n \in 1 .. W : n <= Collected' =>
                ImageWord(n)' = IF n = Collected' THEN bus.writedata ELSE ImageWord(n)
      BY <1>1, <1>4, <3>1, ImageEdge
    <3>3. CASE SentOfRow = W - 1
      BY <1>1, <1>2, <2>1, <3>1, <3>2, <3>3 DEF ImageInv
    <3>4. CASE SentOfRow < W - 1
      <4>1. ~Consuming' /\ Collected' = SentOfRow'
        BY <1>1, <1>2, <2>1, <2>2, <3>1, <3>2, <3>4
      <4>2. ASSUME NEW n \in 1 .. Collected'
            PROVE  ImageWord(n)' = Images[imageRow'][n]
        <5>1. n \in 1 .. W /\ n <= Collected'
          BY <1>1, <2>1, <3>2, <3>4, <4>2
        <5>2. CASE n = Collected'
          <6>1. n = SentOfRow + 1
            BY <2>1, <3>2, <5>2
          <6>2. QED
            BY <3>1, <3>2, <3>4, <5>1, <5>2, <6>1
        <5>3. CASE n # Collected'
          <6>1. n \in 1 .. Collected
            BY <1>1, <3>2, <5>1, <5>3
          <6>2. QED
            BY <2>1, <3>1, <3>2, <3>4, <5>1, <5>3, <6>1
        <5>4. QED
          BY <5>2, <5>3
      <4>3. QED
        BY <4>1, <4>2 DEF ImageInv
    <3>5. SentOfRow = W - 1 \/ SentOfRow < W - 1
      BY <1>1, <1>4, <2>1
    <3>6. QED
      BY <3>3, <3>4, <3>5
  <2>5. QED
    BY <2>3, <2>4
<1>5. QED
  BY <1>3, <1>4

\* The next product of a row being consumed is added to its sum.
LEMMA RowGoesOn ==
    ASSUME SlaveInv, SlaveInv', RowInv, NEW bus \in AnyBus, Clock(bus), Moves(bus), Consuming
    PROVE  RowInv'
<1>1. /\ W \in Nat /\ W > 1 /\ Collected \in 0 .. W /\ calccount \in 0 .. W - 1
      /\ Collected = W - calccount /\ Pending
  BY SlaveFacts DEF Phases
<1>2. PICK w \in DOMAIN Weights, x \in DOMAIN Images : RowIs(w, x)
  BY <1>1 DEF RowInv
<1>3. /\ owed # <<>> /\ owed[Len(owed)] = DotProduct(Weights[w], Images[x])
      /\ SumIs(Weights[w], Images[x], calccount, adder_output)
      /\ \A n \in 1 .. W : weight_array[n - 1] = Weights[w][n]
      /\ \A n \in 1 .. W - calccount : ImageWord(n) = Images[x][calccount + n]
  BY <1>2 DEF RowIs
<1>4. /\ ~weight_write_enable(bus) /\ ~image_write_enable(bus) /\ owed' = owed
  BY ConsumingIsQuiet DEF Quiet, TakesNothing
<1>5. /\ calccount' = calccount + 1
      /\ adder_output' = FpAdd(adder_output, FpMul(weight_array[calccount], ImageWord(1)))
  BY SumEdge
<1>6. /\ weight_array[calccount] = Weights[w][calccount + 1]
      /\ ImageWord(1) = Images[x][calccount + 1]
  <2>1. calccount + 1 \in 1 .. W /\ 1 \in 1 .. W - calccount /\ (calccount + 1) - 1 = calccount
    BY <1>1
  <2>2. QED
    BY <1>3, <2>1
<1>7. SumIs(Weights[w], Images[x], calccount + 1, adder_output')
  <2>1. PICK k \in Nat : k = calccount
    BY <1>1
  <2>2. PICK s : s = adder_output
    OBVIOUS
  <2>3. SumIs(Weights[w], Images[x], k + 1,
              FpAdd(s, FpMul(Weights[w][k + 1], Images[x][k + 1])))
    BY <1>3, <2>1, <2>2, SumNext
  <2>4. QED
    BY <1>5, <1>6, <2>1, <2>2, <2>3
<1>8. weight_array' = weight_array
  BY <1>4, WeightEdge
<1>9. ASSUME NEW n \in 1 .. W - calccount'
      PROVE  ImageWord(n)' = Images[x][calccount' + n]
  <2>1. Collected' = Collected - 1
    BY <1>1, <1>4, ImageEdge
  <2>2. n \in 1 .. W /\ n <= Collected'
    BY <1>1, <1>5, <1>9, <2>1
  <2>3. ImageWord(n)' = ImageWord(n + 1)
    BY <1>4, <2>2, ImageEdge
  <2>4. n + 1 \in 1 .. W - calccount /\ calccount + (n + 1) = calccount' + n
    BY <1>1, <1>5, <1>9
  <2>5. ImageWord(n + 1) = Images[x][calccount + (n + 1)]
    BY <1>3, <2>4
  <2>6. QED
    BY <2>3, <2>4, <2>5
<1>10. RowIs(w, x)'
  BY <1>3, <1>4, <1>5, <1>7, <1>8, <1>9 DEF RowIs
<1>11. QED
  BY <1>10 DEF RowInv

\* A complete row waits with the weights sent last, and its sum is empty.
LEMMA RowStarts ==
    ASSUME SlaveInv, SlaveInv', MasterInv, WeightsInv, ImageInv,
           NEW bus \in AnyBus, Clock(bus), Moves(bus),
           ~Consuming, SendsImage(bus), SentOfRow = W - 1
    PROVE  RowInv'
<1>1. /\ W \in Nat /\ W > 1 /\ Collected = W - 1
      /\ \A n \in 1 .. Collected : ImageWord(n) = Images[imageRow][n]
  BY SlaveFacts DEF Phases, ImageInv
<1>2. /\ image_write_enable(bus) /\ ~weight_write_enable(bus)
      /\ bus.writedata = Images[imageRow][SentOfRow + 1]
      /\ owed' = Append(owed, DotProduct(Weights[weightRow], Images[imageRow]))
      /\ weightRow \in DOMAIN Weights /\ WeightsInCells = W
  BY DEF SendsImage, TakesImage
<1>3. owed \in Seq(Results) /\ imageRow \in DOMAIN Images
  BY DEF MasterInv, OwedInv, TransferInv
<1>4. PICK w \in DOMAIN Weights, x \in DOMAIN Images : w = weightRow /\ x = imageRow
  BY <1>2, <1>3
<1>5. calccount' = 0
  BY SumEdge
<1>6. owed' # <<>> /\ owed'[Len(owed')] = DotProduct(Weights[w], Images[x])
  BY <1>2, <1>3, <1>4
<1>7. SumIs(Weights[w], Images[x], calccount', adder_output')
  <2>1. adder_input_a' = Zero /\ adder_input_b' = Zero
    BY <1>5 DEF SlaveInv, RowStartsClean
  <2>2. adder_output' = FpAdd(Zero, Zero)
    BY <2>1 DEF adder_output
  <2>3. QED
    BY <1>5, <2>2, SumZero
<1>8. \A n \in 1 .. W : weight_array'[n - 1] = Weights[w][n]
  BY <1>2, <1>4, WeightEdge DEF WeightsInv
<1>9. ASSUME NEW n \in 1 .. W - calccount'
      PROVE  ImageWord(n)' = Images[x][calccount' + n]
  <2>1. Collected' = W
    BY <1>1, <1>2, ImageEdge
  <2>2. n \in 1 .. W /\ calccount' + n = n
    BY <1>1, <1>5, <1>9
  <2>3. ImageWord(n)' = IF n = W THEN bus.writedata ELSE ImageWord(n)
    BY <1>2, <2>1, <2>2, ImageEdge
  <2>4. CASE n = W
    <3>1. SentOfRow + 1 = W
      BY <1>1
    <3>2. QED
      BY <1>2, <1>4, <2>2, <2>3, <2>4, <3>1
  <2>5. CASE n # W
    <3>1. n \in 1 .. Collected
      BY <1>1, <2>2, <2>5
    <3>2. QED
      BY <1>1, <1>4, <2>2, <2>3, <2>5, <3>1
  <2>6. QED
    BY <2>4, <2>5
<1>10. RowIs(w, x)'
  BY <1>5, <1>6, <1>7, <1>8, <1>9 DEF RowIs
<1>11. QED
  BY <1>10 DEF RowInv

\* When its result is queued the row is no longer pending, and none is before
\* the last word of the next one has come.
LEMMA NoRowPending ==
    ASSUME SlaveInv, SlaveInv', ImageInv, NEW bus \in AnyBus, Clock(bus), Moves(bus), ~Consuming
    PROVE  /\ Pending' <=> SendsImage(bus) /\ SentOfRow = W - 1
           /\ calccount = W => SentOfRow = 0
<1>1. /\ W \in Nat /\ W > 1 /\ Collected \in 0 .. W - 1 /\ Collected = SentOfRow
      /\ calccount = W => Collected = 0
  BY SlaveFacts DEF Phases, ImageInv
<1>2. calccount' = 0
  BY SumEdge
<1>3. Pending' <=> Collected' = W
  BY <1>2 DEF Pending
<1>4. CASE SendsImage(bus)
  <2>1. Collected' = Collected + 1
    BY <1>1, <1>4, ImageEdge DEF SendsImage, TakesImage
  <2>2. QED
    BY <1>1, <1>3, <1>4, <2>1
<1>5. CASE ~SendsImage(bus)
  <2>1. ~image_write_enable(bus)
    BY <1>5 DEF Moves, Quiet, SendsWeight, GetsResult, TakesNothing, TakesWeight, GivesResult
  <2>2. Collected' = Collected
    BY <1>1, <2>1, ImageEdge
  <2>3. QED
    BY <1>1, <1>3, <1>5, <2>2
<1>6. QED
  BY <1>1, <1>4, <1>5

LEMMA RowStep ==
    ASSUME SlaveInv, SlaveInv', MasterInv, WeightsInv, ImageInv, RowInv,
           NEW bus \in AnyBus, Clock(bus), Moves(bus)
    PROVE  RowInv'
<1>1. CASE Consuming
  BY <1>1, RowGoesOn
<1>2. CASE ~Consuming /\ SendsImage(bus) /\ SentOfRow = W - 1
  BY <1>2, RowStarts
<1>3. CASE ~Consuming /\ ~(SendsImage(bus) /\ SentOfRow = W - 1)
  BY <1>3, NoRowPending DEF RowInv
<1>4. QED
  BY <1>1, <1>2, <1>3

\* The results in the queue at the next edge.
LEMMA ResultEdge ==
    ASSUME FpClosed, SlaveInv, MasterInv, QueueInv, NEW bus, Clock(bus)
    PROVE  /\ Queued \in 0 .. Len(owed) /\ Len(owed) \in Nat /\ Len(owed) <= RESULT_BUFFER_SIZE
           /\ result_read_enable(bus) => Queued > 0
           /\ Queued' = Queued + (IF calccount = W THEN 1 ELSE 0)
                               - (IF result_read_enable(bus) THEN 1 ELSE 0)
           /\ \A n \in 1 .. RESULT_BUFFER_SIZE : n <= Queued' =>
                 QueuedWord(n)' = IF calccount = W /\ n = Queued' THEN adder_output
                                  ELSE IF result_read_enable(bus) THEN QueuedWord(n + 1)
                                  ELSE QueuedWord(n)
<1>1. /\ RESULT_BUFFER!TypeOK /\ adder_output \in Float
      /\ result_read_enable(bus) \in BOOLEAN /\ (calccount = W) \in BOOLEAN
  BY EnablesBoolean DEF SlaveInv, AccTypeOK, FpClosed, adder_output
<1>2. Len(owed) \in Nat /\ Len(owed) <= RESULT_BUFFER_SIZE
  <2>1. owed \in Seq(Results) /\ RowsToSend \in Nat
    <3>1. left \in Nat /\ (transfer = "image" => left > 0)
      BY DEF MasterInv, TransferInv
    <3>2. RowsToSend \in Nat
      BY <3>1, Places DEF RowsToSend, RowsOf
    <3>3. QED
      BY <3>2 DEF MasterInv, OwedInv
  <2>2. QED
    BY <2>1 DEF MasterInv, OwedInv
<1>3. /\ Queued \in 0 .. Len(owed) /\ Queued \in 0 .. RESULT_BUFFER_SIZE
      /\ calccount = W => Queued < RESULT_BUFFER_SIZE
  <2>1. calccount = W => Pending
    BY SlaveFacts DEF Phases
  <2>2. QED
    BY <1>2, <2>1 DEF QueueInv
<1>4. result_read_enable(bus) => Queued > 0
  <2>1. result_read_enable(bus) => ~result_buffer_empty
    BY WaitTakesNothing
  <2>2. Queued = 0 => result_buffer_empty
    BY <1>1 DEF result_buffer_empty, RESULT_BUFFER!buffer_empty, Queued,
                RESULT_BUFFER!Occupancy, RESULT_BUFFER!TypeOK, RESULT_BUFFER!Pointer,
                RESULT_BUFFER!Index
  <2>3. QED
    BY <1>3, <2>1, <2>2
<1>5. RESULT_BUFFER!Clock(result_read_enable(bus), calccount = W, adder_output)
  BY DEF Clock, result_write_enable, W
<1>6. RESULT_BUFFER!NoOverrun
  BY <1>3 DEF RESULT_BUFFER!NoOverrun, Queued
<1>7. QED
  BY <1>1, <1>2, <1>3, <1>4, <1>5, <1>6, ResultWords

\* The result that is queued is the one of the newest row that owes one.
LEMMA ResultIsOwed ==
    ASSUME SlaveInv, RowInv, calccount = W
    PROVE  owed # <<>> /\ owed[Len(owed)] = adder_output
<1>1. W \in Nat /\ W > 1 /\ Pending
  BY SlaveFacts DEF Phases
<1>2. PICK w \in DOMAIN Weights, x \in DOMAIN Images : RowIs(w, x)
  BY <1>1 DEF RowInv
<1>3. DotProduct(Weights[w], Images[x]) = adder_output
  BY <1>2, SumValue DEF RowIs
<1>4. QED
  BY <1>2, <1>3 DEF RowIs

LEMMA QueueStep ==
    ASSUME FpClosed, SlaveInv, SlaveInv', MasterInv, ImageInv, RowInv, QueueInv,
           NEW bus \in AnyBus, Clock(bus), Moves(bus)
    PROVE  QueueInv'
<1>1. /\ W \in Nat /\ W > 1
      /\ Pending <=> Consuming \/ calccount = W
      /\ calccount = W => ~Consuming
      /\ owed \in Seq(Results)
  BY SlaveFacts DEF Phases, MasterInv, OwedInv
<1>2. /\ Queued \in Nat /\ \A n \in 1 .. Queued : QueuedWord(n) = owed[n]
      /\ Pending => Len(owed) = Queued + 1
      /\ ~Pending => Len(owed) = Queued
  BY ResultEdge DEF QueueInv
<1>3. /\ Len(owed) \in Nat /\ Len(owed) <= RESULT_BUFFER_SIZE
      /\ result_read_enable(bus) => Queued > 0
      /\ Queued' = Queued + (IF calccount = W THEN 1 ELSE 0)
                          - (IF result_read_enable(bus) THEN 1 ELSE 0)
      /\ \A n \in 1 .. RESULT_BUFFER_SIZE : n <= Queued' =>
            QueuedWord(n)' = IF calccount = W /\ n = Queued' THEN adder_output
                             ELSE IF result_read_enable(bus) THEN QueuedWord(n + 1)
                             ELSE QueuedWord(n)
  BY ResultEdge
<1>4. CASE Consuming
  <2>1. ~result_read_enable(bus) /\ owed' = owed
    BY <1>4, ConsumingIsQuiet DEF Quiet, TakesNothing
  <2>2. Pending'
    <3>1. calccount' > 0
      BY <1>4, SlaveFacts, SumEdge DEF Phases
    <3>2. QED
      BY <3>1 DEF Pending
  <2>3. Queued' = Queued /\ Len(owed') = Queued' + 1
    BY <1>1, <1>2, <1>3, <1>4, <2>1
  <2>4. \A n \in 1 .. Queued' : QueuedWord(n)' = owed'[n]
    BY <1>1, <1>2, <1>3, <1>4, <2>1, <2>3
  <2>5. QED
    BY <1>2, <2>2, <2>3, <2>4 DEF QueueInv
<1>5. CASE ~Consuming
  <2>1. /\ Pending' <=> SendsImage(bus) /\ SentOfRow = W - 1
        /\ calccount = W => SentOfRow = 0
    BY <1>5, NoRowPending
  <2>2. CASE SendsImage(bus) /\ SentOfRow = W - 1
    <3>1. /\ ~result_read_enable(bus)
          /\ owed' = Append(owed, DotProduct(Weights[weightRow], Images[imageRow]))
      BY <2>2 DEF SendsImage, TakesImage
    <3>2. calccount # W /\ ~Pending /\ Pending'
      BY <1>1, <1>5, <2>1, <2>2
    <3>3. Queued' = Queued /\ Len(owed') = Queued' + 1
      BY <1>1, <1>2, <1>3, <3>1, <3>2
    <3>4. ASSUME NEW n \in 1 .. Queued' PROVE QueuedWord(n)' = owed'[n]
      <4>1. n \in 1 .. Len(owed) /\ n \in 1 .. RESULT_BUFFER_SIZE /\ n <= Queued'
        BY <1>2, <1>3, <3>2, <3>3
      <4>2. owed'[n] = owed[n]
        BY <1>1, <3>1, <4>1
      <4>3. QED
        BY <1>2, <1>3, <3>1, <3>2, <3>3, <4>1, <4>2
    <3>5. QED
      BY <1>2, <3>2, <3>3, <3>4 DEF QueueInv
  <2>3. CASE ~(SendsImage(bus) /\ SentOfRow = W - 1)
    <3>1. ~Pending'
      BY <2>1, <2>3
    <3>2. CASE GetsResult(bus)
      <4>1. result_read_enable(bus) /\ owed # <<>> /\ owed' = Tail(owed)
        BY <3>2 DEF GetsResult, GivesResult
      <4>2. Len(owed') = Len(owed) - 1 /\ \A n \in 1 .. Len(owed) - 1 : owed'[n] = owed[n + 1]
        BY <1>1, <4>1
      <4>3. Queued' = Len(owed')
        <5>1. CASE calccount = W
          BY <1>1, <1>2, <1>3, <4>1, <4>2, <5>1
        <5>2. CASE calccount # W
          <6>1. ~Pending
            BY <1>1, <1>5, <5>2
          <6>2. QED
            BY <1>2, <1>3, <4>1, <4>2, <5>2, <6>1
        <5>3. QED
          BY <5>1, <5>2
      <4>4. ASSUME NEW n \in 1 .. Queued' PROVE QueuedWord(n)' = owed'[n]
        <5>1. /\ n \in 1 .. Len(owed) - 1 /\ n \in 1 .. RESULT_BUFFER_SIZE /\ n <= Queued'
              /\ owed'[n] = owed[n + 1]
          BY <1>3, <4>2, <4>3
        <5>2. CASE calccount = W /\ n = Queued'
          <6>1. n + 1 = Len(owed)
            BY <1>3, <4>2, <4>3, <5>2
          <6>2. QED
            BY <1>3, <5>1, <5>2, <6>1, ResultIsOwed
        <5>3. CASE ~(calccount = W /\ n = Queued')
          <6>1. n + 1 \in 1 .. Queued
            <7>1. CASE calccount = W
              BY <1>1, <1>2, <1>3, <4>1, <5>1, <5>3, <7>1
            <7>2. CASE calccount # W
              <8>1. Len(owed) = Queued
                BY <1>1, <1>2, <1>5, <7>2
              <8>2. QED
                BY <1>2, <5>1, <8>1
            <7>3. QED
              BY <7>1, <7>2
          <6>2. QED
            BY <1>2, <1>3, <4>1, <5>1, <5>3, <6>1
        <5>4. QED
          BY <5>2, <5>3
      <4>5. QED
        BY <1>3, <3>1, <4>2, <4>3, <4>4 DEF QueueInv
    <3>3. CASE ~GetsResult(bus)
      <4>1. ~result_read_enable(bus) /\ owed' = owed
        <5>1. SendsImage(bus) => SentOfRow < W - 1
          BY <1>1, <2>3 DEF SendsImage
        <5>2. QED
          BY <3>3, <5>1 DEF Moves, Quiet, SendsWeight, SendsImage, TakesNothing, TakesWeight,
                            TakesImage
      <4>2. Queued' = Len(owed')
        BY <1>1, <1>2, <1>3, <1>5, <4>1
      <4>3. ASSUME NEW n \in 1 .. Queued' PROVE QueuedWord(n)' = owed'[n]
        <5>1. n \in 1 .. Len(owed) /\ n \in 1 .. RESULT_BUFFER_SIZE /\ n <= Queued'
          BY <1>3, <4>1, <4>2
        <5>2. CASE calccount = W /\ n = Queued'
          BY <1>3, <4>1, <4>2, <5>1, <5>2, ResultIsOwed
        <5>3. CASE ~(calccount = W /\ n = Queued')
          <6>1. n \in 1 .. Queued
            BY <1>1, <1>2, <1>3, <1>5, <4>1, <4>2, <5>1, <5>3
          <6>2. QED
            BY <1>2, <1>3, <4>1, <5>1, <5>3, <6>1
        <5>4. QED
          BY <5>2, <5>3
      <4>4. QED
        BY <1>3, <3>1, <4>1, <4>2, <4>3 DEF QueueInv
    <3>4. QED
      BY <3>2, <3>3
  <2>4. QED
    BY <2>2, <2>3
<1>6. QED
  BY <1>4, <1>5
-----------------------------------------------------------------------------
(* The initial state, the reset and the step.                              *)

LEMMA BurstOffloadInit == Init => BurstOffloadInv
<1> SUFFICES ASSUME Init PROVE BurstOffloadInv
  OBVIOUS
<1>1. SlaveInv
  BY SlaveInit DEF Init
<1>2. /\ transfer = "none" /\ step = "none" /\ burst = FALSE /\ left = 0 /\ weightRow = 0
      /\ imageRow \in DOMAIN Images /\ owed = <<>>
  BY DEF Init
<1>3. /\ Collected = 0 /\ Queued = 0 /\ calccount = 0 /\ adder_en_reg = FALSE
      /\ current_burstcount = 0 /\ weight_write_ptr.index = 0
      /\ ifbursttransfer = FALSE
  <2>1. Collected = 0
    BY BuffersInit DEF Init, AccInit, Collected
  <2>2. Queued = 0 /\ weight_write_ptr.index = 0
    BY DEF Init, AccInit, RESULT_BUFFER!Init, RESULT_BUFFER!ResetState, Queued,
           RESULT_BUFFER!Occupancy, WEIGHT_BUFFER!Init, WEIGHT_BUFFER!ResetState
  <2>3. QED
    BY <2>1, <2>2 DEF Init, AccInit
<1>4. /\ SentOfRow = 0 /\ SentOfWeights = 0 /\ WeightsInCells = 0 /\ RowsToSend = 0
  BY <1>2 DEF SentOfRow, SentOfWeights, WeightsInCells, RowsToSend
<1>5. W \in Nat /\ W > 1
  BY DEF W
<1>6. ~Pending /\ ~Consuming
  <2>1. ~Pending
    BY <1>3, <1>5 DEF Pending
  <2>2. QED
    BY <1>1, <2>1, SlaveFacts DEF Phases
<1>7. MasterInv
  <2>1. burst \in BOOLEAN /\ ~burst
    BY <1>2
  <2>2. TransferInv
    BY <1>2, <2>1 DEF TransferInv
  <2>3. OwedInv
    BY <1>2, <1>4 DEF OwedInv
  <2>4. QED
    BY <2>2, <2>3 DEF MasterInv
<1>8. BurstInv
  BY <1>2, <1>3 DEF BurstInv, CountsAgree
<1>9. WeightsInv /\ ImageInv
  BY <1>3, <1>4, <1>6 DEF WeightsInv, ImageInv
<1>10. RowInv /\ QueueInv
  BY <1>2, <1>3, <1>6 DEF RowInv, QueueInv
<1>11. QED
  BY <1>1, <1>7, <1>8, <1>9, <1>10 DEF BurstOffloadInv

LEMMA BurstOffloadReset == BurstOffloadInv /\ Reset => BurstOffloadInv'
<1> SUFFICES ASSUME BurstOffloadInv, Reset PROVE BurstOffloadInv'
  OBVIOUS
<1>1. SlaveInv'
  BY SlaveReset DEF Reset
<1>2. /\ transfer' = "none" /\ step' = "none" /\ burst' = FALSE /\ left' = 0 /\ weightRow' = 0
      /\ imageRow' \in DOMAIN Images /\ owed' = <<>>
  BY DEF Reset, Idle, BurstOffloadInv, MasterInv, TransferInv
<1>3. /\ Collected' = 0 /\ Queued' = 0 /\ calccount' = 0
      /\ current_burstcount' = 0 /\ weight_write_ptr'.index = 0
      /\ ifbursttransfer' = FALSE
  <2>1. Collected' = 0
    BY BuffersReset DEF Reset, AccReset, Collected
  <2>2. Queued' = 0 /\ weight_write_ptr'.index = 0
    BY DEF Reset, AccReset, RESULT_BUFFER!Reset, RESULT_BUFFER!ResetState, Queued,
           RESULT_BUFFER!Occupancy, WEIGHT_BUFFER!Reset, WEIGHT_BUFFER!ResetState
  <2>3. QED
    BY <2>1, <2>2 DEF Reset, AccReset
<1>4. /\ SentOfRow' = 0 /\ SentOfWeights' = 0 /\ WeightsInCells' = 0 /\ RowsToSend' = 0
  BY <1>2 DEF SentOfRow, SentOfWeights, WeightsInCells, RowsToSend
<1>5. W \in Nat /\ W > 1
  BY DEF W
<1>6. ~Pending' /\ ~Consuming'
  <2>1. ~Pending'
    BY <1>3, <1>5 DEF Pending
  <2>2. QED
    BY <1>1, <2>1, SlaveFactsPrime DEF Phases
<1>7. MasterInv'
  <2>1. burst' \in BOOLEAN /\ ~burst'
    BY <1>2
  <2>2. TransferInv'
    BY <1>2, <2>1 DEF TransferInv
  <2>3. OwedInv'
    BY <1>2, <1>4 DEF OwedInv
  <2>4. QED
    BY <2>2, <2>3 DEF MasterInv
<1>8. BurstInv'
  BY <1>2, <1>3 DEF BurstInv, CountsAgree
<1>9. WeightsInv' /\ ImageInv'
  BY <1>3, <1>4, <1>6 DEF WeightsInv, ImageInv
<1>10. RowInv' /\ QueueInv'
  BY <1>2, <1>3, <1>6 DEF RowInv, QueueInv
<1>11. QED
  BY <1>1, <1>7, <1>8, <1>9, <1>10 DEF BurstOffloadInv

LEMMA BurstOffloadStutter == BurstOffloadInv /\ UNCHANGED vars => BurstOffloadInv'
<1> SUFFICES ASSUME BurstOffloadInv, UNCHANGED vars PROVE BurstOffloadInv'
  OBVIOUS
<1>1. UNCHANGED accVars /\ UNCHANGED masterVars
  BY DEF vars
<1>2. SlaveInv'
  BY <1>1, SlaveStutter DEF BurstOffloadInv
<1>3. MasterInv' /\ BurstInv'
  BY <1>1 DEF BurstOffloadInv, masterVars, accVars, burstVars, MasterInv, TransferInv, OwedInv,
              RowsToSend, BurstInv, CountsAgree
<1>4. WeightsInv'
  BY <1>1 DEF BurstOffloadInv, masterVars, accVars, bufferVars, WeightsInv, SentOfWeights,
              WeightsInCells
<1>5. /\ Collected' = Collected /\ Consuming' = Consuming /\ Queued' = Queued
      /\ Pending' = Pending
  BY <1>1 DEF accVars, bufferVars, calcVars, Collected, Consuming, Queued, Pending, adder_enable,
              image_buffer_full, image_buffer_empty, IMAGE_BUFFER!buffer_full,
              IMAGE_BUFFER!buffer_empty, IMAGE_BUFFER!Occupancy, RESULT_BUFFER!Occupancy
<1>6. /\ \A n : ImageWord(n)' = ImageWord(n)
      /\ \A n : QueuedWord(n)' = QueuedWord(n)
  BY <1>1 DEF accVars, bufferVars, ImageWord, QueuedWord, IMAGE_BUFFER!Cell,
              RESULT_BUFFER!Cell
<1>7. /\ UNCHANGED <<weight_array, calccount, adder_input_a, adder_input_b>>
      /\ UNCHANGED <<transfer, left, imageRow, weightRow, owed>>
  BY <1>1 DEF accVars, bufferVars, calcVars, masterVars
<1>8. ImageInv'
  BY <1>5, <1>6, <1>7 DEF BurstOffloadInv, ImageInv, SentOfRow, Place
<1>9. RowInv'
  <2>1. \A w, x : RowIs(w, x) => RowIs(w, x)'
    BY <1>5, <1>6, <1>7 DEF RowIs, adder_output
  <2>2. QED
    BY <1>5, <2>1 DEF BurstOffloadInv, RowInv
<1>10. QueueInv'
  BY <1>5, <1>6, <1>7 DEF BurstOffloadInv, QueueInv
<1>11. QED
  BY <1>2, <1>3, <1>4, <1>8, <1>9, <1>10 DEF BurstOffloadInv

LEMMA BurstOffloadNext ==
    ASSUME FpClosed, BurstOffloadInv, Next
    PROVE  BurstOffloadInv'
<1>1. SlaveInv /\ MasterInv /\ BurstInv /\ WeightsInv /\ ImageInv /\ RowInv /\ QueueInv
  BY DEF BurstOffloadInv
<1>2. CASE Reset
  BY <1>2, BurstOffloadReset
<1>3. ASSUME MasterStep PROVE BurstOffloadInv'
  <2>1. PICK bus \in AnyBus : Clock(bus) /\ Moves(bus)
    BY <1>3 DEF MasterStep
  <2>2. MasterInv' /\ BurstInv'
    BY <1>3 DEF MasterStep
  <2>3. SlaveInv'
    BY <1>1, <2>1, SlaveClock
  <2>4. WeightsInv' /\ ImageInv'
    BY <1>1, <2>1, <2>3, WeightsStep, ImageStep
  <2>5. RowInv' /\ QueueInv'
    BY <1>1, <2>1, <2>3, RowStep, QueueStep
  <2>6. QED
    BY <2>2, <2>3, <2>4, <2>5 DEF BurstOffloadInv
<1>4. CASE StartWeights \/ StartImage \/ StartResult
  BY <1>1, <1>3, <1>4, StartWeightsStep, StartImageStep, StartResultStep
<1>5. CASE BeginBurst \/ WriteWord
  BY <1>1, <1>3, <1>5, BeginBurstStep, WriteWordStep
<1>6. CASE ReadRequest \/ ReadData
  BY <1>1, <1>3, <1>6, ReadRequestStep, ReadDataStep
<1>7. CASE Wait \/ Pause
  BY <1>1, <1>3, <1>7, WaitStep, PauseStep
<1>8. QED
  BY <1>2, <1>4, <1>5, <1>6, <1>7 DEF Next, Transfer

LEMMA BurstOffloadInvariant ==
    ASSUME FpClosed
    PROVE  Spec => []BurstOffloadInv
<1>1. BurstOffloadInv /\ [Next]_vars => BurstOffloadInv'
  BY BurstOffloadNext, BurstOffloadStutter
<1>2. QED
  BY <1>1, BurstOffloadInit, PTL DEF Spec
-----------------------------------------------------------------------------
\* The results that are owed come out in the order of their rows, each the dot
\* product of its row with the weights that were loaded for it, and none is
\* delivered that is not there (nn_acc_single.sv:121-148).
THEOREM OwedResultsInOrder ==
    ASSUME FpClosed
    PROVE  Spec => []ResultsInOrder
<1>1. BurstOffloadInv => ResultsInOrder
  <2> SUFFICES ASSUME BurstOffloadInv PROVE ResultsInOrder
    OBVIOUS
  <2>1. SlaveInv /\ MasterInv /\ BurstInv /\ QueueInv
    BY DEF BurstOffloadInv
  <2>2. Queued \in 0 .. Len(owed)
    <3>1. owed \in Seq(Results)
      BY <2>1 DEF MasterInv, OwedInv
    <3>2. Len(owed) \in Nat
      BY <3>1
    <3>3. QED
      BY <2>1, <3>2 DEF QueueInv
  <2>3. \A n \in 1 .. Queued : RESULT_BUFFER!Contents[n] = owed[n]
    BY <2>1 DEF QueueInv, Queued, QueuedWord, RESULT_BUFFER!Contents
  <2>4. Delivering => Queued > 0
    <3>1. Delivering => \E bus : result_read_enable(bus)
      <4>1. CASE step = "request" /\ transfer = "result" /\ ~waitrequest(Access(FALSE))
        BY <2>1, <4>1, AccessTaken DEF GivesResult
      <4>2. CASE step = "data" /\ result_read_enable(NoAccess)
        BY <4>2
      <4>3. QED
        BY <4>1, <4>2 DEF Delivering
    <3>2. Delivering => ~result_buffer_empty
      BY <3>1, WaitTakesNothing
    <3>3. Queued = 0 => result_buffer_empty
      BY <2>1 DEF SlaveInv, AccTypeOK, result_buffer_empty, RESULT_BUFFER!buffer_empty, Queued,
                  RESULT_BUFFER!Occupancy, RESULT_BUFFER!TypeOK, RESULT_BUFFER!Pointer,
                  RESULT_BUFFER!Index
    <3>4. QED
      BY <2>2, <3>2, <3>3
  <2>5. QED
    BY <2>2, <2>3, <2>4 DEF ResultsInOrder, Queued
<1>2. QED
  BY <1>1, BurstOffloadInvariant, PTL

\* When the slave rests, no complete row is without its result and no image
\* word is left (nn_acc_single.sv:56-73, :121-148).
THEOREM RestingSlaveOwesNothing ==
    ASSUME FpClosed
    PROVE  Spec => []EveryRowHasItsResult
<1>1. BurstOffloadInv => EveryRowHasItsResult
  <2> SUFFICES ASSUME BurstOffloadInv, transfer = "none", ~calcinprogress, calccount = 0
               PROVE  RESULT_BUFFER!Occupancy = Len(owed) /\ image_buffer_empty
    BY DEF EveryRowHasItsResult
  <2>1. SlaveInv /\ MasterInv /\ ImageInv /\ QueueInv
    BY DEF BurstOffloadInv
  <2>2. ~Consuming /\ W > 1 /\ W \in Nat /\ (Pending <=> Consuming \/ calccount = W)
    BY <2>1, SlaveFacts DEF Phases
  <2>3. Collected = 0
    BY <2>1, <2>2 DEF ImageInv, SentOfRow
  <2>4. image_buffer_empty
    BY <2>1, <2>3, ImageFlags DEF SlaveInv, AccTypeOK, Collected
  <2>5. ~Pending /\ Len(owed) \in Nat
    <3>1. owed \in Seq(Results)
      BY <2>1 DEF MasterInv, OwedInv
    <3>2. QED
      BY <2>2, <3>1
  <2>6. QED
    BY <2>1, <2>4, <2>5 DEF QueueInv, Queued
<1>2. QED
  BY <1>1, BurstOffloadInvariant, PTL

\* The slave counts a burst as its master does (nn_acc_single.sv:75-96,
\* :127-139).
THEOREM BurstCountsAgree ==
    ASSUME FpClosed
    PROVE  Spec => []CountsAgree
<1>1. BurstOffloadInv => CountsAgree
  BY DEF BurstOffloadInv, BurstInv
<1>2. QED
  BY <1>1, BurstOffloadInvariant, PTL
=============================================================================
