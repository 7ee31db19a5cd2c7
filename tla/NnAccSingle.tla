----------------------------- MODULE NnAccSingle -----------------------------
(***************************************************************************)
(* Custom-Hardware-Blocks/nn_acc_single.sv, the burst-capable version of   *)
(* the multiply-accumulate slave.  It collects a whole row of image words, *)
(* holds the bus with waitrequest while it consumes the row, and queues    *)
(* the results.  One step is one clock edge.                               *)
(*                                                                         *)
(* weight_read_en_reg and image_read_en_reg have the inputs of             *)
(* adder_en_reg and always its value; one register stands for the three.   *)
(* illegal_weight_access is computed but used nowhere.                     *)
(***************************************************************************)
EXTENDS Integers

CONSTANTS WEIGHT_BUFFER_SIZE, IMAGE_BUFFER_SIZE, RESULT_BUFFER_SIZE,
          Float,          \* the 32-bit words
          Zero,           \* '0, positive zero
          FpAdd(_, _),    \* fp_adder
          FpMul(_, _)     \* fp_multiplier

\* A row is consumed once the image buffer is full: both buffers hold a row.
ASSUME SizeAssumption == /\ WEIGHT_BUFFER_SIZE \in 2 .. 2047
                         /\ IMAGE_BUFFER_SIZE = WEIGHT_BUFFER_SIZE
                         /\ RESULT_BUFFER_SIZE \in Nat /\ RESULT_BUFFER_SIZE > 1
ASSUME FloatAssumption == Zero \in Float

VARIABLES weight_write_ptr, weight_read_ptr, weight_array,  \* WEIGHT_BUFFER
          image_write_ptr, image_read_ptr, image_array,     \* IMAGE_BUFFER
          result_write_ptr, result_read_ptr, result_array,  \* RESULT_BUFFER
          adder_input_a, adder_input_b, adder_en_reg,
          ifbursttransfer, burstaddress, burstread, current_burstcount,
          calccount, calcinprogress_reg

bufferVars == <<weight_write_ptr, weight_read_ptr, weight_array,
                image_write_ptr, image_read_ptr, image_array,
                result_write_ptr, result_read_ptr, result_array>>
burstVars == <<ifbursttransfer, burstaddress, burstread, current_burstcount>>
calcVars == <<adder_input_a, adder_input_b, adder_en_reg, calccount,
              calcinprogress_reg>>
accVars == <<bufferVars, burstVars, calcVars>>

WEIGHT_BUFFER == INSTANCE DataBufferClient WITH
                    BufferSize <- WEIGHT_BUFFER_SIZE, Word <- Float,
                    write_ptr <- weight_write_ptr, read_ptr <- weight_read_ptr,
                    data_buffer_array <- weight_array

IMAGE_BUFFER == INSTANCE DataBufferClient WITH
                    BufferSize <- IMAGE_BUFFER_SIZE, Word <- Float,
                    write_ptr <- image_write_ptr, read_ptr <- image_read_ptr,
                    data_buffer_array <- image_array

RESULT_BUFFER == INSTANCE DataBufferClient WITH
                    BufferSize <- RESULT_BUFFER_SIZE, Word <- Float,
                    write_ptr <- result_write_ptr, read_ptr <- result_read_ptr,
                    data_buffer_array <- result_array

image_buffer_full == IMAGE_BUFFER!buffer_full
image_buffer_empty == IMAGE_BUFFER!buffer_empty
result_buffer_empty == RESULT_BUFFER!buffer_empty
-----------------------------------------------------------------------------
(***************************************************************************)
(* Combinational signals.  `bus' is what the master drives: begin          *)
(* (beginbursttransfer), burstcount, address, read, write and writedata.   *)
(***************************************************************************)
WeightWindow == 1 .. 96
ImageWindow == 97 .. 192
ResultWindow == 193 .. 216

adder_output == FpAdd(adder_input_a, adder_input_b)
multiplier_output == FpMul(WEIGHT_BUFFER!read_data, IMAGE_BUFFER!read_data)

\* Mutants of adder_enable: the row starts with its first word; it does not
\* end when the buffer is empty.
AdderEnableNotEmpty == ~image_buffer_empty
AdderEnableHold == image_buffer_full \/ adder_en_reg

\* Also weight_read_enable and image_read_enable: from a full image buffer
\* until it is empty.
adder_enable == image_buffer_full \/ (~image_buffer_empty /\ adder_en_reg)

result_write_enable == calccount = WEIGHT_BUFFER_SIZE

\* Mutant of calcinprogress: only while the buffer is full.
CalcInProgressFull == image_buffer_full

calcinprogress ==
    \/ image_buffer_full
    \/ /\ calccount \notin {0, WEIGHT_BUFFER_SIZE}
       /\ ~image_buffer_empty
       /\ calcinprogress_reg

illegal_image_access(bus) ==
    /\ image_buffer_full /\ bus.write
    /\ burstaddress \in ImageWindow \/ bus.address \in ImageWindow

\* Mutant of illegal_result_access: an empty result buffer can be read.
IllegalResultNever(bus) == FALSE

illegal_result_access(bus) ==
    /\ result_buffer_empty /\ (burstread \/ bus.read)
    /\ burstaddress \in ResultWindow \/ bus.address \in ResultWindow

waitrequest(bus) == \/ bus.begin
                    \/ illegal_image_access(bus)
                    \/ illegal_result_access(bus)
                    \/ calcinprogress

\* An access is taken now; inside a burst the window is the burst's, and
\* nothing is taken between its last word and the end of ifbursttransfer.
taken(bus, window, access, burstaccess) ==
    /\ ~waitrequest(bus)
    /\ IF ifbursttransfer
       THEN burstaccess /\ burstaddress \in window /\ current_burstcount # 0
       ELSE access /\ bus.address \in window

weight_write_enable(bus) == taken(bus, WeightWindow, bus.write, bus.write)
image_write_enable(bus) == taken(bus, ImageWindow, bus.write, bus.write)
result_read_enable(bus) == taken(bus, ResultWindow, bus.read, burstread)
-----------------------------------------------------------------------------
(***************************************************************************)
(* The registers.                                                          *)
(***************************************************************************)
\* Mutant of AccumulateStep: the adder is not cleared with the result.
AccumulateNoClear ==
    IF adder_enable
    THEN /\ adder_input_a' = adder_output
         /\ adder_input_b' = multiplier_output
    ELSE UNCHANGED <<adder_input_a, adder_input_b>>

AccumulateStep ==
    \/ /\ adder_enable
       /\ adder_input_a' = adder_output
       /\ adder_input_b' = multiplier_output
    \/ /\ ~adder_enable /\ result_write_enable
       /\ adder_input_a' = Zero
       /\ adder_input_b' = Zero
    \/ /\ ~adder_enable /\ ~result_write_enable
       /\ UNCHANGED <<adder_input_a, adder_input_b>>

BurstStep(bus) ==
    \/ /\ bus.begin
       /\ ifbursttransfer' = TRUE
       /\ burstaddress' = bus.address
       /\ burstread' = bus.read
    \/ /\ ~bus.begin /\ current_burstcount = 0
       /\ ifbursttransfer' = FALSE
       /\ burstaddress' = 0
       /\ burstread' = FALSE
    \/ /\ ~bus.begin /\ current_burstcount # 0
       /\ UNCHANGED <<ifbursttransfer, burstaddress, burstread>>

\* Mutant of BurstCountStep: it counts while the slave makes the master wait.
BurstCountAlways(bus) ==
    current_burstcount' = IF bus.begin THEN bus.burstcount
                          ELSE IF current_burstcount = 0 THEN 0
                          ELSE current_burstcount - 1

\* Counts down at every edge without waitrequest, also when the master has no
\* word for it.
BurstCountStep(bus) ==
    current_burstcount' = IF bus.begin THEN bus.burstcount
                          ELSE IF waitrequest(bus) \/ current_burstcount = 0
                          THEN current_burstcount
                          ELSE current_burstcount - 1

CalcStep == /\ calccount' = IF result_write_enable THEN 0
                            ELSE IF adder_enable THEN calccount + 1
                            ELSE calccount
            /\ adder_en_reg' = adder_enable
            /\ calcinprogress_reg' = calcinprogress

Clock(bus) ==
    /\ WEIGHT_BUFFER!Clock(adder_enable, weight_write_enable(bus), bus.writedata)
    /\ IMAGE_BUFFER!Clock(adder_enable, image_write_enable(bus), bus.writedata)
    /\ RESULT_BUFFER!Clock(result_read_enable(bus), result_write_enable,
                           adder_output)
    /\ AccumulateStep
    /\ BurstStep(bus)
    /\ BurstCountStep(bus)
    /\ CalcStep

AccInit == /\ WEIGHT_BUFFER!Init /\ IMAGE_BUFFER!Init /\ RESULT_BUFFER!Init
           /\ adder_input_a = Zero /\ adder_input_b = Zero
           /\ adder_en_reg = FALSE
           /\ ifbursttransfer = FALSE /\ burstaddress = 0
           /\ burstread = FALSE /\ current_burstcount = 0
           /\ calccount = 0 /\ calcinprogress_reg = FALSE

\* The asynchronous reset.
AccReset == /\ WEIGHT_BUFFER!Reset /\ IMAGE_BUFFER!Reset /\ RESULT_BUFFER!Reset
            /\ adder_input_a' = Zero /\ adder_input_b' = Zero
            /\ adder_en_reg' = FALSE
            /\ ifbursttransfer' = FALSE /\ burstaddress' = 0
            /\ burstread' = FALSE /\ current_burstcount' = 0
            /\ calccount' = 0 /\ calcinprogress_reg' = FALSE

\* What a bus can drive at an edge: no read with a write, a burst begins with
\* one of them.
Bus(addresses, counts, words) ==
    {bus \in [begin : BOOLEAN, burstcount : counts, address : addresses,
              read : BOOLEAN, write : BOOLEAN, writedata : words] :
        /\ ~(bus.read /\ bus.write)
        /\ bus.begin => bus.read \/ bus.write}

BusSpec == /\ AccInit
           /\ [][\/ AccReset
                 \/ \E bus \in Bus(0 .. 255, 0 .. 2047, Float) :
                       Clock(bus)]_accVars
-----------------------------------------------------------------------------
\* The type invariant, a part of ImageNeverOverruns.
AccTypeOK == /\ WEIGHT_BUFFER!TypeOK /\ IMAGE_BUFFER!TypeOK
             /\ RESULT_BUFFER!TypeOK
             /\ adder_input_a \in Float /\ adder_input_b \in Float
             /\ adder_en_reg \in BOOLEAN
             /\ ifbursttransfer \in BOOLEAN /\ burstread \in BOOLEAN
             /\ burstaddress \in 0 .. 255
             /\ current_burstcount \in 0 .. 2047
             /\ calccount \in 0 .. WEIGHT_BUFFER_SIZE
             /\ calcinprogress_reg \in BOOLEAN

\* Whatever the bus does, inside and outside bursts, the image buffer is never
\* written when full nor read when empty (nn_acc_single.sv:125-142), and no
\* counter leaves its range.
ImageNeverOverruns == AccTypeOK /\ IMAGE_BUFFER!NoOverrun

\* While a row is being consumed the bus is held, so no image word and no
\* weight joins it, and the words left are exactly those not yet counted; when
\* the count is complete the buffer is empty and the adder takes no further
\* word together with the result (nn_acc_single.sv:56-73, :125, :140, :144).
RowIsAtomic ==
    calccount > 0 => /\ IMAGE_BUFFER!Occupancy = WEIGHT_BUFFER_SIZE - calccount
                     /\ calccount < WEIGHT_BUFFER_SIZE =>
                           adder_enable /\ calcinprogress

\* A row starts with an empty adder, at the first weight of the ring's lap
\* (nn_acc_single.sv:56-73, :128, :140).
RowStartsClean ==
    /\ calccount = 0 => adder_input_a = Zero /\ adder_input_b = Zero
    /\ weight_read_ptr.index = calccount % WEIGHT_BUFFER_SIZE
=============================================================================
