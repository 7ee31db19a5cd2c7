---------------------------- MODULE NnAccNonBurst ----------------------------
(***************************************************************************)
(* Custom-Hardware-Blocks/nn_acc_single_non_burst.sv, the multiply-        *)
(* accumulate slave that nios_system.v instantiates: two ring buffers, one *)
(* multiplier, one adder with its operand registers, a word counter and a  *)
(* result register.  The slave has no waitrequest: every access takes      *)
(* effect at its clock edge.  One step is one clock edge.                  *)
(*                                                                         *)
(* weight_read_en_reg, image_read_en_reg and adder_en_reg are left out:    *)
(* the arm of lines 83, 86 and 90 that reads them is never taken, because  *)
(* its two conditions are each other's negation.                           *)
(***************************************************************************)
EXTENDS Integers

CONSTANTS WEIGHT_BUFFER_SIZE, IMAGE_BUFFER_SIZE,
          Float,          \* the 32-bit words
          Zero,           \* '0, positive zero
          FpAdd(_, _),    \* fp_adder
          FpMul(_, _)     \* fp_multiplier

\* calccount is 11 bits wide and counts up to WEIGHT_BUFFER_SIZE.
ASSUME SizeAssumption == /\ WEIGHT_BUFFER_SIZE \in 2 .. 2^11 - 1
                         /\ IMAGE_BUFFER_SIZE \in Nat /\ IMAGE_BUFFER_SIZE > 1
ASSUME FloatAssumption == Zero \in Float

VARIABLES weight_write_ptr, weight_read_ptr, weight_array,  \* WEIGHT_BUFFER
          image_write_ptr, image_read_ptr, image_array,     \* IMAGE_BUFFER
          adder_input_a, adder_input_b,                     \* adder operands
          calccount,                \* words multiplied since the last result
          result_register,
          readdata                  \* what the bus sees of a read

weightVars == <<weight_write_ptr, weight_read_ptr, weight_array>>
imageVars == <<image_write_ptr, image_read_ptr, image_array>>
accVars == <<weightVars, imageVars, adder_input_a, adder_input_b, calccount,
             result_register, readdata>>

WEIGHT_BUFFER == INSTANCE DataBuffer WITH
                    BufferSize <- WEIGHT_BUFFER_SIZE, Word <- Float,
                    write_ptr <- weight_write_ptr, read_ptr <- weight_read_ptr,
                    data_buffer_array <- weight_array

IMAGE_BUFFER == INSTANCE DataBuffer WITH
                    BufferSize <- IMAGE_BUFFER_SIZE, Word <- Float,
                    write_ptr <- image_write_ptr, read_ptr <- image_read_ptr,
                    data_buffer_array <- image_array

(***************************************************************************)
(* Combinational signals.                                                  *)
(***************************************************************************)
adder_output == FpAdd(adder_input_a, adder_input_b)
multiplier_output == FpMul(WEIGHT_BUFFER!read_data, IMAGE_BUFFER!read_data)

result_write_enable == calccount = WEIGHT_BUFFER_SIZE

\* adder_enable, weight_read_enable and image_read_enable are one signal: a
\* weight and an image word are consumed together.
adder_enable == ~IMAGE_BUFFER!buffer_empty /\ ~result_write_enable

weight_write_enable(write, address) == write /\ address > 0 /\ address < 97
image_write_enable(write, address)  == write /\ address > 96 /\ address < 193
result_read_enable(read, address)   == read /\ address > 192 /\ address < 217

(***************************************************************************)
(* The registers.                                                          *)
(***************************************************************************)

\* Mutant of AccumulateStep: a result leaves the operands alone.
AccumulateNoClear ==
    \/ /\ adder_enable
       /\ adder_input_a' = adder_output
       /\ adder_input_b' = multiplier_output
    \/ /\ ~adder_enable
       /\ UNCHANGED <<adder_input_a, adder_input_b>>

AccumulateStep ==
    \/ /\ result_write_enable
       /\ adder_input_a' = Zero
       /\ adder_input_b' = Zero
    \/ /\ ~result_write_enable /\ adder_enable
       /\ adder_input_a' = adder_output
       /\ adder_input_b' = multiplier_output
    \/ /\ ~result_write_enable /\ ~adder_enable
       /\ UNCHANGED <<adder_input_a, adder_input_b>>

\* Mutant of CountStep: a result does not start a new row.
CountNoReset == calccount' = IF adder_enable THEN calccount + 1 ELSE calccount

CountStep == calccount' = IF result_write_enable THEN 0
                          ELSE IF adder_enable THEN calccount + 1
                                               ELSE calccount

\* Mutant of ResultStep: the adder's first operand, one product short.
ResultTooEarly == result_register' = IF result_write_enable THEN adder_input_a
                                                            ELSE result_register

ResultStep == result_register' = IF result_write_enable THEN adder_output
                                                        ELSE result_register

ReadStep(read, address) ==
    readdata' = IF result_read_enable(read, address) THEN result_register
                                                     ELSE Zero

\* A clock edge at which the bus drives read, write, address and writedata.
Clock(read, write, address, writedata) ==
    /\ WEIGHT_BUFFER!Clock(adder_enable, weight_write_enable(write, address),
                           writedata)
    /\ IMAGE_BUFFER!Clock(adder_enable, image_write_enable(write, address),
                          writedata)
    /\ AccumulateStep
    /\ CountStep
    /\ ResultStep
    /\ ReadStep(read, address)

\* A clock edge without a bus access.
IdleClock == Clock(FALSE, FALSE, 0, Zero)

AccInit == /\ WEIGHT_BUFFER!Init
           /\ IMAGE_BUFFER!Init
           /\ adder_input_a = Zero
           /\ adder_input_b = Zero
           /\ calccount = 0
           /\ result_register = Zero
           /\ readdata = Zero

\* The asynchronous reset.
AccReset == /\ WEIGHT_BUFFER!Reset
            /\ IMAGE_BUFFER!Reset
            /\ adder_input_a' = Zero
            /\ adder_input_b' = Zero
            /\ calccount' = 0
            /\ result_register' = Zero
            /\ readdata' = Zero

\* Any traffic a bus can carry: at each edge one access or none, any address.
BusClock == \E read, write \in BOOLEAN, address \in 0 .. 255, writedata \in Float :
               /\ ~(read /\ write)
               /\ Clock(read, write, address, writedata)

BusSpec == AccInit /\ [][AccReset \/ BusClock]_accVars
-----------------------------------------------------------------------------
AccTypeOK == /\ WEIGHT_BUFFER!TypeOK
             /\ IMAGE_BUFFER!TypeOK
             /\ adder_input_a \in Float
             /\ adder_input_b \in Float
             /\ calccount \in 0 .. WEIGHT_BUFFER_SIZE
             /\ result_register \in Float
             /\ readdata \in Float

\* The word counter and the weight ring's read pointer are separate registers
\* with separate wrap-arounds; whatever the bus does they stay in step, so a
\* row of weights can only be misaligned by what is written
\* (nn_acc_single_non_burst.sv:64-77, :86, :96 and data_buffer.sv:50).
ReadPositionIsCount ==
    weight_read_ptr.index = calccount % WEIGHT_BUFFER_SIZE

\* No product of a finished row is left in the adder's operands when the next
\* row starts, although the next row's first word may already be waiting
\* (nn_acc_single_non_burst.sv:45-62).
AccumulatorClean ==
    calccount = 0 => adder_input_a = Zero /\ adder_input_b = Zero
=============================================================================
