------------------------------ MODULE Datapath ------------------------------
(***************************************************************************)
(* datapath.sv and pipeline_registers.sv: eight multipliers, an adder tree *)
(* over three register stages, and an accumulator whose two addends are    *)
(* the registers of the fourth stage.  One step is one clock edge.         *)
(***************************************************************************)
EXTENDS Integers, Sequences

CONSTANTS Float,          \* the 32-bit words
          Zero,           \* '0, positive zero
          FpAdd(_, _),    \* fp_adder
          FpMul(_, _)     \* fp_multiplier

ASSUME FloatAssumption == Zero \in Float

VARIABLES muladd,         \* stage 1: eight products
          addsum,         \* stage 2: four sums of two products
          sumacc,         \* stage 3: two sums of four products
          accres_out0,    \* stage 4: the sum of a block of eight products
          accres_out1     \* stage 4: the sum before it

datapathVars == <<muladd, addsum, sumacc, accres_out0, accres_out1>>

Lane == 1 .. 8
Zeros(n) == [i \in 1 .. n |-> Zero]

\* The multipliers, and one rank of adders: x[1] + x[2], x[3] + x[4], ...
Multiply(px, coeff) == [i \in Lane |-> FpMul(px[i], coeff[i])]
AddPairs(x) == [i \in 1 .. Len(x) \div 2 |-> FpAdd(x[2 * i - 1], x[2 * i])]

acc0_out == AddPairs(sumacc)[1]
res0_out == FpAdd(accres_out0, accres_out1)
result == res0_out

Flop(enable, in, out) == IF enable THEN in ELSE out

\* Mutant of Accumulate: the sum is not cleared at the end of a row.
AccumulateKeepsSum(stage_4_en, accumulatorReset) ==
    \/ /\ accumulatorReset
       /\ accres_out0' = acc0_out
       /\ accres_out1' = res0_out
    \/ /\ ~accumulatorReset
       /\ accres_out0' = Flop(stage_4_en, acc0_out, accres_out0)
       /\ accres_out1' = Flop(stage_4_en, res0_out, accres_out1)

\* Stage 4.  accumulatorReset clears the sum but loads the block that stands
\* in stage 3, which is still the last one of the row that ended.
Accumulate(stage_4_en, accumulatorReset) ==
    \/ /\ accumulatorReset
       /\ accres_out0' = acc0_out
       /\ accres_out1' = Zero
    \/ /\ ~accumulatorReset
       /\ accres_out0' = Flop(stage_4_en, acc0_out, accres_out0)
       /\ accres_out1' = Flop(stage_4_en, res0_out, accres_out1)

\* A clock edge: en[n] enables stage n.
DatapathClock(en, px, coeff, accumulatorReset) ==
    /\ muladd' = Flop(en[1], Multiply(px, coeff), muladd)
    /\ addsum' = Flop(en[2], AddPairs(muladd), addsum)
    /\ sumacc' = Flop(en[3], AddPairs(addsum), sumacc)
    /\ Accumulate(en[4], accumulatorReset)

DatapathInit == /\ muladd = Zeros(8)
                /\ addsum = Zeros(4)
                /\ sumacc = Zeros(2)
                /\ accres_out0 = Zero
                /\ accres_out1 = Zero

DatapathReset == /\ muladd' = Zeros(8)
                 /\ addsum' = Zeros(4)
                 /\ sumacc' = Zeros(2)
                 /\ accres_out0' = Zero
                 /\ accres_out1' = Zero

DatapathTypeOK == /\ muladd \in [1 .. 8 -> Float]
                  /\ addsum \in [1 .. 4 -> Float]
                  /\ sumacc \in [1 .. 2 -> Float]
                  /\ accres_out0 \in Float
                  /\ accres_out1 \in Float
=============================================================================
