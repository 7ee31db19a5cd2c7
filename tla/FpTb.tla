-------------------------------- MODULE FpTb --------------------------------
(***************************************************************************)
(* fp_tb.sv: an adder and a multiplier with the same operands A and B,     *)
(* which fp_test changes together, again and again.  The comparison of the *)
(* results with those of the simulator is replaced by the properties.      *)
(***************************************************************************)
EXTENDS FpWord

CONSTANTS
  LowestBit,   \* of FpAdder
  Inputs       \* the words drawn after the first pair, which is any

VARIABLES A, B, normalizer_out

tbVars == <<A, B, normalizer_out>>

add == INSTANCE FpAdder WITH dataa <- A, datab <- B
mul == INSTANCE FpMultiplier WITH dataa <- A, datab <- B

ASSUME TbAssumption == add!AdderAssumption /\ Inputs \subseteq Float

TbInit == add!Init

(* genRands, and the assignment of the two operands.                        *)
GenRands == \E a, b \in Inputs : add!Operands(a, b)

TbSpec == TbInit /\ [][GenRands]_tbVars

-----------------------------------------------------------------------------
(* The sum of regular operands is accurate and on the right side.           *)
SumWithinUlp == add!TypeOK /\ add!SumWithinUlp /\ add!MovesTheRightWay

(* It does not depend on the operands that came before.                     *)
NoMemory == add!NoMemory

(* The product of normal operands is accurate, exact where it can be, and   *)
(* goes to zero and to infinity where it should.                            *)
ProductWithinUlp ==
  /\ mul!TypeOK /\ mul!ProductWithinUlp /\ mul!ExactWhenRepresentable
  /\ mul!UnderflowsToZero /\ mul!OverflowsToInfinity

(* fp_adder.sv:2, "according to the IEEE754 Standards": a word and its      *)
(* opposite add up to zero.                                                 *)
OppositesCancel == add!OppositesCancel
=============================================================================
