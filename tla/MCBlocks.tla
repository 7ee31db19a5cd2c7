------------------------------ MODULE MCBlocks ------------------------------
(***************************************************************************)
(* The two kinds of blocks that every accelerator is put together from, on *)
(* their own: the data buffer under its disciplined client, and the adder  *)
(* and multiplier under their test bench.  They share no state; a behaviour*)
(* is one of the one or of the other.                                      *)
(***************************************************************************)
EXTENDS MCFpTb, DataBufferClient

VARIABLE part

mcVars == <<part, tbVars, vars>>

BufferInit ==
  /\ part = "buffer" /\ Init
  /\ A \in Words({0}, {0}) /\ B = A /\ normalizer_out = [e |-> 0, m |-> 0]

FloatInit == part = "float" /\ TbInit /\ Init

MCInit == BufferInit \/ FloatInit

BufferStep == part = "buffer" /\ ClientNext /\ UNCHANGED <<part, tbVars>>
FloatStep == part = "float" /\ GenRands /\ UNCHANGED <<part, vars>>

MCNext == BufferStep \/ FloatStep

MCSpec == MCInit /\ [][MCNext]_mcVars
=============================================================================
