------------------------- MODULE MCAcceleratorClient -------------------------
(***************************************************************************)
(* Model values for AcceleratorClient.  A word is a formal sum: a sequence *)
(* of products of input numbers.  A sum keeps which products were added    *)
(* and in which order.                                                     *)
(***************************************************************************)
EXTENDS AcceleratorClient

CONSTANT MCRows           \* pixel rows of a round

MCFloat == Seq(Seq(Nat))
MCZero == <<>>
MCFpAdd(a, b) == a \o b
MCFpMul(a, b) == IF a = MCZero \/ b = MCZero THEN MCZero
                                             ELSE <<a[1] \o b[1]>>

MCPixels == [n \in 1 .. 8 * MCRows |-> <<<<n>>>>]
MCCoeff(cell, block, lane) == <<<<1000 + 100 * cell + 10 * block + lane>>>>
=============================================================================
