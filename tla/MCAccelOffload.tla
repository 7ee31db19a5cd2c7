--------------------------- MODULE MCAccelOffload ---------------------------
(***************************************************************************)
(* Model values for AccelOffload.  A word is a formal sum: a sequence of   *)
(* products, each a sequence of input numbers, so that FpAdd keeps which   *)
(* products were added and in which order.  Zero is the empty sum.         *)
(***************************************************************************)
EXTENDS AccelOffload

MCFloat == Seq(Seq(Nat))
MCZero == <<>>
MCFpAdd(a, b) == a \o b
MCFpMul(a, b) == IF a = MCZero \/ b = MCZero THEN MCZero
                                             ELSE <<a[1] \o b[1]>>

\* Word i of row r of a matrix whose numbers start at base.
MCRow(base, r) == [i \in 1 .. DmaWords |-> <<<<base + 10 * r + i>>>>]
MCWeights == [r \in 1 .. 2 |-> MCRow(0, r)]
MCImages == [r \in 1 .. 2 |-> MCRow(100, r)]
=============================================================================
