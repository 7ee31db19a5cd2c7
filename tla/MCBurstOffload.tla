--------------------------- MODULE MCBurstOffload ---------------------------
(***************************************************************************)
(* Model values for BurstOffload: formal sums, as in MCAccelOffload.       *)
(***************************************************************************)
EXTENDS BurstOffload

MCFloat == Seq(Seq(Nat))
MCZero == <<>>
MCFpAdd(a, b) == a \o b
MCFpMul(a, b) == IF a = MCZero \/ b = MCZero THEN MCZero
                                             ELSE <<a[1] \o b[1]>>

\* Word i of row r of a matrix whose numbers start at base.
MCRow(base, r) == [i \in 1 .. W |-> <<<<base + 10 * r + i>>>>]
MCWeights == [r \in 1 .. 2 |-> MCRow(0, r)]
MCImages == [r \in 1 .. 2 |-> MCRow(100, r)]
=============================================================================
