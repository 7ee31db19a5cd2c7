---------------------------- MODULE MCNnAccSingle ----------------------------
(***************************************************************************)
(* Model values for NnAccSingle under any bus traffic.  The only numbers   *)
(* are zero and a token; a sum is zero when both terms are.                *)
(***************************************************************************)
EXTENDS NnAccSingle

MCFloat == {0, 1}
MCFpAdd(a, b) == IF a = 0 /\ b = 0 THEN 0 ELSE 1
MCFpMul(a, b) == 1

\* One address inside each window and one outside.
MCAddress == {0, 1, 97, 193}
MCCounts == 0 .. 2

MCBusClock == \E bus \in Bus(MCAddress, MCCounts, {0}) :
                 /\ ~bus.begin => bus.burstcount = 0
                 /\ ~(bus.read \/ bus.write) => bus.address = 0
                 /\ Clock(bus)

MCSpec == AccInit /\ [][AccReset \/ MCBusClock]_accVars
=============================================================================
