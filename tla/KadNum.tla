------------------------------- MODULE KadNum -------------------------------
(***************************************************************************)
(* Numbers and arrays of kautodiff.c.  The numbers are the integers modulo *)
(* the prime P, where every sum and every quotient by a small count is     *)
(* exact; those up to P \div 2 are the positive ones.  An array is flat and*)
(* indexed from 0, as kad_node_t::x is.                                    *)
(***************************************************************************)
EXTENDS Integers, FiniteSets, SequencesExt

CONSTANT P
PAssumption == P \in Nat \ {0, 1, 2}

Num == 0 .. P - 1
Inv(n) == CHOOSE m \in Num : (m * n) % P = 1
Positive(n) == n \in 1 .. P \div 2
Greater(m, n) == ((m + P \div 2) % P) > ((n + P \div 2) % P)

KadLen(d) == FoldLeft(LAMBDA m, n : m * n, 1, d)
Sum(F(_), n) == MapThenSumSet(F, 0 .. n - 1)
Array(F(_), n) == [i \in 0 .. n - 1 |-> F(i) % P]

\* Mutant of AddTo: the gradient is assigned.
AddToAssigns(g, h) == [e \in DOMAIN g |-> h[e]]

AddTo(g, h) == [e \in DOMAIN g |-> (g[e] + h[e]) % P]
=============================================================================
