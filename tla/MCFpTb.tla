------------------------------- MODULE MCFpTb -------------------------------
(***************************************************************************)
(* After any two words of 3 exponent and 4 mantissa bits: a subnormal,     *)
(* mantissas at both ends and in between with exponents that are equal,    *)
(* neighbours and far apart, the largest word, an infinity.                *)
(***************************************************************************)
EXTENDS FpTb

Words(exponents, mantissas) == [sign : 0 .. 1, exponent : exponents, mantissa : mantissas]
MCInputs == UNION {Words({0}, {1}), Words({1, 4}, {0}), Words({5}, {2, Hidden - 1}),
                   Words({ExpMax - 1}, {Hidden - 1}), Words({ExpMax}, {0})}
=============================================================================
