------------------------------ MODULE MCGateway ------------------------------
(* Instance of Gateway for TLC: one channel, so that all calls compete for  *)
(* it, with a second window for every replacement.                          *)
EXTENDS Gateway, TLC

CONSTANTS c1, w1, w2, noWindow, r1, r2

MCChannel == {c1}
MCWindow == {w1, w2, noWindow}
MCRequest == {r1, r2}

Symmetry == Permutations({w1, w2}) \cup Permutations(MCRequest)
=============================================================================
