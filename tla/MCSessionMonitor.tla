--------------------------- MODULE MCSessionMonitor ---------------------------
(* Model values for SessionMonitor.                                        *)
EXTENDS SessionMonitor, TLC

Symmetry == Permutations(Window) \cup Permutations(Session)
=============================================================================
