------------------------------- MODULE MCServer -------------------------------
(* Connections and channels are interchangeable.                           *)
EXTENDS Server, TLC

Symmetry == Permutations(Conn) \cup Permutations(Channel)
=============================================================================
