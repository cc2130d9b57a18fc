--------------------------- MODULE MCSessionMapFile ---------------------------
(* Model values for SessionMapFile.                                        *)
EXTENDS SessionMapFile, TLC

Symmetry == Permutations(Writer) \cup Permutations(Session)

\* Bounds of the search.  Windows of emdash stay open: nothing is pruned of them.
\* What is looked at after a mishap: of a failed clearing what StartsAreKept says,
\* of unlocked writes, while no file operation failed, what SwitchHolds says.
Considered ==
  /\ Emdash \subseteq live
  /\ mishaps # {} => \/ mishaps = {"failed clear"}
                     \/ mishaps = {"unlocked write"} /\ errors = 0
=============================================================================
