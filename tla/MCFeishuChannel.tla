--------------------------- MODULE MCFeishuChannel ---------------------------
(* Users, channels and windows are interchangeable.                        *)
EXTENDS FeishuChannel, TLC

Symmetry == Permutations(User) \cup Permutations(Channel) \cup Permutations(Window)
=============================================================================
