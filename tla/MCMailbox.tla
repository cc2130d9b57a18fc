------------------------------ MODULE MCMailbox ------------------------------
(* Windows and processes are interchangeable.                             *)
EXTENDS Mailbox, TLC

Sym == Permutations(Window) \cup Permutations(Process)
=============================================================================
