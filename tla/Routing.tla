------------------------------- MODULE Routing -------------------------------
(***************************************************************************)
(* What the channel router promises its callers, with no index, no marker  *)
(* and no tmux: which window each channel talks to.  A channel has at most *)
(* one window.  Assigning a window takes it from every other channel.      *)
(* Nothing else ever moves a channel that was not named by the call.       *)
(***************************************************************************)
EXTENDS Dictionaries

CONSTANTS Channel, Window

VARIABLE owner       \* the window of each channel that has one

\* State loaded from disk may let several channels share a window.
Init == owner \in PartialFunctions(Channel, Window)

\* c gets w, alone.
Assign(c, w) == owner' = Put(Without(owner, KeysOf(owner, w)), c, w)

\* c gives its window up.
Release(c) == owner' = Without(owner, {c})

\* w is taken from every channel that has it.
Retire(w) == owner' = Without(owner, KeysOf(owner, w))

Next ==
  \/ \E c \in Channel, w \in Window : Assign(c, w)
  \/ \E c \in Channel : Release(c)
  \/ \E w \in Window : Retire(w)

Spec == Init /\ [][Next]_owner
=============================================================================
