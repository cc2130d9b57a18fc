------------------------------ MODULE MCAgentPane ------------------------------
(* Two texts, one of them a shell command, and the probes of the monitor    *)
(* and of a channel.  Two plain texts would be interchangeable; these are   *)
(* not.                                                                     *)
EXTENDS AgentPane

\* A state none of whose successors the properties say anything of is not
\* gone on from: every text has had its turn, disturbed, and a probe was.
Judged == clean # {} \/ (\E c \in Call : At(c, "idle")) \/ alone
=============================================================================
