------------------------------ MODULE CodexParser ------------------------------
(***************************************************************************)
(* How the lines of a codex transcript become messages                     *)
(* (CodexProvider.parse_transcript_entries, providers/codex.py).           *)
(*                                                                         *)
(* codex writes what the assistant says more than once: as an event, as a  *)
(* response item, and the last of a turn again when the task completes.    *)
(* A line [kind, call, text, final] is a call (of a function or a custom   *)
(* tool), the output of one, or a text (a message of the assistant or the  *)
(* user, whichever way it is written); what two lines say is compared by   *)
(* "text" alone, of whatever length and format.                            *)
(***************************************************************************)
EXTENDS SequencesExt

\* (role, content_type, text): what makes two messages the same.
Signature(m) == <<m.type, m.text>>

\* A call, of a custom tool or (lines 361-387) of a function, is shown and its name
\* kept for the output.
CodexCall(pending, line) ==
  [message |-> [type |-> "use", text |-> line.text, call |-> line.call, final |-> FALSE,
                named |-> TRUE],
   pending |-> pending \cup {line.call}]

\* An output, likewise of either kind, is shown under the name of its call, if
\* that is known.
CodexOutput(pending, line) ==
  [message |-> [type |-> "result", text |-> line.text, call |-> line.call, final |-> FALSE,
                named |-> line.call \in pending],
   pending |-> pending \ {line.call}]

\* A message of the conversation; as an event, the last of a turn is marked.
CodexText(pending, line) ==
  [message |-> [type |-> "text", text |-> line.text, call |-> 0, final |-> line.final,
                named |-> FALSE],
   pending |-> pending]

\* By the type of the line; the function forms are parsed as the custom ones.
CodexLine(pending, line) ==
  CASE line.kind = "call"   -> CodexCall(pending, line)
    [] line.kind = "output" -> CodexOutput(pending, line)
    [] line.kind = "said"   -> CodexText(pending, line)

\* Of two that are the same, the one that knows more is kept.  (The same texts
\* with different calls: the first.)
Richer(old, new) == ~old.final /\ new.final

\* Of adjacent messages that are the same only one is shown.
AppendUnique(out, m) ==
  IF out = <<>> \/ Signature(Last(out)) # Signature(m) THEN Append(out, m)
  ELSE IF Richer(Last(out), m) THEN Append(Front(out), m)
  ELSE out

CodexStep(p, line) ==
  LET parsed == CodexLine(p.carry, line)
  IN  [out |-> AppendUnique(p.out, parsed.message), carry |-> parsed.pending]

\* A batch; of the one before only the pending calls are known, not the last
\* message.
CodexParsed(lines, pending) ==
  FoldLeft(CodexStep, [out |-> <<>>, carry |-> pending], lines)

\* The same with all repetitions dropped, whatever batch they came in.
Unrepeated(messages) == FoldLeft(AppendUnique, <<>>, messages)
=============================================================================
