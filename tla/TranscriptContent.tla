-------------------------- MODULE TranscriptContent --------------------------
(***************************************************************************)
(* What the gateway makes of the lines of a transcript: Claude's task      *)
(* list of the window (utils/claude_task_state.py) and the messages shown  *)
(* (protocol/transcript_parser.py), both built batch by batch as the       *)
(* monitor reads (protocol/transcript_reader.py), and both in memory only, *)
(* while the read offset outlives a restart.                               *)
(*                                                                         *)
(* One window with one session.  A line is what the parsers tell apart: a  *)
(* tool call or its result (TaskCreate, TaskUpdate, TaskList, TodoWrite,   *)
(* any other), a local command or its output, or text.  The window's agent *)
(* may also be codex, whose lines are parsed by CodexParser and which has  *)
(* no task list.                                                           *)
(***************************************************************************)
EXTENDS Dictionaries, Naturals, CodexParser

CONSTANT
  MaxLines     \* bound: lines in the transcript

ASSUME ContentAssumption == MaxLines \in Nat

VARIABLES
  provider,    \* the window's agent: claude or codex
  log,         \* the transcript
  running,     \* tool calls without a result, in the order of the calls
  todo,        \* the agent's own task list: a sequence of [id, status]
  hooks,       \* TaskCompleted events not yet handled
  offset,      \* lines read; None before the session is tracked
  saved,       \* the offset in monitor_state.json
  seeding,     \* tracking has begun, the task list is not seeded yet
  store,       \* the task list of the window, or None
  carry,       \* _pending_tools: calls shown whose result is awaited
  shown        \* the messages handed on since the gateway's start

\* What happened, for the properties only.
VARIABLES
  begun,       \* the offset at which tracking began, or went on after a restart
  seeded,      \* the task list was built from the whole transcript
  split,       \* a batch ended with a command, before its output
  reopened     \* tasks that a late event marked completed again

agent == <<provider, log, running, todo>>
monitor == <<offset, saved, seeding, store, carry, shown>>
happened == <<begun, seeded, split, reopened>>
vars == <<agent, hooks, monitor, happened>>

-----------------------------------------------------------------------------
None == MaxLines + 1    \* no offset
Status == {"pending", "in_progress", "completed"}
AgentStatus == Status \cup {"cancelled"}    \* also a word that is not known
Call == 1..MaxLines     \* a call is known by the line it stands in
Id == 1..MaxLines
Text == 1..2            \* what codex's lines say
CallKind == {"create", "update", "list", "todos", "other"}

NoTasks == [tasks |-> <<>>, pending |-> <<>>, next |-> 1]
Untold == [NoTasks EXCEPT !.next = 0]   \* the window has no task list at all

\* Tasks [status, order, full] by id (full: with a description, which a list need
\* not give), and the places of the calls without an id yet.
IsStore(st) ==
  /\ DOMAIN st.tasks \subseteq Id /\ DOMAIN st.pending \subseteq Call
  /\ \A id \in DOMAIN st.tasks : st.tasks[id].status \in Status
  /\ {st.tasks[id].order : id \in DOMAIN st.tasks} \cup Values(st.pending)
       \subseteq 1..(st.next - 1)

IsMessage(m) ==
  CASE m.type = "use"     -> m.call \in Call
    [] m.type = "result"  -> m.call \in Call /\ m.named \in BOOLEAN
    [] m.type = "command" -> m.named \in BOOLEAN
    [] OTHER              -> m.type = "text"

TypeOK ==
  /\ provider \in {"claude", "codex"}
  /\ Len(log) <= MaxLines
  /\ \A i \in DOMAIN running : running[i].call \in Call /\ running[i].kind \in CallKind
  /\ \A i \in DOMAIN todo : todo[i].id = i /\ todo[i].status \in AgentStatus
  /\ hooks \subseteq DOMAIN todo
  /\ offset \in 0..Len(log) \cup {None} /\ saved \in 0..Len(log) \cup {None}
  /\ seeding \in BOOLEAN
  /\ store = Untold \/ IsStore(store)
  /\ carry \subseteq Call
  /\ \A i \in DOMAIN shown : IsMessage(shown[i])

-----------------------------------------------------------------------------
(* The task list.  Each operator is what one line does to the store.       *)

\* _normalize_status: a word that is not known (deleted, cancelled) is pending.
Normalized(status) == IF status \in Status THEN status ELSE "pending"

\* TaskCreate: remember the call and its place.
ApplyCreate(st, line) ==
  [st EXCEPT !.pending = Put(st.pending, line.call, st.next), !.next = st.next + 1]

\* Mutant: a task takes its place with the result.
FinalizeLate(st, line) ==
  [st EXCEPT !.tasks = Put(st.tasks, line.id, [status |-> "pending", order |-> st.next,
                                               full |-> TRUE]),
             !.pending = Without(st.pending, {line.call})]

\* Mutant: a task is taken in although its call is not pending.
FinalizeUnasked(st, line) ==
  [st EXCEPT !.tasks = Put(st.tasks, line.id, [status |-> "pending", order |-> st.next,
                                               full |-> TRUE]),
             !.pending = Without(st.pending, {line.call}),
             !.next = st.next + 1]

\* Its result brings the id.  An interrupted call's brings no task, and the
\* call stays pending.
FinalizeCreate(st, line) ==
  IF line.call \in DOMAIN st.pending
    THEN [st EXCEPT
            !.tasks = Put(st.tasks, line.id,
                          [status |-> "pending", order |-> st.pending[line.call],
                           full |-> TRUE]),
            !.pending = Without(st.pending, {line.call})]
    ELSE st

\* TaskUpdate, for a task that is known.
SetStatus(st, id, status) ==
  IF id \in DOMAIN st.tasks THEN [st EXCEPT !.tasks[id].status = status] ELSE st

\* Mutant: a list resets every status.
ListAsPending(st, line) ==
  LET IdsOf(l) == {l[i].id : i \in DOMAIN l}
      At(l, id) == CHOOSE i \in DOMAIN l : l[i].id = id
  IN  [st EXCEPT !.tasks = [id \in IdsOf(line.tasks) |->
                              [status |-> "pending", order |-> At(line.tasks, id),
                               full |-> line.full]]]

\* A list replaces everything, unless it says what is known.
ReplaceFromList(st, line) ==
  LET ids   == {line.tasks[i].id : i \in DOMAIN line.tasks}
      Place(id) == CHOOSE i \in DOMAIN line.tasks : line.tasks[i].id = id
      tasks == [id \in ids |-> [status |-> Normalized(line.tasks[Place(id)].status),
                                order |-> Place(id), full |-> line.full]]
  IN  IF st.tasks = tasks THEN st
      ELSE [tasks |-> tasks, pending |-> <<>>, next |-> Len(line.tasks) + 1]

\* TodoWrite likewise: the place in the list is the id.
ReplaceFromTodos(st, line) == ReplaceFromList(st, line)

\* Only for a task that is known and not completed yet.
MarkCompleted(st, id) == SetStatus(st, id, "completed")

ApplyLine(st, line) ==
  CASE line.kind = "create"  -> ApplyCreate(st, line)
    [] line.kind = "created" -> FinalizeCreate(st, line)
    [] line.kind = "update"  -> SetStatus(st, line.id, Normalized(line.status))
    [] line.kind = "tasks"   -> ReplaceFromList(st, line)
    [] line.kind = "todos"   -> ReplaceFromTodos(st, line)
    [] OTHER                 -> st

\* apply_entries; a window without a list gets an empty one first.  Only Claude's
\* provider has any.
Applied(st, lines) ==
  IF provider = "codex" THEN st
  ELSE FoldLeft(ApplyLine, IF st = Untold THEN NoTasks ELSE st, lines)

\* get_snapshot: the tasks are shown in their order.
ShownBefore(st, a, b) == st.tasks[a].order < st.tasks[b].order

-----------------------------------------------------------------------------
(* The messages: parse_entries in carry-over mode.                         *)

Calls == {"create", "update", "list", "todos", "other"}
Results == {"created", "tasks", "result"}

\* p.out: the messages so far; p.carry: calls awaiting their result; p.command:
\* the last line was a command whose output is awaited.
Nothing(pending) == [out |-> <<>>, carry |-> pending, command |-> FALSE]

ParseCall(p, line) ==
  [out |-> Append(p.out, [type |-> "use", call |-> line.call]),
   carry |-> p.carry \cup {line.call}, command |-> FALSE]

ParseResult(p, line) ==
  [out |-> Append(p.out, [type |-> "result", call |-> line.call,
                          named |-> line.call \in p.carry]),
   carry |-> p.carry \ {line.call}, command |-> FALSE]

ParseCommand(p) == [out |-> p.out, carry |-> p.carry, command |-> TRUE]

ParseOutput(p) ==
  [out |-> Append(p.out, [type |-> "command", named |-> p.command]),
   carry |-> p.carry, command |-> FALSE]

ParseText(p) ==
  [out |-> Append(p.out, [type |-> "text"]), carry |-> p.carry, command |-> FALSE]

ParseLine(p, line) ==
  CASE line.kind \in Calls       -> ParseCall(p, line)
    [] line.kind \in Results     -> ParseResult(p, line)
    [] line.kind = "command"     -> ParseCommand(p)
    [] line.kind = "output"      -> ParseOutput(p)
    [] OTHER                     -> ParseText(p)

\* Mutant: what was pending before the batch is forgotten.
ParsedAfresh(lines, pending) ==
  IF provider = "codex" THEN CodexParsed(lines, {})
  ELSE FoldLeft(ParseLine, Nothing({}), lines)

\* The command of an earlier batch is not known any more.
Parsed(lines, pending) ==
  IF provider = "codex" THEN CodexParsed(lines, pending)
  ELSE FoldLeft(ParseLine, Nothing(pending), lines)

-----------------------------------------------------------------------------
Init ==
  /\ provider \in {"claude", "codex"}
  /\ log = <<>> /\ running = <<>> /\ todo = <<>>
  /\ hooks = {}
  /\ offset = None /\ saved = None
  /\ seeding = FALSE
  /\ store = Untold
  /\ carry = {}
  /\ shown = <<>>
  /\ begun = None
  /\ seeded = FALSE /\ split = FALSE
  /\ reopened = {}

(* Claude.                                                                 *)

CanWrite == provider = "claude" /\ Len(log) < MaxLines

\* A version of the agent has the task tools or the older TodoWrite.
Used(kinds) == \E i \in DOMAIN log : log[i].kind \in kinds

\* The calls of one message are all written before their results, which come
\* in the order of the calls.
MakeCall(kind) ==
  /\ CanWrite
  /\ kind # "other" => ~Used({"todos"})
  /\ log' = Append(log, [kind |-> kind, call |-> Len(log) + 1])
  /\ running' = Append(running, [call |-> Len(log) + 1, kind |-> kind])
  /\ UNCHANGED <<provider, todo, hooks, monitor, happened>>

Answer(kind, line) ==
  /\ CanWrite
  /\ running # <<>> /\ Head(running).kind = kind
  /\ log' = Append(log, line)
  /\ running' = Tail(running)

CreateTask ==
  LET id == Len(todo) + 1
  IN  /\ Answer("create", [kind |-> "created", call |-> Head(running).call, id |-> id])
      /\ todo' = Append(todo, [id |-> id, status |-> "pending"])
      /\ UNCHANGED <<provider, hooks, monitor, happened>>

\* A plain result: of another tool, of an update, or of an interrupted create.
Return(kind) ==
  /\ kind \in {"other", "update", "create", "todos"}
  /\ Answer(kind, [kind |-> "result", call |-> Head(running).call])
  /\ UNCHANGED <<provider, todo, hooks, monitor, happened>>

ListTasks(full) ==
  /\ Answer("list", [kind |-> "tasks", call |-> Head(running).call, tasks |-> todo,
                     full |-> full])
  /\ UNCHANGED <<provider, todo, hooks, monitor, happened>>

\* TodoWrite: the call itself carries the whole list; here with one more task,
\* the others as they were or completed.
WriteTodos(status) ==
  LET rest == [i \in DOMAIN todo |->
                 IF status = "pending" THEN todo[i] ELSE [todo[i] EXCEPT !.status = "completed"]]
  IN  /\ CanWrite
      /\ ~Used({"create", "list"})
      /\ todo' = Append(rest, [id |-> Len(todo) + 1, status |-> status])
      /\ log' = Append(log, [kind |-> "todos", call |-> Len(log) + 1, tasks |-> todo',
                             full |-> FALSE])
      /\ running' = Append(running, [call |-> Len(log) + 1, kind |-> "todos"])
      /\ UNCHANGED <<provider, hooks, monitor, happened>>

\* TaskUpdate; a completion also fires the TaskCompleted hook.
UpdateTask(id, status) ==
  /\ CanWrite
  /\ ~Used({"todos"})
  /\ id <= Len(todo) /\ todo[id].status # status
  /\ log' = Append(log, [kind |-> "update", call |-> Len(log) + 1, id |-> id,
                         status |-> status])
  /\ running' = Append(running, [call |-> Len(log) + 1, kind |-> "update"])
  /\ todo' = [todo EXCEPT ![id].status = status]
  /\ hooks' = IF status = "completed" THEN hooks \cup {id} ELSE hooks
  /\ UNCHANGED <<provider, monitor, happened>>

\* A local command, its output, or text.
Say(kind) ==
  /\ CanWrite
  /\ kind = "output" => log # <<>> /\ Last(log).kind = "command"
  /\ log' = Append(log, [kind |-> kind])
  /\ UNCHANGED <<provider, running, todo, hooks, monitor, happened>>

-----------------------------------------------------------------------------
(* codex.                                                                  *)

CodexWrites(line) ==
  /\ provider = "codex" /\ Len(log) < MaxLines
  /\ log' = Append(log, line)
  /\ UNCHANGED <<provider, todo, hooks, monitor, happened>>

\* Calls and outputs may read alike ("Done").
CodexCalls(text) ==
  /\ CodexWrites([kind |-> "call", call |-> Len(log) + 1, text |-> text])
  /\ running' = Append(running, [call |-> Len(log) + 1, kind |-> "other"])

CodexReturns(text) ==
  /\ running # <<>>
  /\ CodexWrites([kind |-> "output", call |-> Head(running).call, text |-> text])
  /\ running' = Tail(running)

\* What is said is new, or said once more in another form, or as the final
\* answer of the turn.
CodexSays(text, final) ==
  /\ CodexWrites([kind |-> "said", text |-> text, final |-> final])
  /\ UNCHANGED running

-----------------------------------------------------------------------------
(* The gateway.                                                            *)

\* A session seen for the first time is followed from its end ...
StartTracking ==
  /\ offset = None
  /\ offset' = Len(log)
  /\ seeding' = TRUE
  /\ begun' = Len(log)
  /\ UNCHANGED <<agent, hooks, saved, store, carry, shown, seeded, split, reopened>>

\* ... and its task list is built from the whole file, which may have grown.
Seed ==
  /\ seeding
  /\ seeding' = FALSE
  /\ store' = Applied(IF provider = "codex" THEN store ELSE NoTasks, log)
  /\ seeded' = (provider = "claude")
  /\ UNCHANGED <<agent, hooks, offset, saved, carry, shown, begun, split, reopened>>

\* A batch: the tasks, then the messages.
Poll ==
  LET lines  == SubSeq(log, offset + 1, Len(log))
      parsed == Parsed(lines, carry)
  IN  /\ offset # None /\ ~seeding
      /\ offset < Len(log)
      /\ offset' = Len(log)
      /\ store' = Applied(store, lines)
      /\ shown' = shown \o parsed.out
      /\ carry' = parsed.carry
      /\ split' = (split \/ Last(log).kind = "command")
      /\ UNCHANGED <<agent, hooks, saved, seeding, begun, seeded, reopened>>

\* handle_task_completed, which whoever receives the hook event calls.
TaskCompleted(id) ==
  /\ id \in hooks
  /\ hooks' = hooks \ {id}
  /\ store' = MarkCompleted(store, id)
  /\ reopened' = IF todo[id].status = "completed" THEN reopened ELSE reopened \cup {id}
  /\ UNCHANGED <<agent, offset, saved, seeding, carry, shown, begun, seeded, split>>

SaveOffset ==
  /\ offset # None /\ ~seeding
  /\ saved # offset
  /\ saved' = offset
  /\ UNCHANGED <<agent, hooks, offset, seeding, store, carry, shown, happened>>

\* The gateway stops and starts: the offset is loaded, so that nothing is
\* seeded; what is in memory only is gone.
Restart ==
  /\ offset' = saved
  /\ seeding' = FALSE
  /\ store' = Untold
  /\ carry' = {} /\ shown' = <<>>
  /\ begun' = saved
  /\ seeded' = FALSE /\ split' = FALSE /\ reopened' = {}
  /\ UNCHANGED <<agent, hooks, saved>>

Next ==
  \/ \E kind \in {"create", "list", "other"} : MakeCall(kind)
  \/ \E kind \in {"other", "update", "create", "todos"} : Return(kind)
  \/ CreateTask
  \/ \E full \in BOOLEAN : ListTasks(full)
  \/ \E status \in AgentStatus : WriteTodos(status)
  \/ \E id \in Id, status \in AgentStatus : UpdateTask(id, status)
  \/ \E kind \in {"command", "output", "text"} : Say(kind)
  \/ \E text \in Text : CodexCalls(text) \/ CodexReturns(text)
  \/ \E text \in Text, final \in BOOLEAN : CodexSays(text, final)
  \/ StartTracking \/ Seed \/ Poll
  \/ \E id \in Id : TaskCompleted(id)
  \/ SaveOffset \/ Restart

Spec == Init /\ [][Next]_vars

-----------------------------------------------------------------------------
(* Properties.                                                             *)

\* Constraint of the run: codex's texts are interchangeable, and saved offsets
\* are followed over one line less.
Bounded ==
  /\ \A i \in DOMAIN log :
       provider = "codex" /\ log[i].text = 2 => \E j \in 1..(i - 1) : log[j].text = 1
  /\ saved # None => Len(log) < MaxLines

CaughtUp == offset = Len(log) /\ ~seeding /\ hooks = {}

\* Tasks whose call was still pending when a list came, and that no later list
\* named: parallel calls of TaskList and TaskCreate.  The list clears the pending
\* calls, so that their results find none, and the tasks are missing.
CutOff ==
  {log[j].id : j \in {j \in DOMAIN log :
     /\ log[j].kind = "created"
     /\ \E k \in log[j].call..j : log[k].kind = "tasks"   \* not with TodoWrite
     /\ \A k \in j..Len(log) : log[k].kind # "tasks"}}

\* What is shown are these tasks of the agent's list, in its order and with its
\* status, as far as the gateway knows the word: but for tasks cut off, and for the
\* status of tasks that a late event has marked completed again.
ListIsCurrent(tasks) ==
  LET kept == tasks \ CutOff
  IN  /\ DOMAIN store.tasks \ CutOff = kept
      /\ \A id \in kept \ reopened :
           store.tasks[id].status = Normalized(todo[id].status)
      /\ \A a, b \in kept : a < b => ShownBefore(store, a, b)

\* A list that was built from the whole transcript has all the agent's tasks once
\* everything is read, however the lines fell into batches, when the events came,
\* and although the seeding had read lines that the first batch reads again.
TasksCurrent == seeded /\ CaughtUp => ListIsCurrent(DOMAIN todo)

\* Tasks that were created by calls behind this line, or named by a list there.
ToldSince(line) ==
  LET after == {j \in DOMAIN log : j > line}
  IN  {log[j].id : j \in {j \in after : log[j].kind = "created" /\ log[j].call > line}}
        \cup UNION {{log[j].tasks[i].id : i \in DOMAIN log[j].tasks} :
                      j \in {j \in after : log[j].kind \in {"tasks", "todos"}}}

\* A gateway that starts with a saved offset does not build the list, although it is
\* said to be "rebuilt on startup from the transcript" (claude_task_state.py:93).
\* Once everything is read it has exactly the tasks told of since then, those as
\* the agent has them: a task whose call or list came before is not shown, whatever
\* is said of it later.
TasksSinceStart ==
  provider = "claude" /\ begun # None /\ ~seeded /\ CaughtUp =>
    ListIsCurrent(ToldSince(begun))

\* The messages are those of one parse of all lines since tracking began, or went
\* on from the saved offset: a result finds its call in whatever batch that was
\* (transcript_parser.py:461).
\* codex: but for what was shown again because its copies fell into two batches.
ShownAsOneParse ==
  ~split /\ offset # None =>
    LET parse == Parsed(SubSeq(log, begun + 1, offset), {}).out
    IN  IF provider = "codex" THEN Unrepeated(shown) = parse ELSE shown = parse
=============================================================================
