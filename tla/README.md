# Verification of unified-icc

unified-icc is a gateway that runs AI coding agents (Claude Code, Codex, ...) in
tmux windows and connects each window to a chat channel. This directory holds
TLA+ models of the parts in which its own logic lives, the TLC runs that check
them on small instances, and proofs for every instance where that is possible.

`PROJECT.json` lists the runs, the code behind each definition, the known
hazards of the code, the findings and the theorems.

    tlc -config MCChannelRouter.cfg MCChannelRouter     # a run
    tlapm GatewayProofs.tla                             # the proofs of a module

## 1. The system

Everything runs in one process with one asyncio event loop, apart from tmux,
the agents, the Claude hooks (short processes of their own), and the daemon
threads in which the router kills windows.

| part (under `src/unified_icc`) | state it keeps | operations |
|---|---|---|
| `core/channel_router.py` | channel to window bindings, their reverse index, display names, channel metadata | bind, unbind, unbind_window, name changes, to/from_dict |
| `tmux/window_state_store.py` | a record per window (session id, channel id, cwd, provider, modes), created-window markers | record, mark, remove, find by session |
| `core/session.py`, `state/state_persistence.py` | `state.json`, dirty flag, debounce timer | schedule, write, flush, load |
| `core/gateway.py` | the monitor, callback lists | start (with cleanup), stop, create/kill windows, fan-out of events |
| `server/`, `cli/daemon.py`, `channels/feishu/handlers/session_creation.py` | requests under way | create, close, list, input |
| `core/session_monitor.py`, `core/session_lifecycle.py`, `state/monitor_state.py`, `events/event_reader.py` | read offsets, last session map, `monitor_state.json` | poll loop, reconcile, startup cleanup, session-id probes |
| `protocol/transcript_reader.py` | byte offset, mtime, pending tools per session | follow an append-only transcript |
| `hook/hook.py`, `state/session_map.py` | `session_map.json`, `events.jsonl` | SessionStart, events, prune, clear |
| `tmux/tmux_manager.py` | vim state, per-window locks | create, list, kill, send keys, capture |
| `utils/mailbox.py` | one file per message and inbox | send, read, reply, mark delivered, sweep |
| `utils/claude_task_state.py` | tasks per window, pending creates | apply transcript entries, complete, clear |
| `server/connection_manager.py` | WebSocket subscriptions | subscribe, broadcast, drop the dead |
| `channels/feishu/` | seen events, card and prompt state | receive loop, dispatch, streaming cards |
| `providers/`, `protocol/*parser*`, `tmux/terminal_parser.py` | none | text to messages |

How they interact. A request creates a tmux window, binds a channel to it in the
router, and records and marks it in the window store; these changes schedule a
debounced write of `state.json`. A hook writes the agent's session id for its
window to `session_map.json`. The monitor reads that file on every pass, follows
the transcripts of the sessions in it from the offsets in `monitor_state.json`,
and hands messages and hook events to the gateway, which looks up the window of
the session and the channels of the window and calls the front ends.

What is hard in it:

* the same fact is held by several structures (bindings, reverse index, markers,
  records, tmux, two state files) that no lock or transaction keeps together;
* every `await` lets other requests in, and several operations read before one
  and write after it; kills run in threads;
* both state files are written later than memory changes, so a crash between
  two steps brings an older state back while tmux went on;
* transcripts and `session_map.json` are written by other processes while they
  are read, some under a lock and some without;
* a file read, a captured screen or a card's state is used an await later, when
  it may be old;
* connections fail, and what was sent before is sent again.

What makes the parts correct:

* router: exact index, no metadata without binding, one channel per window kept,
  every window that loses its last channel being killed, every change of bindings,
  metadata and markers saved (display names are an exception, section 4);
* gateway: no live window forgotten but by a refused kill, a failed creation, a
  startup that did not see it or an end that caught it unsaved; the file current when no save is due,
  registries reconciled by startup, a close that leaves none of its windows bound;
* monitor: a line or event that an offset has passed was handed over, waits, or was
  lost in one of a few named ways; what was handed over comes again only if no save had
  succeeded since; every line arrives in the end or is lost in one of those ways;
* transcript reader: entries once and in order but for reads that break off, nothing
  lost but behind a newline written apart from its line, progress but at lines that never parse;
* what is made of the lines: the messages and the task list do not depend on
  where the batches were cut;
* `session_map.json`: no locked writer undoes another's entry, a switched window
  gets back no session but one that was under way when its entry was cleared;
* mailbox: an unhandled message stays in an inbox unless a sweep cannot read it, and in
  one only unless two migrations cross; a handled one is not offered again unless a
  migration undid its mark;
* server: who listened when an event came gets it;
* Feishu: no message handled twice; no running window without a chat but those whose
  kill was refused, a failed creation left, or an end caught unsaved; no card with two
  turns unless a turn overtook it;
* keys: a text that met no keys past the lock and lost none is submitted as it was sent,
  an undisturbed probe leaves nothing behind.

The hazards with their lines are in `PROJECT.json`.

## 2. Modules

| module | models | notes |
|---|---|---|
| `Dictionaries` | Python dictionaries as functions on their keys | shared helpers |
| `Routing` | the abstract promise of the router: a table from channels to windows in which a call moves only the channels it names and those that hold the window it names | abstract specification |
| `ChannelRouter` | `channel_router.py` with the markers and kill threads it touches | implements `Routing` (`RoutingSpec`) |
| `Gateway` | create and close requests, `state.json`, stop, crash, restart | extends `ChannelRouter`: its actions are the router's own |
| `SessionMonitor` | the poll loop, offsets, `monitor_state.json`, hooks and agents around it | |
| `TranscriptReader` | how `_read_new_lines` finds lines in a file that grows | |
| `CodexParser` | how codex's lines become messages | operators, used by |
| `TranscriptContent` | the messages and the task list made of a transcript, batch by batch | |
| `SessionMapFile` | the writers and readers of `session_map.json` | |
| `Mailbox` | messages between agents as files | |
| `FeishuConnection` | the receive loop and the ids it has seen | extended by |
| `FeishuChannel` | commands, the wizard, forwarding, cards | composes the connection with the handlers |
| `Server` | WebSocket subscriptions, endpoints, broadcasts | |
| `AgentPane` | the keys that texts, probes and others send to one window | |
| `MC*` | model values, symmetry and constraints for TLC | |
| `GatewayProofs` | theorems about `ChannelRouter` and, from them, `Gateway` | TLAPS |
| `SessionMonitorProofs`, `SessionMapFileProofs`, `MailboxProofs`, `FeishuChannelProofs`, `ServerProofs`, `AgentPaneProofs` | theorems about the module of that name (`FeishuChannelProofs` also about `FeishuConnection`) | TLAPS |
| `TranscriptProofs` | theorems about `TranscriptReader` and about `TranscriptContent` with `CodexParser` | TLAPS |

### ChannelRouter

`bindings`, `reverse`, `displayNames`, `channelMeta` are the four dictionaries
of the class; `created` is `window_store._created_windows`; `kills` are the
`_sync_kill` threads not yet run; `tmux` the windows in the server (an id is
born once and dies once, as tmux ids do); `unsaved` the dirty flag of
`StatePersistence`. Each public operation is one action, because none of them
awaits. `Bind` takes the no-op case apart; `Rebind` follows the code's order:
remove the old entry, discard an emptied old window, evict the channels of the
new window one by one (the eviction that empties the list discards that window
too), then bind. `Init` is `from_dict` for any file the program may find: the
current format, or the older `thread_bindings` format in which several channels
may name one window. The list order of `_reverse` is not modelled: only
`resolve_channel_for_window` looks at it.

### Gateway

A request goes through the stages `creating`, `created`, `bound` or `closing`,
`killing`; it changes stage where the code awaits. Where the code goes on without
an await, `turn` keeps the loop for that request, so nothing else of the process
runs in between, while tmux and kill threads may. `named` in `BindCreated` is the
REST call with a name, which awaits `rename_window` between binding and
recording. The CLI's create binds nothing and saves nothing (`RecordCliWindow`).
`Crash` loses memory and threads, `Stop` flushes first, `Load` reads the file,
`StartupCleanup` is `_startup_cleanup` for the windows tmux listed, which are
none when the listing failed. tmux may refuse any kill (`Refuse`), which nobody looks at
after the window was forgotten, and a creation may fail before or after it opened a
window (`TmuxFails`); the caller gets the empty id in both cases.

For the properties only, `refused` are the windows tmux was asked to kill and did not,
`strays` those that a failed creation left open, that a startup did not list, or that
were at risk when the process ended and are not in its file. At risk (`AtRisk`) are
the windows in the hands of a call or a kill thread, those the CLI recorded, which no
save was scheduled for, and, in a crash with a save due, the rest. `took` are all the
windows a close has taken.

Simplifications: writes of `state.json` succeed (one that fails leaves the dirty flag, and
so nothing any property speaks of); startup is one step after
`Load`, since no request is served before it is over; display names and user ids
are absent, as no caller here passes one.

### SessionMonitor

`pc` is where the loop waits. One pass is: `ReadHookEvents`, `DispatchHookEvent`
for each, `Reconcile`, `CheckSession` for each session of the map (or, when the
map is empty, each tracked one), `FindMissing` and `CheckMissing`, `Save`,
`CheckLate` for what the fallback scan and the provider discovery find after the
save, `Deliver` for each message, `EndPass`. Hooks, agents, stops and crashes may
come between any two of them. A save may fail, which is logged and leaves the flag
(`SaveIfDirty`), the one of `Stop` too. An event's line may be met half written
(`writing`): hooks flush it after giving back their lock, and readers take none. The
reader then passes what is there, and later the rest, neither of which parses.

For the properties only, `handled` and `delivered` are what the callbacks were given;
`followed` the line from which a session is followed; `missed` the events met half
written or cut off by a stop; `lost` the lines whose parser raised, whose pass was
abandoned, or whose process ended after saving their offset and before handing them
over; `exposed` the lines with no successful save since they were read, and `again`
those of them that were handed over when the process ended.

Simplifications: offsets count lines, and every line yields one message with a
text (how bytes become lines is `TranscriptReader`'s matter); the transcript of a
mapped session exists; callbacks swallow their failures, as the gateway's do; a
pass fails where the loop asks tmux or scans the projects, the calls outside an
inner `try`; a session whose
reading raised is read again in the next pass; of `events.jsonl` only the lines of
windows the monitor owns count, the others and those that never parse only move the
offset; hooks only append to that file, so the restart on a shorter one
(`event_reader.py:31-33`) does not occur, and the gateway registers its callback before
it starts the loop (`gateway.py:110`), so the case without one does not either; `bound` stands for the session ids
in the records of created windows, which probes, status lines and requests change
at any moment; the new-window callbacks of the reconciliation change nothing
here. `CheckTerminalStatuses` may come at any point of the reading and not only
before it.

### TranscriptReader

A line is four bytes (the first, two more, newline), so an offset is at the start of a
line, inside it, or at its newline; that is what the reader's alignment test
(`first_byte != "{"`) can tell apart. The constants say which lines are of the kinds that
it or the parser treats differently: objects with a brace inside (`Nested`) or with a
character of two bytes (`Wide`), blank lines, lines that open with a brace and are not
JSON (`Garbled`), and lines that do neither (`Foreign`). A line parses once its object is
complete, with or without its newline, as `json.loads` does. A truncation starts a new
life of the file. `ReadRaises` is the decoding error of an offset or an end of file
inside a character; `ReadBreaksOff` an OSError, which hands over what was read and does
not move the offset, so that it is read again (`again`). `Waits` names the four places
at which the reader stays: a line that is not JSON, a brace inside the line in which
tracking began, an offset inside a character, a file that ends inside one.

### TranscriptContent and CodexParser

A line is what the parsers tell apart: a call or result of `TaskCreate`,
`TaskUpdate`, `TaskList`, `TodoWrite` or another tool, a local command or its
output, or text; for codex a call, an output or something said. `ApplyLine` and
`ParseLine` say what one line does to the task list (`store`) and to the messages;
a batch (`Poll`) is a fold of both over the new lines. `carry` are the calls whose
result is awaited, which the reader keeps from batch to batch; the task list's
half-made tasks are in `store.pending`. `StartTracking` takes the end of the file
as offset and `Seed` builds the list from the whole file one await later, so that
lines written in between are applied twice. `TaskCompleted` is
`handle_task_completed`, which the embedding program is expected to call with
hook events. `ShownBefore` is the order in which tasks are shown. `Normalized` is
`_normalize_status`: the agent has statuses the gateway has no word for (`cancelled`
stands for them), which become pending. After a `Restart` that finds a saved offset the
list is not built again: `TasksSinceStart` says what it then has, `TasksCurrent` speaks
of the lists that were built from the whole transcript.

The agent is external: what it may write is `MakeCall` to `Say` and `CodexCalls` to
`CodexSays`. Calls of one message come before their results, results in the order of
the calls. Texts of messages are left out, for codex reduced to two, which is
enough for "the same" and "another".

### SessionMapFile

`file` is the file, or the reason why it has no entries; `lock` its lock file;
`job[p]` what process `p` is doing: it waits, takes the lock and reads
(`LockAndRead`), and writes what it makes of what it read (`WriteAndUnlock`, or
`WriteFails`). The loop's own writers are `SwitchToHookless` (under the lock) and
`ReadForPrune`/`WritePruned` and `Purge` (without it). A load is two steps,
`ReadForLoad` in a thread and `ApplyLoad` on the loop. `mishaps` notes, for the
properties, what the lock cannot prevent: an unlocked write over a change, a hook that
could not read the file, a clearing that failed, a live window pruned because the
listing did not have it. `overtaken[w]`, for a window `w` switched to a hookless provider
with no agent since, are the sessions that a waiting writer was still to write for it, or
a load that had read them was still to apply, when its entry had been cleared; the code
stops neither, and `SwitchHolds` allows these and no other.
Files are replaced atomically, so no torn file is read, but a corrupt one may be
there at the beginning.

### Mailbox

`inbox[w]` are the message files of a window, `drop[w]` its delivery files, `old` the
messages past their time to live, `doing[p]` what a process holds between reading
and writing. `Find`/`WriteMark` are `read`, `mark_delivered` and the first half of
`reply`; `SendReply` the second; a broadcast is one send at a time; `SweepScan`,
`SweepRead`, `SweepUnlink`, `SweepTmp` one sweep; `Migrate`, `MigrateRead`,
`MigrateWrite` a rename of a window. `Fail` ends an operation between any two steps.
A sweep that cannot read a message removes it (`SweepCannotRead`), a migration that
cannot leaves it and goes on (`MigrateSkips`). `handled`, `removed`, `unreadable`,
`migrated`, `overtaken` are read by properties only; the last
are the messages a second migration took while a first one was about to write them.

### FeishuConnection and FeishuChannel

The connection is `start()`'s loop with `seen` and `seen_events.json`; the service may
deliver any earlier message again on any connection. `FeishuChannel` composes it with
the handler that the loop awaits (`inbound`) and the callback that the monitor
awaits (`outbound`): each is a stage machine that changes stage at an await, and the
two interleave. `wizard` is `_sessions`, `chat` `_verbose_states`. A kill forgets the
window, awaits tmux (`KillReturns`), and does not look at the answer. Bindings reach
`state.json` by a timer (`saved`, `Save`), and an end of the process leaves those. The
thinking messages of a batch go through one streamer, which keeps the chat's state over
a reset (`dropped`); texts look it up again. `turn` and `shown` record for each card
the turns whose output it got, `raced` the cards that a turn overtook: the id came back
after the turn had advanced, or a batch went on with the card after a reset. `refused`
are windows tmux did not kill; `stray` those that a failed creation left open, and those
that were bound in memory only, just made or being killed when the process ended.

The directory browser is reduced to the phases it moves between. The gateway makes an
event for each message (`gateway.py:425-430`), the handler takes several, and so does
the model, two at most. A thinking message is always complete, as every reader in the
tree makes it.

### Server

`subs` and `global` are the manager's; its lock is never held over an await, so each
operation is one step. `task[x]` is the endpoint of connection `x` where it awaits:
`Create`, `CreateBinds`, `CreateSubscribes` for `session.create`, `Close`,
`CloseUnsubscribes` for `session.close`, `Ask` for all that is answered at once. `cast`
is the broadcast in progress: a list taken before, one `Send` at a time, the failed
ones removed at the end, the global connections after the channel's. The gateway
awaits its callbacks, so there is one broadcast at a time.

### AgentPane

`ui`, `vim`, `line`, `submitted` are the agent's terminal, which is external: what the
code expects of it. `call[c]` walks through `send_keys`: the lock, the vim check with
its cache, the "i", the look, the erasing, the text in one or two pieces, Enter.
`probe[p]` walks through `detect_session_id`: trust prompt, C-u, "/status", Enter, the
reading, two Escapes, C-u. Raw texts and single keys (`TypeRaw`, `PressKey`,
`ChangeVim`) come from anybody. Any key the code sends may be lost. For a window named
with its session, as the gateway's are, `_pane_send_subprocess` tells success whatever
tmux answers, so the sender may not learn of it; after a time-out it may be told of a
failure although tmux took the key. `clean` are the texts whose turn was not disturbed by keys sent past the lock,
by a failed capture, an old cache entry or the loss of a key they needed; `alone` says
that no probe was disturbed, nor lost its Enter or both of its Escapes; the property
speaks of these. Text and Enter sent in one tmux call are one step.

## 3. Runs

| run | instance | shows |
|---|---|---|
| `router` | 3 channels, 2 windows, 1 name | types, exact index, metadata, discarded windows, saves, no new sharing, refinement of `Routing` |
| `gateway` | 2 requests, 1 channel, 2 windows and the empty id, 1 creation or kill that fails in tmux | windows forgotten only for the named reasons, current file, reconciled startup, final close |
| `monitor` | 1 session, 1 window, 2 lines, 1 event | lines and events lost or repeated only in the named ways; under fairness every other line arrives |
| `transcript` | 4 lines in each of 2 lives: nested brace, blank, not JSON, plain; wide character, not JSON, garbled, plain | entries once and in order, losses explained, progress but at the named places |
| `content` | 5 lines, any restarts, claude or codex | task list from the whole transcript, task list since a restart, messages as of one parse |
| `session_map` | a native and a foreign window, 2 sessions, 2 writers, 1 load, 2 starts, 1 error | locked writes are kept; a switched window gets back only sessions that were under way |
| `mailbox` | 2 windows, 2 processes, 2 messages, 2 migrations | an unhandled message is in an inbox unless a sweep could not read it, in one unless two migrations cross; a handled one is not offered |
| `feishu` | 2 users, 1 channel, 2 windows, 4 messages, 2 batches, 1 end, 1 failure | handled once, sessions unseen only for the named reasons, one turn per card unless overtaken |
| `server` | 2 connections, 2 channels, 1 event | every listener served |
| `pane` | 2 texts, 2 probes, 1 foreign key, 1 fault (a lost key or a failed capture) | undisturbed texts arrive whole, undisturbed probes leave nothing |
| `router_takeover` | as `router` | a counterexample, see findings |
| `monitor_moved_session` | 2 windows, 2 sessions | a counterexample |

Why these bounds. Router: three channels are needed for an eviction to leave
somebody behind and for two channels to share while a third takes over; two
windows for a move; the proofs remove the bound. Gateway: two requests give every
pair of overlapping calls on one channel, a second window every replacement, and
the empty id the creation that fails; `MaxFailures = 1` bounds failing creations and
kills together, not the number of windows they leave, and kills at startup are free.
Monitor: two lines let one be delivered, saved or not, while the next is in the batch, with a
restart between any two steps; one window lets the session come and go (the run
`monitor_moved_session` has the two that a move takes); sessions share
nothing but the pass, whose failures hit one as they do two. The proofs have any number
of each. Transcript: four lines are
enough for a skipped one with complete neighbours, two lives for one truncation; each
kind of line meets a plain one before or after it.
Content: five lines hold two parallel creations with their results and an update, a
list or a repetition after them, and every cut into batches. Session map: two
writers give every overlap of two locked changes, the load and the loop a third and a
fourth party; one native window and one foreign, because each pruning looks at one
kind; one failing file operation (the proofs have any number). Mailbox: two processes give every overlap of two operations, the second message
an answer or a neighbour in a sweep, the second migration one that overtakes the
first. Feishu: four messages are a whole creation (a command and three wizard steps); a second user and the API compete for the channel; two batches are
output before and after a change of turn. Server: one event suffices, since every
event starts from an arbitrary reachable subscription state and nothing of a broadcast
outlives it but the subscriptions. Pane: the two texts are one in a single piece and
one in two; one fault is one lost key, and what a second would spoil is not claimed of anything but the other text; the second probe is the monitor's, which stores differently.

Where a run has a counter that would grow without end, its bound is a constant
(`Max...`, `Lines`, `Files`) in the guard of the action. Symmetry is declared only in
runs without liveness.

Five runs have a CONSTRAINT, which cuts off states from which the properties claim
nothing more, or parts that do not interact: `Considered` (`session_map`; a failed
clearing is followed for `StartsAreKept`, an unlocked write for `SwitchHolds`, other
mishaps not; foreign windows stay open, as nothing is pruned of them); `Bounded`
(`content`; codex's two texts come in one order, and a saved offset is followed over
four lines); `Judged` (`mailbox`; delivery files decide nothing else, a migration is
followed as long as a message it moved is unhandled, a second migration only with a
single message, and a message no longer once it is handled and its time over or its
inbox removed; the later message not at all once its time is over or a sweep could not
read it); `Judged` (`pane`; once both texts have had their turn disturbed and a
probe was disturbed too, neither half of the property claims anything); `Apart`
(`feishu`; output is not combined with failures of the connection, ends of the process,
saved bindings and lost windows, none of which its cards depend on, nor failed
connections with the last two). Deadlock is not checked in `feishu`, `server` and `pane`:
there everybody may be done (the bounds are used up, both connections have ended, both
texts are sent).

Fairness. `WF(Pass)` in `SessionMonitor`: asyncio runs the loop's task again after
each await, and the sleep at the end of a pass and the back-off after a failure
are finite. `SF(CheckSession(s))`: a pass may fail before it comes to a session,
when tmux cannot be asked, and may do so any number of times, but not every time;
without that no poll loop delivers anything. Nothing is assumed of agents, hooks,
stops or restarts; `LinesArrive` claims something only where the process stays up
and the map keeps the session. `WF(ReadNewLines)` in `TranscriptReader` is the same loop.

## 4. Findings and observations

Shown by a run:

* `bind` kills the window that it is binding when another channel held it, and
  `unbind` kills a window that other channels (of a migrated file) still hold.
* A session resumed in another window loses its offset in the reconciliation, and
  what it wrote since the last pass is never read.

Met while modelling. The models do what the code does here, and a property that
could tell says so or leaves the case out by name:

* Router: `sync_display_names` and `pop_display_name` change the display names, which
  `to_dict` writes, and schedule no save (`channel_router.py:71-83`), where
  `session.py:304-305` says "Router saves itself when router_changed".
  `BindingChangesAreSaved` leaves these two out and speaks of all else that `to_dict`
  writes.
* Gateway: `kill_window` and `kill_channel_windows` forget the window first and ignore the
  `False` of a kill that failed (`gateway.py:156-161`); the kill threads do the same
  (`refused`). A creation that fails after `new_window` leaves its window open and returns
  the empty id (`tmux_manager.py:1217-1259`). A listing that fails counts as empty
  (`tmux_manager.py:221`), and startup then forgets every bound window (`strays`). A
  close between binding and recording leaves a record of a dead window until the next
  startup. Startup kills every recorded window without binding (`gateway.py:404`).
  Sessions made by the CLI are recorded and never bound (`cli/daemon.py:101-106`), so
  a restart ends them, where `docs/architecture.md:152` has the monitor go on with the
  existing windows.
* Monitor: the offsets are saved before the messages are handed over, and an end in
  between loses them, as a parser that raises and an abandoned pass do (`lost`,
  `session_monitor.py:717`, `1026`, `transcript_reader.py:159`); a save that fails is only
  logged (`monitor_state.py:82-86`), and a crash then repeats what was handed over, as it
  does for sessions read after the save of their pass (`again`). An event line met half
  written is passed over for good (`event_reader.py:41-46`), and `stop` cuts off those read
  and not dispatched (`missed`). With an empty `session_map.json` the loop goes on polling tracked sessions
  (`session_monitor.py:608-610`), but the cleanup at the next start drops them (903).
* Transcript reader: a line that is not JSON and opens with a brace (or is the first of the
  file) holds the reader for ever, although its message says "will retry next cycle"
  (`transcript_reader.py:252-259`); so does an offset at a nested brace or inside a
  character (`Waits`). A read that fails late hands over what it had and reads it again.
* Session map: `prune_session_map` and `_purge_old_format_keys` write what they read
  before, without the lock (`mishaps`: "unlocked write"). A read that fails counts as
  an empty file, and the locked writer then writes its own entry only. A load that read before a switch to a
  hookless provider, and a hook that was waiting for the lock, bring the old session
  back (`overtaken`).
  `prune_stale_window_states` compares records, whose keys are qualified, with native
  ids that are not (`session.py:374-395`), so a mapped native window that is not bound
  and not listed loses its record, against the docstring at line 528.
* Task list: a list that arrives while creations are pending drops them (`CutOff`); a
  late `TaskCompleted` marks a task completed that was reopened since (`reopened`);
  after a restart that finds its offset the list is not built again, although the
  docstring at `claude_task_state.py:93` says "rebuilt on startup from the transcript"
  (`TasksSinceStart`); a task the agent deleted or cancelled is shown as pending
  (`_normalize_status`).
* Messages: the name of a local command is lost when its output falls into the next
  batch (`split`). codex's copies of a text are compared within a batch only, so a copy
  that opens the next batch is shown again (`codex.py:611-645`); equal outputs of two
  adjacent calls are shown once (492-507).
* Mailbox: a sweep removes a message it cannot read, whatever its status
  (`mailbox.py:430-433`, `unreadable`); of two marks written at once the later stands,
  `delivered` over `replied` too. A migration that overtakes another one between its reading and writing of a
  message (`mailbox.py:469-485`) leaves two copies of a message nobody has handled, one
  under each id; the first form of `UnhandledIsKept` (one inbox, always) was not
  inductive, and TLC found this when the run allowed two migrations. A mark that races a
  migration leaves two copies, or is undone; a mark
  written after `clear_inbox` brings the message back; an answer may be lost after its
  message was marked as replied; `_sweep_tmp` may remove the delivery file of a message
  that came during the sweep. `migrate_ids` leaves the old id in messages that the
  window sent to others.
* Feishu: a text kept for after the creation is lost when the creation fails; the wizard
  belongs to the user, and the window is bound to the channel of the last message; a
  failed answer after the binding leaves the wizard alive, and its next step makes a
  second session; a kill tmux refuses is not noticed, and windows bound less than half a
  second before an end are lost; a message noted as seen is not handled again when the
  process ends before its handler does; a card that is being sent while its turn advances gets two turns
  (`raced`), and so does the card of a batch with several thinking parts whose chat is
  reset meanwhile, where `cards/streaming.py:4` promises one card per turn; `_flush` patches
  the card with the newest piece only; the state of a terminal prompt lives in a
  dictionary made for one call (`message.py:505`), so answers find no prompt; errors
  other than those `start` lists end the client.
* Server: a subscription made by `session.create` outlives its connection until the
  next event (`ws.py:405-413`); a global connection that creates a session gets that
  channel's events twice.
* Keys: a key that tmux does not take counts as sent (`tmux_manager.py:681-700`), so
  `send_keys` returns `True` for a text that did not arrive whole, where its docstring says
  "True if successful"; the probe and the erasing of the "i" do not look at what tmux says
  at all. Raw texts, single keys and the session-id probe go past the window's lock
  (`tmux_manager.py:46-47`); a cached "vim off" is never looked at again; a capture that
  fails after the "i" leaves it in the line. `detect_missing_session_ids` writes the
  probe's id over one that came meanwhile (`session_monitor.py:440`), and the pattern
  takes any long word after "session" (90-93). The codex branches of
  `_wait_for_agent_pane` cannot be reached.

## 5. Proofs

Every theorem holds for any values of the constants: any number of channels, windows,
calls, sessions, lines, messages, processes, connections, texts, failures, restarts.
The numeric bounds of the models (`Max...`, `Lines`, `Files`) are any natural numbers,
so no bound of a run limits what is proved. Each module states one inductive
invariant (`IInv`, `GatewayInv`, `ReaderInv`, `MailboxInv`; `ContentInv` and `TasksInv`), proves that the initial
states have it and that each step keeps it, and takes the properties of the runs from it.

What each invariant adds to the property, and why the property alone is not
inductive:

* **Router** (`GatewayProofs`, first part). `IInv == TypeOK /\ IndexExact /\
  MetaOnlyForBound`: that no list in `reverse` is empty after a removal, and that the
  bindings of the evicted channels exist, needs the index to be exact, and the index
  stays exact only for bindings of the right type. With an exact index `Unlist` of some
  channels is the index of the bindings without them (`UnlistIndex`), and adding a
  window's single channel is the index with it (`PutIndex`); each operation is a
  composition of the two. `ChangesSaved`, `NoSharing`, `OrphansDiscarded` are the action
  properties, by a lemma that gives each operation in closed form; `ImplementsRouting`
  is the refinement, initial states to initial states and steps to steps or stutters.
* **Gateway** (`GatewayProofs`, second part). `NoneForgotten` needs what a call holds
  at each stage (`CallOK`: which window, whether it may be alive), that a window just
  created is known to its call only (`FreshOK`: otherwise another call could let go of
  it), that ids are not given out twice (`KnownOK`), and what is the case while the
  process is down (`NoneLost` then speaks of the file, in which every window is that was
  not at risk: that needs `SavedIsCurrent`, which is part of the invariant and holds
  between any two steps). `CloseFinishes` is an action property and rests on `TookOK`: of
  all the windows a close took, each is still in its list, in its hand, or dealt with,
  and cannot be bound again. `StartupAgrees` is one too, from `PhasesOK`: what
  startup sees is what the file says.
* **Session monitor** (`SessionMonitorProofs`). `LinesNotSkipped` speaks of the offsets in
  memory and in the file, since an end falls back to the file. `LinesNotRepeated` is about
  what was delivered; inductive is that whatever was delivered, or waits to be, lies behind
  every offset that the session can be followed from, in memory and, unless no save has
  succeeded since (`exposed`), on disk (`DeliveredOK`, `WaitingOK`).
  `EventsNotSkipped` needs `EventsOK`: each event line the offset in memory has passed or
  entered was handed over, was missed, or waits.
* **Transcript reader** (`TranscriptProofs`, first part). `EntriesInOrder` needs that all
  that was read of this life of the file lies behind the offset, but for lines that a
  read handed over before it broke off (`ReadBehind`);
  `OnlySplitLinesLose` that an offset inside a line is one that met the end of the file,
  and that each line the offset has entered was read or follows such an offset
  (`Followed`).
* **Transcript content** (`TranscriptProofs`, second part). The messages and the task
  list are folds over lines, so the proofs are by induction on the length of a
  sequence: `Induction` states it for a set of numbers (from `WFMin`, the least element
  of a well-founded relation), `Folded` is what a function folds a sequence into,
  `FoldedConcat` and `FoldedAppend` say what it is of two sequences in a row, and
  `ApplyFolds`, `ParseFolds`, `CodexFolds`, `UniqueFolds` that the module's `FoldLeft`s
  are such. `ShownOnce` is not inductive: the messages say nothing of the calls
  awaited. `ContentInv` adds them, and that a parse of the lines read gives both;
  a batch keeps it because a parse of two batches is the second continued from the first
  (`ClaudeBatch`; for codex `CodexBatch`, from `CodexJoined`: removing the copies in the
  two batches and then in both together is removing them in all).
  `TasksStayCurrent` speaks of the moment when all is read. `TasksInv` speaks of any
  line k: a list built from the lines up to k, *or from more of them*, as the seeding's
  is (`Follows(st, k)`). A status is the agent's, as far as the gateway has a word for it,
  or set again after k (`StatusFollows`). A task is there, or cut off, or a list or its own result comes
  after k (`TasksFollow`). A call that was read is pending until its result, unless a list
  has come since (`PendingFollow`: otherwise the result would be dropped). Places are in
  the order of the calls, or the later task will get a new one (`PlacesFollow`: a list
  read again renumbers the tasks behind pending calls). It rests on what holds of the
  agent's lines alone (`AgentFacts`: results name a call of their kind, in turn; each
  task is told of; a list has all tasks told of before; status that a line gives are the
  agent's or set again). Then a line more (`GrowthFollows`), a line read
  (`ReadFollows`, one lemma for each kind of line), a whole batch (`BatchFollows`, by
  induction), an event (`MarkFollows`), the empty list before the first line
  (`StartFollows`) and the seeding's list seen from the earlier offset
  (`RewindFollows`) each keep it.
* **session_map.json** (`SessionMapFileProofs`). `StartsKept` is about the file;
  inductive is that the file *and* what the holder of the lock has read and is about to
  write both keep each finished write (`Announces`). `LockExcludes` states what makes that
  enough: one such reader at a time. `SwitchKept` needs that all copies of the file,
  those a writer, an unlocked pruning or a load has read among them, have for a switched
  window only sessions counted as overtaken (`SwitchOK`); it does not rest on the lock
  being taken by everybody.
* **Mailbox** (`MailboxProofs`). Nothing locks here, so the copies that processes hold
  between reading and writing are part of the invariant: `HeldOK` (a copy with a mark is
  of a handled message, what a sweep condemned is handled, out of time or unreadable, what a
  migration is going to write is there, or nothing is claimed of it) and `UnmovedOK` (an
  unmoved message has one place, counting the copies about to be marked).
* **Feishu** (`FeishuChannelProofs`). `MessagesOnce`: what the process has handled it
  remembers, and what it remembers is in the file or owed to it (`Remembered`).
  `SessionsSeen`: only windows that were made are alive, bound, saved or being killed, so
  that a new one is none of them (`WindowsOK`).
  `CardsOneTurn`: cards that a channel still adds to were sent, belong to that channel
  only and show its current turn unless overtaken (`CardsAreCurrent`), and a patch under
  way shows its own (`PatchOK`); of a dropped state only that its cards were sent
  (`IsAmong`), since every card used from one is counted as overtaken.
* **Server** (`ServerProofs`). `ListenersServed`: whoever is due is served, has left, is
  gone, or is still in the list of this stage or the set of the next
  (`OthersAreListed`); a connection is known to nobody before it was accepted.
* **Keys** (`AgentPaneProofs`). `KeysWhole`: for an undisturbed text the mode and the
  line at each step of its turn (`TurnOK`), whichever keys were lost; a text is nowhere on the screen before its
  last piece was typed; for an undisturbed probe the screen at each step (`StageOK`).
  Keys are treated alike by one lemma each that bounds what they add to the line and to
  what was submitted (`Adds`).

Assumptions on constants, all named and evaluated by TLC: the bounds are natural
numbers; the markers for "none" (`NoName`, `NoChannel`, `NoRequest`, `NoWindow`,
`None`, `All`, `Loop`) are none of the values they stand beside;
`GatewayAssumption`: a creation can fail only where there is an empty id to return;
`SessionMapAssumption`: foreign and bound windows are windows; `KeyAssumption`: a key of
the old format is no window's key, as it has no prefix; `ReaderAssumption`: a file has at
least one life; `PaneAssumption`: a text to send is none of the keys the code sends
besides, as a text of the same letters would be indistinguishable on the screen.

What the proof attempts showed of the models: the bound on how often a message is
handled was no invariant of an unbounded redelivery (`handled` now has its type only),
`UnhandledIsKept` was false with two migrations (section 4), and `Followed` and
`WaitingOK` had to be strengthened before they were inductive, and so had the part of
`TasksInv` on pending calls, which holds only with the fact that no call but one of
TaskCreate is ever pending. What is shown of the tasks is stated over the task
dictionary and no longer over its sorted list. The invariants were checked by TLC
before they were proved.

Only model-checked, and why: `LinesArrive` and `CatchesUp` are liveness and rest on
fairness and ENABLED, which the prover does not have. `TasksSinceStart` has not been
proved: `TasksInv` follows a list from the first line on, and would have to be stated from
any line on. The two properties with
counterexamples are false. Every other property of a run is a theorem.

## 6. Plan

* The monitor's offsets and the transcript reader are two models of one file; a
  refinement of lines to bytes would join them.
* The routing from session to window and channel, over `Gateway` and
  `SessionMonitor`, with the windows' records stale.

## 7. Not modelled

* `session.py`'s `resolve_stale_ids`, `prune_stale_state` and `audit_state`, and
  `tmux/window_resolver.py` under them: nothing in the tree calls them.
* Reading screens (`tmux/terminal_parser.py`, `protocol/codex_status.py`) and all
  formatting (`codex_format.py`, `ws_protocol.py`, cards, tool summaries): functions
  of text that decide nothing in the models but whether a prompt is seen.
* Providers other than claude and codex, the whole-file readers, and the scan of the
  project directories.
* Installing hooks, the CLI daemon's start and stop, configuration, user preferences,
  the HTTP client: no interaction worth a state machine.
* Pings of the Feishu connection, answers to terminal prompts, mail attachments.
