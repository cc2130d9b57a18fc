---------------------------- MODULE SessionMonitor ----------------------------
(***************************************************************************)
(* The poll loop of core/session_monitor.py with the parts it drives:      *)
(* MonitorState (read offsets and their file), TranscriptReader (following *)
(* an append-only transcript), event_reader, SessionLifecycle.reconcile.   *)
(*                                                                         *)
(* Agents write at any time: hooks put sessions in session_map.json and    *)
(* lines in events.jsonl, agents append to their transcripts.  The loop    *)
(* gives way to them at every await; a crash or a stop may come there too. *)
(* Transcript offsets count lines: how a byte offset finds the lines is    *)
(* the matter of TranscriptReader.  Every line yields one message with a   *)
(* text.  Of events.jsonl only the lines of windows the monitor owns       *)
(* count: the others, and lines that never parse, are passed over and      *)
(* do no more than move the offset.  Hooks only ever append to the file    *)
(* (hook.py), so the reader's restart on a shorter one has no place here;  *)
(* the gateway registers the hook callback before it starts the loop.      *)
(***************************************************************************)
EXTENDS Dictionaries, Naturals, Sequences

CONSTANTS
  Window,      \* windows that appear in session_map.json
  Session,     \* session ids
  MaxLines,    \* bound: lines a transcript grows to
  MaxEvents    \* bound: events the hooks write for windows the monitor owns

ASSUME BoundsAssumption == MaxLines \in Nat /\ MaxEvents \in Nat

VARIABLES
  sessionMap,    \* session_map.json: window -> session id
  lines,         \* number of lines in each session's transcript
  eventLog,      \* number of whole lines in events.jsonl
  writing,       \* events.jsonl ends inside the next line
  bound,         \* session ids held by the created windows of window_store
  tracked,       \* MonitorState.tracked_sessions: session -> offset
  eventsOffset,  \* MonitorState.events_offset
  dirty,         \* MonitorState._dirty
  disk,          \* monitor_state.json
  lastMap,       \* SessionLifecycle._last_session_map, the pass's current_map
  fallbackDone,  \* _fallback_scan_done
  pc,            \* where the loop waits
  todo,          \* session ids the running part of the pass has still to visit
  newEvents,     \* hook events read and not yet handed to the callback
  newMessages    \* new_messages: <<session, line>> not yet handed over

\* What happened, for the properties only.
VARIABLES
  handled,       \* hook events given to the callback
  missed,        \* those read half written, or cut off by a stop before the callback
  delivered,     \* lines of each session given to the message callback
  followed,      \* line after which each session was last met for the first time
  lost,          \* <<session, line>> read, but lost with a failure or an end
  exposed,       \* those read or handed over with no save of their offset since
  again          \* those handed over whose offset no save ever wrote

files   == <<sessionMap, lines, eventLog, writing, bound>>
offsets == <<tracked, eventsOffset, dirty, disk>>
history == <<handled, missed, delivered, followed, lost, exposed, again>>
vars == <<files, offsets, lastMap, fallbackDone, pc, todo, newEvents,
          newMessages, history>>

Line  == 1..MaxLines
Event == 1..MaxEvents
Message == Session \X Line
Offsets == PartialFunctions(Session, 0..MaxLines)

\* Offsets of events.jsonl: after a whole line, or inside the next one.
Position == [line : 0..MaxEvents, inside : BOOLEAN]
Beginning == [line |-> 0, inside |-> FALSE]

\* The lines a position has passed, or entered.
Entered(p) == IF p.inside THEN p.line + 1 ELSE p.line

TypeOK ==
  /\ sessionMap \in PartialFunctions(Window, Session)
  /\ lines \in [Session -> 0..MaxLines]
  /\ eventLog \in 0..MaxEvents
  /\ writing \in BOOLEAN
  /\ writing => eventLog < MaxEvents
  /\ bound \subseteq Session
  /\ tracked \in Offsets
  /\ eventsOffset \in Position
  /\ dirty \in BOOLEAN
  /\ disk \in [tracked : Offsets, eventsOffset : Position]
  /\ lastMap \in PartialFunctions(Window, Session)
  /\ fallbackDone \in BOOLEAN
  /\ pc \in {"down", "cleanup", "initialize", "hooks", "dispatch", "check",
             "missing", "late"}
  /\ todo \subseteq Session
  /\ newEvents \in Seq(Event)
  /\ newMessages \in Seq(Message)
  /\ handled \subseteq Event
  /\ missed \subseteq Event
  /\ delivered \in [Session -> SUBSET Line]
  /\ followed \in [Session -> 0..MaxLines]
  /\ lost \subseteq Message
  /\ exposed \subseteq Message
  /\ again \subseteq Message

-----------------------------------------------------------------------------
(* Pieces of the steps.                                                    *)

\* The integers above m up to n, in order.
After(m, n) == [i \in 1..(n - m) |-> m + i]

\* Mutant: the reader skips the line at its offset.
UnreadAfterOne(s) ==
  [i \in 1..(lines[s] - tracked[s] - 1) |-> <<s, tracked[s] + i + 1>>]

\* _read_new_lines: the lines past the offset.
Unread(s) == [i \in 1..(lines[s] - tracked[s]) |-> <<s, tracked[s] + i>>]

\* Mutant: the first event past the offset is not returned.
EventsButFirst(last) == After(Entered(eventsOffset) + 1, last)

\* read_new_events up to a line: an offset inside a line finds its rest, which
\* does not parse and is passed over.
EventsRead(last) == After(Entered(eventsOffset), last)

\* Mutant: the flag is cleared and the file is not written.
SaveNothing(t, e, d) == UNCHANGED <<disk, exposed>> /\ dirty' = FALSE

\* save_if_dirty with memory t, e and dirty flag d: the file is written, or
\* cannot be, which is logged and leaves the flag.
SaveIfDirty(t, e, d) ==
  \/ /\ d
     /\ disk' = [tracked |-> t, eventsOffset |-> e]
     /\ dirty' = FALSE
     /\ exposed' = {}
  \/ /\ d
     /\ dirty' = TRUE
     /\ exposed' = exposed \cup Values(newMessages)
     /\ UNCHANGED disk
  \/ /\ ~d
     /\ dirty' = FALSE
     /\ UNCHANGED <<disk, exposed>>

\* A reader that starts from offsets f finds line n of session s behind it.
Covers(f, s, n) == s \in DOMAIN f => n <= f[s]

\* Mutant: a session that is already tracked is not polled.
PolledUntracked == Values(lastMap') \ DOMAIN tracked

\* The sessions check_for_updates visits first: those of the current map, or,
\* with an empty map, those tracked.
Polled ==
  IF DOMAIN lastMap' = {} THEN DOMAIN tracked' ELSE Values(lastMap')

\* Mutant: tracking starts one line past the end of the file.
StartTrackingPastEnd(s) ==
  /\ tracked' = Put(tracked, s, lines[s] + 1)
  /\ followed' = [followed EXCEPT ![s] = lines[s]]

\* A session seen for the first time is followed from the end of its file.
StartTracking(s) ==
  /\ tracked' = Put(tracked, s, lines[s])
  /\ followed' = [followed EXCEPT ![s] = lines[s]]

\* _process_session_file
ProcessSession(s) ==
  /\ IF s \in DOMAIN tracked
       THEN /\ tracked' = Put(tracked, s, lines[s])
            /\ newMessages' = newMessages \o Unread(s)
            /\ UNCHANGED followed
       ELSE StartTracking(s) /\ UNCHANGED newMessages
  /\ dirty' = (dirty \/ tracked' # tracked)
  /\ UNCHANGED lost

\* The parser raises: the offset has moved, the messages never came to be.
SessionFails(s) ==
  /\ s \in DOMAIN tracked
  /\ tracked' = Put(tracked, s, lines[s])
  /\ lost' = lost \cup Values(Unread(s))
  /\ UNCHANGED <<newMessages, dirty, followed>>

\* TranscriptReader.clear_session for every session of S.
ClearSessions(S) == tracked' = Without(tracked, S)

\* reconcile: sessions whose window is gone or has another session now.
SessionsToRemove(old, current) ==
  {old[w] : w \in {v \in DOMAIN old : Get(current, v, old) # old[v]}}

\* The process ends, with disk' as its file: what waited is lost if the file
\* has its line behind the offset, what was handed over comes again if not.
Forget ==
  /\ pc' = "down"
  /\ tracked' = <<>>
  /\ eventsOffset' = Beginning
  /\ dirty' = FALSE
  /\ lastMap' = <<>>
  /\ fallbackDone' = FALSE
  /\ todo' = {}
  /\ newEvents' = <<>>
  /\ newMessages' = <<>>
  /\ lost' = lost \cup
       {m \in Values(newMessages) : Covers(disk'.tracked, m[1], m[2])}
  /\ again' = again \cup
       {m \in exposed : /\ m[2] \in delivered[m[1]]
                       /\ ~Covers(disk'.tracked, m[1], m[2])}
  /\ exposed' = {}
  /\ UNCHANGED <<files, handled, delivered, followed>>

-----------------------------------------------------------------------------
Init ==
  /\ sessionMap \in PartialFunctions(Window, Session)
  /\ lines = [s \in Session |-> 0]
  /\ eventLog = 0
  /\ writing = FALSE
  /\ bound \in SUBSET Session
  /\ tracked = <<>>
  /\ eventsOffset = Beginning
  /\ dirty = FALSE
  /\ disk = [tracked |-> <<>>, eventsOffset |-> Beginning]
  /\ lastMap = <<>>
  /\ fallbackDone = FALSE
  /\ pc = "down"
  /\ todo = {}
  /\ newEvents = <<>>
  /\ newMessages = <<>>
  /\ handled = {}
  /\ missed = {}
  /\ delivered = [s \in Session |-> {}]
  /\ followed = [s \in Session |-> 0]
  /\ lost = {}
  /\ exposed = {}
  /\ again = {}

(* The world outside the loop.                                             *)

\* An agent appends a line to the transcript of its session.
AppendLine(s) ==
  /\ lines[s] < MaxLines
  /\ lines' = [lines EXCEPT ![s] = @ + 1]
  /\ UNCHANGED <<sessionMap, eventLog, writing, bound, offsets, lastMap,
                 fallbackDone, pc, todo, newEvents, newMessages, history>>

\* A hook appends an event to events.jsonl, at once or in two writes (the text
\* is flushed in pieces, after the lock is given back, and readers take none).
WriteEvent ==
  /\ eventLog < MaxEvents
  /\ \/ eventLog' = eventLog + 1 /\ writing' = FALSE
     \/ ~writing /\ writing' = TRUE /\ UNCHANGED eventLog
  /\ UNCHANGED <<sessionMap, lines, bound, offsets, lastMap, fallbackDone, pc,
                 todo, newEvents, newMessages, history>>

\* The SessionStart hook: the agent in w now runs s (a new session, or one
\* resumed, whatever window it ran in before).
SessionStart(w, s) ==
  /\ sessionMap' = Put(sessionMap, w, s)
  /\ UNCHANGED <<lines, eventLog, writing, bound, offsets, lastMap,
                 fallbackDone, pc, todo, newEvents, newMessages, history>>

\* session_map_sync removes the entry of a window.
RemoveEntry(w) ==
  /\ sessionMap' = Without(sessionMap, {w})
  /\ UNCHANGED <<lines, eventLog, writing, bound, offsets, lastMap,
                 fallbackDone, pc, todo, newEvents, newMessages, history>>

\* A created window gets its session id (a probe of /status, a session creation
\* handler), or leaves window_store with it.
LinkOrUnlink(s) ==
  /\ bound' = IF s \in bound THEN bound \ {s} ELSE bound \cup {s}
  /\ UNCHANGED <<sessionMap, lines, eventLog, writing, offsets, lastMap,
                 fallbackDone, pc, todo, newEvents, newMessages, history>>

\* _on_terminal_status: the window whose record had "former", or nothing, gets s.
Relinked(former, s) == (bound \ {former}) \cup {s}

\* _check_terminal_statuses, before the sessions of a pass: the prompt that a
\* window shows tells a session id.
CheckTerminalStatuses(s) ==
  /\ pc = "check"
  /\ \E former \in Session : bound' = Relinked(former, s)
  /\ UNCHANGED <<sessionMap, lines, eventLog, writing, offsets, lastMap,
                 fallbackDone, pc, todo, newEvents, newMessages, history>>

(* Starting and ending.                                                    *)

\* SessionMonitor(): load the saved offsets; start().
Start ==
  /\ pc = "down"
  /\ pc' = "cleanup"
  /\ tracked' = disk.tracked
  /\ eventsOffset' = disk.eventsOffset
  /\ UNCHANGED <<files, dirty, disk, lastMap, fallbackDone, todo, newEvents,
                 newMessages, history>>

\* The process dies.
Crash ==
  /\ pc # "down"
  /\ UNCHANGED <<disk, missed>>
  /\ Forget

\* stop(): the task is cancelled where it waits and the offsets are saved, if
\* the file can be written.
Stop ==
  /\ pc # "down"
  /\ \/ disk' = [tracked |-> tracked, eventsOffset |-> eventsOffset]
     \/ UNCHANGED disk
  /\ missed' = missed \cup Values(newEvents)
  /\ Forget

\* _cleanup_all_stale_sessions: tracked sessions the map does not have.
CleanupStale ==
  LET stale == DOMAIN tracked \ Values(sessionMap)
  IN  /\ pc = "cleanup"
      /\ pc' = "initialize"
      /\ ClearSessions(stale)
      /\ SaveIfDirty(tracked', eventsOffset, stale # {})
      /\ UNCHANGED <<files, eventsOffset, lastMap, fallbackDone, todo,
                     newEvents, newMessages, handled, missed, delivered,
                     followed, lost, again>>

\* SessionLifecycle.initialize with the map as it is now.
Initialize ==
  /\ pc = "initialize"
  /\ pc' = "hooks"
  /\ lastMap' = sessionMap
  /\ UNCHANGED <<files, offsets, fallbackDone, todo, newEvents, newMessages,
                 history>>

(* One pass of the loop.                                                   *)

\* _read_hook_events: the offset moves before the events are handed over.  The
\* reading gets to the end of the file, into a line that is half written, or
\* fails after some line.  Lines of other windows may have come ("others").
ReadHookEvents ==
  /\ pc = "hooks"
  /\ pc' = "dispatch"
  /\ \/ /\ newEvents' = EventsRead(eventLog)
        /\ eventsOffset' = [line |-> eventLog, inside |-> writing]
        /\ missed' = missed \cup (IF writing THEN {eventLog + 1} ELSE {})
     \/ \E last \in Entered(eventsOffset)..eventLog :
          /\ newEvents' = EventsRead(last)
          /\ eventsOffset' = [line |-> last, inside |-> FALSE]
          /\ UNCHANGED missed
     \/ newEvents' = <<>> /\ UNCHANGED <<eventsOffset, missed>>
  /\ \E others \in BOOLEAN :
       dirty' = (dirty \/ eventsOffset' # eventsOffset \/ others)
  /\ UNCHANGED <<files, tracked, disk, lastMap, fallbackDone, todo,
                 newMessages, handled, delivered, followed, lost, exposed,
                 again>>

\* The hook callback takes one event, or fails on it.
DispatchHookEvent ==
  /\ pc = "dispatch"
  /\ newEvents # <<>>
  /\ handled' = handled \cup {Head(newEvents)}
  /\ missed' = missed \ {Head(newEvents)}
  /\ newEvents' = Tail(newEvents)
  /\ UNCHANGED <<files, offsets, lastMap, fallbackDone, pc, todo, newMessages,
                 delivered, followed, lost, exposed, again>>

\* _detect_and_cleanup_changes: compare the map with the last one, stop
\* tracking the sessions that went, and save if there were any.
Reconcile ==
  LET gone  == SessionsToRemove(lastMap, sessionMap)
      stale == dirty \/ gone \cap DOMAIN tracked # {}
  IN  /\ pc = "dispatch"
      /\ newEvents = <<>>
      /\ pc' = "check"
      /\ lastMap' = sessionMap
      /\ ClearSessions(gone)
      /\ IF gone # {} THEN SaveIfDirty(tracked', eventsOffset, stale)
                      ELSE UNCHANGED <<disk, dirty, exposed>>
      /\ todo' = Polled
      /\ UNCHANGED <<files, eventsOffset, fallbackDone, newEvents, newMessages,
                     handled, missed, delivered, followed, lost, again>>

\* One session of check_for_updates.  With an empty map a tracked session no
\* window holds is dropped.
CheckSession(s) ==
  /\ pc = "check"
  /\ s \in todo
  /\ todo' = todo \ {s}
  /\ \/ /\ DOMAIN lastMap # {} \/ s \in bound
        /\ ProcessSession(s) \/ SessionFails(s)
     \/ /\ DOMAIN lastMap = {}
        /\ s \notin bound
        /\ ClearSessions({s})
        /\ dirty' = TRUE
        /\ UNCHANGED <<newMessages, followed, lost>>
  /\ UNCHANGED <<files, eventsOffset, disk, lastMap, fallbackDone, pc,
                 newEvents, handled, missed, delivered, exposed, again>>

\* With an empty map the sessions of created windows not yet visited come next.
FindMissing ==
  /\ pc = "check"
  /\ todo = {}
  /\ pc' = "missing"
  /\ todo' = IF DOMAIN lastMap = {} THEN bound \ DOMAIN tracked ELSE {}
  /\ UNCHANGED <<files, offsets, lastMap, fallbackDone, newEvents, newMessages,
                 history>>

\* One of them, if a window still holds it.
CheckMissing(s) ==
  /\ pc = "missing"
  /\ s \in todo
  /\ todo' = todo \ {s}
  /\ IF s \in bound THEN ProcessSession(s)
                    ELSE UNCHANGED <<tracked, newMessages, dirty, followed, lost>>
  /\ UNCHANGED <<files, eventsOffset, disk, lastMap, fallbackDone, pc,
                 newEvents, handled, missed, delivered, exposed, again>>

\* save_if_dirty, then the choice of what is still read after it: the one
\* fallback scan of an empty map (every session found for a created window)
\* and the discovery of sessions by a provider.
Save ==
  /\ pc = "missing"
  /\ todo = {}
  /\ pc' = "late"
  /\ SaveIfDirty(tracked, eventsOffset, dirty)
  /\ \E found \in SUBSET (Session \ bound) :
       \/ /\ DOMAIN lastMap = {}
          /\ ~fallbackDone
          /\ fallbackDone' = TRUE
          /\ todo' = bound \cup found
       \/ /\ DOMAIN lastMap # {} \/ fallbackDone \/ bound = {}
          /\ todo' = found
          /\ UNCHANGED fallbackDone
  /\ UNCHANGED <<files, tracked, eventsOffset, lastMap, newEvents,
                 newMessages, handled, missed, delivered, followed, lost, again>>

\* _link_window_for_session_info: a session nobody has goes to the one window of
\* its directory that has none.
LinkWindow(s) == bound' = bound \cup {s}

\* One session found after the save: its window gets the id, and it is read.
CheckLate(s) ==
  /\ pc = "late"
  /\ s \in todo
  /\ todo' = todo \ {s}
  /\ LinkWindow(s)
  /\ ProcessSession(s) \/ SessionFails(s)
  /\ exposed' = exposed \cup (Values(newMessages') \ Values(newMessages))
  /\ UNCHANGED <<sessionMap, lines, eventLog, writing, eventsOffset, disk,
                 lastMap, fallbackDone, pc, newEvents, handled, missed, delivered,
                 again>>

\* tmux cannot be asked or a scan raises, before, between or after the sessions:
\* the pass is abandoned with the messages it had collected.
PassFails ==
  /\ \/ pc = "check"
     \/ pc \in {"missing", "late"} /\ todo # {}
  /\ pc' = "hooks"
  /\ todo' = {}
  /\ newMessages' = <<>>
  /\ lost' = lost \cup Values(newMessages)
  /\ exposed' = exposed \ Values(newMessages)
  /\ UNCHANGED <<files, offsets, lastMap, fallbackDone, newEvents, handled,
                 missed, delivered, followed, again>>

\* The message callback takes the next message, or fails on it.
Deliver ==
  /\ pc = "late"
  /\ todo = {}
  /\ newMessages # <<>>
  /\ LET s == Head(newMessages)[1]
         n == Head(newMessages)[2]
     IN  delivered' = [delivered EXCEPT ![s] = @ \cup {n}]
  /\ newMessages' = Tail(newMessages)
  /\ lost' = lost \ {Head(newMessages)}
  /\ again' = again \ {Head(newMessages)}
  /\ UNCHANGED <<files, offsets, lastMap, fallbackDone, pc, todo, newEvents,
                 handled, missed, followed, exposed>>

\* sleep(poll_interval)
EndPass ==
  /\ pc = "late"
  /\ todo = {}
  /\ newMessages = <<>>
  /\ pc' = "hooks"
  /\ UNCHANGED <<files, offsets, lastMap, fallbackDone, todo, newEvents,
                 newMessages, history>>

-----------------------------------------------------------------------------
Pass ==
  \/ CleanupStale \/ Initialize
  \/ ReadHookEvents \/ DispatchHookEvent
  \/ Reconcile
  \/ \E s \in Session : CheckSession(s) \/ CheckMissing(s) \/ CheckLate(s)
  \/ FindMissing \/ Save \/ PassFails
  \/ Deliver \/ EndPass

World ==
  \/ \E s \in Session : AppendLine(s) \/ LinkOrUnlink(s) \/ CheckTerminalStatuses(s)
  \/ WriteEvent
  \/ \E w \in Window : RemoveEntry(w) \/ \E s \in Session : SessionStart(w, s)

Next == Pass \/ World \/ Start \/ Crash \/ Stop

Spec == Init /\ [][Next]_vars

\* asyncio always runs the loop's task again, and a pass does not always fail
\* before it comes to a session (the loop backs off and tries again).
FairSpec ==
  /\ Spec
  /\ WF_vars(Pass)
  /\ \A s \in Session : SF_vars(CheckSession(s))

-----------------------------------------------------------------------------
(* Properties.                                                             *)

\* Offsets f pass over no line after the one from which its session is
\* followed, unless it was handed over, waits in the batch, or was lost.
SkipsNone(f) ==
  \A s \in DOMAIN f : \A n \in (followed[s] + 1)..f[s] :
    n \in delivered[s] \/ <<s, n>> \in Values(newMessages) \cup lost

\* A line that the offset has passed, in memory or in monitor_state.json, was
\* handed over, is in the batch of the pass, or was lost in one of three ways:
\* the parser raised on it, its pass was abandoned after reading it, or the
\* process ended after saving its offset and before handing it over.  Nothing
\* else loses a line, over any number of passes, removals and restarts.
NothingSkipped == SkipsNone(tracked) /\ SkipsNone(disk.tracked)

\* What waits to be handed over is newer than anything handed over before, in
\* this or an earlier process, and in transcript order: a crash makes no
\* message come twice.  The exception, line by line and for one repetition: it
\* was handed over while the save had failed, or read after the save of its pass
\* (fallback scan, discovery), and the process ended before a later save.
NothingRepeated ==
  \A i \in DOMAIN newMessages :
    LET s == newMessages[i][1]
        n == newMessages[i][2]
    IN  /\ \A m \in delivered[s] : <<s, m>> \notin again => m < n
        /\ \A j \in 1..(i - 1) : newMessages[j][1] = s => newMessages[j][2] < n

\* The offset in monitor_state.json has passed or entered the line of no hook
\* event of the monitor's windows that the callback has not seen, unless the line
\* was met half written or a stop() cut the dispatch short: a crash between the
\* reading, the dispatch and the save loses no event.
NoEventSkipped ==
  1..Entered(disk.eventsOffset) \subseteq handled \cup missed

\* ReconcileResult.sessions_to_remove (docstring): sessions "no longer in
\* session_map".  So reconciling never stops following a session that the map
\* it just read still has.
RemovedSessionsAreGone ==
  [][pc = "dispatch" /\ pc' = "check" =>
       \A s \in DOMAIN tracked \ DOMAIN tracked' : s \notin Values(lastMap')]_vars

\* While the loop keeps running and session_map keeps the session, each of its
\* lines is handed over, or was there when the session was first met, or is lost
\* as NothingSkipped says: none stays unread for ever.
LinesArrive ==
  \A s \in Session : \A n \in Line :
    <>[](pc # "down" /\ s \in Values(sessionMap)) =>
      [](n <= lines[s] => <>(\/ n \in delivered[s]
                                  \/ n <= followed[s]
                                  \/ <<s, n>> \in lost))
=============================================================================
