------------------------------- MODULE AgentPane -------------------------------
(***************************************************************************)
(* The keys that go to one agent's tmux window, and who sends them:        *)
(*   - texts, by TmuxManager.send_keys with its vim detection and the      *)
(*     window's lock (tmux/tmux_manager.py), for the API and the channels; *)
(*   - the session-id probe, which answers the trust prompt, opens /status *)
(*     and reads the id from the screen (core/session_monitor.py);         *)
(*   - raw texts, single keys and the person at the terminal.              *)
(* Only the first take the lock.  Every key and every capture is awaited   *)
(* in a thread, so anything may happen between two of them; tmux may not   *)
(* take a key, and who sent it is not always told.  The probe is that of   *)
(* an agent other than codex, whose screen is only read.                   *)
(*                                                                         *)
(* The agent's screen, its vim mode and its input line are external: what  *)
(* the code expects of them, and no more.  A text with its Enter in one    *)
(* call is one step; a text is typed as one or two pieces.                 *)
(***************************************************************************)
EXTENDS Naturals, Sequences, SequencesExt

CONSTANTS
  Call,       \* texts to send, one call each
  Bang,       \* the ones that start with "!" and go on
  Prober,     \* tasks that ask for the window's session id
  Monitor,    \* the ones that are the monitor's loop
  None,       \* no holder, no id
  MaxOthers,  \* bound: raw texts, keys and changes made by others
  MaxFaults   \* bound: failed captures and sends, and slow screens

\* What is typed besides the texts: single keys, a raw text, a text without its last
\* character, the command of the probe.
Key == {"!", "i", "1", "raw", "cut", "/status"}

ASSUME PaneAssumption ==
  /\ Bang \subseteq Call /\ Monitor \subseteq Prober
  /\ None \notin Call \cup Prober
  /\ Call \cap Key = {}
  /\ MaxOthers \in Nat /\ MaxFaults \in Nat

VARIABLES
  ui,         \* what the agent shows
  vim,        \* its vim mode
  line,       \* what stands in its input line
  submitted,  \* the lines it was given
  cache,      \* _vim_state of the window
  lock,       \* holder of its _vim_locks entry
  call,       \* how far each text is
  probing,    \* holder of its _session_id_probe_locks entry
  probe,      \* how far each probe is
  found,      \* the id each probe read
  known       \* session_id of the window's record

\* What happened, for the properties only, and the bounds' counters.
VARIABLES
  clean,      \* texts whose turn nobody and nothing disturbed so far
  alone,      \* every probe so far found the line empty and was not disturbed,
              \* nor without a key that it needs
  others,
  faults

screen == <<ui, vim, line, submitted>>
sending == <<cache, lock, call>>
asking == <<probing, probe, found, known>>
counters == <<others, faults>>
history == <<clean, alone>>
vars == <<screen, sending, asking, history, counters>>

-----------------------------------------------------------------------------
Pieces(c) == IF c \in Bang THEN <<"!", c>> ELSE <<c>>

Id == {"agents", "other"}   \* the agent's session id; another word the pattern takes

Turn == {"check", "probe", "look", "erase", "type", "rest", "enter"}
Asking == {"wait", "accept", "settle", "clear", "ask", "open", "read",
           "escape", "escape2", "clear2", "store"}

TypeOK ==
  /\ ui \in {"trust", "input", "status"}
  /\ vim \in {"off", "insert", "normal"}
  /\ line \in Seq(Call \cup Key)
  /\ cache \in {"unknown", "on", "off"}
  /\ call \in [Call -> Turn \cup {"idle", "sent", "failed"}]
  /\ lock \in Call \cup {None}
  /\ \A c \in Call : call[c] \in Turn <=> lock = c
  /\ probe \in [Prober -> Asking \cup {"idle", "over"}]
  /\ probing \in Prober \cup {None}
  /\ \A p \in Prober : probe[p] \in Asking <=> probing = p
  /\ found \in [Prober -> Id \cup {None}] /\ known \in Id \cup {None}
  /\ clean \subseteq Call /\ alone \in BOOLEAN

Init ==
  /\ ui \in {"trust", "input"} /\ vim \in {"off", "insert", "normal"}
  /\ line = <<>> /\ submitted = {}
  /\ cache = "unknown" /\ lock = None /\ call = [c \in Call |-> "idle"]
  /\ probing = None /\ probe = [p \in Prober |-> "idle"]
  /\ found = [p \in Prober |-> None] /\ known = None
  /\ clean = {} /\ alone = TRUE /\ others = 0 /\ faults = 0

-----------------------------------------------------------------------------
(* The agent's terminal.                                                   *)

\* The trust prompt takes "1"; a status view takes no text; in vim's NORMAL
\* mode "i" starts INSERT and a text is taken for commands.
Typed(t) ==
  /\ ui' = IF ui = "trust" /\ t = "1" THEN "input" ELSE ui
  /\ vim' = IF ui = "input" /\ vim = "normal" /\ t = "i" THEN "insert" ELSE vim
  /\ line' = IF ui = "input" /\ vim # "normal" THEN Append(line, t) ELSE line
  /\ UNCHANGED submitted

\* Enter takes what is offered, or hands the line over.
EnterPressed ==
  /\ ui' = CASE ui = "trust" -> "input"
             [] ui = "input" /\ line = <<"/status">> -> "status"
             [] OTHER -> ui
  /\ line' = IF ui = "input" THEN <<>> ELSE line
  /\ submitted' = IF ui = "input" /\ line \notin {<<>>, <<"/status">>}
                    THEN submitted \cup {line} ELSE submitted
  /\ UNCHANGED vim

EscapePressed ==
  /\ ui' = IF ui = "status" THEN "input" ELSE ui
  /\ vim' = IF ui = "input" /\ vim = "insert" THEN "normal" ELSE vim
  /\ UNCHANGED <<line, submitted>>

LineCleared ==
  /\ line' = IF ui = "input" /\ vim # "normal" THEN <<>> ELSE line
  /\ UNCHANGED <<ui, vim, submitted>>

\* One character less: of a text, the last of it.
BackspacePressed ==
  /\ line' = IF ui # "input" \/ vim = "normal" \/ line = <<>> THEN line
             ELSE IF Last(line) \in {"i", "!", "1"} THEN Front(line)
             ELSE Append(Front(line), "cut")
  /\ UNCHANGED <<ui, vim, submitted>>

\* What the code sees of it: has_insert_indicator,
ShowsInsert == ui = "input" /\ vim = "insert"

\* _is_claude_trust_workspace_prompt: the prompt has the focus.
ShowsTrust == ui = "trust"

Fault == faults < MaxFaults /\ faults' = faults + 1

\* tmux did not take a key.
KeyLost == UNCHANGED screen /\ Fault

\* Keys of others disturb the text whose turn it is, and the probe.
DisturbsText == clean' = clean \ {lock}
DisturbsProbe == alone' = (alone /\ probing = None)

-----------------------------------------------------------------------------
(* Sending a text: send_to_window, send_keys, _send_literal_then_enter.    *)

At(c, pc) == call[c] = pc
Goes(c, pc) == call' = [call EXCEPT ![c] = pc]
KeysSent == DisturbsProbe /\ UNCHANGED <<cache, lock, asking, clean, counters>>

\* Mutant: the text is typed without waiting for the lock.
AnyTime == TRUE

LockFree == lock = None

\* The window is there; the lock is taken.
TakeLock(c) ==
  /\ At(c, "idle") /\ LockFree
  /\ lock' = c
  /\ Goes(c, "check")
  /\ clean' = IF ui = "input" /\ line = <<>> THEN clean \cup {c} ELSE clean
  /\ UNCHANGED <<screen, cache, asking, alone, counters>>

\* The window is gone, or tmux cannot be asked: the caller is told.
NotFound(c) ==
  /\ At(c, "idle") /\ Fault
  /\ Goes(c, "failed")
  /\ UNCHANGED <<screen, cache, lock, asking, history, others>>

\* _ensure_vim_insert_mode.  A window known to be without vim is not looked at
\* (what the cache says may be old); the line is spoilt if it is in NORMAL mode.
SkipCheck(c) ==
  /\ At(c, "check") /\ cache = "off"
  /\ Goes(c, "type")
  /\ clean' = IF vim = "normal" THEN clean \ {c} ELSE clean
  /\ UNCHANGED <<screen, cache, lock, asking, alone, counters>>

\* Nor is one whose pane cannot be captured, before the "i" or after it: what
\* then stands in the line, or the mode, stays as it is.
CaptureFails(c) ==
  /\ (At(c, "check") /\ cache # "off") \/ At(c, "look")
  /\ Fault
  /\ Goes(c, "type")
  /\ clean' = clean \ {c}
  /\ UNCHANGED <<screen, cache, lock, asking, alone, others>>

Check(c) ==
  /\ At(c, "check") /\ cache # "off"
  /\ IF ShowsInsert THEN cache' = "on" /\ Goes(c, "type")
                    ELSE Goes(c, "probe") /\ UNCHANGED cache
  /\ UNCHANGED <<screen, lock, asking, history, counters>>

\* The "i" that enters INSERT where vim is on; told it was not sent, the text goes as
\* it is.  A lost "i" spoils the text only in NORMAL mode.
TypeI(c) ==
  /\ At(c, "probe")
  /\ \/ Typed("i") /\ Goes(c, "look") /\ UNCHANGED <<clean, faults>>
     \/ KeyLost /\ (Goes(c, "look") \/ Goes(c, "type"))
        /\ clean' = IF vim = "normal" THEN clean \ {c} ELSE clean
     \/ Typed("i") /\ Fault /\ Goes(c, "type") /\ clean' = clean \ {c}
  /\ DisturbsProbe
  /\ UNCHANGED <<cache, lock, asking, others>>

\* A screen slower than _VIM_PROBE_DELAY still shows no INSERT.
Look(c) ==
  /\ At(c, "look")
  /\ \/ /\ ShowsInsert
        /\ cache' = "on" /\ Goes(c, "type")
        /\ UNCHANGED counters
     \/ /\ IF ShowsInsert THEN Fault ELSE UNCHANGED faults
        /\ cache' = "off" /\ Goes(c, "erase")
        /\ UNCHANGED others
  /\ UNCHANGED <<screen, lock, asking, history>>

\* Nobody looks whether the "i" was erased.
Erase(c) ==
  /\ At(c, "erase")
  /\ \/ BackspacePressed /\ UNCHANGED <<clean, faults>>
     \/ KeyLost /\ clean' = IF line = <<>> THEN clean ELSE clean \ {c}
  /\ Goes(c, "type")
  /\ DisturbsProbe
  /\ UNCHANGED <<cache, lock, asking, others>>

\* _send_literal_then_enter_locked: what comes after a key.
AfterKey(c) ==
  CASE At(c, "type") /\ c \in Bang -> "rest"
    [] At(c, "enter") -> "sent"
    [] OTHER -> "enter"

Type(c) ==
  /\ At(c, "type")
  /\ Typed(Head(Pieces(c)))
  /\ Goes(c, AfterKey(c))
  /\ KeysSent

Rest(c) ==
  /\ At(c, "rest")
  /\ Typed(Last(Pieces(c)))
  /\ Goes(c, AfterKey(c))
  /\ KeysSent

Enter(c) ==
  /\ At(c, "enter")
  /\ EnterPressed
  /\ Goes(c, AfterKey(c)) /\ lock' = None
  /\ DisturbsProbe
  /\ UNCHANGED <<cache, asking, clean, counters>>

\* _pane_send goes wrong: tmux did not take the key, which it does not tell of a window
\* named with its session; or it says so, where after a time-out tmux may have taken
\* it.  What was typed stays in the line.
SendFails(c) ==
  /\ call[c] \in {"type", "rest", "enter"} /\ Fault
  /\ \/ /\ UNCHANGED screen /\ Goes(c, AfterKey(c))
        /\ lock' = IF At(c, "enter") THEN None ELSE lock
     \/ /\ Goes(c, "failed") /\ lock' = None
        /\ \/ UNCHANGED screen
           \/ At(c, "type") /\ Typed(Head(Pieces(c)))
           \/ At(c, "rest") /\ Typed(Last(Pieces(c)))
           \/ At(c, "enter") /\ EnterPressed
  /\ clean' = clean \ {c} /\ DisturbsProbe
  /\ UNCHANGED <<cache, asking, others>>

Send(c) ==
  \/ TakeLock(c) \/ NotFound(c)
  \/ SkipCheck(c) \/ CaptureFails(c) \/ Check(c)
  \/ TypeI(c) \/ Look(c) \/ Erase(c)
  \/ Type(c) \/ Rest(c) \/ Enter(c) \/ SendFails(c)

-----------------------------------------------------------------------------
(* The probe: detect_session_id.                                           *)

Asks(p, pc) == probe[p] = pc
Proceeds(p, pc) == probe' = [probe EXCEPT ![p] = pc]
ProbeKeys == DisturbsText /\ UNCHANGED <<sending, probing, found, known, others>>
KeySent == UNCHANGED <<alone, faults>>
HarmlessLoss == KeyLost /\ UNCHANGED alone
ProbeReads == UNCHANGED <<screen, sending, history, counters>>

\* Under the window's probe lock: an id found meanwhile is the answer.
ProbeOrKnown(p) ==
  IF known # None
    THEN Proceeds(p, "over") /\ UNCHANGED <<probing, found>>
    ELSE probing' = p /\ Proceeds(p, "wait") /\ UNCHANGED found

StartProbe(p) ==
  /\ Asks(p, "idle") /\ probing = None
  /\ ProbeOrKnown(p)
  /\ alone' = (alone /\ line = <<>>)
  /\ UNCHANGED <<screen, sending, known, clean, counters>>

\* _wait_for_agent_pane: the trust prompt is answered for as long as it is
\* seen; once the agent runs, it is looked for once more.
WaitForAgent(p) ==
  /\ probe[p] \in {"wait", "settle"}
  /\ Proceeds(p, IF ShowsTrust THEN "accept"
              ELSE IF Asks(p, "wait") THEN "settle" ELSE "clear")
  /\ UNCHANGED <<probing, found, known>>
  /\ ProbeReads

\* Mutant: a probe that gives up keeps the window's lock.
OverLocked(p) == Proceeds(p, "over") /\ UNCHANGED probing

Over(p) == Proceeds(p, "over") /\ probing' = None

\* The agent does not come up in time, or "/status" is said not to be typed; after a
\* time-out it may be.
GiveUp(p) ==
  /\ probe[p] \in {"wait", "ask"} /\ Fault
  /\ Over(p)
  /\ \/ UNCHANGED <<screen, history>>
     \/ Asks(p, "ask") /\ Typed("/status") /\ DisturbsText /\ alone' = FALSE
  /\ UNCHANGED <<sending, found, known, others>>

\* "1" and Enter, at whatever the pane shows by now.
AnswersTrust ==
  IF ui = "trust" THEN Typed("1")
  ELSE IF ui = "input" /\ vim # "normal"
    THEN /\ submitted' = submitted \cup {Append(line, "1")}
         /\ line' = <<>> /\ UNCHANGED <<ui, vim>>
    ELSE EnterPressed

\* tmux may take both keys, one or none: the screen is looked at again.
AcceptTrust(p) ==
  /\ Asks(p, "accept")
  /\ \/ AnswersTrust /\ UNCHANGED faults
     \/ Fault /\ (UNCHANGED screen \/ Typed("1") \/ EnterPressed)
  /\ Proceeds(p, "wait")
  /\ UNCHANGED alone /\ ProbeKeys

ClearLine(p) ==
  /\ \/ Asks(p, "clear") /\ Proceeds(p, "ask")
     \/ Asks(p, "clear2") /\ Proceeds(p, "store")
  /\ (LineCleared /\ KeySent) \/ HarmlessLoss
  /\ ProbeKeys

AskStatus(p) ==
  /\ Asks(p, "ask") /\ Proceeds(p, "open")
  /\ (Typed("/status") /\ KeySent) \/ HarmlessLoss
  /\ ProbeKeys

\* Without its Enter "/status" stays in the line.
OpenStatus(p) ==
  /\ Asks(p, "open") /\ Proceeds(p, "read")
  /\ (EnterPressed /\ KeySent) \/ (KeyLost /\ alone' = (alone /\ line = <<>>))
  /\ ProbeKeys

\* The first word after "session" on the screen: the agent's id if the view is
\* open, else whatever the conversation says; or nothing, ten times.
ReadStatus(p) ==
  /\ Asks(p, "read")
  /\ \E id \in Id \cup {None} :
       /\ id = "agents" => ui = "status"
       /\ found' = [found EXCEPT ![p] = id]
  /\ Proceeds(p, "escape")
  /\ UNCHANGED <<probing, known>>
  /\ ProbeReads

\* Escape, twice: one of them closes the view.
Dismiss(p) ==
  /\ \/ Asks(p, "escape") /\ Proceeds(p, "escape2")
     \/ Asks(p, "escape2") /\ Proceeds(p, "clear2")
  /\ \/ EscapePressed /\ KeySent
     \/ KeyLost /\ alone' = (alone /\ (Asks(p, "escape") \/ ui # "status"))
  /\ ProbeKeys

\* The id is kept if the record has none by now.
StoreId(p) ==
  /\ Asks(p, "store")
  /\ known' = IF known = None THEN found[p] ELSE known
  /\ Over(p)
  /\ found' = IF p \in Monitor THEN found ELSE [found EXCEPT ![p] = None]
  /\ ProbeReads

\* detect_missing_session_ids writes what it got over what is there.
MonitorStores(p) ==
  /\ p \in Monitor /\ Asks(p, "over") /\ found[p] # None
  /\ known' = found[p]
  /\ found' = [found EXCEPT ![p] = None]
  /\ UNCHANGED <<probing, probe>>
  /\ ProbeReads

Detect(p) ==
  \/ StartProbe(p) \/ WaitForAgent(p) \/ GiveUp(p) \/ AcceptTrust(p)
  \/ ClearLine(p) \/ AskStatus(p) \/ OpenStatus(p) \/ ReadStatus(p)
  \/ Dismiss(p) \/ StoreId(p) \/ MonitorStores(p)

-----------------------------------------------------------------------------
(* Everybody else: past the lock.                                          *)

Other ==
  /\ others < MaxOthers /\ others' = others + 1
  /\ DisturbsText /\ DisturbsProbe
  /\ UNCHANGED <<sending, probing, probe, found, faults>>

\* send_keys with raw or without Enter: typed as it is.
TypeRaw == Other /\ Typed("raw") /\ UNCHANGED known

\* send_key: the API's, a channel's answer to a prompt.
PressKey ==
  /\ Other
  /\ EnterPressed \/ (ui # "trust" /\ EscapePressed) \/ LineCleared
  /\ UNCHANGED known

\* At the terminal: vim mode on or off, or INSERT again.
ChangeVim ==
  /\ Other
  /\ ui = "input"
  /\ \E v \in {"off", "insert", "normal"} \ {vim} : vim' = v
  /\ UNCHANGED <<ui, line, submitted, known>>

\* The agent's hook reports the session, through session_map.json.
HookTells ==
  /\ others < MaxOthers /\ others' = others + 1
  /\ known' = "agents" /\ known # "agents"
  /\ UNCHANGED <<screen, sending, probing, probe, found, history, faults>>

Next ==
  \/ \E c \in Call : Send(c)
  \/ \E p \in Prober : Detect(p)
  \/ TypeRaw \/ PressKey \/ ChangeVim \/ HookTells

Spec == Init /\ [][Next]_vars

-----------------------------------------------------------------------------
(* Properties.                                                             *)

\* A text whose turn began at an empty line, was not disturbed by keys sent past
\* the lock, and met no failed capture, no old entry of the cache and no loss of a
\* key it needed (any of its own, the "i" in NORMAL mode, the BSpace that has an "i"
\* to erase) is submitted exactly as it is: not with another text, not with the
\* vim detection's "i", whatever mode vim is in; and if its caller was told so, it is there.
TextsArriveWhole ==
  \A c \in clean :
    /\ At(c, "sent") => Pieces(c) \in submitted
    /\ \A l \in submitted : Contains(l, c) => l = Pieces(c)

\* As long as every probe found the line empty and was not disturbed, and tmux took
\* the Enter after its "/status" and one of its two Escapes, each left the line empty
\* and the status view closed, and neither "/status" nor the "1" for the trust prompt
\* was handed to the agent as a message: any other key may be lost.
ProbesLeaveNoTrace ==
  alone =>
    /\ \A p \in Prober : Asks(p, "store") => ui = "input" /\ line = <<>>
    /\ \A l \in submitted : ~Contains(l, "/status") /\ ~Contains(l, "1")

\* The two together: keys sent to a window by several tasks under their locks arrive
\* as meant.
KeysArriveWhole == TextsArriveWhole /\ ProbesLeaveNoTrace
=============================================================================
