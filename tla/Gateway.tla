------------------------------- MODULE Gateway -------------------------------
(***************************************************************************)
(* One gateway process over its life: the requests that create and close   *)
(* sessions (server/routes, cli/daemon.py, Feishu session creation), the   *)
(* registries they change (ChannelRouter with its created markers and kill *)
(* threads, and window_store.window_states), state.json, and the restart   *)
(* after a stop or a crash (core/gateway.py).                              *)
(*                                                                         *)
(* Requests are coroutines of one event loop: one runs until its next      *)
(* await.  turn holds the request that is between two steps with no await. *)
(* tmux commands and kill threads run beside the loop.                     *)
(***************************************************************************)
EXTENDS ChannelRouter, Naturals

CONSTANTS
  Request,     \* API calls under way at once
  Blank,       \* the window id "" that a failed tmux creation returns
  NoChannel,   \* an empty channel_id field
  NoRequest,   \* nobody holds the event loop
  MaxFailures  \* bound: creations and kills of a serving process that fail in tmux

ASSUME GatewayAssumption ==
  /\ NoChannel \notin Channel
  /\ NoRequest \notin Request
  /\ MaxFailures \in Nat
  /\ MaxFailures > 0 => Blank \in Window

VARIABLES
  windowStates,  \* window_store.window_states: window -> channel_id
  disk,          \* state.json
  process,       \* where the gateway process is
  request,       \* what each call is at
  turn,
  failures       \* those that failed

\* What happened, for the properties only.
VARIABLES
  took,          \* the windows of each close under way
  refused,       \* windows tmux was asked to kill and did not
  strays         \* windows a creation, an end or a startup let go of

registry == <<bindings, reverse, displayNames, channelMeta, created, kills>>
gatewayVars == <<windowStates, disk, process, request, turn, failures, took, refused, strays>>
allVars == <<vars, gatewayVars>>

Idle == [at |-> "idle", channel |-> NoChannel, window |-> Blank, rest |-> {}]

Stages == {"idle", "creating", "created", "bound", "closing", "killing"}

State == [bindings : PartialFunctions(Channel, Window),
          created : SUBSET Window,
          windowStates : PartialFunctions(Window, Channel \cup {NoChannel})]

GatewayTypeOK ==
  /\ TypeOK
  /\ windowStates \in PartialFunctions(Window, Channel \cup {NoChannel})
  /\ disk \in State
  /\ process \in {"down", "starting", "up"}
  /\ request \in [Request -> [at : Stages,
                              channel : Channel \cup {NoChannel},
                              window : Window \cup {Blank},
                              rest : SUBSET Window]]
  /\ turn \in Request \cup {NoRequest}
  /\ failures \in 0..MaxFailures
  /\ took \in [Request -> SUBSET Window]
  /\ refused \subseteq Window
  /\ strays \subseteq Window

-----------------------------------------------------------------------------
(* Pieces of the steps.                                                    *)

Live == {w \in Window : tmux[w] = "live"}

\* Windows a state file knows.
Recorded(state) == Values(state.bindings) \cup DOMAIN state.windowStates

\* _serialize_state
Snapshot == [bindings |-> bindings, created |-> created,
             windowStates |-> windowStates]

\* Request r runs now: the process serves, and no other request holds the loop.
Runs(r) == process = "up" /\ turn \in {r, NoRequest}

\* Mutant: the bindings stay.
ForgetMarker(w) ==
  /\ created' = created \ {w}
  /\ ScheduleSave
  /\ UNCHANGED <<bindings, reverse, displayNames, channelMeta, kills, tmux>>

\* The synchronous half of kill_window.
ForgetWindow(w) == UnbindWindow(w, FALSE)

\* Mutant: windows without a channel stay recorded.
OrphansNone == {}

\* Startup: recorded windows no channel is bound to.
Orphans == DOMAIN windowStates \ Values(bindings)

\* Mutant: they are forgotten and live on.
SpareOrphans(S) == UNCHANGED tmux

KillOrphans(S) ==
  tmux' = [w \in Window |-> IF w \in S \cap Live THEN "gone" ELSE tmux[w]]

\* The windows in the hands of calls.
InFlight == {request[r].window : r \in Request}

\* Windows no save is due for: in the hands of a call or of a kill thread, or
\* recorded by the CLI.
Unwritten ==
  InFlight \cup kills \cup {w \in DOMAIN windowStates : windowStates[w] = NoChannel}

\* What an end may cost: those windows and, when a save is due that is not
\* made, every other.
AtRisk(due) == Unwritten \cup IF due THEN Recorded(Snapshot) ELSE {}

\* The memory of the process is gone, and with it its threads.
ProcessEnds(due) ==
  /\ process' = "down"
  /\ bindings' = <<>>
  /\ reverse' = <<>>
  /\ displayNames' = <<>>
  /\ channelMeta' = {}
  /\ created' = {}
  /\ windowStates' = <<>>
  /\ kills' = {}
  /\ unsaved' = FALSE
  /\ request' = [r \in Request |-> Idle]
  /\ turn' = NoRequest
  /\ took' = [r \in Request |-> {}]
  /\ strays' = strays \cup ((AtRisk(due) \ Recorded(disk')) \cap Live)
  /\ UNCHANGED <<tmux, failures, refused>>

-----------------------------------------------------------------------------
GatewayInit ==
  /\ bindings = <<>>
  /\ reverse = <<>>
  /\ displayNames = <<>>
  /\ channelMeta = {}
  /\ created = {}
  /\ kills = {}
  /\ tmux = [w \in Window |-> IF w = Blank THEN "gone" ELSE "unborn"]
  /\ unsaved = FALSE
  /\ windowStates = <<>>
  /\ disk = Snapshot
  /\ process = "down"
  /\ request = [r \in Request |-> Idle]
  /\ turn = NoRequest
  /\ failures = 0
  /\ took = [r \in Request |-> {}]
  /\ refused = {}
  /\ strays = {}

(* Creating a session.                                                     *)

\* The call arrives and awaits tmux: for a channel, or from the CLI for none.
AskCreate(r, c) ==
  /\ Runs(r)
  /\ request[r] = Idle
  /\ request' = [request EXCEPT
                   ![r] = [at |-> "creating", channel |-> c, window |-> Blank,
                           rest |-> {}]]
  /\ UNCHANGED <<vars, windowStates, disk, process, turn, failures, took, refused, strays>>

\* The call has its window, or the empty id.
Answer(r, w) ==
  request' = [request EXCEPT
                ![r] = [at |-> "created", channel |-> @.channel, window |-> w,
                        rest |-> {}]]

\* tmux opens the window.
TmuxCreates(r, w) ==
  /\ request[r].at = "creating"
  /\ tmux[w] = "unborn"
  /\ tmux' = [tmux EXCEPT ![w] = "live"]
  /\ Answer(r, w)
  /\ UNCHANGED <<registry, unsaved, windowStates, disk, process, turn, failures,
                 took, refused, strays>>

\* It cannot, or one of the commands after new_window fails and the window
\* stays: create_window drops the success flag and hands on the empty id.
TmuxFails(r, opened) ==
  /\ request[r].at = "creating"
  /\ failures < MaxFailures
  /\ failures' = failures + 1
  /\ \A w \in opened : tmux[w] = "unborn"
  /\ tmux' = [w \in Window |-> IF w \in opened THEN "live" ELSE tmux[w]]
  /\ strays' = strays \cup opened
  /\ Answer(r, Blank)
  /\ UNCHANGED <<registry, unsaved, windowStates, disk, process, turn, took, refused>>

\* bind_channel; a REST call with a name then awaits rename_window, the others
\* go on to record the window at once.
BindCreated(r, named) ==
  /\ Runs(r)
  /\ request[r].at = "created"
  /\ request[r].channel # NoChannel
  /\ Bind(request[r].channel, request[r].window, FALSE, NoName)
  /\ request' = [request EXCEPT ![r] = [@ EXCEPT !.at = "bound"]]
  /\ turn' = IF named THEN NoRequest ELSE r
  /\ UNCHANGED <<windowStates, disk, process, failures, took, refused, strays>>

\* mark_window_created and the fields of the window's state.
RecordWindow(r) ==
  LET w == request[r].window
  IN  /\ Runs(r)
      /\ request[r].at = "bound"
      /\ created' = created \cup {w}
      /\ windowStates' = Put(windowStates, w, request[r].channel)
      /\ ScheduleSave
      /\ request' = [request EXCEPT ![r] = Idle]
      /\ turn' = NoRequest
      /\ UNCHANGED <<bindings, reverse, displayNames, channelMeta, kills, tmux,
                     disk, process, failures, took, refused, strays>>

\* The CLI's session_create binds nothing, marks nothing and saves nothing.
RecordCliWindow(r) ==
  LET w == request[r].window
  IN  /\ Runs(r)
      /\ request[r].at = "created"
      /\ request[r].channel = NoChannel
      /\ windowStates' = Put(windowStates, w, Get(windowStates, w, NoChannel))
      /\ request' = [request EXCEPT ![r] = Idle]
      /\ UNCHANGED <<vars, disk, process, turn, failures, took, refused, strays>>

(* Closing one.                                                            *)

\* The windows of channel c: the one bound, unless that is the empty id, and
\* those recorded for it.
WindowsOf(c) ==
  ({bindings[d] : d \in {c} \cap DOMAIN bindings} \ {Blank}) \cup KeysOf(windowStates, c)

\* kill_channel_windows, up to its first window.
AskClose(r, c) ==
  /\ Runs(r)
  /\ request[r] = Idle
  /\ WindowsOf(c) # {}
  /\ request' = [request EXCEPT
                   ![r] = [at |-> "closing", channel |-> c, window |-> Blank,
                           rest |-> WindowsOf(c)]]
  /\ turn' = r
  /\ took' = [took EXCEPT ![r] = WindowsOf(c)]
  /\ UNCHANGED <<vars, windowStates, disk, process, failures, refused, strays>>

\* kill_window: forget the window, then await tmux.
KillNext(r, w) ==
  /\ Runs(r)
  /\ request[r].at = "closing"
  /\ w \in request[r].rest
  /\ ForgetWindow(w)
  /\ windowStates' = Without(windowStates, {w})
  /\ request' = [request EXCEPT
                   ![r] = [at |-> "killing", channel |-> @.channel, window |-> w,
                           rest |-> @.rest \ {w}]]
  /\ turn' = NoRequest
  /\ UNCHANGED <<disk, process, failures, took, refused, strays>>

\* tmux refuses to kill w, and nobody looks at the answer.
Refuse(w) ==
  /\ w \in Live
  /\ failures < MaxFailures
  /\ failures' = failures + 1
  /\ refused' = refused \cup {w}

\* The kill ends, and the close with the last one: tmux_manager.kill_window may
\* answer False, which kill_window ignores.
TmuxKills(r) ==
  LET w == request[r].window
  IN  /\ request[r].at = "killing"
      /\ \/ tmux' = [tmux EXCEPT ![w] = "gone"] /\ UNCHANGED <<failures, refused>>
         \/ UNCHANGED tmux /\ Refuse(w)
      /\ request' = [request EXCEPT
                       ![r] = IF @.rest = {} THEN Idle
                              ELSE [@ EXCEPT !.at = "closing"]]
      /\ took' = [took EXCEPT ![r] = IF request[r].rest = {} THEN {} ELSE @]
      /\ UNCHANGED <<registry, unsaved, windowStates, disk, process, turn, strays>>

\* gateway.unbind_channel: the router's unbind, which kills in a thread.
UnbindChannel(c) ==
  /\ process = "up"
  /\ turn = NoRequest
  /\ Unbind(c)
  /\ UNCHANGED gatewayVars

(* Beside the requests.                                                    *)

KillThread(w) ==
  /\ RunKill(w)
  /\ IF tmux'[w] = "live" THEN Refuse(w) ELSE UNCHANGED <<failures, refused>>
  /\ UNCHANGED <<windowStates, disk, process, request, turn, took, strays>>

AgentExits(w) == WindowExits(w) /\ UNCHANGED gatewayVars

\* The debounce timer fires on the loop.
TimerSaves ==
  /\ turn = NoRequest
  /\ Save
  /\ disk' = Snapshot
  /\ UNCHANGED <<windowStates, process, request, turn, failures, took, refused, strays>>

(* The process ends and starts.                                            *)

Crash ==
  /\ process # "down"
  /\ UNCHANGED disk
  /\ ProcessEnds(unsaved)

\* stop(): flush_state writes if a save is due.
Stop ==
  /\ process = "up"
  /\ turn = NoRequest
  /\ disk' = IF unsaved THEN Snapshot ELSE disk
  /\ ProcessEnds(FALSE)

\* _load_state
Load ==
  /\ process = "down"
  /\ process' = "starting"
  /\ bindings' = disk.bindings
  /\ reverse' = IndexOf(disk.bindings)
  /\ created' = disk.created
  /\ windowStates' = disk.windowStates
  /\ UNCHANGED <<displayNames, channelMeta, kills, tmux, unsaved, disk, request,
                 turn, failures, took, refused, strays>>

\* _startup_cleanup with the windows tmux listed (none, when the listing
\* failed): bound windows that are not listed are dropped, the others marked
\* and recorded, and the windows recorded for no channel killed, or only
\* forgotten where the kill fails.
StartupCleanup(listed, killed) ==
  LET dead  == Values(bindings) \ listed
      kept  == {c \in DOMAIN bindings : bindings[c] \in listed}
      alive == {bindings[c] : c \in kept}
      Owner(w) == CHOOSE c \in kept : bindings[c] = w
      Record(w) == IF Get(windowStates, w, NoChannel) = NoChannel
                     THEN Owner(w) ELSE windowStates[w]
  IN  /\ process = "starting"
      /\ process' = "up"
      /\ bindings' = [c \in kept |-> bindings[c]]
      /\ reverse' = Without(reverse, dead)
      /\ displayNames' = Without(displayNames, dead)
      /\ channelMeta' = channelMeta \cap kept
      /\ windowStates' =
           [w \in alive \cup (DOMAIN windowStates \ (dead \cup Orphans)) |->
              IF w \in alive THEN Record(w) ELSE windowStates[w]]
      /\ created' = ({w \in created \cap listed : w \in DOMAIN windowStates}
                       \ Orphans) \cup alive
      /\ KillOrphans(killed)
      /\ unsaved' = (Recorded(disk) \cup created # {})
      /\ refused' = refused \cup ((Orphans \ killed) \cap Live)
      /\ strays' = strays \cup (dead \cap Live)
      /\ UNCHANGED <<kills, disk, request, turn, failures, took>>

GatewayNext ==
  \/ \E r \in Request, c \in Channel \cup {NoChannel} : AskCreate(r, c)
  \/ \E r \in Request, w \in Window : TmuxCreates(r, w) \/ KillNext(r, w)
  \/ \E r \in Request, opened \in {{}} \cup {{w} : w \in Window} : TmuxFails(r, opened)
  \/ \E r \in Request, named \in BOOLEAN : BindCreated(r, named)
  \/ \E r \in Request : RecordWindow(r) \/ RecordCliWindow(r) \/ TmuxKills(r)
  \/ \E r \in Request, c \in Channel : AskClose(r, c)
  \/ \E c \in Channel : UnbindChannel(c)
  \/ \E w \in Window : KillThread(w) \/ AgentExits(w)
  \/ TimerSaves
  \/ Crash \/ Stop \/ Load
  \/ \E listed \in {Live, {}}, killed \in SUBSET Orphans : StartupCleanup(listed, killed)

GatewaySpec == GatewayInit /\ [][GatewayNext]_allVars

-----------------------------------------------------------------------------
(* Properties.                                                             *)

\* No interleaving of creating, closing and unbinding, and no stop or crash,
\* leaves a live window that nothing in the process knows of: it is bound,
\* recorded, being killed or in the hands of a call.  But for two kinds: a
\* window whose kill tmux refused after the process had forgotten it
\* (refused); and one that was opened by a creation that then failed, was not
\* listed at a startup, or was at risk when the process ended (strays).  An end
\* puts at risk only what calls and kill threads hold, what the CLI recorded,
\* and, in a crash with a save due, what is not in the file.
NoWindowForgotten ==
  process = "up" =>
    Live \subseteq Values(bindings) \cup DOMAIN windowStates \cup kills
                     \cup InFlight \cup refused \cup strays

\* With no save due state.json holds every binding, every marker and every
\* record that names a channel, whatever the order of the calls and whichever
\* of them holds the loop.
SavedIsCurrent ==
  process = "up" /\ ~unsaved =>
    /\ disk.bindings = bindings
    /\ disk.created = created
    /\ \A w \in DOMAIN windowStates : windowStates[w] # NoChannel =>
         Get(disk.windowStates, w, NoChannel) = windowStates[w]

\* A startup that could list the windows leaves the three registries in
\* agreement with each other and with tmux, whatever a crash left in the file.
StartupReconciles ==
  [][\A killed \in SUBSET Orphans : StartupCleanup(Live, killed) =>
       /\ Values(bindings') \subseteq Live'
       /\ DOMAIN windowStates' = Values(bindings')
       /\ created' = Values(bindings')]_allVars

\* When a close has finished none of the windows it took is bound, and none
\* lives but those tmux refused to kill, although others created, closed and
\* unbound between its steps.  (A creation that had bound a window and not yet
\* recorded it may still record it afterwards, dead; the next startup drops
\* that record, see StartupReconciles.)
CloseIsFinal ==
  [][\A r \in Request : request[r].at = "killing" /\ request'[r] = Idle =>
       process' = "down"
       \/ \A w \in took[r] :
            /\ w \notin Live' \/ w \in refused'
            /\ w \notin Values(bindings') \ {Blank}]_allVars
=============================================================================
