---------------------------- MODULE ChannelRouter ----------------------------
(***************************************************************************)
(* The channel <-> window registry (core/channel_router.py), with the two  *)
(* things its operations change outside their own dictionaries: the set of *)
(* created-window markers of window_store and the daemon threads that kill *)
(* tmux windows.                                                           *)
(*                                                                         *)
(* The lists of _reverse are sets here: their order is only the order of   *)
(* loading, and only resolve_channel_for_window looks at it.               *)
(***************************************************************************)
EXTENDS Dictionaries

CONSTANTS
  Channel,      \* channel ids, e.g. "feishu:chat:thread"
  Window,       \* tmux window ids; tmux never gives one out twice
  Name,         \* display names
  NoName        \* the empty display_name argument

ASSUME NoNameAssumption == NoName \notin Name

VARIABLES
  bindings,      \* _bindings: channel -> window
  reverse,       \* _reverse: window -> channels listed under it
  displayNames,  \* _display_names: window -> name
  channelMeta,   \* keys of _channel_meta (channels whose user_id is stored)
  created,       \* window_store._created_windows
  kills,         \* windows with a _sync_kill thread not yet run
  tmux,          \* state of each window id in the tmux server
  unsaved        \* _schedule_save was called since the last write

vars == <<bindings, reverse, displayNames, channelMeta, created, kills, tmux, unsaved>>

WindowStatus == {"unborn", "live", "gone"}

TypeOK ==
  /\ bindings \in PartialFunctions(Channel, Window)
  /\ reverse \in PartialFunctions(Window, (SUBSET Channel) \ {{}})
  /\ displayNames \in PartialFunctions(Window, Name)
  /\ channelMeta \subseteq Channel
  /\ created \subseteq Window
  /\ kills \subseteq Window
  /\ tmux \in [Window -> WindowStatus]
  /\ unsaved \in BOOLEAN

-----------------------------------------------------------------------------
(* Lookups and the steps the operations share.                             *)

\* _rebuild_reverse_index
IndexOf(b) == [w \in Values(b) |-> KeysOf(b, w)]

ResolveChannels(w) == Get(reverse, w, {})

IsWindowBound(w) == ResolveChannels(w) # {}

\* Mutants: the key of an emptied list is kept; nothing is removed.
UnlistKeepingKeys(index, S) ==
  [w \in DOMAIN index |-> index[w] \ {c \in S : bindings[c] = w}]
UnlistNothing(index, S) == index

\* _remove_from_reverse for every channel of S, each from the window it is
\* bound to: a list that becomes empty loses its key.
Unlist(index, S) ==
  LET Left(w) == index[w] \ {c \in S : bindings[c] = w}
  IN  [w \in {v \in DOMAIN index : Left(v) # {}} |-> Left(w)]

\* Mutants: nobody is evicted; the loop stops after the first channel.
StaleNobody(index, w, c) == {}
StaleFirst(index, w, c) ==
  LET all == Get(index, w, {}) \ {c}
  IN  IF all = {} THEN {} ELSE {CHOOSE d \in all : TRUE}

\* The channels bind evicts from w in favour of c.
StaleChannels(index, w, c) == Get(index, w, {}) \ {c}

\* Mutant: the metadata of the channels stays.
ForgetBindings(S) == bindings' = Without(bindings, S) /\ UNCHANGED channelMeta

\* The channels of S lose their binding and their metadata.
ForgetChannels(S) ==
  /\ bindings' = Without(bindings, S)
  /\ channelMeta' = channelMeta \ S

\* Mutant: the kill thread is never started.
KillNothing(S) == UNCHANGED kills

\* _kill_window for every window of S.
KillWindows(S) == kills' = kills \cup S

\* Mutant: the operation forgets to save.
SaveNothing == UNCHANGED unsaved

ScheduleSave == unsaved' = TRUE

-----------------------------------------------------------------------------
(* from_dict at process start: any dictionary the file may hold.  The      *)
(* migrated thread_bindings format gives every channel a user_id and may   *)
(* bind several channels to one window, dead ones included.                *)
Init ==
  /\ bindings \in PartialFunctions(Channel, Window)
  /\ reverse = IndexOf(bindings)
  /\ channelMeta \in SUBSET DOMAIN bindings
  /\ tmux \in [Window -> WindowStatus]
  /\ \A c \in DOMAIN bindings : tmux[bindings[c]] # "unborn"
  /\ created = Values(bindings)
  /\ displayNames \in PartialFunctions(Values(bindings), Name)
  /\ kills = {}
  /\ unsaved = FALSE

(* bind: rebinding a channel to its own window changes nothing.  Otherwise *)
(* the old window goes if no other channel is left on it, then every other *)
(* channel of w is evicted; the eviction that empties w's list discards    *)
(* and kills w itself, and only then is w bound to c.                      *)
Rebind(c, w, withUser, name) ==
  LET old     == {c} \cap DOMAIN bindings
      index1  == Unlist(reverse, old)
      orphan  == {bindings[d] : d \in old} \ DOMAIN index1
      stale   == StaleChannels(index1, w, c)
      index2  == Unlist(index1, stale)
      emptied == {bindings[d] : d \in stale} \ DOMAIN index2
      discard == orphan \cup emptied
      names   == Without(displayNames, discard)
  IN  /\ bindings' = Put(Without(bindings, stale), c, w)
      /\ reverse' = Put(index2, w, {c})
      /\ channelMeta' = (channelMeta \ stale) \cup (IF withUser THEN {c} ELSE {})
      /\ displayNames' = IF name = NoName THEN names ELSE Put(names, w, name)
      /\ created' = created \ discard
      /\ KillWindows(discard)
      /\ ScheduleSave
      /\ UNCHANGED tmux

Bind(c, w, withUser, name) ==
  IF c \in DOMAIN bindings /\ bindings[c] = w
  THEN UNCHANGED vars
  ELSE Rebind(c, w, withUser, name)

(* unbind: the kill is outside the test for other channels of the window.  *)
Unbind(c) ==
  IF c \notin DOMAIN bindings
  THEN UNCHANGED vars
  ELSE LET w       == bindings[c]
           index   == Unlist(reverse, {c})
           discard == {w} \ DOMAIN index
       IN  /\ ForgetChannels({c})
           /\ reverse' = index
           /\ displayNames' = Without(displayNames, discard)
           /\ created' = created \ discard
           /\ KillWindows({w})
           /\ ScheduleSave
           /\ UNCHANGED tmux

(* unbind_window: with kill=False the caller kills the window itself.      *)
(* remove_created_window schedules the save even when nothing was bound.   *)
UnbindWindow(w, kill) ==
  /\ ForgetChannels(ResolveChannels(w))
  /\ reverse' = Without(reverse, {w})
  /\ displayNames' = Without(displayNames, {w})
  /\ created' = created \ {w}
  /\ IF kill THEN KillWindows({w}) ELSE UNCHANGED kills
  /\ ScheduleSave
  /\ UNCHANGED tmux

(* set_display_name, sync_display_names and pop_display_name: only the     *)
(* first one saves, and only when the name differs.                        *)
SetDisplayName(w, name) ==
  /\ IF w \in DOMAIN displayNames /\ displayNames[w] = name
     THEN UNCHANGED <<displayNames, unsaved>>
     ELSE displayNames' = Put(displayNames, w, name) /\ ScheduleSave
  /\ UNCHANGED <<bindings, reverse, channelMeta, created, kills, tmux>>

SyncDisplayNames(listed) ==
  /\ displayNames' = Merge(displayNames, listed)
  /\ UNCHANGED <<bindings, reverse, channelMeta, created, kills, tmux, unsaved>>

PopDisplayName(w) ==
  /\ displayNames' = Without(displayNames, {w})
  /\ UNCHANGED <<bindings, reverse, channelMeta, created, kills, tmux, unsaved>>

-----------------------------------------------------------------------------
(* The surroundings: tmux, window_store and the persistence timer.         *)

\* tmux_manager.create_window, then mark_window_created by the caller.
CreateWindow(w) ==
  /\ tmux[w] = "unborn"
  /\ tmux' = [tmux EXCEPT ![w] = "live"]
  /\ created' = created \cup {w}
  /\ ScheduleSave
  /\ UNCHANGED <<bindings, reverse, displayNames, channelMeta, kills>>

\* _sync_kill runs tmux_manager.kill_window, whether the window lives or not;
\* it may answer False and leave the window alive, and nobody looks at the
\* answer.
RunKill(w) ==
  /\ w \in kills
  /\ kills' = kills \ {w}
  /\ \/ tmux' = [tmux EXCEPT ![w] = "gone"]
     \/ UNCHANGED tmux
  /\ UNCHANGED <<bindings, reverse, displayNames, channelMeta, created, unsaved>>

\* The agent exits and tmux closes its window.
WindowExits(w) ==
  /\ tmux[w] = "live"
  /\ tmux' = [tmux EXCEPT ![w] = "gone"]
  /\ UNCHANGED <<bindings, reverse, displayNames, channelMeta, created, kills, unsaved>>

\* StatePersistence._do_save
Save ==
  /\ unsaved
  /\ unsaved' = FALSE
  /\ UNCHANGED <<bindings, reverse, displayNames, channelMeta, created, kills, tmux>>

\* Callers name windows tmux has created, alive or not.
Known == {w \in Window : tmux[w] # "unborn"}

LiveListings == [{w \in Window : tmux[w] = "live"} -> Name]

Next ==
  \/ \E c \in Channel, w \in Known, withUser \in BOOLEAN, name \in Name \cup {NoName} :
        Bind(c, w, withUser, name)
  \/ \E c \in Channel : Unbind(c)
  \/ \E w \in Known, kill \in BOOLEAN : UnbindWindow(w, kill)
  \/ \E w \in Known, name \in Name : SetDisplayName(w, name)
  \/ \E listed \in LiveListings : SyncDisplayNames(listed)
  \/ \E w \in DOMAIN displayNames : PopDisplayName(w)
  \/ \E w \in Window : CreateWindow(w) \/ RunKill(w) \/ WindowExits(w)
  \/ Save

Spec == Init /\ [][Next]_vars

-----------------------------------------------------------------------------
(* Properties.                                                             *)

\* The reverse index is exactly the inverse of the bindings: messages of a
\* window reach the channels bound to it and no other, and no key is left
\* behind with an empty list (bound_window_ids reads the keys).
IndexExact == reverse = IndexOf(bindings)

\* User metadata never outlives the binding it was stored with, whichever
\* operation of whichever channel ended that binding.
MetaOnlyForBound == channelMeta \subseteq DOMAIN bindings

\* A window that loses its last channel loses its created marker and its
\* display name in the same step, and a thread to kill it is started unless
\* the caller of unbind_window took the kill on itself: no operation lets go
\* of a window without somebody told to end it (whether tmux does is another
\* matter).
OrphanIsDiscarded ==
  [][\A w \in Window :
       IsWindowBound(w) /\ ~IsWindowBound(w)' =>
         /\ w \notin created'
         /\ w \notin DOMAIN displayNames'
         /\ w \in kills' \/ UnbindWindow(w, FALSE)]_vars

\* Every change of a binding, of metadata or of a created marker has a save
\* scheduled behind it, so only a crash within the debounce can lose it.  Of
\* the display names, which to_dict writes too, that holds for every change
\* but those of sync_display_names and pop_display_name: they schedule
\* nothing, against session.py:304.
BindingChangesAreSaved ==
  [][\/ bindings' # bindings \/ channelMeta' # channelMeta \/ created' # created
     \/ /\ displayNames' # displayNames
        /\ ~\E listed \in LiveListings : SyncDisplayNames(listed)
        /\ ~\E w \in Window : PopDisplayName(w)
     => unsaved']_vars

\* Windows that start with one channel each stay that way: no sequence of
\* calls makes two channels share a window (bind: "1 window = 1 primary
\* channel").
OneToOne == \A c, d \in DOMAIN bindings : bindings[c] = bindings[d] => c = d

SharingNeverArises == [][OneToOne => OneToOne']_vars

\* The registry implements the abstract routing table: a call moves only
\* the channels it names and those holding the window it names.
Routed == INSTANCE Routing WITH owner <- bindings

RoutingSpec == Routed!Spec

\* What the comments of bind and unbind say of a window they kill: it is
\* "now orphaned" and "no longer managed by any channel".
KilledIsUnmanaged ==
  [][\A w \in kills' \ kills : ~IsWindowBound(w)']_vars
=============================================================================
