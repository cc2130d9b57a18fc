--------------------------- MODULE FeishuConnection ---------------------------
(***************************************************************************)
(* The receiving side of a Feishu app (channels/feishu/ws_client.py): one  *)
(* task that connects, receives and reconnects, and the ids of the events  *)
(* it has seen, in memory and in seen_events.json.                         *)
(*                                                                         *)
(* Frames are never acknowledged, so the service may deliver an event as   *)
(* often as it likes, on any connection and in any life of the process.    *)
(* An id stands for the event id and the message id: the two sets are      *)
(* looked up and saved one after the other.  Pings and the coding of       *)
(* frames are left out.                                                    *)
(***************************************************************************)
EXTENDS Naturals, FiniteSets

CONSTANTS
  MaxMessages,  \* bound: messages users write
  MaxEnds,      \* bound: ends of the process
  MaxLosses     \* bound: connections that fail, and saves that fail

ASSUME ConnectionAssumption ==
  MaxMessages \in Nat /\ MaxEnds \in Nat /\ MaxLosses \in Nat

VARIABLES
  client,       \* where start() is: connecting, receiving, sleeping; or dead, off
  seen,         \* _seen_messages (with _seen_events)
  seenFile      \* seen_events.json

\* What happened, for the properties only.
VARIABLES
  handled,      \* how often each message got past the check for duplicates
  owed,         \* ids the file lacks because the last save failed
  forgotten,    \* owed when a process ended, or in a file cut by its end
  ends,
  losses

connection == <<client, seen, seenFile, handled, owed, forgotten, ends, losses>>

Id == 1..MaxMessages
Torn == [torn |-> TRUE]      \* the file was cut while it was written
Ids(s) == [ids |-> s]

ConnectionTypeOK ==
  /\ client \in {"connecting", "receiving", "sleeping", "dead", "off"}
  /\ seen \subseteq Id /\ owed \subseteq seen /\ forgotten \subseteq Id
  /\ seenFile \in {Torn} \cup {Ids(s) : s \in SUBSET Id}
  /\ handled \in [Id -> Nat]
  /\ ends \in 0..MaxEnds /\ losses \in 0..MaxLosses

ConnectionInit ==
  /\ client = "connecting"
  /\ seen = {} /\ seenFile = Ids({})
  /\ handled = [e \in Id |-> 0] /\ owed = {} /\ forgotten = {}
  /\ ends = 0 /\ losses = 0

-----------------------------------------------------------------------------
(* The connection.  No other state changes.                                *)

GetsConnected ==
  /\ client = "connecting"
  /\ client' = "receiving"
  /\ UNCHANGED <<seen, seenFile, handled, owed, forgotten, ends, losses>>

\* The connection cannot be made, or ends, with an error that start() expects
\* (then it sleeps), that it does not expect (the task ends), or with no error
\* (it connects again at once).
Fails ==
  /\ losses < MaxLosses
  /\ \/ client = "connecting" /\ client' \in {"sleeping", "dead"}
     \/ client = "receiving" /\ client' \in {"sleeping", "connecting"}
  /\ losses' = losses + 1
  /\ UNCHANGED <<seen, seenFile, handled, owed, forgotten, ends>>

WakesUp ==
  /\ client = "sleeping"
  /\ client' = "connecting"
  /\ UNCHANGED <<seen, seenFile, handled, owed, forgotten, ends, losses>>

-----------------------------------------------------------------------------
(* Events.                                                                 *)

\* The service delivers messages in the order they were written, and any of
\* those it delivered before once more.
Deliverable(e) ==
  /\ client = "receiving"
  /\ e \in Id
  /\ \A d \in 1..(e - 1) : handled[d] > 0

\* Mutant: the file is written before the id is noted.
RememberLate(e) ==
  /\ e \notin seen
  /\ seen' = seen \cup {e}
  /\ \/ seenFile' = Ids(seen) /\ owed' = {} /\ UNCHANGED losses
     \/ /\ losses < MaxLosses /\ losses' = losses + 1
        /\ seenFile' \in {seenFile, Torn} /\ owed' = seen'

\* Skip what was seen; note the id and save them all.  A save that fails is
\* only logged, and may leave half a file.
Remember(e) ==
  /\ e \notin seen
  /\ seen' = seen \cup {e}
  /\ \/ seenFile' = Ids(seen') /\ owed' = {} /\ UNCHANGED losses
     \/ /\ losses < MaxLosses /\ losses' = losses + 1
        /\ seenFile' \in {seenFile, Torn} /\ owed' = seen'

\* An event that goes on: to the handler, or to be dropped because its user is
\* not allowed.
Arrives(e) ==
  /\ Deliverable(e)
  /\ Remember(e)
  /\ handled' = [handled EXCEPT ![e] = @ + 1]
  /\ UNCHANGED <<client, forgotten, ends>>

-----------------------------------------------------------------------------
(* The process.                                                            *)

\* What _load_seen_state reads; a file that does not parse counts as empty.
Saved == IF seenFile = Torn THEN {} ELSE seenFile.ids

\* The process ends, perhaps in the middle of writing the file.
ProcessEnds ==
  /\ client # "off"
  /\ ends < MaxEnds /\ ends' = ends + 1
  /\ client' = "off"
  /\ \/ UNCHANGED seenFile /\ forgotten' = forgotten \cup owed
     \/ /\ client = "receiving"
        /\ seenFile' = Torn /\ forgotten' = forgotten \cup seen
  /\ seen' = {} /\ owed' = {}
  /\ UNCHANGED <<handled, losses>>

\* _load_seen_state, when the module is imported; then start().
ProcessStarts ==
  /\ client = "off"
  /\ client' = "connecting"
  /\ seen' = Saved
  /\ UNCHANGED <<seenFile, handled, owed, forgotten, ends, losses>>

\* A message is handled once, whatever the service delivers
\* again, over all connections and lives of the process (_dispatch_event,
\* _save_seen_state); except after a save that failed or was cut short.
HandledOnce == \A e \in Id : handled[e] > 1 => e \in forgotten
=============================================================================
