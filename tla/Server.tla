-------------------------------- MODULE Server --------------------------------
(***************************************************************************)
(* The WebSocket server: the connections of each channel                   *)
(* (server/connection_manager.py), the endpoint of each connection         *)
(* (server/routes/ws.py), and the callbacks that broadcast the gateway's   *)
(* events (server/app.py).                                                 *)
(*                                                                         *)
(* The manager's lock is never held over an await, so its operations are   *)
(* atomic; the sends of a broadcast are made outside it, one await each,   *)
(* to a list taken before.  The endpoint of a connection handles one       *)
(* message at a time and learns of a lost connection only when it waits    *)
(* for the next.  Messages that only ask or pass input on are one action;  *)
(* a window has one channel (ChannelRouter).                               *)
(***************************************************************************)
EXTENDS Dictionaries, Naturals, FiniteSets

CONSTANTS
  Conn,       \* WebSocket connections, each used once
  Channel,
  All,        \* the url without a channel
  MaxEvents   \* bound: events of the gateway

ASSUME ServerAssumption == All \notin Channel /\ MaxEvents \in Nat

VARIABLES
  conn,       \* new, open, lost (the peer is gone), ended (the endpoint returned)
  url,        \* the channel a connection asked for
  task,       \* what the endpoint of a connection is awaiting
  subs,       \* _subscriptions: channel -> connections
  global,     \* _global
  session,    \* channels that have a window
  cast        \* the broadcast in progress

\* What happened, for the properties only.
VARIABLES
  due,        \* connections the event in progress is for
  served,     \* connections it was sent to
  left,       \* connections that unsubscribed since it came
  events

manager == <<subs, global>>
hearing == <<cast, due, served, events>>
vars == <<conn, url, task, manager, session, hearing, left>>

-----------------------------------------------------------------------------
Idle == [op |-> "idle"]
Quiet == [stage |-> "quiet"]
Casting == [stage : {"channel", "global"}, todo : SUBSET Conn, dead : SUBSET Conn]

TypeOK ==
  /\ conn \in [Conn -> {"new", "open", "lost", "ended"}]
  /\ url \in [Conn -> Channel \cup {All}]
  /\ task \in [Conn -> {Idle} \cup [op : {"create", "bound", "close"}, channel : Channel]]
  /\ \A c \in DOMAIN subs : c \in Channel /\ subs[c] \subseteq Conn /\ subs[c] # {}
  /\ global \subseteq Conn /\ session \subseteq Channel
  /\ cast \in {Quiet} \cup Casting
  /\ \A x \in Conn : task[x] # Idle => conn[x] \in {"open", "lost"}

Init ==
  /\ conn = [x \in Conn |-> "new"] /\ url = [x \in Conn |-> All]
  /\ task = [x \in Conn |-> Idle]
  /\ subs = <<>> /\ global = {} /\ session = {}
  /\ cast = Quiet /\ due = {} /\ served = {} /\ left = {}
  /\ events = 0

-----------------------------------------------------------------------------
(* ConnectionManager.                                                      *)

Subscribers(c) == Get(subs, c, {})

Subscribe(c, x) ==
  /\ subs' = Put(subs, c, Subscribers(c) \cup {x})
  /\ UNCHANGED <<global, left>>

\* Mutant: a channel nobody listens to keeps its empty set.
SubsLeft(c, x) == Put(subs, c, Subscribers(c) \ {x})

\* unsubscribe: the last one takes the channel with it.
SubsWithout(c, x) ==
  IF Subscribers(c) \subseteq {x} THEN Without(subs, {c})
                                  ELSE Put(subs, c, Subscribers(c) \ {x})

Unsubscribe(c, x) ==
  /\ subs' = SubsWithout(c, x)
  /\ left' = IF cast # Quiet /\ x \in Subscribers(c) THEN left \cup {x} ELSE left
  /\ UNCHANGED global

\* _remove_connection, _remove_connections
Remove(X) ==
  /\ subs' = [c \in {d \in DOMAIN subs : ~(subs[d] \subseteq X)} |-> subs[c] \ X]
  /\ global' = global \ X

-----------------------------------------------------------------------------
(* The endpoint of a connection (websocket_endpoint, _ws_recv_loop).       *)

Becomes(x, t) == task' = [task EXCEPT ![x] = t]

Connect(x, u) ==
  /\ conn[x] = "new"
  /\ conn' = [conn EXCEPT ![x] = "open"]
  /\ url' = [url EXCEPT ![x] = u]
  /\ IF u = All
       THEN global' = global \cup {x} /\ UNCHANGED <<subs, left>>
       ELSE Subscribe(u, x)
  /\ UNCHANGED <<task, session, hearing>>

\* A peer goes away; what it sent before is still received.
Lose(x) ==
  /\ conn[x] = "open"
  /\ conn' = [conn EXCEPT ![x] = "lost"]
  /\ UNCHANGED <<url, task, manager, session, hearing, left>>

Receives(x) == conn[x] \in {"open", "lost"} /\ task[x] = Idle

\* send_to: to a lost connection it may fail, and then removes it.
Answer(x) == UNCHANGED manager \/ (conn[x] = "lost" /\ Remove({x}))

\* A message that is answered at once.
Ask(x) ==
  /\ Receives(x)
  /\ Answer(x)
  /\ UNCHANGED <<conn, url, task, session, hearing, left>>

\* session.create: awaits the window,
Create(x, c) ==
  /\ Receives(x)
  /\ Becomes(x, [op |-> "create", channel |-> c])
  /\ UNCHANGED <<conn, url, manager, session, hearing, left>>

\* ... binds it, and awaits its new name,
CreateBinds(x) ==
  /\ task[x].op = "create"
  /\ session' = session \cup {task[x].channel}
  /\ Becomes(x, [task[x] EXCEPT !.op = "bound"])
  /\ UNCHANGED <<conn, url, manager, hearing, left>>

\* ... then subscribes, and answers.
CreateSubscribes(x) ==
  /\ task[x].op = "bound"
  /\ \/ Subscribe(task[x].channel, x)
     \/ conn[x] = "lost" /\ Remove({x}) /\ UNCHANGED left
  /\ Becomes(x, Idle)
  /\ UNCHANGED <<conn, url, session, hearing>>

\* A handler that raises: the error is the answer.
HandlerRaises(x) ==
  /\ task[x] # Idle
  /\ Answer(x)
  /\ Becomes(x, Idle)
  /\ UNCHANGED <<conn, url, session, hearing, left>>

\* session.close: awaits the kills of the channel's windows,
Close(x, c) ==
  /\ Receives(x)
  /\ session' = session \ {c}
  /\ Becomes(x, [op |-> "close", channel |-> c])
  /\ UNCHANGED <<conn, url, manager, hearing, left>>

\* ... then unsubscribes this connection, and answers.
CloseUnsubscribes(x) ==
  /\ task[x].op = "close"
  /\ \/ Unsubscribe(task[x].channel, x)
     \/ conn[x] = "lost" /\ Remove({x}) /\ UNCHANGED left
  /\ Becomes(x, Idle)
  /\ UNCHANGED <<conn, url, session, hearing>>

\* The endpoint finds the connection closed: only what the url asked for is
\* taken back.
End(x) ==
  /\ Receives(x) /\ conn[x] = "lost"
  /\ conn' = [conn EXCEPT ![x] = "ended"]
  /\ IF url[x] = All
       THEN global' = global \ {x} /\ UNCHANGED <<subs, left>>
       ELSE Unsubscribe(url[x], x)
  /\ UNCHANGED <<url, task, session, hearing>>

-----------------------------------------------------------------------------
(* Broadcasts.  The gateway awaits its callbacks, one event at a time.     *)

\* The gateway's dispatchers: they look up the channels of the window an event is
\* about, and await every callback; one that raises is passed over.
Emits == cast = Quiet /\ events < MaxEvents /\ events' = events + 1

\* _on_agent_message, _on_agent_status: first the channel's connections.
EventOfChannel(c) ==
  /\ Emits
  /\ c \in session
  /\ cast' = [stage |-> "channel", todo |-> Subscribers(c), dead |-> {}]
  /\ due' = Subscribers(c) \cup global
  /\ UNCHANGED <<conn, url, task, manager, session, served, left>>

\* _on_hook_event, _on_window_change: the global ones only.
EventForAll ==
  /\ Emits
  /\ cast' = [stage |-> "global", todo |-> global, dead |-> {}]
  /\ due' = global
  /\ UNCHANGED <<conn, url, task, manager, session, served, left>>

Sent(x) ==
  /\ conn[x] = "open" /\ served' = served \cup {x}
  /\ cast' = [cast EXCEPT !.todo = @ \ {x}]

\* Mutant: the first failure ends the broadcast.
SendStops(x) ==
  /\ conn[x] \in {"lost", "ended"} /\ UNCHANGED served
  /\ cast' = [cast EXCEPT !.todo = {}, !.dead = @ \cup {x}]

\* A send to a connection whose peer is gone may fail or go nowhere.
SendFails(x) ==
  /\ conn[x] \in {"lost", "ended"} /\ UNCHANGED served
  /\ cast' \in {[cast EXCEPT !.todo = @ \ {x}],
                [cast EXCEPT !.todo = @ \ {x}, !.dead = @ \cup {x}]}

\* _send_to_all: the connections of the list, one await each.
Send(x) ==
  /\ cast # Quiet /\ x \in cast.todo
  /\ Sent(x) \/ SendFails(x)
  /\ UNCHANGED <<conn, url, task, manager, session, due, left, events>>

\* ... then those that failed are removed, and the global ones get their turn.
SentToAll ==
  /\ cast # Quiet /\ cast.todo = {}
  /\ Remove(cast.dead)
  /\ IF cast.stage = "channel"
       THEN /\ cast' = [stage |-> "global", todo |-> global', dead |-> {}]
            /\ UNCHANGED <<due, served, left>>
       ELSE cast' = Quiet /\ due' = {} /\ served' = {} /\ left' = {}
  /\ UNCHANGED <<conn, url, task, session, events>>

Next ==
  \/ \E x \in Conn :
       \/ \E u \in Channel \cup {All} : Connect(x, u)
       \/ Lose(x) \/ End(x) \/ Ask(x) \/ HandlerRaises(x)
       \/ \E c \in Channel : Create(x, c) \/ Close(x, c)
       \/ CreateBinds(x) \/ CreateSubscribes(x) \/ CloseUnsubscribes(x)
       \/ Send(x)
  \/ \E c \in Channel : EventOfChannel(c)
  \/ EventForAll \/ SentToAll

Spec == Init /\ [][Next]_vars

-----------------------------------------------------------------------------
(* Properties.                                                             *)

\* When the broadcast of an event is over, every connection that listened when
\* it came has it, whatever other connections did to the subscriptions and
\* however many sends failed meanwhile (broadcast_to_channel, _send_to_all);
\* except one that is lost or took its own subscription back.
EveryListenerServed ==
  cast.stage = "global" /\ cast.todo = {} =>
    \A x \in due : x \in served \/ x \in left \/ conn[x] # "open"
=============================================================================
