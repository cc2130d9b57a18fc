------------------------------- MODULE Mailbox -------------------------------
(***************************************************************************)
(* Messages between agents in files (utils/mailbox.py): one directory for  *)
(* each window, one file for each message, and delivery files beside them. *)
(*                                                                         *)
(* Every file is replaced atomically, but nothing locks a directory: the   *)
(* processes (the command line of each agent, the gateway) read a message  *)
(* and write it back, sweep a directory, or migrate it, each step on what  *)
(* an earlier one saw.  A process may die between two steps.               *)
(* Bodies, subjects and attached files are left out.                       *)
(***************************************************************************)
EXTENDS Dictionaries, Naturals

CONSTANTS
  Window,       \* qualified window ids
  Process,      \* processes that use the mailbox
  MaxMessages,  \* bound: messages written
  MaxMoves      \* bound: migrations of a window to a new id

ASSUME MailboxAssumption == MaxMessages \in Nat /\ MaxMoves \in Nat

VARIABLES
  inbox,        \* the inboxes there are: window -> (message id -> Message)
  drop,         \* delivery files in tmp/ of each inbox
  old,          \* messages whose time to live is over
  doing         \* what each process is in the middle of

\* What happened, for the properties only.
VARIABLES
  sent,         \* messages written so far
  handled,      \* messages marked delivered, read or replied
  removed,      \* messages in an inbox that was cleared or pruned
  unreadable,   \* messages that a sweep could not read, and takes
  migrated,     \* messages in an inbox that got a new id
  overtaken,    \* those that did while an earlier migration was rewriting them
  moves         \* migrations so far

past == <<sent, handled, removed, unreadable, migrated, overtaken, moves>>
vars == <<inbox, drop, old, doing, past>>

-----------------------------------------------------------------------------
Id == 1..MaxMessages    \* ids are time stamps: a later message has a larger one
Mark == {"delivered", "read", "replied"}
Message == [from : Window, to : Window, status : Mark \cup {"pending"},
            delivered : BOOLEAN]

Idle == [op |-> "idle"]
Marking == [op : {"mark"}, w : Window, id : Id, msg : Message, mark : Mark]
Sweeping == [op : {"sweep"}, w : Window, todo : SUBSET Id, live : SUBSET Id,
             doomed : SUBSET Id]
Sending == [op : {"reply"}, w : Window, from : Window]
             \cup [op : {"broadcast"}, from : Window, to : SUBSET Window]
Moving == [op : {"move"}, w : Window, from : Window, todo : SUBSET Id]
             \cup [op : {"rewrite"}, w : Window, from : Window, todo : SUBSET Id,
                   id : Id, msg : Message]

Doing == {Idle} \cup Marking \cup Sweeping \cup Sending \cup Moving

TypeOK ==
  /\ inbox \in [DOMAIN inbox -> Values(inbox)] /\ DOMAIN inbox \subseteq Window
  /\ drop \in [DOMAIN inbox -> SUBSET (1..sent)]
  /\ \A w \in DOMAIN inbox :
       inbox[w] \in [DOMAIN inbox[w] -> Message] /\ DOMAIN inbox[w] \subseteq 1..sent
  /\ doing \in [Process -> Doing]
  /\ sent \in 0..MaxMessages /\ moves \in 0..MaxMoves
  /\ old \cup handled \cup removed \cup unreadable \cup migrated \cup overtaken \subseteq 1..sent

-----------------------------------------------------------------------------
(* Files.                                                                  *)

\* Write a message; makes the directory if it is gone.
Written(w, id, msg) == Put(inbox, w, Put(Get(inbox, w, <<>>), id, msg))

\* Mutant: the directory is made without its tmp/.
NotTouched(w) == drop
Touched(w) == Put(drop, w, Get(drop, w, {}))

Unlinked(w, ids) ==
  IF w \in DOMAIN inbox THEN [inbox EXCEPT ![w] = Without(@, ids)] ELSE inbox

\* _find_message
Found(w, id) == w \in DOMAIN inbox /\ id \in DOMAIN inbox[w]

\* Mutant: a sweep takes what it does not know to be delivered.
SweepablePending(w, id) == id \in old \/ inbox[w][id].status # "delivered"

\* Read or replied to, or out of time.
Sweepable(w, id) == id \in old \/ inbox[w][id].status \in {"read", "replied"}

\* Mutant: only the time of delivery is looked at.
OfferedAnyStatus(w, id) == Found(w, id) /\ ~inbox[w][id].delivered /\ id \notin old

\* What pending_undelivered returns, for the injection after a crash.
Offered(w, id) ==
  /\ Found(w, id)
  /\ inbox[w][id].status = "pending" /\ ~inbox[w][id].delivered
  /\ id \notin old

\* The status a message gets: delivered_at is set with "delivered" only.
Marked(msg, mark) ==
  [from |-> msg.from, to |-> msg.to, status |-> mark,
   delivered |-> (msg.delivered \/ mark = "delivered")]

Init ==
  /\ inbox = <<>> /\ drop = <<>>
  /\ old = {}
  /\ doing = [p \in Process |-> Idle]
  /\ sent = 0
  /\ handled = {} /\ removed = {} /\ unreadable = {} /\ migrated = {} /\ overtaken = {}
  /\ moves = 0

-----------------------------------------------------------------------------
Becomes(p, d) == doing' = [doing EXCEPT ![p] = d]

\* The state after one message has been written.
Post(from, to) ==
  /\ sent < MaxMessages
  /\ sent' = sent + 1
  /\ inbox' = Written(to, sent + 1,
                [from |-> from, to |-> to, status |-> "pending", delivered |-> FALSE])
  /\ drop' = Touched(to)
  /\ UNCHANGED <<old, handled, removed, unreadable, migrated, overtaken, moves>>

Send(p, from, to) ==
  /\ doing[p] = Idle
  /\ Post(from, to)
  /\ UNCHANGED doing

\* delivery_path, and the caller's write of the file.
WriteDelivery(p, w, id) ==
  /\ doing[p] = Idle
  /\ Found(w, id) /\ id \notin drop[w]
  /\ drop' = [drop EXCEPT ![w] = @ \cup {id}]
  /\ UNCHANGED <<inbox, old, doing, past>>

\* read, mark_delivered and the first half of reply: the message is read ...
Find(p, w, id, mark) ==
  /\ doing[p] = Idle
  /\ Found(w, id)
  /\ Becomes(p, [op |-> "mark", w |-> w, id |-> id, msg |-> inbox[w][id], mark |-> mark])
  /\ UNCHANGED <<inbox, drop, old, past>>

\* ... and written back with its new status, whatever the file is by then.
WriteMark(p) ==
  LET d == doing[p]
  IN  /\ d.op = "mark"
      /\ inbox' = Written(d.w, d.id, Marked(d.msg, d.mark))
      /\ drop' = Touched(d.w)
      /\ handled' = handled \cup {d.id}
      /\ Becomes(p, IF d.mark = "replied"
                    THEN [op |-> "reply", w |-> d.msg.from, from |-> d.w]
                    ELSE Idle)
      /\ UNCHANGED <<old, sent, removed, unreadable, migrated, overtaken, moves>>

\* The second half of reply.
SendReply(p) ==
  /\ doing[p].op = "reply"
  /\ Post(doing[p].from, doing[p].w)
  /\ Becomes(p, Idle)

Broadcast(p, from, to) ==
  /\ doing[p] = Idle
  /\ Becomes(p, [op |-> "broadcast", from |-> from, to |-> to])
  /\ UNCHANGED <<inbox, drop, old, past>>

\* One recipient after the other; a failed send does not stop the rest.
BroadcastOne(p, to) ==
  LET d == doing[p]
      rest == d.to \ {to}
  IN  /\ d.op = "broadcast" /\ to \in d.to
      /\ Becomes(p, IF rest = {} THEN Idle ELSE [d EXCEPT !.to = rest])
      /\ \/ Post(d.from, to)
         \/ UNCHANGED <<inbox, drop, old, past>>

-----------------------------------------------------------------------------
(* A sweep looks at the directory once, judges the files it saw one by one,*)
(* and then drops the delivery files of all messages it has not left alive.*)

SweepScan(p, w) ==
  /\ doing[p] = Idle
  /\ w \in DOMAIN inbox
  /\ Becomes(p, [op |-> "sweep", w |-> w, todo |-> DOMAIN inbox[w], live |-> {},
                 doomed |-> {}])
  /\ UNCHANGED <<inbox, drop, old, past>>

SweepRead(p, id) ==
  LET d == doing[p]
      doomed == Found(d.w, id) /\ Sweepable(d.w, id)
  IN  /\ d.op = "sweep" /\ id \in d.todo /\ d.doomed = {}
      /\ Becomes(p, [op |-> "sweep", w |-> d.w, todo |-> d.todo \ {id},
                     live |-> IF doomed THEN d.live ELSE d.live \cup {id},
                     doomed |-> IF doomed THEN {id} ELSE {}])
      /\ UNCHANGED <<inbox, drop, old, past>>

\* Any error in the reading but a missing file: the sweep takes the message.
SweepCannotRead(p, id) ==
  LET d == doing[p]
  IN  /\ d.op = "sweep" /\ id \in d.todo /\ d.doomed = {}
      /\ Found(d.w, id)
      /\ Becomes(p, [d EXCEPT !.todo = @ \ {id}, !.doomed = {id}])
      /\ unreadable' = unreadable \cup {id}
      /\ UNCHANGED <<inbox, drop, old, sent, handled, removed, migrated, overtaken, moves>>

SweepUnlink(p) ==
  LET d == doing[p]
  IN  /\ d.op = "sweep" /\ d.doomed # {}
      /\ inbox' = Unlinked(d.w, d.doomed)
      /\ Becomes(p, [d EXCEPT !.doomed = {}])
      /\ UNCHANGED <<drop, old, past>>

SweepTmp(p) ==
  LET d == doing[p]
  IN  /\ d.op = "sweep" /\ d.todo = {} /\ d.doomed = {}
      /\ drop' = IF d.w \in DOMAIN drop THEN [drop EXCEPT ![d.w] = @ \cap d.live] ELSE drop
      /\ Becomes(p, Idle)
      /\ UNCHANGED <<inbox, old, past>>

\* clear_inbox; the delivery files stay.
Clear(p, w) ==
  /\ doing[p] = Idle
  /\ w \in DOMAIN inbox
  /\ removed' = removed \cup DOMAIN inbox[w]
  /\ inbox' = [inbox EXCEPT ![w] = <<>>]
  /\ UNCHANGED <<drop, old, doing, sent, handled, unreadable, migrated, overtaken, moves>>

\* _remove_inbox_dir: the messages, the delivery files, the directory.
DirRemoved(files, w) == Without(files, {w})

\* prune_dead, for one directory: a message that comes while the files are being
\* removed either stays, as if it came later, or fails (Fail).
Prune(p, w) ==
  /\ doing[p] = Idle
  /\ w \in DOMAIN inbox
  /\ removed' = removed \cup DOMAIN inbox[w]
  /\ inbox' = DirRemoved(inbox, w) /\ drop' = DirRemoved(drop, w)
  /\ UNCHANGED <<old, doing, sent, handled, unreadable, migrated, overtaken, moves>>

-----------------------------------------------------------------------------
(* A window gets a new id: its directory is renamed, unless the new id has *)
(* one, then each message in it is read and written with the new id.       *)

\* Process q is about to write message id of directory w with the new id.
Rewrites(q, w, id) == doing[q].op = "rewrite" /\ doing[q].w = w /\ doing[q].id = id

Migrate(p, w, new) ==
  /\ doing[p] = Idle
  /\ moves < MaxMoves
  /\ w \in DOMAIN inbox /\ new \notin DOMAIN inbox
  /\ moves' = moves + 1
  /\ migrated' = migrated \cup DOMAIN inbox[w]
  /\ overtaken' = overtaken \cup {id \in DOMAIN inbox[w] : \E q \in Process : Rewrites(q, w, id)}
  /\ inbox' = Put(Without(inbox, {w}), new, inbox[w])
  /\ drop' = Put(Without(drop, {w}), new, drop[w])
  /\ Becomes(p, [op |-> "move", w |-> new, from |-> w, todo |-> DOMAIN inbox[w]])
  /\ UNCHANGED <<old, sent, handled, removed, unreadable>>

\* What a migration goes on with.
MovesOn(p, rest) ==
  Becomes(p, IF rest = {} THEN Idle
             ELSE [op |-> "move", w |-> doing[p].w, from |-> doing[p].from, todo |-> rest])

MigrateRead(p, id) ==
  LET d == doing[p]
      msg == inbox[d.w][id]
      Renamed(v) == IF v = d.from THEN d.w ELSE v
      rest == d.todo \ {id}
  IN  /\ d.op = "move" /\ id \in d.todo
      /\ IF Found(d.w, id) /\ d.from \in {msg.to, msg.from}
           THEN Becomes(p, [op |-> "rewrite", w |-> d.w, from |-> d.from, todo |-> rest,
                            id |-> id,
                            msg |-> [from |-> Renamed(msg.from), to |-> Renamed(msg.to),
                                     status |-> msg.status, delivered |-> msg.delivered]])
           ELSE MovesOn(p, rest)
      /\ UNCHANGED <<inbox, drop, old, past>>

MigrateWrite(p) ==
  LET d == doing[p]
  IN  /\ d.op = "rewrite"
      /\ inbox' = Written(d.w, d.id, d.msg)
      /\ drop' = Touched(d.w)
      /\ MovesOn(p, d.todo)
      /\ UNCHANGED <<old, past>>

\* A message that cannot be read, or cannot be written, keeps its old names.
MigrateSkips(p) ==
  LET d == doing[p]
  IN  /\ \/ d.op = "move" /\ \E id \in d.todo : MovesOn(p, d.todo \ {id})
         \/ d.op = "rewrite" /\ MovesOn(p, d.todo)
      /\ UNCHANGED <<inbox, drop, old, past>>

-----------------------------------------------------------------------------
\* A write raises (not that of a migration), or the process dies.
Fail(p) ==
  /\ doing[p] # Idle
  /\ Becomes(p, Idle)
  /\ UNCHANGED <<inbox, drop, old, past>>

Expire(id) ==
  /\ id <= sent /\ id \notin old
  /\ old' = old \cup {id}
  /\ UNCHANGED <<inbox, drop, doing, past>>

Next ==
  \/ \E p \in Process :
       \/ \E from \in Window : \E to \in Window \ {from} : Send(p, from, to)
       \/ \E from \in Window : Broadcast(p, from, Window)
       \/ \E to \in Window : BroadcastOne(p, to)
       \/ \E w \in Window, id \in Id :
            \/ WriteDelivery(p, w, id)
            \/ \E mark \in Mark : Find(p, w, id, mark)
       \/ WriteMark(p) \/ SendReply(p)
       \/ \E w \in Window : SweepScan(p, w) \/ Clear(p, w) \/ Prune(p, w)
       \/ \E id \in Id : SweepRead(p, id) \/ SweepCannotRead(p, id) \/ MigrateRead(p, id)
       \/ SweepUnlink(p) \/ SweepTmp(p)
       \/ \E w, new \in Window : Migrate(p, w, new)
       \/ MigrateWrite(p) \/ MigrateSkips(p)
       \/ Fail(p)
  \/ \E id \in Id : Expire(id)

Spec == Init /\ [][Next]_vars

-----------------------------------------------------------------------------
(* Properties.                                                             *)

\* Constraint of the run: the delivery files decide nothing else; a migration is
\* followed as long as a message it moved is unhandled, a second one while there is
\* one message, and everything as long as a message is neither out of time nor
\* removed with its inbox, and no handled one is (the later message not at all once
\* its time is over or a sweep could not read it).
Judged ==
  /\ moves < 2 \/ sent = 1
  /\ \A w \in DOMAIN drop : drop[w] = {}
  /\ moves > 0 => migrated \ (handled \cup old \cup removed) # {}
  /\ old \subseteq {1}
  /\ old \cup removed # Id
  /\ (old \cup removed) \cap handled = {}
  /\ unreadable \subseteq {1} \ (old \cup removed \cup handled)

\* A message that nobody has handled and whose time is not over is in an inbox,
\* whatever sweeps, migrations and stale writes go on (unless the inbox was cleared
\* or pruned, or a sweep could not read the message: it takes what it cannot read for
\* corrupt); and in one only, unless a migration took it from under another.
UnhandledIsKept ==
  \A id \in 1..sent :
    id \notin handled \cup old \cup removed \cup unreadable =>
      /\ \E w \in Window : Found(w, id)
      /\ id \notin overtaken => \A v, w \in Window : Found(v, id) /\ Found(w, id) => v = w

\* pending_undelivered offers for another injection only what nobody has handled,
\* although marks are written back from stale copies (a migration may undo a mark,
\* or come between the reading and the writing and leave two copies).
OfferedIsUnhandled ==
  \A w \in Window, id \in 1..sent : Offered(w, id) => id \notin handled \ migrated
=============================================================================
