----------------------------- MODULE FeishuChannel -----------------------------
(***************************************************************************)
(* Chats of a Feishu app: the handler of inbound messages with its wizard  *)
(* for new sessions (handlers/message.py, handlers/session_creation.py),   *)
(* and the cards that show the agents' output (cards/, state.py).          *)
(*                                                                         *)
(* Two tasks interleave at every await: the receive loop of                *)
(* FeishuConnection, which awaits the handler of one message at a time,    *)
(* and the gateway's monitor, which awaits the callback of one batch of    *)
(* output at a time.  The gateway is modelled by what these calls do:      *)
(* bindings are saved some time after they were made, a window is          *)
(* forgotten before its kill is awaited, and tmux may refuse to kill it.   *)
(* Its events carry one message each; the handler takes any list of them,  *)
(* and so does the model.  Left out: the directory browser's listings, the *)
(* windows' records (Gateway), which only have more windows killed, and    *)
(* finalize_active_thinking_card, which acts on thinking messages that are *)
(* not complete; every reader in the tree makes complete ones.             *)
(***************************************************************************)
EXTENDS FeishuConnection, Dictionaries, Sequences

CONSTANTS
  User, Channel,
  Window,       \* tmux window ids
  NoWindow,     \* the empty id that a failed creation returns
  MaxBatches    \* bound: batches of output

ASSUME ChannelAssumption == MaxBatches \in Nat /\ NoWindow \notin Window

VARIABLES
  wizard,       \* _sessions: user -> phase of the session creation
  bound,        \* the channel router's bindings
  saved,        \* those in state.json
  live,         \* windows tmux has
  chat,         \* _verbose_states: channel -> streaming state
  dropped,      \* the state the callback of a batch holds, after a reset dropped it
  inbound,      \* what the handler of a message is awaiting
  outbound      \* what the callback of a batch is awaiting

\* What happened, for the properties only.
VARIABLES
  used,         \* windows made so far
  killing,      \* windows a kill thread was started for
  refused,      \* windows that tmux was asked to kill and did not
  stray,        \* windows a failed creation left open, or the process had made or
                \* forgotten and neither bound on disk nor killed when it ended
  turn,         \* turns and fresh starts of each channel
  shown,        \* cards sent so far: for each, the turns in which it got output
  raced,        \* cards overtaken by a turn: see CardSent and NextPart
  batches

agents == <<bound, saved, live, used, killing, refused, stray>>
screens == <<chat, dropped, outbound, turn, shown, raced, batches>>
vars == <<connection, wizard, inbound, agents, screens>>

-----------------------------------------------------------------------------
Phase == {"browse", "provider", "mode"}
Kind == {"text", "thinking"}
Batch == {<<"text">>, <<"thinking">>, <<"thinking", "text">>, <<"thinking", "thinking">>}
NoCard == 0
Idle == [op |-> "idle"]

\* VerboseChannelState; birth names the object: callbacks keep a reference.
Blank(birth) == [text |-> NoCard, thinking |-> NoCard, birth |-> birth]
NewChat(c) == Blank(turn[c])

IsInbound(d) ==
  d = Idle \/ /\ d.op \in {"kill", "new", "create", "made", "answer"}
              /\ d.user \in User /\ d.channel \in Channel
              /\ d.op \in {"kill", "made"} => d.window \in used \cup {NoWindow}

IsOutbound(d) ==
  d = Idle \/ /\ d.op \in {"send", "patch"}
              /\ d.channel \in Channel
              /\ d.todo \in Batch
              /\ d.op = "patch" => d.card \in DOMAIN shown

TypeOK ==
  /\ ConnectionTypeOK
  /\ wizard \in PartialFunctions(User, Phase)
  /\ DOMAIN bound \cup DOMAIN saved \subseteq Channel
  /\ Values(bound) \cup Values(saved) \subseteq used \cup {NoWindow}
  /\ live \subseteq used /\ used \subseteq Window
  /\ killing \subseteq used /\ refused \subseteq used /\ stray \subseteq used
  /\ DOMAIN chat \subseteq Channel
  /\ \A s \in Values(chat) \cup {dropped}, k \in Kind :
       s[k] # NoCard => s[k] \in DOMAIN shown
  /\ IsInbound(inbound) /\ IsOutbound(outbound)

Init ==
  /\ ConnectionInit
  /\ wizard = <<>> /\ inbound = Idle
  /\ bound = <<>> /\ saved = <<>>
  /\ live = {} /\ used = {} /\ killing = {} /\ refused = {} /\ stray = {}
  /\ chat = <<>> /\ dropped = Blank(0) /\ outbound = Idle
  /\ turn = [c \in Channel |-> 0]
  /\ shown = <<>> /\ raced = {}
  /\ batches = 0

-----------------------------------------------------------------------------
(* The gateway, as the handlers use it.                                    *)

\* gateway.kill_window, up to its await: the window is forgotten ...
KillWindow(w) == bound' = Without(bound, KeysOf(bound, w))

\* ... and after it: the window is gone, or tmux refused, which nobody is told.
TmuxKills(w) ==
  \/ live' = live \ {w} /\ UNCHANGED refused
  \/ w \in live /\ refused' = refused \cup {w} /\ UNCHANGED live

\* Mutant: the former window of the channel is left alone.
BindsOver(c, w) ==
  /\ bound' = Put(Without(bound, KeysOf(bound, w)), c, w)
  /\ UNCHANGED killing

\* channel_router.bind of a window no other channel has: the channel's former
\* window is killed by a thread.
Binds(c, w) ==
  /\ bound' = Put(Without(bound, KeysOf(bound, w)), c, w)
  /\ killing' = killing \cup ({Get(bound, c, w)} \ {w, NoWindow})

Unused == Window \ used

-----------------------------------------------------------------------------
(* Streaming state (state.py).                                             *)

\* Mutant: a new turn keeps the card of the text.
SameCards(c) ==
  [Get(chat, c, NewChat(c)) EXCEPT !.thinking = NoCard]

\* What advance_turn_index leaves: both cards forgotten, the object kept.
NextCards(c) ==
  [Get(chat, c, NewChat(c)) EXCEPT !.text = NoCard, !.thinking = NoCard]

\* get_verbose_state
Created(ch, c) == Put(ch, c, Get(ch, c, NewChat(c)))

AdvanceTurn(c) ==
  /\ chat' = Put(chat, c, NextCards(c))
  /\ turn' = [turn EXCEPT ![c] = @ + 1]
  /\ UNCHANGED <<dropped, outbound, shown, raced, batches>>

\* The channel still has the state that the callback of a batch holds.
Attached ==
  outbound.channel \in DOMAIN chat /\ chat[outbound.channel].birth = outbound.birth
Held == IF Attached THEN chat[outbound.channel] ELSE dropped

\* reset_channel_state: the next use makes a new object.
ResetChat(c) ==
  /\ chat' = Without(chat, {c})
  /\ dropped' = IF outbound # Idle /\ outbound.channel = c THEN Held ELSE dropped
  /\ turn' = [turn EXCEPT ![c] = @ + 1]
  /\ UNCHANGED <<outbound, shown, raced, batches>>

-----------------------------------------------------------------------------
(* Inbound messages.                                                       *)

Awaiting(op, u, c) == [op |-> op, user |-> u, channel |-> c]
AwaitingKill(u, c, w, then) ==
  [op |-> "kill", user |-> u, channel |-> c, window |-> w, then |-> then]

\* Mutant: the state of a finished wizard is kept.
LeavesAsDone(u) == wizard' = Put(wizard, u, "done")

\* _clear_state
Leaves(u) == wizard' = Without(wizard, {u})

Enters(u, phase) == wizard' = Put(wizard, u, phase)

\* #new: leave the wizard, kill the channel's window.
HashNew(u, c) ==
  /\ Leaves(u)
  /\ IF c \in DOMAIN bound
       THEN KillWindow(bound[c]) /\ inbound' = AwaitingKill(u, c, bound[c], "new")
       ELSE inbound' = Awaiting("new", u, c) /\ UNCHANGED bound
  /\ UNCHANGED <<saved, live, used, killing, refused, stray, screens>>

\* The kill of #new or of #session close returned.
KillReturns ==
  /\ inbound.op = "kill"
  /\ TmuxKills(inbound.window)
  /\ inbound' = IF inbound.then = "new" THEN Awaiting("new", inbound.user, inbound.channel)
                ELSE Idle
  /\ UNCHANGED <<connection, wizard, bound, saved, used, killing, stray, screens>>

\* ... after the kill and the warnings: a fresh chat, and the wizard, unless the
\* channel was bound meanwhile.
NewStarts ==
  /\ inbound.op = "new"
  /\ ResetChat(inbound.channel)
  /\ IF inbound.channel \in DOMAIN bound
       THEN UNCHANGED wizard
       ELSE Enters(inbound.user, "browse")
  /\ inbound' = Idle
  /\ UNCHANGED <<connection, agents>>

\* A step of the wizard that only changes the phase; anything it does not
\* understand leaves it where it is.
WizardMoves(u, c) ==
  /\ u \in DOMAIN wizard
  /\ \/ /\ wizard[u] = "browse"
        /\ Enters(u, "provider") \/ Leaves(u)
     \/ /\ wizard[u] = "provider"
        /\ Enters(u, "browse") \/ Enters(u, "mode")
     \/ /\ wizard[u] = "mode"
        /\ Enters(u, "provider") \/ Leaves(u)
     \/ UNCHANGED wizard
  /\ UNCHANGED <<inbound, agents, screens>>

\* A shell is chosen as provider, or a mode: _create_window, for the channel of
\* this message.
WizardCreates(u, c) ==
  /\ u \in DOMAIN wizard /\ wizard[u] \in {"provider", "mode"}
  /\ inbound' = Awaiting("create", u, c)
  /\ UNCHANGED <<wizard, agents, screens>>

\* #session close, of any window
SessionClose(u, c, w) ==
  /\ KillWindow(w)
  /\ inbound' = AwaitingKill(u, c, w, "close")
  /\ UNCHANGED <<wizard, saved, live, used, killing, refused, stray, screens>>

\* #status, #help, #screenshot, #session list, a text for a channel that has no
\* window, a user who is not allowed: at most an answer.  #verbose sets in the
\* chat's state how much of the thinking is shown.
AnswerOnly(c) ==
  /\ chat' = chat \/ chat' = Created(chat, c)
  /\ UNCHANGED <<wizard, inbound, agents, dropped, outbound, turn, shown, raced, batches>>

\* A command; #new is taken also from a user in the wizard.
HashCommand(u, c) ==
  \/ HashNew(u, c)
  \/ /\ u \notin DOMAIN wizard
     /\ AnswerOnly(c) \/ \E w \in live : SessionClose(u, c, w)

\* Text for the agent of the channel starts a turn.
Forward(u, c) ==
  /\ u \notin DOMAIN wizard
  /\ c \in DOMAIN bound
  /\ AdvanceTurn(c)
  /\ UNCHANGED <<wizard, inbound, agents>>

HandleMessage(e) ==
  /\ inbound = Idle
  /\ Arrives(e)
  /\ \E u \in User, c \in Channel :
       HashCommand(u, c) \/ WizardMoves(u, c) \/ WizardCreates(u, c) \/ Forward(u, c)

\* An answer that cannot be sent ends the handler where it stands.
AnswerFails ==
  /\ inbound.op \in {"new", "answer"}
  /\ inbound' = Idle
  /\ UNCHANGED <<connection, wizard, agents, screens>>

\* tmux made the window, or failed, which create_window does not tell; the window
\* may be open all the same.
CreateReturns ==
  /\ inbound.op = "create"
  /\ \E w \in Unused \cup {NoWindow}, opened \in SUBSET Unused :
       /\ opened = {w} \/ (w = NoWindow /\ Cardinality(opened) < 2)
       /\ used' = used \cup opened /\ live' = live \cup opened
       /\ stray' = stray \cup (opened \ {w})
       /\ inbound' = [op |-> "made", user |-> inbound.user,
                      channel |-> inbound.channel, window |-> w]
  /\ UNCHANGED <<connection, wizard, bound, saved, killing, refused, screens>>

\* create_window raised: the phase stays.
CreateRaises ==
  /\ inbound.op = "create"
  /\ inbound' = Idle
  /\ UNCHANGED <<connection, wizard, agents, screens>>

\* ... then bind and record; wait for the session id, then for the answer.
CreateBinds ==
  /\ inbound.op = "made"
  /\ Binds(inbound.channel, inbound.window)
  /\ inbound' = Awaiting("answer", inbound.user, inbound.channel)
  /\ UNCHANGED <<connection, wizard, saved, live, used, refused, stray, screens>>

\* ... then leave the wizard, and forward what came with #new.
CreateEnds ==
  /\ inbound.op = "answer"
  /\ Leaves(inbound.user)
  /\ inbound' = Idle
  /\ UNCHANGED <<connection, agents, screens>>

-----------------------------------------------------------------------------
(* Outbound messages.                                                      *)

\* The call that shows the first part of todo, with the cards in state s: patch the
\* card of its kind if there is one, send a card otherwise.
Showing(c, todo, s) ==
  [op      |-> IF s[Head(todo)] = NoCard THEN "send" ELSE "patch",
   channel |-> c, todo |-> todo, card |-> s[Head(todo)],
   birth   |-> s.birth, turn |-> turn[c]]

\* A batch of the channel's window: thinking first, the rest as one text.
Dispatch(c, todo) ==
  /\ client # "off" /\ outbound = Idle
  /\ batches < MaxBatches /\ batches' = batches + 1
  /\ c \in DOMAIN bound /\ bound[c] \in live
  /\ chat' = Created(chat, c)
  /\ outbound' = Showing(c, todo, chat'[c])
  /\ UNCHANGED <<connection, wizard, inbound, agents, dropped, turn, shown, raced>>

\* The call returned, ch are the chat states and s is the one that was used: go on
\* with the next part.  All the thinking of a batch goes through one streamer, which
\* keeps its state over a reset: a card it then goes on with is overtaken.
NextPart(ch, s, late) ==
  LET c == outbound.channel  rest == Tail(outbound.todo)
      overtaken == IF Attached \/ s.thinking = NoCard THEN {} ELSE {s.thinking}
  IN  IF rest # <<>> /\ Head(rest) = "thinking"
        THEN /\ chat' = ch /\ outbound' = Showing(c, rest, s)
             /\ dropped' = IF Attached THEN dropped ELSE s
             /\ raced' = raced \cup late \cup overtaken
        ELSE /\ IF rest = <<>>
                  THEN chat' = ch /\ outbound' = Idle
                  ELSE chat' = Created(ch, c) /\ outbound' = Showing(c, rest, Created(ch, c)[c])
             /\ dropped' = Blank(0)
             /\ raced' = raced \cup late

\* The id of a sent card goes into the state taken before the await, which a reset
\* may have dropped.
Noted(k) == [Held EXCEPT ![Head(outbound.todo)] = k]

\* A card is overtaken if its channel's turn advances while it is being sent, and
\* the channel has it all the same.
CardSent ==
  /\ outbound.op = "send"
  /\ LET k == Len(shown) + 1
     IN  /\ shown' = Append(shown, {outbound.turn})
         /\ NextPart(IF Attached THEN [chat EXCEPT ![outbound.channel] = Noted(k)] ELSE chat,
                     Noted(k),
                     IF Attached /\ turn[outbound.channel] # outbound.turn THEN {k} ELSE {})
  /\ UNCHANGED <<connection, wizard, inbound, agents, turn, batches>>

CardPatched ==
  /\ outbound.op = "patch"
  /\ shown' = [shown EXCEPT ![outbound.card] = @ \cup {outbound.turn}]
  /\ NextPart(chat, Held, {})
  /\ UNCHANGED <<connection, wizard, inbound, agents, turn, batches>>

\* A thinking card that cannot be patched is replaced by a new one; any other
\* failure loses the part.
ShowFails ==
  /\ outbound # Idle
  /\ IF outbound.op = "patch" /\ Head(outbound.todo) = "thinking"
       THEN outbound' = [outbound EXCEPT !.op = "send"] /\ UNCHANGED <<chat, dropped, raced>>
       ELSE NextPart(chat, Held, {})
  /\ UNCHANGED <<connection, wizard, inbound, agents, turn, shown, batches>>

-----------------------------------------------------------------------------
(* The rest of the system.                                                 *)

Connection ==
  /\ inbound = Idle
  /\ GetsConnected \/ Fails \/ WakesUp
  /\ UNCHANGED <<wizard, inbound, agents, screens>>

\* The WebSocket API makes a session for the channel.
BindElsewhere(c) ==
  /\ client # "off"
  /\ \E w \in Unused :
       /\ used' = used \cup {w} /\ live' = live \cup {w}
       /\ Binds(c, w)
  /\ UNCHANGED <<connection, wizard, saved, inbound, refused, stray, screens>>

\* The timer of the last change; a save that fails changes nothing.
Save ==
  /\ client # "off" /\ saved # bound
  /\ saved' = bound
  /\ UNCHANGED <<connection, wizard, inbound, bound, live, used, killing, refused, stray, screens>>

KillThread(w) ==
  /\ w \in killing /\ client # "off"
  /\ TmuxKills(w) /\ killing' = killing \ {w}
  /\ UNCHANGED <<connection, wizard, inbound, bound, saved, used, stray, screens>>

WindowExits(w) ==
  /\ w \in live
  /\ live' = live \ {w}
  /\ UNCHANGED <<connection, wizard, inbound, bound, saved, used, killing, refused, stray, screens>>

\* The windows the process is killing, has just made, or has bound in memory only.
AtRisk ==
  killing \cup (Values(bound) \ Values(saved))
    \cup IF inbound.op \in {"kill", "made"} THEN {inbound.window} ELSE {}

\* Of the bindings there are those on disk left.
End ==
  /\ ProcessEnds
  /\ stray' = stray \cup (AtRisk \ {NoWindow})
  /\ bound' = saved /\ killing' = {}
  /\ wizard' = <<>> /\ chat' = <<>> /\ dropped' = Blank(0)
  /\ inbound' = Idle /\ outbound' = Idle
  /\ UNCHANGED <<saved, live, used, refused, turn, shown, raced, batches>>

\* Startup drops the bindings of windows tmux does not have.
Start ==
  /\ ProcessStarts
  /\ bound' = Without(bound, {c \in DOMAIN bound : bound[c] \notin live})
  /\ UNCHANGED <<wizard, inbound, saved, live, used, killing, refused, stray, screens>>

Next ==
  \/ \E e \in Id : HandleMessage(e)
  \/ KillReturns \/ NewStarts \/ AnswerFails
  \/ CreateReturns \/ CreateRaises \/ CreateBinds \/ CreateEnds
  \/ \E c \in Channel, todo \in Batch : Dispatch(c, todo)
  \/ CardSent \/ CardPatched \/ ShowFails
  \/ Connection
  \/ \E c \in Channel : BindElsewhere(c)
  \/ \E w \in Window : KillThread(w) \/ WindowExits(w)
  \/ Save \/ End \/ Start

Spec == Init /\ [][Next]_vars

-----------------------------------------------------------------------------
(* Properties.                                                             *)

\* Every running window a chat was given is the one its channel is bound to, or is
\* about to be bound, or is being killed, however creations, closes, the API and kill
\* threads interleave (_create_window, _handle_hash_new, bind).  What goes on unseen
\* besides is a window tmux refused to kill, one that a failed creation left open, and
\* one the process had not bound on disk, or was still killing, when it ended.
NoSessionUnseen ==
  \A w \in live :
    \/ w \in Values(bound)
    \/ inbound.op \in {"kill", "made"} /\ inbound.window = w
    \/ w \in killing \cup refused \cup stray

\* "One streaming card per channel per agent turn": a card never gets output in two
\* turns (advance_turn_index, reset_channel_state, _flush), unless a turn overtook it:
\* its id came back after the turn had advanced, or a batch whose chat was reset went
\* on with it.
OneTurnPerCard ==
  \A k \in DOMAIN shown : Cardinality(shown[k]) > 1 => k \in raced

\* Constraint of the run.  What output is shown with depends neither on connections,
\* nor on the file and on windows that are lost, and the end of the process empties it:
\* these are not combined with output, and failed connections not with the latter.
Apart ==
  /\ losses + ends > 0 \/ saved # <<>> \/ refused \cup stray # {} => batches = 0
  /\ losses > 0 => saved = <<>> /\ refused \cup stray = {}
=============================================================================
