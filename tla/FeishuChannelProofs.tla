-------------------------- MODULE FeishuChannelProofs --------------------------
(***************************************************************************)
(* Proofs about FeishuChannel and its FeishuConnection, for any users,     *)
(* channels, windows and bounds.                                           *)
(***************************************************************************)
EXTENDS FeishuChannel, FiniteSetTheorems, TLAPS

-----------------------------------------------------------------------------
(* The connection: every message once.                                     *)

\* What a running process has handled it remembers, but for what an earlier one
\* forgot; what it remembers is in the file, but for what it owes to it.  When no
\* process runs the file alone remembers.
Remembered ==
  IF client = "off" THEN seen = {} /\ \A e \in Id : handled[e] > 0 => e \in Saved \cup forgotten
  ELSE /\ seen \subseteq Saved \cup owed
       /\ \A e \in Id : handled[e] > 0 => e \in seen \cup forgotten

ConnectionInv == ConnectionTypeOK /\ Remembered /\ HandledOnce

\* What is in a whole file.
LEMMA SavedIds ==
  ASSUME ConnectionTypeOK
  PROVE  /\ Saved \subseteq Id
         /\ \A s : seenFile = Ids(s) => Saved = s
<1>1. \A s : Ids(s) # Torn
  BY DEF Ids, Torn
<1>2. \A s : Ids(s).ids = s
  BY DEF Ids
<1>. QED
  BY <1>1, <1>2 DEF ConnectionTypeOK, Saved

\* The first process starts with nothing handled.
LEMMA ConnectionInitInv == ConnectionInit => ConnectionInv
BY ConnectionAssumption DEF ConnectionInit, ConnectionInv, ConnectionTypeOK, Remembered,
                            HandledOnce, Saved, Torn, Ids

\* Noting and saving an id keeps the types and has every id in the file or owed.
LEMMA RememberSaves ==
  ASSUME ConnectionTypeOK, NEW e \in Id, Remember(e)
  PROVE  /\ seen' = seen \cup {e} /\ seen' \subseteq Saved' \cup owed'
         /\ seen' \subseteq Id /\ owed' \subseteq seen'
         /\ seenFile' \in {Torn} \cup {Ids(s) : s \in SUBSET Id}
         /\ losses' \in 0..MaxLosses
<1>1. seen' = seen \cup {e} /\ seen' \subseteq Id
  BY DEF Remember, ConnectionTypeOK
<1>2. CASE seenFile' = Ids(seen') /\ owed' = {} /\ UNCHANGED losses
  <2>1. Ids(seen') # Torn /\ Ids(seen').ids = seen'
    BY DEF Ids, Torn
  <2>2. Saved' = seen'
    BY <1>2, <2>1 DEF Saved
  <2>. QED
    BY <1>1, <1>2, <2>2 DEF ConnectionTypeOK
<1>3. CASE /\ losses < MaxLosses /\ losses' = losses + 1
           /\ seenFile' \in {seenFile, Torn} /\ owed' = seen'
  BY <1>1, <1>3, ConnectionAssumption DEF ConnectionTypeOK
<1>. QED
  BY <1>1, <1>2, <1>3 DEF Remember

\* A message that arrives was not handled before, or was forgotten.
LEMMA ArrivesOnce ==
  ASSUME ConnectionInv, NEW e \in Id, Arrives(e)
  PROVE  ConnectionInv'
<1>1. /\ client = "receiving" /\ client' = client /\ UNCHANGED <<forgotten, ends>>
      /\ e \notin seen /\ handled' = [handled EXCEPT ![e] = @ + 1]
  BY DEF Arrives, Deliverable, Remember
<1>2. ConnectionTypeOK /\ handled \in [Id -> Nat]
  BY DEF ConnectionInv, ConnectionTypeOK
<1>3. /\ seen' = seen \cup {e} /\ seen' \subseteq Saved' \cup owed'
      /\ seen' \subseteq Id /\ owed' \subseteq seen'
      /\ seenFile' \in {Torn} \cup {Ids(s) : s \in SUBSET Id}
      /\ losses' \in 0..MaxLosses
  BY <1>2, RememberSaves DEF Arrives
<1>4. handled' \in [Id -> Nat]
      /\ \A d \in Id : handled'[d] = IF d = e THEN handled[e] + 1 ELSE handled[d]
  BY <1>1, <1>2
<1>5. \A d \in Id : handled[d] > 0 => d \in seen \cup forgotten
  BY <1>1 DEF ConnectionInv, Remembered
<1>6. ConnectionTypeOK'
  BY <1>1, <1>2, <1>3, <1>4 DEF ConnectionTypeOK
<1>7. Remembered'
  BY <1>1, <1>3, <1>4, <1>5 DEF Remembered
<1>8. HandledOnce'
  <2>1. SUFFICES ASSUME NEW d \in Id, handled'[d] > 1
                 PROVE  d \in forgotten
    BY <1>1 DEF HandledOnce
  <2>2. CASE d = e
    BY <1>1, <1>2, <1>4, <1>5, <2>1, <2>2
  <2>3. CASE d # e
    BY <1>4, <2>1, <2>3 DEF ConnectionInv, HandledOnce
  <2>. QED
    BY <2>2, <2>3
<1>. QED
  BY <1>6, <1>7, <1>8 DEF ConnectionInv

\* Connecting, failing and sleeping handle nothing.
LEMMA ConnectingHandlesNothing ==
  ASSUME ConnectionInv, GetsConnected \/ Fails \/ WakesUp
  PROVE  ConnectionInv'
<1>1. /\ UNCHANGED <<seen, seenFile, handled, owed, forgotten, ends>>
      /\ client # "off" /\ client' \in {"connecting", "receiving", "sleeping", "dead"}
  BY DEF GetsConnected, Fails, WakesUp
<1>2. losses' \in 0..MaxLosses
  BY ConnectionAssumption DEF GetsConnected, Fails, WakesUp, ConnectionInv, ConnectionTypeOK
<1>3. Saved' = Saved
  BY <1>1 DEF Saved
<1>4. ConnectionTypeOK'
  BY <1>1, <1>2 DEF ConnectionInv, ConnectionTypeOK
<1>5. Remembered'
  BY <1>1, <1>3 DEF ConnectionInv, Remembered
<1>. QED
  BY <1>1, <1>4, <1>5 DEF ConnectionInv, HandledOnce

\* A process that ends leaves in the file what it handled, or it is forgotten.
LEMMA EndingHandlesNothing ==
  ASSUME ConnectionInv, ProcessEnds
  PROVE  ConnectionInv'
<1>1. /\ client # "off" /\ client' = "off" /\ seen' = {} /\ owed' = {}
      /\ UNCHANGED <<handled, losses>>
      /\ ends < MaxEnds /\ ends' = ends + 1
  BY DEF ProcessEnds
<1>2. ends' \in 0..MaxEnds
  BY <1>1, ConnectionAssumption DEF ConnectionInv, ConnectionTypeOK
<1>3. /\ forgotten \subseteq forgotten' /\ forgotten' \subseteq Id
      /\ seenFile' \in {seenFile, Torn}
      /\ seen \subseteq Saved' \cup forgotten'
  <2>1. CASE UNCHANGED seenFile /\ forgotten' = forgotten \cup owed
    BY <1>1, <2>1 DEF ConnectionInv, ConnectionTypeOK, Remembered, Saved
  <2>2. CASE seenFile' = Torn /\ forgotten' = forgotten \cup seen
    BY <2>2 DEF ConnectionInv, ConnectionTypeOK
  <2>. QED
    BY <2>1, <2>2 DEF ProcessEnds
<1>4. ConnectionTypeOK'
  BY <1>1, <1>2, <1>3 DEF ConnectionInv, ConnectionTypeOK
<1>5. Remembered'
  BY <1>1, <1>3 DEF ConnectionInv, Remembered
<1>6. HandledOnce'
  BY <1>1, <1>3 DEF ConnectionInv, HandledOnce
<1>. QED
  BY <1>4, <1>5, <1>6 DEF ConnectionInv

\* A process that starts remembers what the file has.
LEMMA StartingHandlesNothing ==
  ASSUME ConnectionInv, ProcessStarts
  PROVE  ConnectionInv'
<1>1. /\ client = "off" /\ client' = "connecting" /\ seen' = Saved
      /\ UNCHANGED <<seenFile, handled, owed, forgotten, ends, losses>>
  BY DEF ProcessStarts
<1>2. Saved' = Saved /\ Saved \subseteq Id
  BY <1>1, SavedIds DEF ConnectionInv, Saved
<1>3. ConnectionTypeOK'
  BY <1>1, <1>2 DEF ConnectionInv, ConnectionTypeOK, Remembered
<1>4. Remembered'
  BY <1>1, <1>2 DEF ConnectionInv, Remembered
<1>. QED
  BY <1>1, <1>3, <1>4 DEF ConnectionInv, HandledOnce

\* What the chats do with a step of the connection, or without one.
LEMMA ConnectionStep ==
  ASSUME [Next]_vars
  PROVE  \/ UNCHANGED connection
         \/ \E e \in Id : Arrives(e)
         \/ GetsConnected \/ Fails \/ WakesUp
         \/ ProcessEnds \/ ProcessStarts
BY DEF Next, vars, HandleMessage, KillReturns, NewStarts, AnswerFails, CreateReturns,
       CreateRaises, CreateBinds, CreateEnds, Dispatch, CardSent, CardPatched, ShowFails,
       Connection, BindElsewhere, KillThread, WindowExits, Save, End, Start

\* Every step of the chats keeps the connection's invariant.
LEMMA ConnectionPreserved ==
  ASSUME ConnectionInv, [Next]_vars
  PROVE  ConnectionInv'
<1>1. CASE UNCHANGED connection
  BY <1>1 DEF connection, ConnectionInv, ConnectionTypeOK, Remembered, HandledOnce, Saved
<1>. QED
  BY <1>1, ConnectionStep, ArrivesOnce, ConnectingHandlesNothing, EndingHandlesNothing,
     StartingHandlesNothing

-----------------------------------------------------------------------------
(* The sessions: none goes on unseen.                                      *)

\* Where the users stand in the wizard, and what the handler awaits.
HandlerOK == wizard \in PartialFunctions(User, Phase) /\ IsInbound(inbound)

\* The windows, and those a chat was given.
WindowsOK ==
  /\ DOMAIN bound \cup DOMAIN saved \subseteq Channel
  /\ Values(bound) \cup Values(saved) \subseteq used \cup {NoWindow}
  /\ live \subseteq used /\ used \subseteq Window
  /\ killing \subseteq used /\ refused \subseteq used /\ stray \subseteq used
  /\ NoSessionUnseen

AgentsInv == HandlerOK /\ WindowsOK

\* Leaving and entering the wizard.
LEMMA WizardType ==
  ASSUME wizard \in PartialFunctions(User, Phase), NEW u \in User
  PROVE  /\ <<>> \in PartialFunctions(User, Phase)
         /\ Without(wizard, {u}) \in PartialFunctions(User, Phase)
         /\ \A phase \in Phase : Put(wizard, u, phase) \in PartialFunctions(User, Phase)
<1>1. wizard \in [DOMAIN wizard -> Phase] /\ DOMAIN wizard \subseteq User
  BY DEF PartialFunctions
<1>2. \A f : f \in [DOMAIN f -> Phase] /\ DOMAIN f \subseteq User
               => f \in PartialFunctions(User, Phase)
  BY DEF PartialFunctions
<1>3. <<>> \in [{} -> Phase] /\ DOMAIN <<>> = {}
  OBVIOUS
<1>4. <<>> \in PartialFunctions(User, Phase)
  BY <1>2, <1>3
<1>5. Without(wizard, {u}) \in PartialFunctions(User, Phase)
  <2> DEFINE f == Without(wizard, {u})
  <2>1. f \in [DOMAIN f -> Phase] /\ DOMAIN f \subseteq User
    BY <1>1 DEF Without
  <2>. QED
    BY <1>2, <2>1
<1>6. ASSUME NEW phase \in Phase
      PROVE  Put(wizard, u, phase) \in PartialFunctions(User, Phase)
  <2> DEFINE f == Put(wizard, u, phase)
  <2>1. f \in [DOMAIN f -> Phase] /\ DOMAIN f \subseteq User
    BY <1>1 DEF Put
  <2>. QED
    BY <1>2, <2>1
<1>. QED
  BY <1>4, <1>5, <1>6

\* gateway.kill_window: the window is forgotten, the others are bound as before.
LEMMA ForgettingKeepsOthers ==
  ASSUME WindowsOK, NEW w, KillWindow(w),
         UNCHANGED <<saved, live, used, killing, refused, stray>>,
         inbound.op \notin {"kill", "made"},
         inbound'.op = "kill" /\ inbound'.window = w
  PROVE  WindowsOK'
<1>1. /\ DOMAIN bound' = DOMAIN bound \ KeysOf(bound, w)
      /\ \A c \in DOMAIN bound' : bound'[c] = bound[c]
  BY DEF KillWindow, Without
<1>2. ASSUME NEW v \in Values(bound), v # w
      PROVE  v \in Values(bound')
  <2>1. PICK c \in DOMAIN bound : bound[c] = v
    BY <1>2 DEF Values
  <2>2. c \in DOMAIN bound'
    BY <1>1, <1>2, <2>1 DEF KeysOf
  <2>. QED
    BY <1>1, <2>1, <2>2 DEF Values
<1>3. NoSessionUnseen'
  BY <1>2 DEF WindowsOK, NoSessionUnseen
<1>4. DOMAIN bound' \subseteq DOMAIN bound /\ Values(bound') \subseteq Values(bound)
  BY <1>1 DEF Values
<1>. QED
  BY <1>3, <1>4 DEF WindowsOK

\* tmux kills a window or refuses: it is gone, or it is known to be refused.
LEMMA KillingKeepsOthers ==
  ASSUME WindowsOK, NEW w, TmuxKills(w), UNCHANGED <<bound, saved, used, stray>>,
         killing' \subseteq killing, killing \subseteq killing' \cup {w},
         \/ inbound' = inbound
         \/ inbound.op = "kill" /\ inbound.window = w
  PROVE  WindowsOK'
<1>1. /\ live' \subseteq live /\ refused \subseteq refused' /\ refused' \subseteq used
      /\ w \in live' => w \in refused'
  BY DEF TmuxKills, WindowsOK
<1>2. NoSessionUnseen'
  <2>1. SUFFICES ASSUME NEW v \in live', v \notin Values(bound), v # w,
                        v \notin killing' \cup refused' \cup stray
                 PROVE  inbound'.op \in {"kill", "made"} /\ inbound'.window = v
    BY <1>1 DEF NoSessionUnseen
  <2>. QED
    BY <1>1, <2>1 DEF WindowsOK, NoSessionUnseen
<1>. QED
  BY <1>1, <1>2 DEF WindowsOK

\* channel_router.bind: the window is bound, and so are the others but for the
\* channel's former one, which is being killed.
LEMMA BindsKeepsOthers ==
  ASSUME NEW c \in Channel, NEW w, Binds(c, w)
  PROVE  /\ DOMAIN bound' \subseteq DOMAIN bound \cup {c}
         /\ Values(bound') \subseteq Values(bound) \cup {w}
         /\ w \in Values(bound')
         /\ Values(bound) \subseteq Values(bound') \cup killing' \cup {NoWindow}
         /\ killing \subseteq killing'
         /\ killing' \subseteq killing \cup (Values(bound) \ {NoWindow})
<1> DEFINE rest == Without(bound, KeysOf(bound, w))
<1>1. /\ bound' = Put(rest, c, w)
      /\ killing' = killing \cup ({Get(bound, c, w)} \ {w, NoWindow})
  BY DEF Binds
<1>2. /\ DOMAIN rest = DOMAIN bound \ KeysOf(bound, w)
      /\ \A d \in DOMAIN rest : rest[d] = bound[d]
  BY DEF Without
<1>3. /\ DOMAIN bound' = DOMAIN rest \cup {c}
      /\ \A d \in DOMAIN bound' : bound'[d] = IF d = c THEN w ELSE rest[d]
  BY <1>1 DEF Put
<1>4. w \in Values(bound')
  BY <1>3 DEF Values
<1>5. ASSUME NEW v \in Values(bound), v # NoWindow
      PROVE  v \in Values(bound') \cup killing'
  <2>1. PICK d \in DOMAIN bound : bound[d] = v
    BY <1>5 DEF Values
  <2>2. CASE v = w
    BY <1>4, <2>2
  <2>3. CASE v # w /\ d = c
    BY <1>1, <1>5, <2>1, <2>3 DEF Get
  <2>4. CASE v # w /\ d # c
    <3>1. d \in DOMAIN bound' /\ bound'[d] = v
      BY <1>2, <1>3, <2>1, <2>4 DEF KeysOf
    <3>. QED
      BY <3>1 DEF Values
  <2>. QED
    BY <2>2, <2>3, <2>4
<1>6. killing' \subseteq killing \cup (Values(bound) \ {NoWindow})
  BY <1>1 DEF Get, Values
<1>7. /\ DOMAIN bound' \subseteq DOMAIN bound \cup {c}
      /\ \A d \in DOMAIN bound' : bound'[d] = w \/ (d \in DOMAIN bound /\ bound'[d] = bound[d])
  <2>1. DOMAIN rest \subseteq DOMAIN bound
    BY <1>2
  <2> HIDE DEF rest
  <2>. QED
    BY <1>2, <1>3, <2>1
<1>8. killing \subseteq killing'
  BY <1>1
<1>9. Values(bound') \subseteq Values(bound) \cup {w}
  BY <1>7 DEF Values
<1>. QED
  BY <1>4, <1>5, <1>6, <1>7, <1>8, <1>9

\* A window whose last place was the channel's binding is then being killed.
LEMMA BindsKeepsWindows ==
  ASSUME WindowsOK, NEW c \in Channel, NEW w \in used' \cup {NoWindow}, Binds(c, w),
         used \subseteq used', used' \subseteq Window,
         live \subseteq live', live' \subseteq live \cup {w}, live' \subseteq used',
         UNCHANGED <<saved, refused, stray>>,
         \/ inbound' = inbound
         \/ inbound.op = "made" /\ inbound.window = w
  PROVE  WindowsOK'
<1>1. /\ DOMAIN bound' \subseteq DOMAIN bound \cup {c}
      /\ Values(bound') \subseteq Values(bound) \cup {w}
      /\ w \in Values(bound')
      /\ Values(bound) \subseteq Values(bound') \cup killing' \cup {NoWindow}
      /\ killing \subseteq killing'
      /\ killing' \subseteq killing \cup (Values(bound) \ {NoWindow})
  BY BindsKeepsOthers
<1>2. NoWindow \notin live'
  BY ChannelAssumption
<1>3. NoSessionUnseen'
  <2>1. SUFFICES ASSUME NEW v \in live', v # w, v \notin Values(bound'),
                        v \notin killing' \cup refused \cup stray
                 PROVE  inbound'.op \in {"kill", "made"} /\ inbound'.window = v
    BY <1>1 DEF NoSessionUnseen
  <2>2. v \in live /\ v \notin Values(bound) /\ v \notin killing \cup refused \cup stray
    BY <1>1, <1>2, <2>1
  <2>3. inbound.op \in {"kill", "made"} /\ inbound.window = v
    BY <2>2 DEF WindowsOK, NoSessionUnseen
  <2>. QED
    BY <2>1, <2>3
<1>4. Values(bound) \cup Values(saved) \subseteq used \cup {NoWindow}
  BY DEF WindowsOK
<1>5. killing' \subseteq used'
  BY <1>1, <1>4 DEF WindowsOK
<1>6. DOMAIN bound' \subseteq Channel /\ Values(bound') \subseteq used' \cup {NoWindow}
  BY <1>1, <1>4 DEF WindowsOK
<1>. QED
  BY <1>3, <1>4, <1>5, <1>6 DEF WindowsOK

\* The awaits of the handler.
LEMMA AwaitingType ==
  ASSUME NEW u \in User, NEW c \in Channel
  PROVE  /\ IsInbound(Idle)'
         /\ \A op \in {"new", "create", "answer"} :
              IsInbound(Awaiting(op, u, c))' /\ Awaiting(op, u, c).op = op
         /\ \A w \in used' \cup {NoWindow}, then \in {"new", "close"} :
              /\ IsInbound(AwaitingKill(u, c, w, then))'
              /\ AwaitingKill(u, c, w, then).op = "kill"
              /\ AwaitingKill(u, c, w, then).window = w
BY DEF IsInbound, Awaiting, AwaitingKill

\* Nothing happens to the agents, and no window is awaited.
LEMMA AgentsAsBefore ==
  ASSUME WindowsOK, UNCHANGED agents, inbound.op \notin {"kill", "made"}
  PROVE  WindowsOK'
BY DEF agents, WindowsOK, NoSessionUnseen, Values

\* A message is handled up to its first await.
LEMMA MessageKeepsAgents ==
  ASSUME AgentsInv, NEW e \in Id, HandleMessage(e)
  PROVE  AgentsInv'
<1> SUFFICES ASSUME NEW u \in User, NEW c \in Channel,
                    HashCommand(u, c) \/ WizardMoves(u, c) \/ WizardCreates(u, c)
                    \/ Forward(u, c)
             PROVE  AgentsInv'
  BY DEF HandleMessage
<1>1. inbound = Idle /\ inbound.op \notin {"kill", "made"}
  BY DEF HandleMessage, Idle
<1>2. wizard \in PartialFunctions(User, Phase)
  BY DEF AgentsInv, HandlerOK
<1>3. UNCHANGED agents => WindowsOK'
  BY <1>1, AgentsAsBefore DEF AgentsInv
<1>4. CASE HashNew(u, c)
  <2>1. wizard' \in PartialFunctions(User, Phase)
    BY <1>2, <1>4, WizardType DEF HashNew, Leaves
  <2>2. UNCHANGED <<saved, live, used, killing, refused, stray>>
    BY <1>4 DEF HashNew
  <2>3. ASSUME c \in DOMAIN bound
        PROVE  AgentsInv'
    <3>1. KillWindow(bound[c]) /\ inbound' = AwaitingKill(u, c, bound[c], "new")
      BY <1>4, <2>3 DEF HashNew
    <3>2. bound[c] \in used' \cup {NoWindow}
      BY <2>2, <2>3 DEF AgentsInv, WindowsOK, Values
    <3>3. IsInbound(inbound)' /\ inbound'.op = "kill" /\ inbound'.window = bound[c]
      BY <3>1, <3>2, AwaitingType DEF IsInbound
    <3>4. WindowsOK'
      BY <1>1, <2>2, <3>1, <3>3, ForgettingKeepsOthers DEF AgentsInv
    <3>. QED
      BY <2>1, <3>3, <3>4 DEF AgentsInv, HandlerOK
  <2>4. ASSUME c \notin DOMAIN bound
        PROVE  AgentsInv'
    <3>1. UNCHANGED bound /\ inbound' = Awaiting("new", u, c)
      BY <1>4, <2>4 DEF HashNew
    <3>2. WindowsOK'
      BY <1>3, <2>2, <3>1 DEF agents
    <3>3. IsInbound(inbound)'
      BY <3>1, AwaitingType DEF IsInbound
    <3>. QED
      BY <2>1, <3>2, <3>3 DEF AgentsInv, HandlerOK
  <2>. QED
    BY <2>3, <2>4
<1>5. ASSUME NEW w \in live, SessionClose(u, c, w)
      PROVE  AgentsInv'
  <2>1. /\ KillWindow(w) /\ inbound' = AwaitingKill(u, c, w, "close")
        /\ UNCHANGED <<wizard, saved, live, used, killing, refused, stray>>
    BY <1>5 DEF SessionClose
  <2>2. w \in used'
    BY <2>1 DEF AgentsInv, WindowsOK
  <2>3. IsInbound(inbound)' /\ inbound'.op = "kill" /\ inbound'.window = w
    BY <2>1, <2>2, AwaitingType DEF IsInbound
  <2>4. WindowsOK'
    BY <1>1, <2>1, <2>3, ForgettingKeepsOthers DEF AgentsInv
  <2>. QED
    BY <1>2, <2>1, <2>3, <2>4 DEF AgentsInv, HandlerOK
<1>6. CASE AnswerOnly(c) \/ Forward(u, c)
  <2>1. UNCHANGED <<wizard, inbound>> /\ UNCHANGED agents
    BY <1>6 DEF AnswerOnly, Forward
  <2>. QED
    BY <1>1, <1>3, <2>1 DEF AgentsInv, HandlerOK, IsInbound, agents
<1>7. CASE WizardMoves(u, c)
  <2>1. UNCHANGED inbound /\ UNCHANGED agents
    BY <1>7 DEF WizardMoves
  <2>2. wizard' \in PartialFunctions(User, Phase)
    BY <1>2, <1>7, WizardType DEF WizardMoves, Leaves, Enters, Phase
  <2>. QED
    BY <1>1, <1>3, <2>1, <2>2 DEF AgentsInv, HandlerOK, IsInbound, agents
<1>8. CASE WizardCreates(u, c)
  <2>1. inbound' = Awaiting("create", u, c) /\ UNCHANGED wizard /\ UNCHANGED agents
    BY <1>8 DEF WizardCreates
  <2>2. IsInbound(inbound)'
    BY <2>1, AwaitingType DEF IsInbound
  <2>. QED
    BY <1>2, <1>3, <2>1, <2>2 DEF AgentsInv, HandlerOK
<1>. QED
  BY <1>4, <1>5, <1>6, <1>7, <1>8 DEF HashCommand

\* The handler goes on after an await.
LEMMA HandlerKeepsAgents ==
  ASSUME AgentsInv,
         \/ KillReturns \/ NewStarts \/ AnswerFails
         \/ CreateReturns \/ CreateRaises \/ CreateBinds \/ CreateEnds
  PROVE  AgentsInv'
<1>1. wizard \in PartialFunctions(User, Phase) /\ IsInbound(inbound)
  BY DEF AgentsInv, HandlerOK
<1>2. inbound # Idle /\ inbound.user \in User /\ inbound.channel \in Channel
  BY <1>1 DEF IsInbound, Idle, KillReturns, NewStarts, AnswerFails, CreateReturns,
              CreateRaises, CreateBinds, CreateEnds
<1>3. IsInbound(Idle)'
  BY DEF Idle, IsInbound
<1>4. inbound.op \notin {"kill", "made"} /\ UNCHANGED agents => WindowsOK'
  BY AgentsAsBefore DEF AgentsInv
<1>5. CASE NewStarts
  <2>1. wizard' \in PartialFunctions(User, Phase)
    BY <1>1, <1>2, <1>5, WizardType DEF NewStarts, Enters, Phase
  <2>. QED
    BY <1>3, <1>4, <1>5, <2>1 DEF NewStarts, AgentsInv, HandlerOK
<1>6. CASE AnswerFails \/ CreateRaises
  BY <1>1, <1>3, <1>4, <1>6 DEF AnswerFails, CreateRaises, AgentsInv, HandlerOK
<1>7. CASE CreateEnds
  BY <1>1, <1>2, <1>3, <1>4, <1>7, WizardType DEF CreateEnds, Leaves, AgentsInv, HandlerOK
<1>8. CASE CreateReturns
  <2> DEFINE made(w) == [op |-> "made", user |-> inbound.user,
                         channel |-> inbound.channel, window |-> w]
  <2>1. PICK w \in Unused \cup {NoWindow}, opened \in SUBSET Unused :
          /\ opened = {w} \/ (w = NoWindow /\ Cardinality(opened) < 2)
          /\ used' = used \cup opened /\ live' = live \cup opened
          /\ stray' = stray \cup (opened \ {w})
          /\ inbound' = made(w)
    BY <1>8 DEF CreateReturns
  <2>2. UNCHANGED <<wizard, bound, saved, killing, refused>> /\ inbound.op = "create"
    BY <1>8 DEF CreateReturns
  <2>3. inbound'.op = "made" /\ inbound'.window = w /\ IsInbound(inbound)'
    BY <1>2, <2>1 DEF IsInbound
  <2>4. HandlerOK'
    BY <1>1, <2>2, <2>3 DEF HandlerOK
  <2>5. NoSessionUnseen'
    BY <2>1, <2>2, <2>3 DEF AgentsInv, WindowsOK, NoSessionUnseen, Values
  <2>6. WindowsOK'
    BY <2>1, <2>2, <2>5 DEF AgentsInv, WindowsOK, Unused, Values
  <2>. QED
    BY <2>4, <2>6 DEF AgentsInv
<1>9. CASE CreateBinds
  <2>1. inbound.window \in used \cup {NoWindow} /\ inbound.op = "made"
    BY <1>1, <1>9 DEF CreateBinds, IsInbound, Idle
  <2>2. UNCHANGED <<wizard, saved, live, used, refused, stray>>
        /\ inbound' = Awaiting("answer", inbound.user, inbound.channel)
    BY <1>9 DEF CreateBinds
  <2>3. HandlerOK'
    BY <1>1, <1>2, <2>2, AwaitingType DEF HandlerOK
  <2>4. WindowsOK'
    BY <1>2, <1>9, <2>1, <2>2, BindsKeepsWindows DEF CreateBinds, AgentsInv, WindowsOK
  <2>. QED
    BY <2>3, <2>4 DEF AgentsInv
<1>10. CASE KillReturns
  <2>1. /\ inbound.op = "kill" /\ TmuxKills(inbound.window)
        /\ inbound' = IF inbound.then = "new" THEN Awaiting("new", inbound.user, inbound.channel)
                      ELSE Idle
        /\ UNCHANGED <<wizard, bound, saved, used, killing, stray>>
    BY <1>10 DEF KillReturns
  <2>2. HandlerOK'
    BY <1>1, <1>2, <2>1, AwaitingType DEF HandlerOK
  <2>3. WindowsOK'
    BY <2>1, KillingKeepsOthers DEF AgentsInv
  <2>. QED
    BY <2>2, <2>3 DEF AgentsInv
<1>. QED
  BY <1>5, <1>6, <1>7, <1>8, <1>9, <1>10

\* The rest of the system, a process that ends, and one that starts.
LEMMA OthersKeepAgents ==
  ASSUME AgentsInv,
         \/ \E c \in Channel : BindElsewhere(c)
         \/ \E w \in Window : KillThread(w) \/ WindowExits(w)
         \/ Save \/ End \/ Start
  PROVE  AgentsInv'
<1>1. HandlerOK /\ WindowsOK
  BY DEF AgentsInv
<1>2. ASSUME NEW c \in Channel, BindElsewhere(c)
      PROVE  AgentsInv'
  <2>1. PICK w \in Unused : used' = used \cup {w} /\ live' = live \cup {w} /\ Binds(c, w)
    BY <1>2 DEF BindElsewhere
  <2>2. UNCHANGED <<wizard, inbound, saved, refused, stray>>
    BY <1>2 DEF BindElsewhere
  <2>3. HandlerOK'
    BY <1>1, <2>1, <2>2 DEF HandlerOK, IsInbound
  <2>4. WindowsOK'
    BY <1>1, <2>1, <2>2, BindsKeepsWindows DEF Unused, WindowsOK
  <2>. QED
    BY <2>3, <2>4 DEF AgentsInv
<1>3. ASSUME NEW w \in Window, KillThread(w)
      PROVE  AgentsInv'
  <2>1. /\ TmuxKills(w) /\ killing' = killing \ {w}
        /\ UNCHANGED <<wizard, inbound, bound, saved, used, stray>>
    BY <1>3 DEF KillThread
  <2>2. HandlerOK'
    BY <1>1, <2>1 DEF HandlerOK, IsInbound
  <2>3. WindowsOK'
    BY <1>1, <2>1, KillingKeepsOthers
  <2>. QED
    BY <2>2, <2>3 DEF AgentsInv
<1>4. ASSUME NEW w \in Window, WindowExits(w)
      PROVE  AgentsInv'
  <2>1. /\ live' = live \ {w}
        /\ UNCHANGED <<wizard, inbound, bound, saved, used, killing, refused, stray>>
    BY <1>4 DEF WindowExits
  <2>2. HandlerOK'
    BY <1>1, <2>1 DEF HandlerOK, IsInbound
  <2>3. NoSessionUnseen'
    BY <1>1, <2>1 DEF WindowsOK, NoSessionUnseen, Values
  <2>. QED
    BY <1>1, <2>1, <2>2, <2>3 DEF AgentsInv, WindowsOK, Values
<1>5. CASE Save
  <2>1. saved' = bound /\ UNCHANGED <<wizard, inbound, bound, live, used, killing, refused, stray>>
    BY <1>5 DEF Save
  <2>2. HandlerOK'
    BY <1>1, <2>1 DEF HandlerOK, IsInbound
  <2>3. Values(saved)' = Values(bound) /\ Values(bound)' = Values(bound)
    BY <2>1 DEF Values
  <2>4. NoSessionUnseen'
    BY <1>1, <2>1, <2>3 DEF WindowsOK, NoSessionUnseen
  <2>. QED
    BY <1>1, <2>1, <2>2, <2>3, <2>4 DEF AgentsInv, WindowsOK
<1>6. CASE End
  <2>1. /\ bound' = saved /\ killing' = {} /\ wizard' = <<>> /\ inbound' = Idle
        /\ UNCHANGED <<saved, live, used, refused>>
        /\ stray' = stray \cup (AtRisk \ {NoWindow})
    BY <1>6 DEF End
  <2>2. <<>> \in PartialFunctions(User, Phase)
    <3>1. <<>> \in [{} -> Phase]
      OBVIOUS
    <3>. QED
      BY <3>1 DEF PartialFunctions
  <2>3. HandlerOK'
    BY <2>1, <2>2 DEF HandlerOK, IsInbound
  <2>4. Values(bound') = Values(saved) /\ Values(saved') = Values(saved)
    BY <2>1 DEF Values
  <2>5. inbound.op \in {"kill", "made"} => inbound.window \in used \cup {NoWindow}
    BY <1>1 DEF HandlerOK, IsInbound, Idle
  <2>6. AtRisk \subseteq used \cup {NoWindow}
    BY <1>1, <2>5 DEF AtRisk, WindowsOK
  <2>7. NoSessionUnseen'
    <3>1. SUFFICES ASSUME NEW w \in live, w \notin Values(saved), w \notin refused
                   PROVE  w \in stray'
      BY <2>1, <2>4 DEF NoSessionUnseen
    <3>2. w # NoWindow
      BY <1>1, ChannelAssumption DEF WindowsOK
    <3>3. w \in AtRisk \cup stray
      BY <1>1, <3>1 DEF WindowsOK, NoSessionUnseen, AtRisk
    <3>. QED
      BY <2>1, <3>2, <3>3
  <2>. QED
    BY <1>1, <2>1, <2>3, <2>4, <2>6, <2>7 DEF AgentsInv, WindowsOK
<1>7. CASE Start
  <2>1. UNCHANGED <<wizard, inbound, saved, live, used, killing, refused, stray>>
    BY <1>7 DEF Start
  <2>2. /\ DOMAIN bound' = {c \in DOMAIN bound : bound[c] \in live}
        /\ \A c \in DOMAIN bound' : bound'[c] = bound[c]
    BY <1>7 DEF Start, Without
  <2>3. /\ \A w \in live : w \in Values(bound) => w \in Values(bound')
        /\ Values(bound') \subseteq Values(bound) /\ Values(saved') = Values(saved)
    BY <2>1, <2>2 DEF Values
  <2>4. NoSessionUnseen'
    BY <1>1, <2>1, <2>3 DEF WindowsOK, NoSessionUnseen
  <2>5. HandlerOK'
    BY <1>1, <2>1 DEF HandlerOK, IsInbound
  <2>. QED
    BY <1>1, <2>1, <2>2, <2>3, <2>4, <2>5 DEF AgentsInv, WindowsOK
<1>. QED
  BY <1>2, <1>3, <1>4, <1>5, <1>6, <1>7

\* Every step keeps the agents' invariant.
LEMMA AgentsPreserved ==
  ASSUME AgentsInv, [Next]_vars
  PROVE  AgentsInv'
<1>1. CASE UNCHANGED <<wizard, inbound>> /\ UNCHANGED agents
  BY <1>1 DEF agents, AgentsInv, HandlerOK, IsInbound, WindowsOK, NoSessionUnseen, Values
<1>2. ASSUME NEW c, NEW todo,
             \/ Dispatch(c, todo) \/ CardSent \/ CardPatched \/ ShowFails \/ Connection
             \/ UNCHANGED vars
      PROVE  UNCHANGED <<wizard, inbound>> /\ UNCHANGED agents
  BY <1>2 DEF Dispatch, CardSent, CardPatched, ShowFails, Connection, vars
<1>. QED
  BY <1>1, <1>2, MessageKeepsAgents, HandlerKeepsAgents, OthersKeepAgents DEF Next

-----------------------------------------------------------------------------
(* The cards: one turn each.                                               *)

ChatState == [text : Nat, thinking : Nat, birth : Nat]
Call == [op : {"send", "patch"}, channel : Channel, todo : Batch,
         card : Nat, birth : Nat, turn : Nat]

\* A dictionary of streaming states.
AreChats(ch) == ch \in [DOMAIN ch -> ChatState] /\ DOMAIN ch \subseteq Channel

\* A streaming state whose cards are among the first n.
IsAmong(s, n) == s \in ChatState /\ s.text \in 0..n /\ s.thinking \in 0..n

ScreensTypeOK ==
  /\ AreChats(chat) /\ IsAmong(dropped, Len(shown))
  /\ outbound \in {Idle} \cup Call
  /\ turn \in [Channel -> Nat]
  /\ shown \in Seq(SUBSET Nat)

\* Card n is one of those channel c is adding to, in chat states ch.
HasCard(ch, c, n) ==
  c \in DOMAIN ch /\ n # NoCard /\ (ch[c].text = n \/ ch[c].thinking = n)

\* Such a card was sent, and for this channel only.
CardsAreSent(ch) == \A c, n : HasCard(ch, c, n) => n \in 1..Len(shown)
CardsAreOwn(ch) == \A c, d, n : HasCard(ch, c, n) /\ HasCard(ch, d, n) => c = d

\* It shows the current turn of its channel.
CardsAreCurrent(ch) ==
  \A c, n : HasCard(ch, c, n) /\ n \notin raced => shown[n] \subseteq {turn[c]}

ChatsOK(ch) == AreChats(ch) /\ CardsAreSent(ch) /\ CardsAreOwn(ch) /\ CardsAreCurrent(ch)

\* A card that is being patched shows the turn of the patch; a channel that still
\* adds to it is the one of the patch, in the same turn.
PatchOK ==
  outbound.op = "patch" =>
    /\ outbound.card \in 1..Len(shown)
    /\ outbound.card \notin raced =>
         /\ shown[outbound.card] \subseteq {outbound.turn}
         /\ \A c : HasCard(chat, c, outbound.card) =>
                     c = outbound.channel /\ turn[c] = outbound.turn

CardsAreOnce == \A n \in (1..Len(shown)) \ raced : \E t : shown[n] \subseteq {t}

ScreensInv == ScreensTypeOK /\ ChatsOK(chat) /\ PatchOK /\ CardsAreOnce

\* The parts of a batch.
LEMMA BatchParts ==
  ASSUME NEW b \in Batch
  PROVE  Head(b) \in Kind /\ (Tail(b) = <<>> \/ Tail(b) \in Batch)
<1>1. CASE b = <<"text">>
  BY <1>1 DEF Kind
<1>2. CASE b = <<"thinking">>
  BY <1>2 DEF Kind
<1>3. CASE b = <<"thinking", "text">>
  BY <1>3 DEF Kind, Batch
<1>4. CASE b = <<"thinking", "thinking">>
  BY <1>4 DEF Kind, Batch
<1>. QED
  BY <1>1, <1>2, <1>3, <1>4 DEF Batch

\* The states of chats, one of them changed.
LEMMA PutChat ==
  ASSUME NEW ch, AreChats(ch), NEW c \in Channel, NEW r \in ChatState
  PROVE  /\ AreChats(Put(ch, c, r))
         /\ c \in DOMAIN Put(ch, c, r) /\ Put(ch, c, r)[c] = r
         /\ \A d \in DOMAIN Put(ch, c, r) \ {c} :
              d \in DOMAIN ch /\ Put(ch, c, r)[d] = ch[d]
<1> DEFINE f == Put(ch, c, r)
<1>1. /\ DOMAIN f = DOMAIN ch \cup {c}
      /\ f = [d \in DOMAIN f |-> IF d = c THEN r ELSE ch[d]]
  BY DEF Put
<1>2. DOMAIN f \subseteq Channel /\ \A d \in DOMAIN f : f[d] \in ChatState
  BY <1>1 DEF AreChats
<1>3. f \in [DOMAIN f -> ChatState]
  BY <1>1, <1>2
<1>. QED
  BY <1>1, <1>2, <1>3 DEF AreChats

\* get_verbose_state: a channel seen for the first time has no cards.
LEMMA CreatedChat ==
  ASSUME turn \in [Channel -> Nat], NEW ch, AreChats(ch), NEW c \in Channel
  PROVE  /\ AreChats(Created(ch, c)) /\ c \in DOMAIN Created(ch, c)
         /\ \A d, n : HasCard(Created(ch, c), d, n) => HasCard(ch, d, n)
<1> DEFINE r == Get(ch, c, NewChat(c))
           f == Created(ch, c)
<1>1. NewChat(c) \in ChatState /\ NewChat(c).text = NoCard /\ NewChat(c).thinking = NoCard
  BY DEF NewChat, Blank, ChatState, NoCard
<1>2. r \in ChatState /\ r = IF c \in DOMAIN ch THEN ch[c] ELSE NewChat(c)
  BY <1>1 DEF Get, AreChats
<1>3. f = Put(ch, c, r)
  BY DEF Created
<1> HIDE DEF r, f
<1>4. /\ AreChats(f) /\ c \in DOMAIN f /\ f[c] = r
      /\ \A d \in DOMAIN f \ {c} : d \in DOMAIN ch /\ f[d] = ch[d]
  BY <1>2, <1>3, PutChat
<1>5. ASSUME NEW d, NEW n, HasCard(f, d, n)
      PROVE  HasCard(ch, d, n)
  <2>1. CASE d = c
    BY <1>1, <1>2, <1>4, <1>5, <2>1 DEF HasCard
  <2>2. CASE d # c
    BY <1>4, <1>5, <2>2 DEF HasCard
  <2>. QED
    BY <2>1, <2>2
<1>. QED
  BY <1>4, <1>5 DEF f

\* Nothing changes for cards that are in other states too.
LEMMA FewerCards ==
  ASSUME NEW ch, NEW cg, ChatsOK(ch), AreChats(cg),
         \A c, n : HasCard(cg, c, n) => HasCard(ch, c, n)
  PROVE  ChatsOK(cg)
BY DEF ChatsOK, CardsAreSent, CardsAreOwn, CardsAreCurrent

\* The call for a part: a patch goes to a card of the state, for the current turn.
LEMMA ShowingCall ==
  ASSUME turn \in [Channel -> Nat], NEW s \in ChatState, NEW c \in Channel,
         NEW todo \in Batch
  PROVE  LET call == Showing(c, todo, s)
         IN  /\ call \in Call /\ call.channel = c /\ call.turn = turn[c]
             /\ call.card = s.text \/ call.card = s.thinking
             /\ Head(todo) = "thinking" => call.card = s.thinking
             /\ call.op = "patch" => call.card # NoCard
<1>1. Head(todo) = "text" \/ Head(todo) = "thinking"
  BY BatchParts DEF Kind
<1>2. s[Head(todo)] \in Nat
      /\ (s[Head(todo)] = s.text \/ s[Head(todo)] = s.thinking)
  BY <1>1 DEF ChatState
<1>. QED
  BY <1>1, <1>2 DEF Showing, Call, ChatState

\* The state that the callback of a batch holds.
LEMMA HeldIsSent ==
  ASSUME ScreensInv
  PROVE  IsAmong(Held, Len(shown))
<1>1. CASE Attached
  <2> DEFINE c == outbound.channel
             s == chat[c]
  <2>1. c \in DOMAIN chat /\ Held = s
    BY <1>1 DEF Attached, Held
  <2>2. s \in ChatState
    BY <2>1 DEF ScreensInv, ScreensTypeOK, AreChats
  <2>3. /\ s.text # NoCard => HasCard(chat, c, s.text)
        /\ s.thinking # NoCard => HasCard(chat, c, s.thinking)
    BY <2>1 DEF HasCard
  <2>4. \A n : HasCard(chat, c, n) => n \in 1..Len(shown)
    BY DEF ScreensInv, ChatsOK, CardsAreSent
  <2>5. Len(shown) \in Nat
    BY DEF ScreensInv, ScreensTypeOK
  <2>. QED
    BY <2>1, <2>2, <2>3, <2>4, <2>5 DEF IsAmong, NoCard
<1>2. CASE ~Attached
  BY <1>2 DEF Held, ScreensInv, ScreensTypeOK
<1>. QED
  BY <1>1, <1>2

\* A new turn, or a fresh chat: no card of the channel is added to any more.
LEMMA TurnKeepsCards ==
  ASSUME ScreensInv, NEW c \in Channel, AdvanceTurn(c) \/ ResetChat(c)
  PROVE  ScreensInv'
<1>1. /\ turn \in [Channel -> Nat] /\ AreChats(chat) /\ ChatsOK(chat)
      /\ shown \in Seq(SUBSET Nat) /\ outbound \in {Idle} \cup Call
  BY DEF ScreensInv, ScreensTypeOK
<1>2. turn' = [turn EXCEPT ![c] = @ + 1] /\ UNCHANGED <<outbound, shown, raced>>
  BY DEF AdvanceTurn, ResetChat
<1>3. turn' \in [Channel -> Nat] /\ \A d \in Channel \ {c} : turn'[d] = turn[d]
  BY <1>1, <1>2
<1>4. /\ AreChats(chat')
      /\ \A d, n : HasCard(chat', d, n) => HasCard(chat, d, n) /\ d # c
  <2>1. CASE AdvanceTurn(c)
    <3> DEFINE r == NextCards(c)
    <3>1. NewChat(c) \in ChatState
      BY <1>1 DEF NewChat, Blank, ChatState, NoCard
    <3>2. Get(chat, c, NewChat(c)) \in ChatState
      BY <1>1, <3>1 DEF Get, AreChats
    <3>3. r \in ChatState /\ r.text = NoCard /\ r.thinking = NoCard
      BY <3>2 DEF NextCards, ChatState, NoCard
    <3>4. chat' = Put(chat, c, r)
      BY <2>1 DEF AdvanceTurn
    <3> HIDE DEF r
    <3>5. /\ AreChats(chat') /\ chat'[c] = r
          /\ \A d \in DOMAIN chat' \ {c} : d \in DOMAIN chat /\ chat'[d] = chat[d]
      BY <1>1, <3>3, <3>4, PutChat
    <3>. QED
      BY <3>3, <3>5 DEF HasCard
  <2>2. CASE ResetChat(c)
    <3>1. chat' = Without(chat, {c})
      BY <2>2 DEF ResetChat
    <3>2. /\ DOMAIN chat' = DOMAIN chat \ {c}
          /\ \A d \in DOMAIN chat' : chat'[d] = chat[d]
          /\ chat' = [d \in DOMAIN chat' |-> chat'[d]]
      BY <3>1 DEF Without
    <3>3. AreChats(chat')
      BY <1>1, <3>2 DEF AreChats
    <3>. QED
      BY <3>2, <3>3 DEF HasCard
  <2>. QED
    BY <2>1, <2>2
<1>5. ScreensTypeOK'
  <2>1. dropped' \in {dropped, Held}
    BY DEF AdvanceTurn, ResetChat
  <2>2. IsAmong(dropped, Len(shown)) /\ IsAmong(Held, Len(shown))
    BY HeldIsSent DEF ScreensInv, ScreensTypeOK
  <2>3. IsAmong(dropped', Len(shown'))
    BY <1>2, <2>1, <2>2 DEF IsAmong
  <2>. QED
    BY <1>1, <1>2, <1>3, <1>4, <2>3 DEF ScreensTypeOK
<1>6. \A d, n : HasCard(chat', d, n) => d \in Channel \ {c}
  BY <1>4 DEF HasCard, AreChats
<1>7. ChatsOK(chat)'
  <2>1. CardsAreSent(chat)' /\ CardsAreOwn(chat)'
    BY <1>1, <1>2, <1>4 DEF ChatsOK, CardsAreSent, CardsAreOwn
  <2>2. CardsAreCurrent(chat)'
    BY <1>1, <1>2, <1>3, <1>4, <1>6 DEF ChatsOK, CardsAreCurrent
  <2>. QED
    BY <1>4, <2>1, <2>2 DEF ChatsOK
<1>8. PatchOK'
  <2>1. \A n : \A d : HasCard(chat', d, n) => HasCard(chat, d, n) /\ turn'[d] = turn[d]
    BY <1>3, <1>4, <1>6
  <2>. QED
    BY <1>2, <2>1 DEF ScreensInv, PatchOK
<1>9. CardsAreOnce'
  BY <1>2 DEF ScreensInv, CardsAreOnce
<1>. QED
  BY <1>5, <1>7, <1>8, <1>9 DEF ScreensInv

\* The call that follows another one, in chat states that are in order: the state that
\* was used is the channel's, or one that a reset dropped.
LEMMA NextPartOK ==
  ASSUME turn \in [Channel -> Nat], UNCHANGED turn, outbound \in Call,
         Len(shown') \in Nat, IsAmong(dropped, Len(shown')),
         NEW ch, ChatsOK(ch)', NEW s, IsAmong(s, Len(shown')), NEW late,
         Attached => outbound.channel \in DOMAIN ch /\ ch[outbound.channel] = s,
         NextPart(ch, s, late)
  PROVE  /\ ChatsOK(chat)' /\ PatchOK'
         /\ outbound' \in {Idle} \cup Call /\ IsAmong(dropped', Len(shown'))
<1> DEFINE c == outbound.channel
           rest == Tail(outbound.todo)
<1>1. c \in Channel /\ outbound.todo \in Batch /\ s \in ChatState
  BY DEF Call, IsAmong
<1>2. AreChats(ch)
  BY DEF ChatsOK, AreChats
<1>3. IsAmong(Blank(0), Len(shown'))
  BY DEF IsAmong, Blank, ChatState, NoCard
<1>4. CASE rest = <<>>
  <2>1. chat' = ch /\ outbound' = Idle /\ dropped' = Blank(0)
    BY <1>4 DEF NextPart
  <2>2. ChatsOK(chat)'
    BY <2>1 DEF ChatsOK, AreChats, CardsAreSent, CardsAreOwn, CardsAreCurrent
  <2>3. PatchOK'
    BY <2>1 DEF PatchOK, Idle
  <2>. QED
    BY <1>3, <2>1, <2>2, <2>3
<1>5. CASE rest # <<>> /\ Head(rest) # "thinking"
  <2>1. /\ chat' = Created(ch, c) /\ outbound' = Showing(c, rest, Created(ch, c)[c])
        /\ dropped' = Blank(0)
    BY <1>5 DEF NextPart
  <2>2. rest \in Batch
    BY <1>1, <1>5, BatchParts
  <2>3. /\ AreChats(chat') /\ c \in DOMAIN chat'
        /\ \A d, n : HasCard(chat', d, n) => HasCard(ch, d, n)
    BY <1>1, <1>2, <2>1, CreatedChat
  <2>4. ChatsOK(chat)'
    <3>1. CardsAreSent(chat)'
      BY <2>3 DEF ChatsOK, CardsAreSent, HasCard
    <3>2. CardsAreOwn(chat)'
      <4>1. \A d, e, n : HasCard(ch, d, n) /\ HasCard(ch, e, n) => d = e
        BY DEF ChatsOK, CardsAreOwn, HasCard
      <4>2. \A d, e, n : HasCard(chat', d, n) /\ HasCard(chat', e, n) => d = e
        BY <2>3, <4>1
      <4>. QED
        BY <4>2 DEF CardsAreOwn, HasCard
    <3>3. CardsAreCurrent(chat)'
      BY <2>3 DEF ChatsOK, CardsAreCurrent, HasCard
    <3>. QED
      BY <2>3, <3>1, <3>2, <3>3 DEF ChatsOK, AreChats
  <2>5. /\ outbound' \in Call /\ outbound'.channel = c /\ outbound'.turn = turn[c]
        /\ outbound'.op = "patch" => HasCard(chat', c, outbound'.card)
    <3> DEFINE r == chat'[c]
    <3>1. r \in ChatState
      BY <2>3 DEF AreChats
    <3>2. outbound' = Showing(c, rest, r)
      BY <2>1
    <3>3. /\ outbound' \in Call /\ outbound'.channel = c /\ outbound'.turn = turn[c]
          /\ outbound'.card = r.text \/ outbound'.card = r.thinking
          /\ outbound'.op = "patch" => outbound'.card # NoCard
      BY <1>1, <2>2, <3>1, <3>2, ShowingCall
    <3>. QED
      BY <2>3, <3>3 DEF HasCard
  <2>6. PatchOK'
    BY <2>4, <2>5 DEF PatchOK, ChatsOK, CardsAreSent, CardsAreOwn, CardsAreCurrent
  <2>. QED
    BY <1>3, <2>1, <2>4, <2>5, <2>6
<1>6. CASE rest # <<>> /\ Head(rest) = "thinking"
  <2>1. /\ chat' = ch /\ outbound' = Showing(c, rest, s)
        /\ dropped' \in {dropped, s}
        /\ ~Attached /\ s.thinking # NoCard => s.thinking \in raced'
    BY <1>6 DEF NextPart
  <2>2. rest \in Batch
    BY <1>1, <1>6, BatchParts
  <2>3. ChatsOK(chat)'
    BY <2>1 DEF ChatsOK, AreChats, CardsAreSent, CardsAreOwn, CardsAreCurrent
  <2>4. /\ outbound' \in Call /\ outbound'.channel = c /\ outbound'.turn = turn[c]
        /\ outbound'.card = s.thinking
        /\ outbound'.op = "patch" => s.thinking # NoCard
    <3> DEFINE call == Showing(c, rest, s)
    <3>1. /\ call \in Call /\ call.channel = c /\ call.turn = turn[c]
          /\ Head(rest) = "thinking" => call.card = s.thinking
          /\ call.op = "patch" => call.card # NoCard
      BY <1>1, <2>2, ShowingCall
    <3> HIDE DEF call
    <3>. QED
      BY <1>6, <2>1, <3>1 DEF call
  <2>5. PatchOK'
    <3>1. CASE Attached
      <4>1. outbound'.op = "patch" => HasCard(chat', c, outbound'.card)
        BY <2>1, <2>4, <3>1 DEF HasCard
      <4>. QED
        BY <2>3, <2>4, <4>1 DEF PatchOK, ChatsOK, CardsAreSent, CardsAreOwn, CardsAreCurrent
    <3>2. CASE ~Attached
      BY <2>1, <2>4, <3>2 DEF PatchOK, IsAmong, NoCard
    <3>. QED
      BY <3>1, <3>2
  <2>. QED
    BY <2>1, <2>3, <2>4, <2>5
<1>. QED
  BY <1>4, <1>5, <1>6

\* get_verbose_state changes nothing for the cards.
LEMMA CreatingKeepsCards ==
  ASSUME ScreensInv, NEW c \in Channel, chat' = chat \/ chat' = Created(chat, c),
         UNCHANGED <<turn, shown, raced>>
  PROVE  ChatsOK(chat)' /\ AreChats(chat')
         /\ \A d, n : HasCard(chat', d, n) => HasCard(chat, d, n)
<1>1. turn \in [Channel -> Nat] /\ AreChats(chat) /\ ChatsOK(chat)
  BY DEF ScreensInv, ScreensTypeOK
<1>2. AreChats(chat') /\ \A d, n : HasCard(chat', d, n) => HasCard(chat, d, n)
  BY <1>1, CreatedChat
<1>3. ChatsOK(chat')
  BY <1>1, <1>2, FewerCards
<1>4. ChatsOK(chat)'
  BY <1>3 DEF ChatsOK, AreChats, CardsAreSent, CardsAreOwn, CardsAreCurrent, HasCard
<1>. QED
  BY <1>2, <1>4

\* A batch begins to be shown.
LEMMA DispatchKeepsCards ==
  ASSUME ScreensInv, NEW c \in Channel, NEW todo \in Batch, Dispatch(c, todo)
  PROVE  ScreensInv'
<1>1. /\ chat' = Created(chat, c) /\ outbound' = Showing(c, todo, chat'[c])
      /\ UNCHANGED <<dropped, turn, shown, raced>>
  BY DEF Dispatch
<1>2. ChatsOK(chat)' /\ AreChats(chat') /\ turn \in [Channel -> Nat]
  BY <1>1, CreatingKeepsCards DEF ScreensInv, ScreensTypeOK
<1>3. c \in DOMAIN chat'
  BY <1>1, CreatedChat DEF ScreensInv, ScreensTypeOK
<1>4. /\ outbound' \in Call /\ outbound'.channel = c /\ outbound'.turn = turn[c]
      /\ outbound'.op = "patch" => HasCard(chat', c, outbound'.card)
  <2> DEFINE r == chat'[c]
  <2>1. r \in ChatState /\ outbound' = Showing(c, todo, r)
    BY <1>1, <1>2, <1>3 DEF AreChats
  <2>2. /\ outbound' \in Call /\ outbound'.channel = c /\ outbound'.turn = turn[c]
        /\ outbound'.card = r.text \/ outbound'.card = r.thinking
        /\ outbound'.op = "patch" => outbound'.card # NoCard
    BY <1>2, <2>1, ShowingCall
  <2>. QED
    BY <1>3, <2>2 DEF HasCard
<1>5. ScreensTypeOK'
  BY <1>1, <1>2, <1>4 DEF ScreensInv, ScreensTypeOK
<1>6. PatchOK'
  BY <1>1, <1>2, <1>4 DEF PatchOK, ChatsOK, CardsAreSent, CardsAreOwn, CardsAreCurrent
<1>7. CardsAreOnce'
  BY <1>1 DEF ScreensInv, CardsAreOnce
<1>. QED
  BY <1>2, <1>5, <1>6, <1>7 DEF ScreensInv

\* A card was sent: it shows the turn of the call.  If the channel keeps it and
\* the turn has advanced meanwhile, it is counted as raced.
LEMMA SentKeepsCards ==
  ASSUME ScreensInv, CardSent
  PROVE  ScreensInv'
<1> DEFINE k == Len(shown) + 1
           c == outbound.channel
           part == Head(outbound.todo)
<1>1. outbound \in Call /\ UNCHANGED turn
  BY DEF ScreensInv, ScreensTypeOK, CardSent, Idle
<1>2. c \in Channel /\ part \in {"text", "thinking"} /\ outbound.turn \in Nat
  BY <1>1, BatchParts DEF Call, Kind
<1>3. /\ shown \in Seq(SUBSET Nat) /\ turn \in [Channel -> Nat]
      /\ AreChats(chat) /\ ChatsOK(chat)
  BY DEF ScreensInv, ScreensTypeOK
<1>4. /\ shown' = Append(shown, {outbound.turn})
      /\ NextPart(IF Attached THEN [chat EXCEPT ![c] = Noted(k)] ELSE chat, Noted(k),
                  IF Attached /\ turn[c] # outbound.turn THEN {k} ELSE {})
  BY DEF CardSent
<1>5. /\ shown' \in Seq(SUBSET Nat) /\ Len(shown') = k /\ k \in Nat /\ k # NoCard
      /\ \A n \in 1..Len(shown) : shown'[n] = shown[n]
      /\ shown'[k] = {outbound.turn}
  BY <1>2, <1>3, <1>4 DEF NoCard
<1>6. raced \subseteq raced' /\ (Attached /\ turn[c] # outbound.turn => k \in raced')
  BY <1>4 DEF NextPart
<1>7. SUFFICES ASSUME NEW s, s = Noted(k),
                      NEW ch, ch = IF Attached THEN [chat EXCEPT ![c] = s] ELSE chat,
                      NEW late, NextPart(ch, s, late)
               PROVE  ScreensInv'
  BY <1>4
<1>8. \A d : ~HasCard(chat, d, k)
  BY <1>3, <1>5 DEF ChatsOK, CardsAreSent
<1>9. /\ IsAmong(s, k)
      /\ s.text \in {Held.text, k} /\ s.thinking \in {Held.thinking, k}
  <2>1. IsAmong(Held, Len(shown)) /\ Len(shown) \in Nat
    BY <1>3, HeldIsSent
  <2>2. s = [Held EXCEPT ![part] = k] /\ Held \in ChatState
    BY <1>7, <2>1 DEF Noted, IsAmong
  <2>3. /\ s \in ChatState
        /\ s.text \in {Held.text, k} /\ s.thinking \in {Held.thinking, k}
    BY <1>2, <1>5, <2>2 DEF ChatState
  <2>. QED
    BY <2>1, <2>3 DEF IsAmong
<1>10. /\ AreChats(ch)
       /\ \A d, n : HasCard(ch, d, n) =>
            HasCard(chat, d, n) \/ (n = k /\ d = c /\ Attached)
  <2>1. CASE Attached
    <3>1. c \in DOMAIN chat /\ Held = chat[c]
      BY <2>1 DEF Attached, Held
    <3>2. /\ DOMAIN ch = DOMAIN chat /\ ch \in [DOMAIN ch -> ChatState] /\ ch[c] = s
          /\ \A d \in DOMAIN ch \ {c} : ch[d] = chat[d]
      BY <1>3, <1>7, <1>9, <2>1, <3>1 DEF AreChats, IsAmong
    <3>3. AreChats(ch)
      BY <1>3, <3>2 DEF AreChats
    <3>4. ASSUME NEW d, NEW n, HasCard(ch, d, n), ~HasCard(chat, d, n)
          PROVE  n = k /\ d = c
      BY <1>9, <3>1, <3>2, <3>4 DEF HasCard
    <3>. QED
      BY <2>1, <3>3, <3>4
  <2>2. CASE ~Attached
    BY <1>3, <1>7, <2>2
  <2>. QED
    BY <2>1, <2>2
<1>11. ChatsOK(ch)'
  <2>1. \A d, n : HasCard(ch, d, n) => n \in 1..Len(shown')
    BY <1>3, <1>5, <1>10 DEF ChatsOK, CardsAreSent
  <2>2. \A d, e, n : HasCard(ch, d, n) /\ HasCard(ch, e, n) => d = e
    BY <1>3, <1>8, <1>10 DEF ChatsOK, CardsAreOwn
  <2>3. ASSUME NEW d, NEW n, HasCard(ch, d, n), n \notin raced'
        PROVE  shown'[n] \subseteq {turn[d]}
    <3>1. CASE HasCard(chat, d, n)
      <4>1. n \in 1..Len(shown) /\ n \notin raced
        BY <1>3, <1>6, <2>3, <3>1 DEF ChatsOK, CardsAreSent
      <4>. QED
        BY <1>3, <1>5, <3>1, <4>1 DEF ChatsOK, CardsAreCurrent
    <3>2. CASE n = k /\ d = c /\ Attached
      BY <1>5, <1>6, <2>3, <3>2
    <3>. QED
      BY <1>10, <2>3, <3>1, <3>2
  <2>. QED
    BY <1>1, <1>10, <2>1, <2>2, <2>3
       DEF ChatsOK, AreChats, CardsAreSent, CardsAreOwn, CardsAreCurrent, HasCard
<1>12. /\ ChatsOK(chat)' /\ PatchOK'
       /\ outbound' \in {Idle} \cup Call /\ IsAmong(dropped', Len(shown'))
  <2>1. IsAmong(dropped, Len(shown)) /\ Len(shown) \in Nat
    BY <1>3 DEF ScreensInv, ScreensTypeOK
  <2>2. IsAmong(dropped, Len(shown')) /\ IsAmong(s, Len(shown')) /\ Len(shown') \in Nat
    BY <1>5, <1>9, <2>1 DEF IsAmong
  <2>3. Attached => c \in DOMAIN ch /\ ch[c] = s
    BY <1>7 DEF Attached
  <2>. QED
    BY <1>1, <1>3, <1>7, <1>11, <2>2, <2>3, NextPartOK
<1>13. ScreensTypeOK'
  BY <1>1, <1>3, <1>5, <1>12 DEF ScreensTypeOK, ChatsOK
<1>14. CardsAreOnce'
  <2>1. ASSUME NEW n \in (1..Len(shown')) \ raced'
        PROVE  \E t : shown'[n] \subseteq {t}
    <3>1. CASE n = k
      BY <1>5, <3>1
    <3>2. CASE n # k
      <4>1. n \in (1..Len(shown)) \ raced
        BY <1>3, <1>5, <1>6, <3>2
      <4>. QED
        BY <1>5, <4>1 DEF ScreensInv, CardsAreOnce
    <3>. QED
      BY <3>1, <3>2
  <2>. QED
    BY <2>1 DEF CardsAreOnce
<1>. QED
  BY <1>12, <1>13, <1>14 DEF ScreensInv

\* A card was patched: it shows the turn of the call, as before.
LEMMA PatchedKeepsCards ==
  ASSUME ScreensInv, CardPatched
  PROVE  ScreensInv'
<1> DEFINE k == outbound.card
<1>1. /\ outbound \in Call /\ outbound.op = "patch" /\ UNCHANGED turn
      /\ NextPart(chat, Held, {}) /\ raced \subseteq raced'
      /\ shown' = [shown EXCEPT ![k] = @ \cup {outbound.turn}]
  BY DEF ScreensInv, ScreensTypeOK, CardPatched, NextPart, Idle
<1>2. /\ shown \in Seq(SUBSET Nat) /\ turn \in [Channel -> Nat]
      /\ AreChats(chat) /\ ChatsOK(chat)
  BY DEF ScreensInv, ScreensTypeOK
<1>3. k \in 1..Len(shown) /\ outbound.turn \in Nat
  BY <1>1 DEF ScreensInv, PatchOK, Call
<1>4. /\ shown' \in Seq(SUBSET Nat) /\ Len(shown') = Len(shown)
      /\ \A n \in 1..Len(shown) :
           shown'[n] = IF n = k THEN shown[k] \cup {outbound.turn} ELSE shown[n]
  BY <1>1, <1>2, <1>3
<1>5. k \notin raced =>
        /\ shown'[k] \subseteq {outbound.turn}
        /\ \A c : HasCard(chat, c, k) => turn[c] = outbound.turn
  BY <1>1, <1>3, <1>4 DEF ScreensInv, PatchOK
<1>6. SUFFICES ASSUME NEW ch, ch = chat, NEW s, s = Held, NextPart(ch, s, {})
               PROVE  ScreensInv'
  BY <1>1
<1>7. ChatsOK(ch)'
  <2>1. CardsAreSent(ch)' /\ CardsAreOwn(ch)' /\ AreChats(ch)
    BY <1>2, <1>4, <1>6 DEF ChatsOK, CardsAreSent, CardsAreOwn
  <2>2. ASSUME NEW c, NEW n, HasCard(ch, c, n), n \notin raced'
        PROVE  shown'[n] \subseteq {turn[c]}
    <3>1. n \in 1..Len(shown) /\ shown[n] \subseteq {turn[c]}
      BY <1>1, <1>2, <1>6, <2>2 DEF ChatsOK, CardsAreSent, CardsAreCurrent
    <3>. QED
      BY <1>1, <1>4, <1>5, <1>6, <2>2, <3>1
  <2>. QED
    BY <1>1, <2>1, <2>2 DEF ChatsOK, AreChats, CardsAreCurrent, HasCard
<1>8. /\ ChatsOK(chat)' /\ PatchOK'
      /\ outbound' \in {Idle} \cup Call /\ IsAmong(dropped', Len(shown'))
  <2>1. IsAmong(dropped, Len(shown)) /\ IsAmong(Held, Len(shown)) /\ Len(shown) \in Nat
    BY <1>2, HeldIsSent DEF ScreensInv, ScreensTypeOK
  <2>2. IsAmong(dropped, Len(shown')) /\ IsAmong(s, Len(shown')) /\ Len(shown') \in Nat
    BY <1>4, <1>6, <2>1
  <2>3. Attached => outbound.channel \in DOMAIN ch /\ ch[outbound.channel] = s
    BY <1>6 DEF Attached, Held
  <2>. QED
    BY <1>1, <1>2, <1>6, <1>7, <2>2, <2>3, NextPartOK
<1>9. ScreensTypeOK'
  BY <1>1, <1>2, <1>4, <1>8 DEF ScreensTypeOK, ChatsOK
<1>10. CardsAreOnce'
  <2>1. ASSUME NEW n \in (1..Len(shown)) \ raced'
        PROVE  \E e : shown'[n] \subseteq {e}
    <3>1. CASE n = k
      BY <1>1, <1>5, <2>1, <3>1
    <3>2. CASE n # k
      BY <1>1, <1>4, <2>1, <3>2 DEF ScreensInv, CardsAreOnce
    <3>. QED
      BY <3>1, <3>2
  <2>. QED
    BY <1>4, <2>1 DEF CardsAreOnce
<1>. QED
  BY <1>8, <1>9, <1>10 DEF ScreensInv

\* A part that cannot be shown changes no card.
LEMMA FailingKeepsCards ==
  ASSUME ScreensInv, ShowFails
  PROVE  ScreensInv'
<1>1. /\ outbound \in Call /\ UNCHANGED <<turn, shown>>
      /\ turn \in [Channel -> Nat] /\ ChatsOK(chat) /\ AreChats(chat)
      /\ shown \in Seq(SUBSET Nat) /\ IsAmong(dropped, Len(shown))
  BY DEF ScreensInv, ScreensTypeOK, ShowFails
<1>2. CASE outbound' = [outbound EXCEPT !.op = "send"] /\ UNCHANGED <<chat, dropped, raced>>
  <2>1. outbound' \in Call /\ outbound'.op = "send"
    BY <1>1, <1>2 DEF Call
  <2>2. ScreensTypeOK' /\ PatchOK'
    BY <1>1, <1>2, <2>1 DEF ScreensInv, ScreensTypeOK, PatchOK
  <2>3. ChatsOK(chat)' /\ CardsAreOnce'
    BY <1>1, <1>2 DEF ScreensInv, CardsAreOnce, ChatsOK, AreChats, CardsAreSent,
                      CardsAreOwn, CardsAreCurrent, HasCard
  <2>. QED
    BY <2>2, <2>3 DEF ScreensInv
<1>3. CASE NextPart(chat, Held, {})
  <2>1. raced \subseteq raced'
    BY <1>3 DEF NextPart
  <2>2. SUFFICES ASSUME NEW ch, ch = chat, NEW s, s = Held, NextPart(ch, s, {})
                 PROVE  ScreensInv'
    BY <1>3
  <2>3. ChatsOK(ch)'
    BY <1>1, <2>1, <2>2 DEF ChatsOK, AreChats, CardsAreSent, CardsAreOwn, CardsAreCurrent,
                            HasCard
  <2>4. /\ ChatsOK(chat)' /\ PatchOK'
        /\ outbound' \in {Idle} \cup Call /\ IsAmong(dropped', Len(shown'))
    <3>1. IsAmong(dropped, Len(shown')) /\ IsAmong(s, Len(shown')) /\ Len(shown') \in Nat
      BY <1>1, <2>2, HeldIsSent
    <3>2. Attached => outbound.channel \in DOMAIN ch /\ ch[outbound.channel] = s
      BY <2>2 DEF Attached, Held
    <3>. QED
      BY <1>1, <2>2, <2>3, <3>1, <3>2, NextPartOK
  <2>5. ScreensTypeOK' /\ CardsAreOnce'
    BY <1>1, <2>1, <2>4 DEF ScreensInv, ScreensTypeOK, ChatsOK, CardsAreOnce
  <2>. QED
    BY <2>4, <2>5 DEF ScreensInv
<1>. QED
  BY <1>2, <1>3 DEF ShowFails

\* A process that ends takes the chat states with it; the cards stay as they are.
LEMMA EndingKeepsCards ==
  ASSUME ScreensInv, End
  PROVE  ScreensInv'
<1>1. /\ chat' = <<>> /\ dropped' = Blank(0) /\ outbound' = Idle
      /\ UNCHANGED <<turn, shown, raced>>
  BY DEF End
<1>2. DOMAIN chat' = {} /\ chat' \in [{} -> ChatState]
  BY <1>1
<1>3. \A c, n : ~HasCard(chat', c, n)
  BY <1>2 DEF HasCard
<1>4. ChatsOK(chat)'
  BY <1>2, <1>3 DEF ChatsOK, AreChats, CardsAreSent, CardsAreOwn, CardsAreCurrent
<1>5. ScreensTypeOK'
  <2>1. IsAmong(dropped', Len(shown'))
    BY <1>1 DEF ScreensInv, ScreensTypeOK, IsAmong, Blank, ChatState, NoCard
  <2>. QED
    BY <1>1, <1>4, <2>1 DEF ScreensInv, ScreensTypeOK, ChatsOK
<1>6. PatchOK' /\ CardsAreOnce'
  BY <1>1 DEF ScreensInv, PatchOK, CardsAreOnce, Idle
<1>. QED
  BY <1>4, <1>5, <1>6 DEF ScreensInv

\* Every step keeps the invariant of the cards.
LEMMA ScreensPreserved ==
  ASSUME ScreensInv, AgentsInv, [Next]_vars
  PROVE  ScreensInv'
<1>1. CASE UNCHANGED screens
  BY <1>1 DEF screens, ScreensInv, ScreensTypeOK, PatchOK, CardsAreOnce, ChatsOK, AreChats,
              CardsAreSent, CardsAreOwn, CardsAreCurrent, HasCard
<1>2. ASSUME NEW c \in Channel, AnswerOnly(c)
      PROVE  ScreensInv'
  <2>1. chat' = chat \/ chat' = Created(chat, c)
    BY <1>2 DEF AnswerOnly
  <2>2. UNCHANGED <<dropped, outbound, turn, shown, raced>>
    BY <1>2 DEF AnswerOnly
  <2>3. ChatsOK(chat)' /\ AreChats(chat')
        /\ \A d, n : HasCard(chat', d, n) => HasCard(chat, d, n)
    BY <2>1, <2>2, CreatingKeepsCards
  <2>4. ScreensTypeOK' /\ CardsAreOnce'
    BY <2>2, <2>3 DEF ScreensInv, ScreensTypeOK, CardsAreOnce
  <2>5. PatchOK'
    BY <2>2, <2>3 DEF ScreensInv, PatchOK
  <2>. QED
    BY <2>3, <2>4, <2>5 DEF ScreensInv
<1>3. ASSUME NEW e \in Id, HandleMessage(e)
      PROVE  ScreensInv'
  <2>1. PICK u \in User, c \in Channel :
          HashCommand(u, c) \/ WizardMoves(u, c) \/ WizardCreates(u, c) \/ Forward(u, c)
    BY <1>3 DEF HandleMessage
  <2>2. CASE HashNew(u, c) \/ (\E w \in live : SessionClose(u, c, w)) \/ WizardMoves(u, c)
             \/ WizardCreates(u, c)
    BY <1>1, <2>2 DEF HashNew, SessionClose, WizardMoves, WizardCreates
  <2>3. CASE Forward(u, c)
    BY <2>3, TurnKeepsCards DEF Forward
  <2>. QED
    BY <1>2, <2>1, <2>2, <2>3 DEF HashCommand
<1>4. CASE NewStarts
  <2>1. inbound.channel \in Channel
    BY <1>4 DEF NewStarts, AgentsInv, HandlerOK, IsInbound, Idle
  <2>. QED
    BY <1>4, <2>1, TurnKeepsCards DEF NewStarts
<1>5. ASSUME NEW c, NEW w,
             \/ KillReturns \/ AnswerFails \/ CreateReturns \/ CreateRaises \/ CreateBinds
             \/ CreateEnds \/ Connection \/ BindElsewhere(c) \/ KillThread(w)
             \/ WindowExits(w) \/ Save \/ Start \/ UNCHANGED vars
      PROVE  UNCHANGED screens
  BY <1>5 DEF KillReturns, AnswerFails, Save, CreateReturns, CreateRaises, CreateBinds, CreateEnds, Connection,
              BindElsewhere, KillThread, WindowExits, Start, vars
<1>. QED
  BY <1>1, <1>3, <1>4, <1>5, DispatchKeepsCards, SentKeepsCards, PatchedKeepsCards,
     FailingKeepsCards, EndingKeepsCards DEF Next

-----------------------------------------------------------------------------
(* The theorems.                                                           *)

IInv == ConnectionInv /\ AgentsInv /\ ScreensInv

\* Initially there is nothing to see.
LEMMA InitIInv == Init => IInv
<1> SUFFICES ASSUME Init PROVE IInv
  OBVIOUS
<1>1. ConnectionInv
  BY ConnectionInitInv DEF Init
<1>2. <<>> \in [{} -> Phase] /\ <<>> \in [{} -> ChatState] /\ DOMAIN <<>> = {}
  OBVIOUS
<1>3. AgentsInv
  BY <1>2 DEF Init, AgentsInv, HandlerOK, IsInbound, WindowsOK, NoSessionUnseen,
              PartialFunctions, Values
<1>4. ScreensTypeOK
  BY <1>2 DEF Init, ScreensTypeOK, AreChats, IsAmong, Blank, ChatState, NoCard
<1>5. ChatsOK(chat)
  BY <1>2, <1>4 DEF Init, ScreensTypeOK, ChatsOK, CardsAreSent, CardsAreOwn,
                    CardsAreCurrent, HasCard
<1>6. PatchOK /\ CardsAreOnce
  BY DEF Init, PatchOK, CardsAreOnce, Idle
<1>. QED
  BY <1>1, <1>3, <1>4, <1>5, <1>6 DEF IInv, ScreensInv

\* The invariant holds in every reachable state.
LEMMA Invariant == Spec => []IInv
<1>1. IInv /\ [Next]_vars => IInv'
  BY ConnectionPreserved, AgentsPreserved, ScreensPreserved DEF IInv
<1>. QED
  BY InitIInv, <1>1, PTL DEF Spec

\* Connection, wizard, bindings, windows, streaming states and the two awaiting
\* tasks keep their types; every card that a state adds to was sent.
THEOREM TypesHold == Spec => []TypeOK
<1>1. ASSUME IInv
      PROVE  TypeOK
  <2>1. ConnectionTypeOK /\ HandlerOK /\ WindowsOK /\ ScreensTypeOK /\ ChatsOK(chat) /\ PatchOK
    BY <1>1 DEF IInv, ConnectionInv, AgentsInv, ScreensInv
  <2>2. DOMAIN shown = 1..Len(shown)
    BY <2>1 DEF ScreensTypeOK
  <2>3. ASSUME NEW s \in Values(chat) \cup {dropped}, NEW k \in Kind, s[k] # NoCard
        PROVE  s[k] \in DOMAIN shown
    <3>1. s[k] = s.text \/ s[k] = s.thinking
      BY DEF Kind
    <3>2. CASE s = dropped
      BY <2>1, <2>2, <2>3, <3>1, <3>2 DEF ScreensTypeOK, IsAmong, NoCard
    <3>3. CASE s \in Values(chat)
      <4>1. PICK c \in DOMAIN chat : chat[c] = s
        BY <3>3 DEF Values
      <4>2. HasCard(chat, c, s[k])
        BY <2>3, <3>1, <4>1 DEF HasCard
      <4>. QED
        BY <2>1, <2>2, <4>2 DEF ChatsOK, CardsAreSent
    <3>. QED
      BY <3>2, <3>3
  <2>4. IsOutbound(outbound)
    BY <2>1, <2>2 DEF ScreensTypeOK, PatchOK, IsOutbound, Call
  <2>5. DOMAIN chat \subseteq Channel
    BY <2>1 DEF ChatsOK, AreChats
  <2>. QED
    BY <2>1, <2>3, <2>4, <2>5 DEF TypeOK, HandlerOK, WindowsOK
<1>. QED
  BY <1>1, Invariant, PTL

\* _dispatch_event and _save_seen_state: over all connections and lives of the
\* process a message is handled once, but for an id a failed or torn save lost.
THEOREM MessagesOnce == Spec => []HandledOnce
<1>1. IInv => HandledOnce
  BY DEF IInv, ConnectionInv
<1>. QED
  BY <1>1, Invariant, PTL

\* _create_window, #new, #session close, the API, the saves and the ends of the process
\* together: a running window is bound, about to be, or being killed, or tmux refused
\* to kill it, or it was left open by a failed creation or by the end of a process that
\* was killing it, had just made it, or had not yet bound it in the file.
THEOREM SessionsSeen == Spec => []NoSessionUnseen
<1>1. IInv => NoSessionUnseen
  BY DEF IInv, AgentsInv, WindowsOK
<1>. QED
  BY <1>1, Invariant, PTL

\* advance_turn_index, reset_channel_state and _flush: a card never gets the output
\* of two turns, unless its id came back after the turn had advanced, or a batch whose
\* chat was reset went on with it.
THEOREM CardsOneTurn == Spec => []OneTurnPerCard
<1>1. ASSUME IInv
      PROVE  OneTurnPerCard
  <2>1. SUFFICES ASSUME NEW k \in DOMAIN shown, k \notin raced
                 PROVE  ~(Cardinality(shown[k]) > 1)
    BY DEF OneTurnPerCard
  <2>2. k \in 1..Len(shown)
    BY <1>1 DEF IInv, ScreensInv, ScreensTypeOK
  <2>3. PICK t : shown[k] \subseteq {t}
    BY <1>1, <2>1, <2>2 DEF IInv, ScreensInv, CardsAreOnce
  <2>4. IsFiniteSet({t}) /\ Cardinality({t}) = 1
    BY FS_Singleton
  <2>5. Cardinality(shown[k]) \in Nat /\ Cardinality(shown[k]) <= 1
    BY <2>3, <2>4, FS_Subset, FS_CardinalityType
  <2>. QED
    BY <2>5
<1>. QED
  BY <1>1, Invariant, PTL
=============================================================================
