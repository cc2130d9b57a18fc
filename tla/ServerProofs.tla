----------------------------- MODULE ServerProofs -----------------------------
(***************************************************************************)
(* Proofs about Server, for any connections, channels and number of        *)
(* events.                                                                 *)
(***************************************************************************)
EXTENDS Server, TLAPS

-----------------------------------------------------------------------------
(* The inductive invariant.                                                *)

\* Who listens to anything.
Listening(x) == x \in global \/ \E c \in DOMAIN subs : x \in subs[c]

\* A connection is known to nobody before its endpoint has accepted it.
NewAreUnknown ==
  \A x \in Conn : conn[x] = "new" => ~Listening(x) /\ x \notin due

\* Only what is known to be gone is going to be removed by a broadcast.
Gone(x) == conn[x] \in {"lost", "ended"}
DeadAreGone == cast # Quiet => \A x \in cast.dead : Gone(x)

\* Nothing is missing any more from a listener of the event in progress.
Reached(x) == x \in served \/ x \in left \/ Gone(x)

\* Those not reached yet are on the list of the stage, or will be on the next one.
OthersAreListed ==
  /\ due \subseteq Conn
  /\ cast.stage = "quiet" => due = {}
  /\ cast.stage = "channel" =>
       \A x \in due : Reached(x) \/ x \in cast.todo \/ x \in global
  /\ cast.stage = "global" =>
       \A x \in due : Reached(x) \/ x \in cast.todo

IInv == TypeOK /\ NewAreUnknown /\ DeadAreGone /\ OthersAreListed

-----------------------------------------------------------------------------
(* The manager's operations: types, and who may join or leave.             *)

SubsOK(f) == \A c \in DOMAIN f : c \in Channel /\ f[c] \subseteq Conn /\ f[c] # {}

\* A change to the manager's sets: typed as before, and nobody listens after it
\* but those who did and x.
Joins(x) ==
  /\ SubsOK(subs)'
  /\ global' \subseteq global \cup {x}
  /\ \A c \in DOMAIN subs' : \A y \in subs'[c] :
       y = x \/ \E d \in DOMAIN subs : y \in subs[d]

\* subscribe
LEMMA SubscribeJoins ==
  ASSUME SubsOK(subs), NEW x \in Conn, NEW c \in Channel, Subscribe(c, x)
  PROVE  Joins(x)
<1>1. subs' = Put(subs, c, Subscribers(c) \cup {x}) /\ global' = global
  BY DEF Subscribe
<1>2. \A y \in Subscribers(c) : c \in DOMAIN subs /\ y \in subs[c]
  BY DEF Subscribers, Get
<1>3. /\ DOMAIN subs' = DOMAIN subs \cup {c}
      /\ \A d \in DOMAIN subs' :
           subs'[d] = IF d = c THEN Subscribers(c) \cup {x} ELSE subs[d]
  BY <1>1 DEF Put
<1>. QED
  BY <1>1, <1>2, <1>3 DEF Joins, SubsOK

\* unsubscribe
LEMMA UnsubscribeJoins ==
  ASSUME SubsOK(subs), NEW x \in Conn, NEW c \in Channel, Unsubscribe(c, x)
  PROVE  Joins(x)
<1>1. subs' = SubsWithout(c, x) /\ global' = global
  BY DEF Unsubscribe
<1>2. \A y \in Subscribers(c) : c \in DOMAIN subs /\ y \in subs[c]
  BY DEF Subscribers, Get
<1>3. CASE Subscribers(c) \subseteq {x}
  <2>1. /\ DOMAIN subs' \subseteq DOMAIN subs
        /\ \A d \in DOMAIN subs' : subs'[d] = subs[d]
    BY <1>1, <1>3 DEF SubsWithout, Without
  <2>. QED
    BY <1>1, <2>1 DEF Joins, SubsOK
<1>4. CASE ~(Subscribers(c) \subseteq {x})
  <2>1. /\ DOMAIN subs' = DOMAIN subs \cup {c}
        /\ \A d \in DOMAIN subs' :
             subs'[d] = IF d = c THEN Subscribers(c) \ {x} ELSE subs[d]
    BY <1>1, <1>4 DEF SubsWithout, Put
  <2>2. Subscribers(c) \ {x} # {}
    BY <1>4
  <2>. QED
    BY <1>1, <1>2, <2>1, <2>2 DEF Joins, SubsOK
<1>. QED
  BY <1>3, <1>4

\* _remove_connections
LEMMA RemoveJoins ==
  ASSUME SubsOK(subs), NEW X, Remove(X), NEW x
  PROVE  Joins(x)
<1>1. /\ global' = global \ X
      /\ DOMAIN subs' = {d \in DOMAIN subs : ~(subs[d] \subseteq X)}
      /\ \A d \in DOMAIN subs' : subs'[d] = subs[d] \ X
  BY DEF Remove
<1>. QED
  BY <1>1 DEF Joins, SubsOK

\* send_to
LEMMA AnswerJoins ==
  ASSUME SubsOK(subs), NEW x \in Conn, Answer(x)
  PROVE  Joins(x) /\ (x \in global /\ ~Gone(x) => x \in global') /\ global \ {x} \subseteq global'
<1>1. CASE UNCHANGED manager
  BY <1>1 DEF Joins, SubsOK, manager
<1>2. CASE conn[x] = "lost" /\ Remove({x})
  BY <1>2, RemoveJoins DEF Remove, Gone
<1>. QED
  BY <1>1, <1>2 DEF Answer

\* What the endpoint of a connection does between two steps of a broadcast: no
\* other connection joins, a connection that is gone stays so, and only one that is
\* gone leaves the global ones.
LEMMA EndpointStep ==
  ASSUME IInv, NEW x \in Conn, Joins(x), conn'[x] # "new",
         \A y \in Conn \ {x} : conn'[y] = conn[y],
         Gone(x) => Gone(x)',
         \A y \in global : y \in global' \/ Gone(y)',
         UNCHANGED <<cast, due, served>>, left \subseteq left'
  PROVE  NewAreUnknown' /\ DeadAreGone' /\ OthersAreListed'
<1>1. NewAreUnknown'
  <2>1. SUFFICES ASSUME NEW y \in Conn, conn'[y] = "new"
                 PROVE  ~Listening(y)' /\ y \notin due'
    BY DEF NewAreUnknown
  <2>2. y # x /\ conn[y] = "new"
    BY <2>1
  <2>3. ~Listening(y) /\ y \notin due
    BY <2>2 DEF IInv, NewAreUnknown
  <2>. QED
    BY <2>2, <2>3 DEF Joins, Listening
<1>2. \A y \in Conn : Gone(y) => Gone(y)'
  BY DEF Gone
<1>3. DeadAreGone'
  <2>1. cast # Quiet => cast.dead \subseteq Conn
    BY DEF IInv, TypeOK, Casting
  <2>. QED
    BY <1>2, <2>1 DEF IInv, DeadAreGone
<1>4. \A y \in due : y \in Conn /\ (Reached(y) => Reached(y)')
  BY <1>2 DEF Reached, IInv, OthersAreListed
<1>5. \A y \in due : y \in global => y \in global' \/ Reached(y)'
  BY DEF Reached
<1>6. OthersAreListed'
  BY <1>4, <1>5 DEF IInv, OthersAreListed
<1>. QED
  BY <1>1, <1>3, <1>6

\* The same for a step of an endpoint that is not the first and does not end it.
LEMMA HandlerStep ==
  ASSUME IInv, NEW x \in Conn, Joins(x), conn[x] # "new", UNCHANGED conn,
         \A y \in global : y \in global' \/ Gone(y),
         UNCHANGED <<cast, due, served>>, left \subseteq left'
  PROVE  NewAreUnknown' /\ DeadAreGone' /\ OthersAreListed'
<1>1. \A y : Gone(y) <=> Gone(y)'
  BY DEF Gone
<1>. QED
  BY <1>1, EndpointStep

-----------------------------------------------------------------------------
(* Every step preserves the invariant.                                     *)

\* Initially nobody has connected and nothing is broadcast.
LEMMA InitIInv == Init => IInv
<1> SUFFICES ASSUME Init PROVE IInv
  OBVIOUS
<1>1. TypeOK
  BY DEF Init, TypeOK
<1>2. NewAreUnknown /\ DeadAreGone
  BY DEF Init, NewAreUnknown, Listening, DeadAreGone
<1>3. OthersAreListed
  BY DEF Init, OthersAreListed, Quiet
<1>. QED
  BY <1>1, <1>2, <1>3 DEF IInv

\* A connection comes, is lost, or ends.
LEMMA ComingAndGoing ==
  ASSUME IInv, NEW x \in Conn,
         (\E u \in Channel \cup {All} : Connect(x, u)) \/ Lose(x) \/ End(x)
  PROVE  IInv'
<1>1. SubsOK(subs) /\ conn \in [Conn -> {"new", "open", "lost", "ended"}]
  BY DEF IInv, TypeOK, SubsOK
<1>2. ASSUME NEW u \in Channel \cup {All}, Connect(x, u)
      PROVE  Joins(x) /\ global \subseteq global' /\ UNCHANGED left
  <2>1. CASE u = All
    BY <1>1, <1>2, <2>1 DEF Connect, Joins, SubsOK
  <2>2. CASE u # All
    BY <1>1, <1>2, <2>2, SubscribeJoins DEF Connect, Subscribe
  <2>. QED
    BY <2>1, <2>2
<1>3. ASSUME NEW u \in Channel \cup {All}, Connect(x, u)
      PROVE  IInv'
  <2>1. conn[x] = "new" /\ conn' = [conn EXCEPT ![x] = "open"] /\ url' = [url EXCEPT ![x] = u]
    BY <1>3 DEF Connect
  <2>2. NewAreUnknown' /\ DeadAreGone' /\ OthersAreListed'
    BY <1>1, <1>2, <1>3, <2>1, EndpointStep DEF Connect, hearing, Gone
  <2>3. TypeOK'
    <3>1. UNCHANGED <<task, session, cast>>
      BY <1>3 DEF Connect, hearing
    <3>2. /\ conn' \in [Conn -> {"new", "open", "lost", "ended"}]
          /\ url' \in [Conn -> Channel \cup {All}]
          /\ \A y \in Conn : task[y] # Idle => conn'[y] \in {"open", "lost"}
      BY <1>1, <2>1 DEF IInv, TypeOK
    <3>3. global' \subseteq Conn /\ SubsOK(subs)'
      BY <1>2, <1>3 DEF Joins, IInv, TypeOK
    <3>. QED
      BY <3>1, <3>2, <3>3 DEF IInv, TypeOK, SubsOK
  <2>. QED
    BY <2>2, <2>3 DEF IInv
<1>4. CASE Lose(x)
  <2>1. conn[x] = "open" /\ conn' = [conn EXCEPT ![x] = "lost"]
    BY <1>4 DEF Lose
  <2>2. Joins(x) /\ UNCHANGED <<global, left>>
    BY <1>1, <1>4 DEF Lose, manager, Joins, SubsOK
  <2>3. NewAreUnknown' /\ DeadAreGone' /\ OthersAreListed'
    BY <1>1, <1>4, <2>1, <2>2, EndpointStep DEF Lose, hearing, Gone
  <2>4. TypeOK'
    BY <1>1, <1>4, <2>1 DEF Lose, hearing, manager, IInv, TypeOK
  <2>. QED
    BY <2>3, <2>4 DEF IInv
<1>5. CASE End(x)
  <2>1. conn[x] = "lost" /\ task[x] = Idle /\ conn' = [conn EXCEPT ![x] = "ended"]
    BY <1>5 DEF End, Receives
  <2>2. Joins(x) /\ global \ {x} \subseteq global' /\ left \subseteq left'
    <3>1. CASE url[x] = All
      BY <1>1, <1>5, <3>1 DEF End, Joins, SubsOK
    <3>2. CASE url[x] # All
      <4>1. url[x] \in Channel
        BY <3>2 DEF IInv, TypeOK
      <4>. QED
        BY <1>1, <1>5, <3>2, <4>1, UnsubscribeJoins DEF End, Unsubscribe
    <3>. QED
      BY <3>1, <3>2
  <2>3. NewAreUnknown' /\ DeadAreGone' /\ OthersAreListed'
    BY <1>1, <1>5, <2>1, <2>2, EndpointStep DEF End, hearing, Gone
  <2>4. TypeOK'
    BY <1>1, <1>5, <2>1, <2>2 DEF End, hearing, IInv, TypeOK, Joins, SubsOK
  <2>. QED
    BY <2>3, <2>4 DEF IInv
<1>. QED
  BY <1>3, <1>4, <1>5

\* A message is taken or handled.
LEMMA Handling ==
  ASSUME IInv, NEW x \in Conn,
         \/ Ask(x) \/ HandlerRaises(x)
         \/ \E c \in Channel : Create(x, c) \/ Close(x, c)
         \/ CreateBinds(x) \/ CreateSubscribes(x) \/ CloseUnsubscribes(x)
  PROVE  IInv'
<1> DEFINE Task == {Idle} \cup [op : {"create", "bound", "close"}, channel : Channel]
<1>1. /\ SubsOK(subs) /\ conn \in [Conn -> {"new", "open", "lost", "ended"}]
      /\ task \in [Conn -> Task]
  BY DEF IInv, TypeOK, SubsOK
<1>2. /\ UNCHANGED <<conn, url>> /\ UNCHANGED <<cast, due, served, events>>
  BY DEF Ask, HandlerRaises, Create, Close, CreateBinds, CreateSubscribes,
         CloseUnsubscribes, hearing
<1>3. conn[x] \in {"open", "lost"}
  <2>1. task[x] # Idle => conn[x] \in {"open", "lost"}
    BY DEF IInv, TypeOK
  <2>2. Idle.op = "idle"
    BY DEF Idle
  <2>. QED
    BY <2>1, <2>2 DEF Ask, HandlerRaises, Create, Close, CreateBinds, CreateSubscribes,
         CloseUnsubscribes, Receives
<1>4. ASSUME NEW t \in Task, Becomes(x, t)
      PROVE  /\ task' \in [Conn -> Task]
             /\ \A y \in Conn : task'[y] # Idle => conn'[y] \in {"open", "lost"}
  BY <1>1, <1>2, <1>3, <1>4 DEF Becomes, IInv, TypeOK
<1>5. ASSUME Joins(x), \A y \in global : y \in global' \/ Gone(y), left \subseteq left',
             \/ UNCHANGED task
             \/ \E t \in Task : Becomes(x, t),
             session' \subseteq Channel
      PROVE  IInv'
  <2>1. NewAreUnknown' /\ DeadAreGone' /\ OthersAreListed'
    BY <1>2, <1>3, <1>5, HandlerStep
  <2>2. /\ task' \in [Conn -> Task]
        /\ \A y \in Conn : task'[y] # Idle => conn'[y] \in {"open", "lost"}
    BY <1>1, <1>2, <1>4, <1>5 DEF IInv, TypeOK
  <2>3. TypeOK'
    BY <1>1, <1>2, <1>5, <2>2 DEF IInv, TypeOK, Joins, SubsOK
  <2>. QED
    BY <2>1, <2>3 DEF IInv
<1>6. session \subseteq Channel /\ Idle \in Task
  BY DEF IInv, TypeOK
<1>7. Answer(x) => Joins(x) /\ \A y \in global : y \in global' \/ Gone(y)
  BY <1>1, AnswerJoins, <1>3 DEF Gone
<1>8. CASE Ask(x)
  BY <1>5, <1>6, <1>7, <1>8 DEF Ask
<1>9. CASE HandlerRaises(x)
  BY <1>5, <1>6, <1>7, <1>9 DEF HandlerRaises
<1>10. UNCHANGED manager => Joins(x) /\ UNCHANGED global
  BY <1>1 DEF manager, Joins, SubsOK
<1>11. ASSUME NEW c \in Channel, Create(x, c) \/ Close(x, c)
       PROVE  IInv'
  <2>1. [op |-> "create", channel |-> c] \in Task /\ [op |-> "close", channel |-> c] \in Task
    OBVIOUS
  <2>2. session' \subseteq Channel /\ UNCHANGED left
    BY <1>6, <1>11 DEF Create, Close
  <2>3. \E t \in Task : Becomes(x, t)
    BY <1>11, <2>1 DEF Create, Close
  <2>4. Joins(x) /\ UNCHANGED global
    BY <1>10, <1>11 DEF Create, Close
  <2>. QED
    BY <1>5, <2>2, <2>3, <2>4
<1>12. task[x].op # "idle" => task[x] \in [op : {"create", "bound", "close"}, channel : Channel]
  BY <1>1 DEF Idle
<1>13. CASE CreateBinds(x)
  <2>1. task[x].channel \in Channel /\ [task[x] EXCEPT !.op = "bound"] \in Task
    BY <1>12, <1>13 DEF CreateBinds
  <2>2. session' \subseteq Channel /\ UNCHANGED left /\ \E t \in Task : Becomes(x, t)
    BY <1>6, <1>13, <2>1 DEF CreateBinds
  <2>3. Joins(x) /\ UNCHANGED global
    BY <1>10, <1>13 DEF CreateBinds
  <2>. QED
    BY <1>5, <2>2, <2>3
<1>14. ASSUME conn[x] = "lost", Remove({x})
       PROVE  Joins(x) /\ \A y \in global : y \in global' \/ Gone(y)
  BY <1>1, <1>14, RemoveJoins DEF Remove, Gone
<1>15. CASE CreateSubscribes(x)
  <2>1. task[x].channel \in Channel /\ UNCHANGED session
    BY <1>12, <1>15 DEF CreateSubscribes
  <2>2. Becomes(x, Idle) /\ UNCHANGED left
    BY <1>15 DEF CreateSubscribes, Subscribe
  <2>3. Joins(x) /\ \A y \in global : y \in global' \/ Gone(y)
    BY <1>1, <1>14, <1>15, <2>1, SubscribeJoins DEF CreateSubscribes, Subscribe
  <2>. QED
    BY <1>5, <1>6, <2>1, <2>2, <2>3
<1>16. CASE CloseUnsubscribes(x)
  <2>1. task[x].channel \in Channel /\ UNCHANGED session
    BY <1>12, <1>16 DEF CloseUnsubscribes
  <2>2. Becomes(x, Idle) /\ left \subseteq left'
    BY <1>16 DEF CloseUnsubscribes, Unsubscribe
  <2>3. Joins(x) /\ \A y \in global : y \in global' \/ Gone(y)
    BY <1>1, <1>14, <1>16, <2>1, UnsubscribeJoins DEF CloseUnsubscribes, Unsubscribe
  <2>. QED
    BY <1>5, <1>6, <2>1, <2>2, <2>3
<1>. QED
  BY <1>8, <1>9, <1>11, <1>13, <1>15, <1>16

\* An event comes, a message of it is sent, or a stage of its broadcast is over.
LEMMA Broadcasting ==
  ASSUME IInv,
         \/ \E c \in Channel : EventOfChannel(c)
         \/ EventForAll \/ SentToAll
         \/ \E x \in Conn : Send(x)
  PROVE  IInv'
<1>1. /\ SubsOK(subs) /\ global \subseteq Conn
      /\ conn \in [Conn -> {"new", "open", "lost", "ended"}]
      /\ cast # Quiet => cast \in Casting
      /\ cast # Quiet => cast.stage \in {"channel", "global"}
  BY DEF IInv, TypeOK, SubsOK, Casting
<1>2. \A todo \in SUBSET Conn, stage \in {"channel", "global"} :
        [stage |-> stage, todo |-> todo, dead |-> {}] \in Casting
  BY DEF Casting
<1>3. Quiet.stage = "quiet"
  BY DEF Quiet
<1>4. ASSUME NEW c \in Channel, EventOfChannel(c)
      PROVE  IInv'
  <2>1. /\ cast' = [stage |-> "channel", todo |-> Subscribers(c), dead |-> {}]
        /\ due' = Subscribers(c) \cup global
        /\ UNCHANGED <<conn, url, task, subs, global, session, served, left>>
    BY <1>4 DEF EventOfChannel, manager
  <2>2. /\ Subscribers(c) \subseteq Conn
        /\ \A y \in Subscribers(c) : c \in DOMAIN subs /\ y \in subs[c]
    BY <1>1 DEF Subscribers, Get, SubsOK
  <2>3. TypeOK'
    BY <1>2, <2>1, <2>2 DEF IInv, TypeOK
  <2>4. NewAreUnknown'
    BY <2>1, <2>2 DEF IInv, NewAreUnknown, Listening
  <2>5. DeadAreGone'
    BY <2>1 DEF DeadAreGone
  <2>6. OthersAreListed'
    BY <1>1, <2>1, <2>2 DEF OthersAreListed
  <2>. QED
    BY <2>3, <2>4, <2>5, <2>6 DEF IInv
<1>5. CASE EventForAll
  <2>1. /\ cast' = [stage |-> "global", todo |-> global, dead |-> {}]
        /\ due' = global
        /\ UNCHANGED <<conn, url, task, subs, global, session, served, left>>
    BY <1>5 DEF EventForAll, manager
  <2>2. TypeOK'
    BY <1>1, <1>2, <2>1 DEF IInv, TypeOK
  <2>3. NewAreUnknown'
    BY <2>1 DEF IInv, NewAreUnknown, Listening
  <2>4. DeadAreGone' /\ OthersAreListed'
    BY <1>1, <2>1 DEF DeadAreGone, OthersAreListed
  <2>. QED
    BY <2>2, <2>3, <2>4 DEF IInv
<1>6. ASSUME NEW x \in Conn, Send(x)
      PROVE  IInv'
  <2>1. /\ cast \in Casting /\ cast # Quiet
        /\ UNCHANGED <<conn, url, task, subs, global, session, due, left>>
    BY <1>1, <1>6 DEF Send, manager
  <2>2. /\ cast' \in Casting /\ cast'.stage = cast.stage
        /\ cast'.todo = cast.todo \ {x}
        /\ cast'.dead \subseteq cast.dead \cup {y \in {x} : Gone(y)}
        /\ served \subseteq served' /\ (Gone(x) \/ x \in served')
    <3>1. CASE Sent(x)
      BY <2>1, <3>1 DEF Sent, Casting
    <3>2. CASE SendFails(x)
      <4> DEFINE passed == [cast EXCEPT !.todo = @ \ {x}]
                 noted == [cast EXCEPT !.todo = @ \ {x}, !.dead = @ \cup {x}]
      <4>1. /\ passed \in Casting /\ noted \in Casting
            /\ passed.stage = cast.stage /\ noted.stage = cast.stage
            /\ passed.todo = cast.todo \ {x} /\ noted.todo = cast.todo \ {x}
            /\ passed.dead = cast.dead /\ noted.dead = cast.dead \cup {x}
        BY <2>1 DEF Casting
      <4>2. cast' \in {passed, noted} /\ Gone(x) /\ UNCHANGED served
        BY <3>2 DEF SendFails, Gone
      <4> HIDE DEF passed, noted
      <4>. QED
        BY <4>1, <4>2
    <3>. QED
      BY <1>6, <3>1, <3>2 DEF Send
  <2>3. TypeOK'
    BY <2>1, <2>2 DEF IInv, TypeOK
  <2>4. NewAreUnknown'
    BY <2>1 DEF IInv, NewAreUnknown, Listening
  <2>5. \A y : (Gone(y) => Gone(y)') /\ (Reached(y) => Reached(y)')
    BY <2>1, <2>2 DEF Gone, Reached
  <2>6. DeadAreGone'
    BY <2>1, <2>2, <2>5 DEF IInv, DeadAreGone
  <2>7. Reached(x)'
    BY <2>2, <2>5 DEF Reached
  <2>8. OthersAreListed'
    BY <2>1, <2>2, <2>5, <2>7 DEF IInv, OthersAreListed
  <2>. QED
    BY <2>3, <2>4, <2>6, <2>8 DEF IInv
<1>7. CASE SentToAll
  <2>1. /\ cast \in Casting /\ cast # Quiet /\ cast.todo = {} /\ Remove(cast.dead)
        /\ UNCHANGED <<conn, url, task, session>>
    BY <1>1, <1>7 DEF SentToAll
  <2>2. \A x : Joins(x)
    BY <1>1, <2>1, RemoveJoins
  <2>3. global' = global \ cast.dead
    BY <2>1 DEF Remove
  <2>4. NewAreUnknown'
    <3>1. due' \subseteq due
      BY <1>7 DEF SentToAll
    <3>2. \A y \in Conn : ~Listening(y) => ~Listening(y)'
      <4>1. SUFFICES ASSUME NEW y \in Conn, ~Listening(y)
                     PROVE  ~Listening(y)'
        OBVIOUS
      <4>2. y \notin global'
        BY <2>3, <4>1 DEF Listening
      <4>3. \A c \in DOMAIN subs' : c \in DOMAIN subs /\ subs'[c] \subseteq subs[c]
        BY <2>1 DEF Remove
      <4>. QED
        BY <4>1, <4>2, <4>3 DEF Listening
    <3>. QED
      BY <2>1, <3>1, <3>2 DEF IInv, NewAreUnknown
  <2>5. CASE cast.stage = "channel"
    <3>1. /\ cast' = [stage |-> "global", todo |-> global', dead |-> {}]
          /\ UNCHANGED <<due, served, left>>
      BY <1>7, <2>5 DEF SentToAll
    <3>2. TypeOK'
      BY <1>1, <1>2, <2>1, <2>2, <2>3, <3>1 DEF IInv, TypeOK, Joins, SubsOK
    <3>3. DeadAreGone'
      BY <3>1 DEF DeadAreGone
    <3>4. \A y \in due : Reached(y) \/ y \in global'
      BY <2>1, <2>3, <2>5 DEF IInv, OthersAreListed, DeadAreGone, Reached
    <3>5. \A y : Reached(y) => Reached(y)'
      BY <2>1, <3>1 DEF Reached, Gone
    <3>6. OthersAreListed'
      BY <3>1, <3>4, <3>5 DEF IInv, OthersAreListed
    <3>. QED
      BY <2>4, <3>2, <3>3, <3>6 DEF IInv
  <2>6. CASE cast.stage # "channel"
    <3>1. cast' = Quiet /\ due' = {}
      BY <1>7, <2>6 DEF SentToAll
    <3>2. TypeOK'
      BY <1>1, <2>1, <2>2, <2>3, <3>1 DEF IInv, TypeOK, Joins, SubsOK
    <3>3. DeadAreGone' /\ OthersAreListed'
      BY <1>3, <3>1 DEF DeadAreGone, OthersAreListed
    <3>. QED
      BY <2>4, <3>2, <3>3 DEF IInv
  <2>. QED
    BY <2>5, <2>6
<1>. QED
  BY <1>4, <1>5, <1>6, <1>7

\* The invariant holds in every reachable state.
LEMMA Invariant == Spec => []IInv
<1>1. IInv /\ UNCHANGED vars => IInv'
  BY DEF IInv, TypeOK, NewAreUnknown, DeadAreGone, OthersAreListed, Listening, Gone,
         Reached, vars, manager, hearing
<1>2. IInv /\ Next => IInv'
  BY ComingAndGoing, Handling, Broadcasting DEF Next
<1>. QED
  BY InitIInv, <1>1, <1>2, PTL DEF Spec

-----------------------------------------------------------------------------
(* The theorems.                                                           *)

\* The manager's sets, the endpoints and the broadcast keep their types; no channel
\* keeps an empty set of connections.
THEOREM TypesHold == Spec => []TypeOK
<1>1. IInv => TypeOK
  BY DEF IInv
<1>. QED
  BY <1>1, Invariant, PTL

\* broadcast_to_channel and _send_to_all reach every listener that stays, though
\* they send to lists taken before the awaits and connections come, go and fail.
THEOREM ListenersServed == Spec => []EveryListenerServed
<1>1. IInv => EveryListenerServed
  BY DEF IInv, TypeOK, OthersAreListed, EveryListenerServed, Reached, Gone
<1>. QED
  BY <1>1, Invariant, PTL
=============================================================================
