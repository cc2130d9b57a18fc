------------------------- MODULE SessionMonitorProofs -------------------------
(***************************************************************************)
(* Proofs about SessionMonitor, for any windows, sessions and bounds.      *)
(***************************************************************************)
EXTENDS SessionMonitor, TLAPS

USE DEF Message

-----------------------------------------------------------------------------
(* The inductive invariant.                                                *)

\* No offset is past the end of its file, in memory or on disk.
OffsetsOK ==
  /\ \A s \in DOMAIN tracked : tracked[s] <= lines[s]
  /\ \A s \in DOMAIN disk.tracked : disk.tracked[s] <= lines[s]

\* Events wait only while they are handed over, and none below the offset is
\* missing.
EventsOK ==
  /\ pc # "dispatch" => newEvents = <<>>
  /\ 1..Entered(eventsOffset) \subseteq handled \cup missed \cup Values(newEvents)

\* Messages wait only from the reading of the sessions to the end of a pass, and
\* no process, no line whose offset it has still to save.
QueueOK ==
  /\ pc \notin {"check", "missing", "late"} => newMessages = <<>>
  /\ pc = "down" => exposed = {}

\* What was handed over and is not to come again lies behind the offsets, on disk
\* too unless it is exposed.
DeliveredOK ==
  \A s \in Session : \A n \in delivered[s] : <<s, n>> \notin again =>
    /\ n <= lines[s] /\ Covers(tracked, s, n)
    /\ <<s, n>> \notin exposed => Covers(disk.tracked, s, n)

\* So does what waits, on disk from the save of the pass on.
WaitingOK ==
  \A m \in Values(newMessages) :
    /\ m[2] <= lines[m[1]] /\ Covers(tracked, m[1], m[2])
    /\ (pc = "late" \/ ~dirty) /\ m \notin exposed => Covers(disk.tracked, m[1], m[2])

IInv ==
  /\ TypeOK /\ OffsetsOK /\ EventsOK /\ NoEventSkipped /\ NothingSkipped
  /\ QueueOK /\ DeliveredOK /\ WaitingOK /\ NothingRepeated

-----------------------------------------------------------------------------
(* The pieces of the steps.                                                *)

\* An offset dictionary is a function on the sessions it follows.
LEMMA OffsetsDef ==
  ASSUME NEW f
  PROVE  f \in Offsets <=> f \in [DOMAIN f -> 0..MaxLines] /\ DOMAIN f \subseteq Session
BY DEF Offsets, PartialFunctions

\* Following a session from an offset.
LEMMA PutOffset ==
  ASSUME NEW f \in Offsets, NEW s \in Session, NEW n \in 0..MaxLines
  PROVE  /\ Put(f, s, n) \in Offsets
         /\ DOMAIN Put(f, s, n) = DOMAIN f \cup {s}
         /\ Put(f, s, n)[s] = n
         /\ \A r \in DOMAIN f \ {s} : Put(f, s, n)[r] = f[r]
<1> DEFINE g == Put(f, s, n)
<1>1. f \in [DOMAIN f -> 0..MaxLines] /\ DOMAIN f \subseteq Session
  BY OffsetsDef
<1>2. g = [r \in DOMAIN f \cup {s} |-> IF r = s THEN n ELSE f[r]]
  BY DEF Put
<1> HIDE DEF g
<1>3. /\ DOMAIN g = DOMAIN f \cup {s} /\ g[s] = n
      /\ \A r \in DOMAIN f \ {s} : g[r] = f[r]
  BY <1>2
<1>4. \A r \in DOMAIN g : g[r] \in 0..MaxLines
  BY <1>1, <1>3
<1>5. g \in [DOMAIN g -> 0..MaxLines] /\ DOMAIN g \subseteq Session
  BY <1>1, <1>2, <1>3, <1>4
<1>6. g \in Offsets
  BY <1>5, OffsetsDef
<1>. QED
  BY <1>3, <1>6 DEF g

\* Following some sessions no more.
LEMMA WithoutOffsets ==
  ASSUME NEW f \in Offsets, NEW S
  PROVE  /\ Without(f, S) \in Offsets
         /\ DOMAIN Without(f, S) = DOMAIN f \ S
         /\ \A r \in DOMAIN f \ S : Without(f, S)[r] = f[r]
<1> DEFINE g == Without(f, S)
<1>1. f \in [DOMAIN f -> 0..MaxLines] /\ DOMAIN f \subseteq Session
  BY OffsetsDef
<1>2. g = [r \in DOMAIN f \ S |-> f[r]]
  BY DEF Without
<1>3. g \in [DOMAIN g -> 0..MaxLines] /\ DOMAIN g \subseteq Session
  BY <1>1, <1>2
<1>4. g \in Offsets
  BY <1>3, OffsetsDef
<1>. QED
  BY <1>2, <1>4

\* Following none.
LEMMA NoOffsets == <<>> \in Offsets /\ DOMAIN <<>> = {} /\ Values(<<>>) = {}
<1>1. <<>> \in [{} -> 0..MaxLines] /\ DOMAIN <<>> = {}
  OBVIOUS
<1>. QED
  BY <1>1, OffsetsDef DEF Values

\* No windows and their sessions.
LEMMA NoBindings == <<>> \in PartialFunctions(Window, Session)
<1>1. <<>> \in [{} -> Session]
  OBVIOUS
<1>2. {} \in SUBSET Window
  OBVIOUS
<1>. QED
  BY <1>1, <1>2 DEF PartialFunctions

\* What is appended to a queue, and what the head leaves of it.
LEMMA QueueValues ==
  ASSUME NEW S, NEW q \in Seq(S)
  PROVE  /\ \A r \in Seq(S) : Values(q \o r) = Values(q) \cup Values(r)
         /\ q # <<>> => /\ Head(q) \in S /\ Tail(q) \in Seq(S)
                        /\ Values(q) = {Head(q)} \cup Values(Tail(q))
         /\ Values(q) \subseteq S
<1>1. ASSUME NEW r \in Seq(S)
      PROVE  Values(q \o r) = Values(q) \cup Values(r)
  <2>1. /\ DOMAIN (q \o r) = 1..(Len(q) + Len(r))
        /\ \A i \in 1..Len(q) : (q \o r)[i] = q[i]
        /\ \A i \in 1..Len(r) : (q \o r)[Len(q) + i] = r[i]
    OBVIOUS
  <2>2. DOMAIN q = 1..Len(q) /\ DOMAIN r = 1..Len(r) /\ Len(q) \in Nat /\ Len(r) \in Nat
    OBVIOUS
  <2>3. ASSUME NEW v \in Values(q \o r)
        PROVE  v \in Values(q) \cup Values(r)
    <3>1. PICK i \in 1..(Len(q) + Len(r)) : (q \o r)[i] = v
      BY <2>1, <2>3 DEF Values
    <3>2. CASE i <= Len(q)
      BY <2>1, <2>2, <3>1, <3>2 DEF Values
    <3>3. CASE i > Len(q)
      <4>1. i - Len(q) \in 1..Len(r) /\ r[i - Len(q)] = v
        BY <2>1, <2>2, <3>1, <3>3
      <4>. QED
        BY <2>2, <4>1 DEF Values
    <3>. QED
      BY <2>2, <3>2, <3>3
  <2>4. Values(q) \subseteq Values(q \o r)
    BY <2>1, <2>2 DEF Values
  <2>5. ASSUME NEW v \in Values(r)
        PROVE  v \in Values(q \o r)
    <3>1. PICK i \in 1..Len(r) : r[i] = v
      BY <2>2, <2>5 DEF Values
    <3>2. Len(q) + i \in 1..(Len(q) + Len(r))
      BY <2>2
    <3>. QED
      BY <2>1, <3>1, <3>2 DEF Values
  <2>. QED
    BY <2>3, <2>4, <2>5
<1>2. ASSUME q # <<>>
      PROVE  /\ Head(q) \in S /\ Tail(q) \in Seq(S)
             /\ Values(q) = {Head(q)} \cup Values(Tail(q))
  <2>1. /\ Head(q) = q[1] /\ Len(q) > 0 /\ Len(q) \in Nat /\ DOMAIN q = 1..Len(q)
        /\ Tail(q) \in Seq(S) /\ DOMAIN Tail(q) = 1..(Len(q) - 1)
        /\ \A i \in 1..(Len(q) - 1) : Tail(q)[i] = q[i + 1]
    BY <1>2
  <2>2. ASSUME NEW v \in Values(q), v # Head(q)
        PROVE  v \in Values(Tail(q))
    <3>1. PICK i \in 1..Len(q) : q[i] = v
      BY <2>1, <2>2 DEF Values
    <3>2. i - 1 \in 1..(Len(q) - 1) /\ Tail(q)[i - 1] = v
      BY <2>1, <2>2, <3>1
    <3>. QED
      BY <2>1, <3>2 DEF Values
  <2>3. ASSUME NEW v \in Values(Tail(q))
        PROVE  v \in Values(q)
    <3>1. PICK i \in 1..(Len(q) - 1) : q[i + 1] = v
      BY <2>1, <2>3 DEF Values
    <3>2. i + 1 \in 1..Len(q)
      BY <2>1
    <3>. QED
      BY <2>1, <3>1, <3>2 DEF Values
  <2>4. Head(q) \in Values(q) /\ Head(q) \in S
    BY <2>1 DEF Values
  <2>. QED
    BY <2>1, <2>2, <2>3, <2>4
<1>3. Values(q) \subseteq S
  BY DEF Values
<1>. QED
  BY <1>1, <1>2, <1>3

\* The lines read of a session: all past the offset, in order.
LEMMA UnreadLines ==
  ASSUME TypeOK, NEW s \in DOMAIN tracked, tracked[s] <= lines[s]
  PROVE  /\ Unread(s) \in Seq(Session \X Line)
         /\ Len(Unread(s)) = lines[s] - tracked[s]
         /\ \A i \in 1..Len(Unread(s)) : Unread(s)[i] = <<s, tracked[s] + i>>
         /\ \A n \in (tracked[s] + 1)..lines[s] : <<s, n>> \in Values(Unread(s))
<1> DEFINE k == lines[s] - tracked[s]
           q == Unread(s)
<1>1. s \in Session /\ tracked[s] \in 0..MaxLines /\ lines[s] \in 0..MaxLines
  BY OffsetsDef DEF TypeOK
<1>2. k \in Nat /\ tracked[s] + k = lines[s] /\ tracked[s] \in Nat /\ lines[s] \in Nat
  BY <1>1, BoundsAssumption
<1>3. q = [i \in 1..k |-> <<s, tracked[s] + i>>]
  BY DEF Unread
<1>4. \A i \in 1..k : <<s, tracked[s] + i>> \in Session \X Line
  BY <1>1, <1>2, BoundsAssumption DEF Line
<1>5. q \in Seq(Session \X Line) /\ Len(q) = k /\ DOMAIN q = 1..k
  BY <1>2, <1>3, <1>4
<1>6. ASSUME NEW n \in (tracked[s] + 1)..lines[s]
      PROVE  <<s, n>> \in Values(q)
  <2>1. n - tracked[s] \in 1..k /\ tracked[s] + (n - tracked[s]) = n
    BY <1>2
  <2>2. q[n - tracked[s]] = <<s, n>>
    BY <1>3, <2>1
  <2>. QED
    BY <1>5, <2>1, <2>2 DEF Values
<1>. QED
  BY <1>3, <1>5, <1>6

\* The new messages of one session of a pass: none, or all lines past its offset.
\* In every case it is followed from the end of its file.
LEMMA Processed ==
  ASSUME TypeOK, OffsetsOK, NEW s \in Session, ProcessSession(s) \/ SessionFails(s)
  PROVE  /\ tracked' \in Offsets /\ dirty' \in BOOLEAN
         /\ followed' \in [Session -> 0..MaxLines] /\ lost' \subseteq Message
         /\ DOMAIN tracked' = DOMAIN tracked \cup {s} /\ tracked'[s] = lines[s]
         /\ \A r \in DOMAIN tracked \ {s} : tracked'[r] = tracked[r]
         /\ \A r \in Session \ {s} : followed'[r] = followed[r]
         /\ newMessages' \in Seq(Session \X Line)
         /\ lost \subseteq lost' /\ (dirty => dirty')
         /\ \/ newMessages' = newMessages /\ followed'[s] = lines[s]
            \/ /\ s \in DOMAIN tracked /\ newMessages' = newMessages
               /\ followed' = followed /\ Values(Unread(s)) \subseteq lost'
            \/ /\ s \in DOMAIN tracked /\ newMessages' = newMessages \o Unread(s)
               /\ followed' = followed /\ (dirty' <=> dirty \/ tracked' # tracked)
<1>1. /\ tracked \in Offsets /\ dirty \in BOOLEAN /\ lost \subseteq Message
      /\ followed \in [Session -> 0..MaxLines]
      /\ lines[s] \in 0..MaxLines /\ newMessages \in Seq(Session \X Line)
  BY DEF TypeOK
<1> DEFINE t == Put(tracked, s, lines[s])
<1>2. tracked' = t
  BY DEF ProcessSession, SessionFails, StartTracking
<1> HIDE DEF t
<1>3. /\ t \in Offsets /\ DOMAIN t = DOMAIN tracked \cup {s} /\ t[s] = lines[s]
      /\ \A r \in DOMAIN tracked \ {s} : t[r] = tracked[r]
  BY <1>1, PutOffset DEF t
<1>4. ASSUME s \in DOMAIN tracked
      PROVE  /\ Unread(s) \in Seq(Session \X Line)
             /\ Values(Unread(s)) \subseteq Message
  BY <1>4, UnreadLines, QueueValues DEF OffsetsOK
<1>5. CASE ProcessSession(s) /\ s \in DOMAIN tracked
  <2>1. /\ newMessages' = newMessages \o Unread(s) /\ UNCHANGED <<followed, lost>>
        /\ dirty' = (dirty \/ tracked' # tracked)
    BY <1>5 DEF ProcessSession
  <2>2. newMessages' \in Seq(Session \X Line)
    BY <1>1, <1>4, <1>5, <2>1
  <2>3. dirty' \in BOOLEAN /\ (dirty => dirty') /\ (dirty' <=> dirty \/ tracked' # tracked)
    BY <1>1, <2>1
  <2>. QED
    BY <1>1, <1>2, <1>3, <1>5, <2>1, <2>2, <2>3
<1>6. CASE ProcessSession(s) /\ s \notin DOMAIN tracked
  <2>1. /\ followed' = [followed EXCEPT ![s] = lines[s]] /\ UNCHANGED <<newMessages, lost>>
        /\ dirty' = (dirty \/ tracked' # tracked)
    BY <1>6 DEF ProcessSession, StartTracking
  <2>2. dirty' \in BOOLEAN /\ (dirty => dirty')
    BY <1>1, <2>1
  <2>3. /\ followed' \in [Session -> 0..MaxLines] /\ followed'[s] = lines[s]
        /\ \A r \in Session \ {s} : followed'[r] = followed[r]
    BY <1>1, <2>1
  <2>. QED
    BY <1>1, <1>2, <1>3, <2>1, <2>2, <2>3
<1>7. CASE SessionFails(s)
  <2>1. /\ s \in DOMAIN tracked /\ UNCHANGED <<newMessages, dirty, followed>>
        /\ lost' = lost \cup Values(Unread(s))
    BY <1>7 DEF SessionFails
  <2>. QED
    BY <1>1, <1>2, <1>3, <1>4, <2>1
<1>. QED
  BY <1>5, <1>6, <1>7

\* Sessions that are followed no more.
LEMMA Cleared ==
  ASSUME TypeOK, NEW S, ClearSessions(S)
  PROVE  /\ tracked' \in Offsets /\ DOMAIN tracked' = DOMAIN tracked \ S
         /\ \A r \in DOMAIN tracked' : tracked'[r] = tracked[r]
<1>1. tracked \in Offsets /\ tracked' = Without(tracked, S)
  BY DEF TypeOK, ClearSessions
<1>. QED
  BY <1>1, WithoutOffsets

\* What a save does: the file gets the offsets in memory, and nothing is exposed
\* any more; or it stays, and with offsets still to be saved the batch is exposed.
SaveStep(t, d) ==
  /\ disk' \in [tracked : Offsets, eventsOffset : Position] /\ dirty' \in BOOLEAN
  /\ exposed' \subseteq Message
  /\ \/ disk'.tracked = t /\ disk'.eventsOffset = eventsOffset /\ exposed' = {}
     \/ disk' = disk /\ exposed' = exposed \cup Values(newMessages)
     \/ disk' = disk /\ exposed' = exposed /\ ~d

\* Every save does so.
LEMMA Saved ==
  ASSUME TypeOK, NEW t \in Offsets, NEW d \in BOOLEAN, SaveIfDirty(t, eventsOffset, d)
  PROVE  SaveStep(t, d)
<1>1. /\ eventsOffset \in Position /\ disk \in [tracked : Offsets, eventsOffset : Position]
      /\ exposed \subseteq Message /\ Values(newMessages) \subseteq Message
  BY QueueValues DEF TypeOK
<1>2. CASE /\ d /\ disk' = [tracked |-> t, eventsOffset |-> eventsOffset]
           /\ dirty' = FALSE /\ exposed' = {}
  <2>1. /\ disk' \in [tracked : Offsets, eventsOffset : Position]
        /\ disk'.tracked = t /\ disk'.eventsOffset = eventsOffset
    BY <1>1, <1>2
  <2>. QED
    BY <1>2, <2>1 DEF SaveStep
<1>3. CASE /\ d /\ dirty' = TRUE /\ exposed' = exposed \cup Values(newMessages)
           /\ UNCHANGED disk
  BY <1>1, <1>3 DEF SaveStep
<1>4. CASE ~d /\ dirty' = FALSE /\ UNCHANGED <<disk, exposed>>
  BY <1>1, <1>4 DEF SaveStep
<1>. QED
  BY <1>2, <1>3, <1>4 DEF SaveIfDirty

\* The lines of events.jsonl an offset has passed or entered.
LEMMA EnteredType ==
  ASSUME NEW p \in Position
  PROVE  p.line \in 0..MaxEvents /\ p.inside \in BOOLEAN /\ Entered(p) \in Nat
BY BoundsAssumption DEF Position, Entered

\* The events read are those past the offset.
LEMMA UnreadEvents ==
  ASSUME TypeOK, NEW last \in 0..MaxEvents
  PROVE  /\ EventsRead(last) \in Seq(Event)
         /\ (Entered(eventsOffset) + 1)..last \subseteq Values(EventsRead(last))
<1> DEFINE e == Entered(eventsOffset)
           k == last - e
           q == EventsRead(last)
<1>1. e \in Nat /\ last \in Nat /\ last <= MaxEvents /\ MaxEvents \in Nat
  BY BoundsAssumption, EnteredType DEF TypeOK
<1>2. q = [i \in 1..k |-> e + i]
  BY DEF EventsRead, After
<1> HIDE DEF e, q
<1>3. \A i \in 1..k : e + i \in Event
  BY <1>1 DEF Event
<1>4. DOMAIN q = 1..k
  BY <1>2
<1>5. CASE k < 0
  <2>1. q = <<>>
    <3>1. 1..k = {}
      BY <1>1, <1>5
    <3>. QED
      BY <1>2, <3>1
  <2>2. (e + 1)..last = {}
    BY <1>1, <1>5
  <2>. QED
    BY <2>1, <2>2 DEF q, e
<1>6. CASE k >= 0
  <2>1. k \in Nat
    BY <1>1, <1>6
  <2>2. q \in Seq(Event)
    BY <1>2, <1>3, <2>1
  <2>3. ASSUME NEW n \in (e + 1)..last
        PROVE  n \in Values(q)
    <3>1. n - e \in 1..k /\ e + (n - e) = n
      BY <1>1
    <3>. QED
      BY <1>2, <1>4, <3>1 DEF Values
  <2>. QED
    BY <2>2, <2>3 DEF q, e
<1>. QED
  BY <1>1, <1>5, <1>6

\* A step of the world changes nothing the loop keeps.
Still == UNCHANGED <<offsets, pc, newEvents, newMessages, history>>

\* Every step is one of the loop's, or the world's.
LEMMA Steps ==
  ASSUME [Next]_vars
  PROVE  \/ Still
         \/ CleanupStale \/ Initialize \/ ReadHookEvents \/ DispatchHookEvent \/ Reconcile
         \/ \E s \in Session : CheckSession(s) \/ CheckMissing(s) \/ CheckLate(s)
         \/ FindMissing \/ Save \/ PassFails \/ Deliver \/ EndPass
         \/ Start \/ Crash \/ Stop
<1>1. World \/ UNCHANGED vars => Still
  BY DEF World, AppendLine, LinkOrUnlink, CheckTerminalStatuses, WriteEvent, RemoveEntry,
         SessionStart, vars, Still
<1>. QED
  BY <1>1 DEF Next, Pass

\* Initially nothing is followed.
LEMMA InitIInv == Init => IInv
<1> SUFFICES ASSUME Init PROVE IInv
  OBVIOUS
<1>1. TypeOK
  <2>1. /\ sessionMap \in PartialFunctions(Window, Session) /\ bound \subseteq Session
        /\ pc = "down" /\ dirty = FALSE /\ fallbackDone = FALSE
        /\ todo = {} /\ handled = {} /\ missed = {}
        /\ lost = {} /\ exposed = {} /\ again = {} /\ writing = FALSE
    BY DEF Init
  <2>2. /\ lines \in [Session -> 0..MaxLines] /\ eventLog \in 0..MaxEvents
        /\ followed \in [Session -> 0..MaxLines]
    BY BoundsAssumption DEF Init
  <2>3. Beginning \in Position
    BY BoundsAssumption DEF Position, Beginning
  <2>4. /\ tracked \in Offsets /\ eventsOffset \in Position
        /\ disk \in [tracked : Offsets, eventsOffset : Position]
    BY <2>3, NoOffsets DEF Init
  <2>5. lastMap \in PartialFunctions(Window, Session)
    BY NoBindings DEF Init
  <2>6. newEvents \in Seq(Event) /\ newMessages \in Seq(Session \X Line)
    BY DEF Init
  <2>7. delivered \in [Session -> SUBSET Line]
    BY DEF Init
  <2>. QED
    BY <2>1, <2>2, <2>4, <2>5, <2>6, <2>7 DEF TypeOK
<1>2. OffsetsOK
  BY NoOffsets DEF Init, OffsetsOK
<1>3. EventsOK /\ NoEventSkipped
  BY DEF Init, EventsOK, NoEventSkipped, Entered, Beginning
<1>4. NothingSkipped /\ QueueOK /\ DeliveredOK /\ WaitingOK /\ NothingRepeated
  BY NoOffsets DEF Init, NothingSkipped, SkipsNone, QueueOK, DeliveredOK, WaitingOK,
                   NothingRepeated
<1>. QED
  BY <1>1, <1>2, <1>3, <1>4 DEF IInv

-----------------------------------------------------------------------------
(* Types.                                                                  *)

\* The world's files and the records of windows.
LEMMA FilesType ==
  ASSUME TypeOK, [Next]_vars
  PROVE  /\ sessionMap' \in PartialFunctions(Window, Session)
         /\ lines' \in [Session -> 0..MaxLines] /\ eventLog' \in 0..MaxEvents
         /\ writing' \in BOOLEAN /\ (writing' => eventLog' < MaxEvents)
         /\ bound' \subseteq Session
         /\ \A s \in Session : lines[s] <= lines'[s]
<1> USE BoundsAssumption
<1>1. CASE UNCHANGED files
  BY <1>1 DEF files, TypeOK
<1>2. ASSUME NEW s \in Session, AppendLine(s)
      PROVE  /\ lines' \in [Session -> 0..MaxLines]
             /\ \A r \in Session : lines[r] <= lines'[r]
             /\ UNCHANGED <<sessionMap, eventLog, writing, bound>>
  BY <1>2 DEF AppendLine, TypeOK
<1>3. CASE WriteEvent
  <2>1. UNCHANGED <<sessionMap, lines, bound>>
    BY <1>3 DEF WriteEvent
  <2>2. \/ eventLog' = eventLog + 1 /\ writing' = FALSE
        \/ eventLog' = eventLog /\ writing' = TRUE
    BY <1>3 DEF WriteEvent
  <2>3. /\ eventLog \in 0..MaxEvents /\ eventLog < MaxEvents
        /\ \A r \in Session : lines[r] \in 0..MaxLines
    BY <1>3 DEF WriteEvent, TypeOK
  <2>4. eventLog' \in 0..MaxEvents /\ writing' \in BOOLEAN /\ (writing' => eventLog' < MaxEvents)
    <3>1. eventLog \in Nat /\ eventLog + 1 <= MaxEvents
      BY <2>3
    <3>2. CASE eventLog' = eventLog + 1 /\ writing' = FALSE
      <4>1. eventLog' \in 0..MaxEvents
        BY <3>1, <3>2
      <4>. QED
        BY <3>2, <4>1
    <3>3. CASE eventLog' = eventLog /\ writing' = TRUE
      BY <2>3, <3>3
    <3>. QED
      BY <2>2, <3>2, <3>3
  <2>5. \A r \in Session : lines[r] <= lines'[r]
    BY <2>1, <2>3
  <2>. QED
    BY <2>1, <2>4, <2>5 DEF TypeOK
<1>4. ASSUME NEW w \in Window, NEW s \in Session, SessionStart(w, s)
      PROVE  /\ sessionMap' \in PartialFunctions(Window, Session)
             /\ UNCHANGED <<lines, eventLog, writing, bound>>
  <2>1. sessionMap \in [DOMAIN sessionMap -> Session] /\ DOMAIN sessionMap \subseteq Window
    BY DEF TypeOK, PartialFunctions
  <2>2. /\ sessionMap' \in [DOMAIN sessionMap' -> Session]
        /\ DOMAIN sessionMap' \subseteq Window
    BY <1>4, <2>1 DEF SessionStart, Put
  <2>. QED
    BY <1>4, <2>2 DEF SessionStart, PartialFunctions
<1>5. ASSUME NEW w \in Window, RemoveEntry(w)
      PROVE  /\ sessionMap' \in PartialFunctions(Window, Session)
             /\ UNCHANGED <<lines, eventLog, writing, bound>>
  <2>1. sessionMap \in [DOMAIN sessionMap -> Session] /\ DOMAIN sessionMap \subseteq Window
    BY DEF TypeOK, PartialFunctions
  <2>2. /\ sessionMap' \in [DOMAIN sessionMap' -> Session]
        /\ DOMAIN sessionMap' \subseteq Window
    BY <1>5, <2>1 DEF RemoveEntry, Without
  <2>. QED
    BY <1>5, <2>2 DEF RemoveEntry, PartialFunctions
<1>6. ASSUME NEW s \in Session,
             \/ LinkOrUnlink(s) \/ CheckTerminalStatuses(s) \/ CheckLate(s)
      PROVE  bound' \subseteq Session /\ UNCHANGED <<sessionMap, lines, eventLog, writing>>
  BY <1>6 DEF LinkOrUnlink, CheckTerminalStatuses, Relinked, CheckLate, LinkWindow, TypeOK
<1>7. ASSUME NEW s \in Session, CheckSession(s) \/ CheckMissing(s)
      PROVE  UNCHANGED files
  BY <1>7 DEF CheckSession, CheckMissing
<1>8. ASSUME \/ CleanupStale \/ Initialize \/ ReadHookEvents \/ DispatchHookEvent \/ Reconcile
             \/ FindMissing \/ Save \/ PassFails \/ Deliver \/ EndPass
             \/ Start \/ Crash \/ Stop \/ UNCHANGED vars
      PROVE  UNCHANGED files
  BY <1>8 DEF CleanupStale, Initialize, ReadHookEvents, DispatchHookEvent, Reconcile,
              FindMissing, Save, PassFails, Deliver, EndPass, Start, Crash, Stop, Forget, vars
<1>9. \A s \in Session : lines[s] \in 0..MaxLines /\ lines[s] <= lines[s]
  BY DEF TypeOK
<1>. QED
  BY <1>1, <1>2, <1>3, <1>4, <1>5, <1>6, <1>7, <1>8, <1>9 DEF Next, Pass, World, TypeOK

\* The offsets, and what the steps do to them: an offset moves to the end of its
\* file or, at the start, to where the file on disk has it, and only offsets in
\* memory are saved.
OffsetsStep ==
  /\ tracked' \in Offsets /\ dirty' \in BOOLEAN /\ eventsOffset' \in Position
  /\ disk' \in [tracked : Offsets, eventsOffset : Position]
  /\ \A s \in DOMAIN tracked' :
       \/ s \in DOMAIN tracked /\ tracked'[s] = tracked[s]
       \/ tracked'[s] = lines[s]
       \/ pc = "down" /\ s \in DOMAIN disk.tracked /\ tracked'[s] = disk.tracked[s]
  /\ disk'.tracked \in {disk.tracked, tracked, tracked'}
  /\ disk'.eventsOffset \in {disk.eventsOffset, eventsOffset}

\* Every step moves them so.
LEMMA NextOffsets ==
  ASSUME TypeOK, OffsetsOK, [Next]_vars
  PROVE  OffsetsStep
<1>1. /\ tracked \in Offsets /\ dirty \in BOOLEAN /\ eventsOffset \in Position
      /\ disk \in [tracked : Offsets, eventsOffset : Position]
      /\ disk.tracked \in Offsets /\ disk.eventsOffset \in Position
      /\ eventLog \in 0..MaxEvents
  BY DEF TypeOK
<1>2. ASSUME UNCHANGED offsets
      PROVE  OffsetsStep
  BY <1>1, <1>2 DEF OffsetsStep, offsets
<1>3. ASSUME \/ Still \/ Initialize \/ DispatchHookEvent \/ FindMissing \/ Deliver \/ EndPass
             \/ PassFails
      PROVE  OffsetsStep
  BY <1>2, <1>3 DEF Still, Initialize, DispatchHookEvent, FindMissing, Deliver, EndPass,
                    PassFails
<1>4. ASSUME NEW S, NEW d \in BOOLEAN, ClearSessions(S), UNCHANGED eventsOffset,
             \/ SaveIfDirty(tracked', eventsOffset, d)
             \/ UNCHANGED <<disk, dirty>>
      PROVE  OffsetsStep
  <2>1. /\ tracked' \in Offsets /\ DOMAIN tracked' = DOMAIN tracked \ S
        /\ \A r \in DOMAIN tracked' : tracked'[r] = tracked[r]
    BY <1>4, Cleared
  <2>2. CASE SaveIfDirty(tracked', eventsOffset, d)
    BY <1>1, <1>4, <2>1, <2>2, Saved DEF OffsetsStep, SaveStep
  <2>3. CASE UNCHANGED <<disk, dirty>>
    BY <1>1, <1>4, <2>1, <2>3 DEF OffsetsStep
  <2>. QED
    BY <1>4, <2>2, <2>3
<1>5. CASE CleanupStale
  BY <1>4, <1>5 DEF CleanupStale
<1>6. CASE Reconcile
  <2> DEFINE gone  == SessionsToRemove(lastMap, sessionMap)
             stale == dirty \/ gone \cap DOMAIN tracked # {}
  <2>1. /\ ClearSessions(gone) /\ UNCHANGED eventsOffset
        /\ SaveIfDirty(tracked', eventsOffset, stale) \/ UNCHANGED <<disk, dirty>>
    BY <1>6 DEF Reconcile
  <2>2. stale \in BOOLEAN
    BY <1>1
  <2> HIDE DEF gone, stale
  <2>. QED
    BY <1>4, <2>1, <2>2
<1>7. CASE ReadHookEvents
  <2>1. \A n \in 0..MaxEvents : \A b \in BOOLEAN : [line |-> n, inside |-> b] \in Position
    BY DEF Position
  <2>2. writing \in BOOLEAN /\ Entered(eventsOffset) \in Nat
    BY <1>1, EnteredType DEF TypeOK
  <2>3. \A n \in Entered(eventsOffset)..eventLog : n \in 0..MaxEvents
    BY <1>1, <2>2, BoundsAssumption
  <2>4. eventsOffset' \in Position
    BY <1>1, <1>7, <2>1, <2>2, <2>3 DEF ReadHookEvents
  <2>5. dirty' \in BOOLEAN /\ UNCHANGED <<tracked, disk>>
    BY <1>1, <1>7 DEF ReadHookEvents
  <2>. QED
    BY <1>1, <2>4, <2>5 DEF OffsetsStep
<1>8. ASSUME NEW s \in Session, ProcessSession(s) \/ SessionFails(s),
             UNCHANGED <<eventsOffset, disk>>
      PROVE  OffsetsStep
  <2>1. /\ tracked' \in Offsets /\ dirty' \in BOOLEAN
        /\ DOMAIN tracked' = DOMAIN tracked \cup {s} /\ tracked'[s] = lines[s]
        /\ \A r \in DOMAIN tracked \ {s} : tracked'[r] = tracked[r]
    BY <1>8, Processed
  <2>. QED
    BY <1>1, <1>8, <2>1 DEF OffsetsStep
<1>9. ASSUME NEW s \in Session, CheckSession(s)
      PROVE  OffsetsStep
  <2>1. UNCHANGED <<eventsOffset, disk>>
    BY <1>9 DEF CheckSession
  <2>2. CASE ProcessSession(s) \/ SessionFails(s)
    BY <1>8, <2>1, <2>2
  <2>3. CASE ClearSessions({s}) /\ dirty' = TRUE
    <3>1. /\ tracked' \in Offsets /\ DOMAIN tracked' = DOMAIN tracked \ {s}
          /\ \A r \in DOMAIN tracked' : tracked'[r] = tracked[r]
      BY <2>3, Cleared
    <3>. QED
      BY <1>1, <2>1, <2>3, <3>1 DEF OffsetsStep
  <2>. QED
    BY <1>9, <2>2, <2>3 DEF CheckSession
<1>10. ASSUME NEW s \in Session, CheckMissing(s)
       PROVE  OffsetsStep
  <2>1. UNCHANGED <<eventsOffset, disk>>
    BY <1>10 DEF CheckMissing
  <2>2. ProcessSession(s) \/ UNCHANGED <<tracked, dirty>>
    BY <1>10 DEF CheckMissing
  <2>. QED
    BY <1>2, <1>8, <2>1, <2>2 DEF offsets
<1>11. ASSUME NEW s \in Session, CheckLate(s)
       PROVE  OffsetsStep
  BY <1>8, <1>11 DEF CheckLate
<1>12. CASE Save
  <2>1. SaveIfDirty(tracked, eventsOffset, dirty) /\ UNCHANGED <<tracked, eventsOffset>>
    BY <1>12 DEF Save
  <2>. QED
    BY <1>1, <2>1, Saved DEF OffsetsStep, SaveStep
<1>13. CASE Start
  BY <1>1, <1>13 DEF Start, OffsetsStep
<1>14. ASSUME Forget, disk' = disk \/ disk' = [tracked |-> tracked, eventsOffset |-> eventsOffset]
       PROVE  OffsetsStep
  <2>1. tracked' = <<>> /\ eventsOffset' = Beginning /\ dirty' = FALSE
    BY <1>14 DEF Forget
  <2>2. /\ disk' \in [tracked : Offsets, eventsOffset : Position]
        /\ disk'.tracked \in {disk.tracked, tracked}
        /\ disk'.eventsOffset \in {disk.eventsOffset, eventsOffset}
    BY <1>1, <1>14
  <2>3. Beginning \in Position
    BY BoundsAssumption DEF Position, Beginning
  <2>. QED
    BY <2>1, <2>2, <2>3, NoOffsets DEF OffsetsStep
<1>15. CASE Crash \/ Stop
  BY <1>14, <1>15 DEF Crash, Stop
<1>. QED
  BY <1>3, <1>5, <1>6, <1>7, <1>9, <1>10, <1>11, <1>12, <1>13, <1>15, Steps

\* A line that lies behind the offsets stays behind them.
LEMMA StaysCovered ==
  ASSUME TypeOK, OffsetsOK, [Next]_vars, NEW s \in Session, NEW n \in Nat,
         n <= lines[s], Covers(tracked, s, n), pc = "down" => Covers(disk.tracked, s, n)
  PROVE  /\ n <= lines'[s] /\ Covers(tracked', s, n)
         /\ disk'.tracked # disk.tracked => Covers(disk'.tracked, s, n)
<1>1. /\ lines[s] \in Nat /\ lines'[s] \in Nat /\ lines[s] <= lines'[s]
  BY FilesType, BoundsAssumption DEF TypeOK
<1>2. OffsetsStep
  BY NextOffsets
<1>3. Covers(tracked', s, n)
  BY <1>2 DEF OffsetsStep, Covers
<1>4. disk'.tracked # disk.tracked => Covers(disk'.tracked, s, n)
  BY <1>2, <1>3 DEF OffsetsStep
<1>. QED
  BY <1>1, <1>3, <1>4

\* No offset passes the end of its file.
LEMMA NextOffsetsOK ==
  ASSUME TypeOK, OffsetsOK, [Next]_vars
  PROVE  OffsetsOK'
<1>1. OffsetsStep
  BY NextOffsets
<1>2. \A s \in Session : lines[s] \in Nat /\ lines'[s] \in Nat /\ lines[s] <= lines'[s]
  BY FilesType, BoundsAssumption DEF TypeOK
<1>3. ASSUME NEW f \in Offsets, \A s \in DOMAIN f : f[s] <= lines[s]
      PROVE  \A s \in DOMAIN f : f[s] <= lines'[s]
  <2>1. \A s \in DOMAIN f : s \in Session /\ f[s] \in Nat
    BY OffsetsDef, BoundsAssumption
  <2>. QED
    BY <1>2, <1>3, <2>1
<1>4. \A s \in DOMAIN tracked' : tracked'[s] <= lines[s]
  <2>1. \A s \in DOMAIN tracked' : s \in Session
    BY <1>1, OffsetsDef DEF OffsetsStep
  <2>. QED
    BY <1>1, <1>2, <2>1 DEF OffsetsStep, OffsetsOK
<1>5. \A s \in DOMAIN disk'.tracked : disk'.tracked[s] <= lines[s]
  BY <1>1, <1>4 DEF OffsetsStep, OffsetsOK
<1>6. tracked' \in Offsets /\ disk'.tracked \in Offsets
  BY <1>1 DEF OffsetsStep
<1>7. /\ \A s \in DOMAIN tracked' : tracked'[s] <= lines'[s]
      /\ \A s \in DOMAIN disk'.tracked : disk'.tracked[s] <= lines'[s]
  BY <1>3, <1>4, <1>5, <1>6
<1>. QED
  BY <1>7 DEF OffsetsOK

\* What waits to be handed over, and what was.
QueueStep ==
  /\ pc' \in {"down", "cleanup", "initialize", "hooks", "dispatch", "check", "missing",
              "late"}
  /\ todo' \subseteq Session /\ fallbackDone' \in BOOLEAN
  /\ newEvents' \in Seq(Event) /\ newMessages' \in Seq(Session \X Line)
  /\ handled' \subseteq Event /\ missed' \subseteq Event
  /\ delivered' \in [Session -> SUBSET Line] /\ followed' \in [Session -> 0..MaxLines]
  /\ lost' \subseteq Message /\ exposed' \subseteq Message /\ again' \subseteq Message

\* Every step keeps their types.
LEMMA NextQueues ==
  ASSUME TypeOK, OffsetsOK, [Next]_vars
  PROVE  QueueStep
<1>1. /\ pc \in {"down", "cleanup", "initialize", "hooks", "dispatch", "check", "missing",
                 "late"}
      /\ todo \subseteq Session /\ fallbackDone \in BOOLEAN
      /\ newEvents \in Seq(Event) /\ newMessages \in Seq(Session \X Line)
      /\ handled \subseteq Event /\ missed \subseteq Event
      /\ delivered \in [Session -> SUBSET Line] /\ followed \in [Session -> 0..MaxLines]
      /\ lost \subseteq Message /\ exposed \subseteq Message /\ again \subseteq Message
  BY DEF TypeOK
<1>2. /\ bound \subseteq Session /\ Values(newMessages) \subseteq Message
      /\ Values(newEvents) \subseteq Event
  BY QueueValues DEF TypeOK
<1>3. <<>> \in Seq(Session \X Line) /\ <<>> \in Seq(Event)
  OBVIOUS
<1>4. CASE World \/ UNCHANGED vars
  BY <1>1, <1>4 DEF World, AppendLine, LinkOrUnlink, CheckTerminalStatuses, WriteEvent,
                    RemoveEntry, SessionStart, vars, history, QueueStep
<1>5. CASE Initialize \/ Start
  BY <1>1, <1>5 DEF Initialize, Start, history, QueueStep
<1>6. CASE CleanupStale
  <2> DEFINE stale == DOMAIN tracked \ Values(sessionMap)
  <2>1. /\ ClearSessions(stale) /\ SaveIfDirty(tracked', eventsOffset, stale # {})
    BY <1>6 DEF CleanupStale
  <2> HIDE DEF stale
  <2>2. exposed' \subseteq Message
    BY <2>1, Cleared, Saved DEF SaveStep
  <2>. QED
    BY <1>1, <1>6, <2>2 DEF CleanupStale, QueueStep
<1>7. CASE ReadHookEvents
  <2>1. Entered(eventsOffset) \in Nat /\ eventLog \in 0..MaxEvents /\ eventLog \in Nat
    BY EnteredType, BoundsAssumption DEF TypeOK
  <2>2. \A n \in Entered(eventsOffset)..eventLog : n \in 0..MaxEvents
    BY <2>1, BoundsAssumption
  <2>3. newEvents' \in Seq(Event)
    BY <1>3, <1>7, <2>1, <2>2, UnreadEvents DEF ReadHookEvents
  <2>4. writing => eventLog + 1 \in Event
    BY <2>1, BoundsAssumption DEF TypeOK, Event
  <2>5. missed' \subseteq Event
    BY <1>1, <1>7, <2>4 DEF ReadHookEvents
  <2>. QED
    BY <1>1, <1>7, <2>3, <2>5 DEF ReadHookEvents, QueueStep
<1>8. CASE DispatchHookEvent
  <2>1. Head(newEvents) \in Event /\ Tail(newEvents) \in Seq(Event)
    BY <1>1, <1>8, QueueValues DEF DispatchHookEvent
  <2>2. UNCHANGED <<pc, todo, fallbackDone, newMessages, delivered, followed, lost, exposed,
                    again>>
    BY <1>8 DEF DispatchHookEvent
  <2>3. /\ handled' = handled \cup {Head(newEvents)} /\ newEvents' = Tail(newEvents)
        /\ missed' = missed \ {Head(newEvents)}
    BY <1>8 DEF DispatchHookEvent
  <2>4. handled' \subseteq Event /\ missed' \subseteq Event /\ newEvents' \in Seq(Event)
    BY <1>1, <2>1, <2>3
  <2>. QED
    BY <1>1, <2>2, <2>4 DEF QueueStep
<1>9. CASE Reconcile
  <2>1. tracked' \in Offsets /\ DOMAIN tracked' \subseteq Session
    BY NextOffsets, OffsetsDef DEF OffsetsStep
  <2>2. lastMap' \in PartialFunctions(Window, Session)
    BY <1>9 DEF Reconcile, TypeOK
  <2>3. Values(lastMap') \subseteq Session
    BY <2>2 DEF PartialFunctions, Values
  <2>4. Polled \subseteq Session
    BY <2>1, <2>3 DEF Polled
  <2> DEFINE stale == dirty \/ SessionsToRemove(lastMap, sessionMap) \cap DOMAIN tracked # {}
  <2>5. SaveIfDirty(tracked', eventsOffset, stale) \/ UNCHANGED exposed
    BY <1>9 DEF Reconcile
  <2>6. stale \in BOOLEAN
    BY DEF TypeOK
  <2> HIDE DEF stale
  <2>7. exposed' \subseteq Message
    BY <1>1, <2>1, <2>5, <2>6, Saved DEF SaveStep
  <2>. QED
    BY <1>1, <1>9, <2>4, <2>7 DEF Reconcile, QueueStep
<1>10. ASSUME NEW s \in Session, ProcessSession(s) \/ SessionFails(s)
       PROVE  /\ newMessages' \in Seq(Session \X Line) /\ lost' \subseteq Message
              /\ followed' \in [Session -> 0..MaxLines]
              /\ Values(newMessages') \subseteq Message
  BY <1>10, Processed, QueueValues
<1>11. ASSUME NEW s \in Session, CheckSession(s)
       PROVE  QueueStep
  <2>1. /\ newMessages' \in Seq(Session \X Line) /\ lost' \subseteq Message
        /\ followed' \in [Session -> 0..MaxLines]
    BY <1>1, <1>10, <1>11 DEF CheckSession
  <2>. QED
    BY <1>1, <1>11, <2>1 DEF CheckSession, QueueStep
<1>12. ASSUME NEW s \in Session, CheckMissing(s)
       PROVE  QueueStep
  <2>1. /\ newMessages' \in Seq(Session \X Line) /\ lost' \subseteq Message
        /\ followed' \in [Session -> 0..MaxLines]
    BY <1>1, <1>10, <1>12 DEF CheckMissing
  <2>. QED
    BY <1>1, <1>12, <2>1 DEF CheckMissing, QueueStep
<1>13. ASSUME NEW s \in Session, CheckLate(s)
       PROVE  QueueStep
  <2>1. /\ newMessages' \in Seq(Session \X Line) /\ lost' \subseteq Message
        /\ followed' \in [Session -> 0..MaxLines]
        /\ Values(newMessages') \subseteq Message
    BY <1>10, <1>13 DEF CheckLate
  <2>2. exposed' \subseteq Message
    BY <1>1, <1>13, <2>1 DEF CheckLate
  <2>. QED
    BY <1>1, <1>13, <2>1, <2>2 DEF CheckLate, QueueStep
<1>14. CASE FindMissing
  BY <1>1, <1>2, <1>14 DEF FindMissing, history, QueueStep
<1>15. CASE Save
  <2>1. SaveIfDirty(tracked, eventsOffset, dirty) /\ tracked \in Offsets /\ dirty \in BOOLEAN
    BY <1>15 DEF Save, TypeOK
  <2>2. exposed' \subseteq Message
    BY <2>1, Saved DEF SaveStep
  <2>3. pc' = "late" /\ todo' \subseteq Session /\ fallbackDone' \in BOOLEAN
    BY <1>1, <1>2, <1>15 DEF Save
  <2>4. UNCHANGED <<newEvents, newMessages, handled, missed, delivered, followed, lost, again>>
    BY <1>15 DEF Save
  <2>. QED
    BY <1>1, <2>2, <2>3, <2>4 DEF QueueStep
<1>16. CASE EndPass
  BY <1>1, <1>16 DEF EndPass, history, QueueStep
<1>17. CASE PassFails
  <2>1. lost' \subseteq Message /\ exposed' \subseteq Message /\ newMessages' = <<>>
    BY <1>1, <1>2, <1>17 DEF PassFails
  <2>. QED
    BY <1>1, <1>3, <1>17, <2>1 DEF PassFails, QueueStep
<1>18. CASE Deliver
  <2> DEFINE s == Head(newMessages)[1]
             n == Head(newMessages)[2]
  <2>1. Head(newMessages) \in Session \X Line /\ Tail(newMessages) \in Seq(Session \X Line)
    BY <1>1, <1>18, QueueValues DEF Deliver
  <2>2. s \in Session /\ n \in Line
    BY <2>1
  <2>3. delivered' = [delivered EXCEPT ![s] = @ \cup {n}]
    BY <1>18 DEF Deliver
  <2> HIDE DEF s, n
  <2>4. delivered' \in [Session -> SUBSET Line]
    BY <1>1, <2>2, <2>3
  <2>5. lost' \subseteq Message /\ again' \subseteq Message
    BY <1>1, <1>18 DEF Deliver
  <2>. QED
    BY <1>1, <1>18, <2>1, <2>4, <2>5 DEF Deliver, QueueStep
<1>19. CASE Crash \/ Stop
  <2>1. Forget
    BY <1>19 DEF Crash, Stop
  <2>2. missed' \subseteq Event
    BY <1>1, <1>2, <1>19 DEF Crash, Stop
  <2>3. pc' = "down" /\ todo' = {} /\ fallbackDone' = FALSE
    BY <2>1 DEF Forget
  <2>4. newEvents' = <<>> /\ newMessages' = <<>>
    BY <2>1 DEF Forget
  <2>5. newEvents' \in Seq(Event) /\ newMessages' \in Seq(Session \X Line)
    BY <1>3, <2>4
  <2>6. lost' \subseteq Message /\ again' \subseteq Message /\ exposed' \subseteq Message
    BY <1>1, <1>2, <2>1 DEF Forget
  <2>7. UNCHANGED <<handled, delivered, followed>>
    BY <2>1 DEF Forget
  <2>. QED
    BY <1>1, <2>2, <2>3, <2>5, <2>6, <2>7 DEF QueueStep
<1>. QED
  BY <1>4, <1>5, <1>6, <1>7, <1>8, <1>9, <1>11, <1>12, <1>13, <1>14, <1>15, <1>16, <1>17,
     <1>18, <1>19 DEF Next, Pass

\* The remembered map is one the loop read.
LEMMA NextLastMap ==
  ASSUME TypeOK, [Next]_vars
  PROVE  lastMap' \in PartialFunctions(Window, Session)
<1>1. CASE World \/ UNCHANGED vars
  BY <1>1 DEF World, AppendLine, LinkOrUnlink, CheckTerminalStatuses, WriteEvent, RemoveEntry,
              SessionStart, vars, TypeOK
<1>2. CASE Crash \/ Stop
  BY <1>2, NoBindings DEF Crash, Stop, Forget
<1>3. CASE Initialize \/ Reconcile
  BY <1>3 DEF Initialize, Reconcile, TypeOK
<1>4. ASSUME NEW s \in Session, CheckSession(s) \/ CheckMissing(s) \/ CheckLate(s)
      PROVE  UNCHANGED lastMap
  BY <1>4 DEF CheckSession, CheckMissing, CheckLate
<1>5. CASE \/ CleanupStale \/ ReadHookEvents \/ DispatchHookEvent \/ FindMissing \/ Save
           \/ PassFails \/ Deliver \/ EndPass \/ Start
  BY <1>5 DEF CleanupStale, ReadHookEvents, DispatchHookEvent, FindMissing, Save, PassFails,
              Deliver, EndPass, Start, TypeOK
<1>. QED
  BY <1>1, <1>2, <1>3, <1>4, <1>5 DEF Next, Pass, TypeOK

\* Every step keeps the types.
LEMMA NextTypes ==
  ASSUME TypeOK, OffsetsOK, [Next]_vars
  PROVE  TypeOK'
BY FilesType, NextOffsets, NextQueues, NextLastMap DEF TypeOK, OffsetsStep, QueueStep

-----------------------------------------------------------------------------
(* Hook events.                                                            *)

\* Every event an offset has passed was handed over, waits, or was missed.
LEMMA NextEvents ==
  ASSUME TypeOK, OffsetsOK, EventsOK, NoEventSkipped, [Next]_vars
  PROVE  EventsOK' /\ NoEventSkipped'
<1>1. /\ Entered(eventsOffset) \in Nat /\ eventLog \in Nat /\ newEvents \in Seq(Event)
      /\ eventLog \in 0..MaxEvents
  BY BoundsAssumption, EnteredType DEF TypeOK
<1>2. Values(<<>>) = {}
  BY NoOffsets
<1>3. ASSUME UNCHANGED <<newEvents, eventsOffset, disk, handled, missed>>,
             pc' = pc \/ newEvents = <<>>
      PROVE  EventsOK' /\ NoEventSkipped'
  BY <1>3 DEF EventsOK, NoEventSkipped
<1>4. CASE Still \/ Initialize \/ FindMissing \/ PassFails \/ Deliver \/ EndPass
  <2>1. UNCHANGED <<newEvents, eventsOffset, disk, handled, missed>>
    BY <1>4 DEF Still, Initialize, FindMissing, PassFails, Deliver, EndPass, offsets, history
  <2>2. pc' = pc \/ newEvents = <<>>
    BY <1>4 DEF Still, Initialize, FindMissing, PassFails, Deliver, EndPass, EventsOK
  <2>. QED
    BY <1>3, <2>1, <2>2
<1>5. ASSUME NEW s \in Session, CheckSession(s) \/ CheckMissing(s) \/ CheckLate(s)
      PROVE  EventsOK' /\ NoEventSkipped'
  <2>1. UNCHANGED <<newEvents, eventsOffset, disk, handled, missed, pc>>
    BY <1>5 DEF CheckSession, CheckMissing, CheckLate
  <2>. QED
    BY <1>3, <2>1
<1>6. ASSUME UNCHANGED <<eventsOffset, newEvents, handled, missed>>, newEvents = <<>>,
             disk'.eventsOffset \in {disk.eventsOffset, eventsOffset}
      PROVE  EventsOK' /\ NoEventSkipped'
  BY <1>2, <1>6 DEF EventsOK, NoEventSkipped
<1>7. CASE CleanupStale \/ Reconcile \/ Save
  <2>1. UNCHANGED <<eventsOffset, newEvents, handled, missed>>
    BY <1>7 DEF CleanupStale, Reconcile, Save
  <2>2. newEvents = <<>>
    BY <1>7 DEF CleanupStale, Reconcile, Save, EventsOK
  <2>3. disk'.eventsOffset \in {disk.eventsOffset, eventsOffset}
    BY NextOffsets DEF OffsetsStep
  <2>. QED
    BY <1>6, <2>1, <2>2, <2>3
<1>8. CASE ReadHookEvents
  <2>1. newEvents = <<>> /\ pc' = "dispatch" /\ UNCHANGED <<disk, handled>>
        /\ missed \subseteq missed'
    BY <1>8 DEF ReadHookEvents, EventsOK
  <2>2. 1..Entered(eventsOffset) \subseteq handled \cup missed
    BY <1>2, <2>1 DEF EventsOK
  <2>3. ASSUME NEW last \in Entered(eventsOffset)..eventLog \cup {eventLog},
               newEvents' = EventsRead(last)
        PROVE  1..last \subseteq handled' \cup missed' \cup Values(newEvents')
    <3>1. last \in 0..MaxEvents /\ last \in Nat
      BY <1>1, BoundsAssumption
    <3>2. (Entered(eventsOffset) + 1)..last \subseteq Values(newEvents')
      BY <2>3, <3>1, UnreadEvents
    <3>3. \A n \in 1..last : \/ n \in 1..Entered(eventsOffset)
                            \/ n \in (Entered(eventsOffset) + 1)..last
      BY <1>1, <3>1
    <3>. QED
      BY <2>1, <2>2, <3>2, <3>3
  <2>4. CASE /\ newEvents' = EventsRead(eventLog)
             /\ eventsOffset' = [line |-> eventLog, inside |-> writing]
             /\ missed' = missed \cup (IF writing THEN {eventLog + 1} ELSE {})
    <3>1. 1..eventLog \subseteq handled' \cup missed' \cup Values(newEvents')
      BY <2>3, <2>4
    <3>2. eventsOffset'.line = eventLog /\ eventsOffset'.inside = writing
      BY <2>4
    <3>3. CASE writing
      <4>1. Entered(eventsOffset') = eventLog + 1 /\ eventLog + 1 \in missed'
        BY <2>4, <3>2, <3>3 DEF Entered
      <4>2. 1..(eventLog + 1) = 1..eventLog \cup {eventLog + 1}
        BY <1>1
      <4>. QED
        BY <2>1, <3>1, <4>1, <4>2 DEF EventsOK, NoEventSkipped
    <3>4. CASE ~writing
      <4>1. Entered(eventsOffset') = eventLog
        BY <3>2, <3>4 DEF Entered
      <4>. QED
        BY <2>1, <3>1, <4>1 DEF EventsOK, NoEventSkipped
    <3>. QED
      BY <3>3, <3>4
  <2>5. ASSUME NEW last \in Entered(eventsOffset)..eventLog,
               newEvents' = EventsRead(last),
               eventsOffset' = [line |-> last, inside |-> FALSE]
        PROVE  EventsOK' /\ NoEventSkipped'
    <3>1. 1..last \subseteq handled' \cup missed' \cup Values(newEvents')
      BY <2>3, <2>5
    <3>2. Entered(eventsOffset') = last
      BY <2>5 DEF Entered
    <3>. QED
      BY <2>1, <3>1, <3>2 DEF EventsOK, NoEventSkipped
  <2>6. CASE newEvents' = <<>> /\ eventsOffset' = eventsOffset /\ missed' = missed
    BY <2>1, <2>2, <2>6 DEF EventsOK, NoEventSkipped
  <2>. QED
    BY <1>8, <2>4, <2>5, <2>6 DEF ReadHookEvents
<1>9. CASE DispatchHookEvent
  <2>1. /\ handled' = handled \cup {Head(newEvents)} /\ newEvents' = Tail(newEvents)
        /\ missed' = missed \ {Head(newEvents)}
        /\ pc = "dispatch" /\ pc' = pc /\ UNCHANGED <<eventsOffset, disk>>
    BY <1>9 DEF DispatchHookEvent, offsets
  <2>2. Values(newEvents) = {Head(newEvents)} \cup Values(newEvents')
    BY <1>1, <1>9, <2>1, QueueValues DEF DispatchHookEvent
  <2>. QED
    BY <2>1, <2>2 DEF EventsOK, NoEventSkipped
<1>10. CASE Start
  <2>1. /\ newEvents = <<>> /\ newEvents' = <<>> /\ eventsOffset' = disk.eventsOffset
        /\ UNCHANGED <<disk, handled, missed>>
    BY <1>10 DEF Start, EventsOK, history
  <2>. QED
    BY <2>1 DEF EventsOK, NoEventSkipped
<1>11. ASSUME Forget, missed \cup Values(newEvents) \subseteq missed' \/ disk' = disk,
              missed \subseteq missed',
              disk'.eventsOffset \in {disk.eventsOffset, eventsOffset}
       PROVE  EventsOK' /\ NoEventSkipped'
  <2>1. newEvents' = <<>> /\ eventsOffset' = Beginning /\ UNCHANGED handled
    BY <1>11 DEF Forget
  <2>2. 1..Entered(eventsOffset') = {}
    BY <2>1 DEF Entered, Beginning
  <2>. QED
    BY <1>11, <2>1, <2>2 DEF EventsOK, NoEventSkipped
<1>12. CASE Crash \/ Stop
  <2>1. /\ Forget /\ missed \subseteq missed'
        /\ missed \cup Values(newEvents) \subseteq missed' \/ disk' = disk
    BY <1>12 DEF Crash, Stop
  <2>2. disk'.eventsOffset \in {disk.eventsOffset, eventsOffset}
    BY NextOffsets DEF OffsetsStep
  <2>. QED
    BY <1>11, <2>1, <2>2
<1>. QED
  BY <1>4, <1>5, <1>7, <1>8, <1>9, <1>10, <1>12, Steps

-----------------------------------------------------------------------------
(* Messages: none is lost between the start of following and the offset.   *)

\* Messages wait only in the part of a pass that collects or hands them over.
LEMMA NextQueue ==
  ASSUME TypeOK, QueueOK, [Next]_vars
  PROVE  QueueOK'
<1>1. CASE Still \/ Initialize \/ ReadHookEvents \/ DispatchHookEvent \/ Start
  BY <1>1 DEF Still, Initialize, ReadHookEvents, DispatchHookEvent, Start, QueueOK, history
<1>2. CASE CleanupStale \/ Reconcile \/ FindMissing \/ Save
  BY <1>2 DEF CleanupStale, Reconcile, FindMissing, Save, QueueOK
<1>3. ASSUME NEW s \in Session, CheckSession(s) \/ CheckMissing(s) \/ CheckLate(s)
      PROVE  QueueOK'
  BY <1>3 DEF CheckSession, CheckMissing, CheckLate, QueueOK
<1>4. CASE PassFails \/ EndPass \/ Crash \/ Stop
  BY <1>4 DEF PassFails, EndPass, Crash, Stop, Forget, QueueOK
<1>5. CASE Deliver
  BY <1>5 DEF Deliver, QueueOK
<1>. QED
  BY <1>1, <1>2, <1>3, <1>4, <1>5, Steps

\* Reading a session loses none of its lines.
LEMMA ProcessedSkipsNone ==
  ASSUME TypeOK, OffsetsOK, NothingSkipped, UNCHANGED <<delivered, disk>>, NEW s \in Session,
         ProcessSession(s) \/ SessionFails(s)
  PROVE  NothingSkipped'
<1>1. /\ DOMAIN tracked' = DOMAIN tracked \cup {s} /\ tracked'[s] = lines[s]
      /\ \A r \in DOMAIN tracked \ {s} : tracked'[r] = tracked[r]
      /\ \A r \in Session \ {s} : followed'[r] = followed[r]
      /\ lost \subseteq lost'
      /\ \/ newMessages' = newMessages /\ followed'[s] = lines[s]
         \/ /\ s \in DOMAIN tracked /\ newMessages' = newMessages
            /\ followed' = followed /\ Values(Unread(s)) \subseteq lost'
         \/ /\ s \in DOMAIN tracked /\ newMessages' = newMessages \o Unread(s)
            /\ followed' = followed
  BY Processed
<1>2. /\ newMessages \in Seq(Session \X Line) /\ lines[s] \in Nat
      /\ followed[s] \in Nat /\ tracked \in Offsets /\ disk.tracked \in Offsets
  BY BoundsAssumption DEF TypeOK
<1>3. ASSUME s \in DOMAIN tracked
      PROVE  /\ \A m \in (tracked[s] + 1)..lines[s] : <<s, m>> \in Values(Unread(s))
             /\ Values(newMessages \o Unread(s)) = Values(newMessages) \cup Values(Unread(s))
             /\ tracked[s] \in Nat
  <2>1. /\ Unread(s) \in Seq(Session \X Line)
        /\ \A m \in (tracked[s] + 1)..lines[s] : <<s, m>> \in Values(Unread(s))
    BY <1>3, UnreadLines DEF OffsetsOK
  <2>2. Values(newMessages \o Unread(s)) = Values(newMessages) \cup Values(Unread(s))
    BY <1>2, <2>1, QueueValues
  <2>3. tracked[s] \in Nat
    BY <1>2, <1>3, OffsetsDef, BoundsAssumption
  <2>. QED
    BY <2>1, <2>2, <2>3
<1>4. Values(newMessages) \subseteq Values(newMessages')
  BY <1>1, <1>3
<1>5. ASSUME NEW f \in Offsets, SkipsNone(f), NEW r \in DOMAIN f,
             r # s \/ followed' = followed, NEW n \in (followed'[r] + 1)..f[r]
      PROVE  n \in delivered'[r] \/ <<r, n>> \in Values(newMessages') \cup lost'
  <2>1. r \in Session
    BY OffsetsDef
  <2>2. followed'[r] = followed[r]
    BY <1>1, <1>5, <2>1
  <2>. QED
    BY <1>1, <1>4, <1>5, <2>2 DEF SkipsNone
<1>6. SkipsNone(disk.tracked)'
  <2>1. ASSUME NEW r \in DOMAIN disk.tracked, NEW n \in (followed'[r] + 1)..disk.tracked[r]
        PROVE  n \in delivered'[r] \/ <<r, n>> \in Values(newMessages') \cup lost'
    <3>1. CASE r # s \/ followed' = followed
      BY <1>2, <1>5, <2>1, <3>1 DEF NothingSkipped
    <3>2. CASE r = s /\ followed'[s] = lines[s]
      <4>1. disk.tracked[s] <= lines[s] /\ disk.tracked[s] \in Nat
        BY <1>2, <2>1, <3>2, OffsetsDef, BoundsAssumption DEF OffsetsOK
      <4>. QED
        BY <1>2, <2>1, <3>2, <4>1
    <3>. QED
      BY <1>1, <3>1, <3>2
  <2>. QED
    BY <2>1 DEF SkipsNone
<1>7. SkipsNone(tracked)'
  <2>1. ASSUME NEW r \in DOMAIN tracked', NEW n \in (followed'[r] + 1)..tracked'[r]
        PROVE  n \in delivered'[r] \/ <<r, n>> \in Values(newMessages') \cup lost'
    <3>1. CASE r # s
      <4>1. r \in DOMAIN tracked /\ tracked'[r] = tracked[r]
        BY <1>1, <3>1
      <4>. QED
        BY <1>2, <1>5, <2>1, <3>1, <4>1 DEF NothingSkipped
    <3>2. CASE r = s /\ followed'[s] = lines[s]
      BY <1>1, <1>2, <2>1, <3>2
    <3>3. CASE /\ r = s /\ s \in DOMAIN tracked /\ followed' = followed
               /\ Values(Unread(s)) \subseteq Values(newMessages') \cup lost'
      <4>1. n \in (followed[s] + 1)..tracked[s] \/ n \in (tracked[s] + 1)..lines[s]
        BY <1>1, <1>2, <1>3, <2>1, <3>3
      <4>2. CASE n \in (followed[s] + 1)..tracked[s]
        BY <1>2, <1>5, <3>3, <4>2 DEF NothingSkipped
      <4>3. CASE n \in (tracked[s] + 1)..lines[s]
        BY <1>3, <3>3, <4>3
      <4>. QED
        BY <4>1, <4>2, <4>3
    <3>. QED
      BY <1>1, <1>3, <3>1, <3>2, <3>3
  <2>. QED
    BY <2>1 DEF SkipsNone
<1>. QED
  BY <1>6, <1>7 DEF NothingSkipped

\* No step skips a line.
LEMMA NextSkipped ==
  ASSUME TypeOK, OffsetsOK, QueueOK, WaitingOK, NothingSkipped, [Next]_vars
  PROVE  NothingSkipped'
<1>1. /\ tracked \in Offsets /\ disk.tracked \in Offsets
      /\ newMessages \in Seq(Session \X Line) /\ Values(<<>>) = {}
      /\ delivered \in [Session -> SUBSET Line]
  BY NoOffsets DEF TypeOK
<1>2. ASSUME UNCHANGED <<followed, delivered, lost, newMessages>>,
             NEW f, SkipsNone(f), NEW g, DOMAIN g \subseteq DOMAIN f,
             \A s \in DOMAIN g : g[s] = f[s]
      PROVE  \A s \in DOMAIN g : \A n \in (followed'[s] + 1)..g[s] :
               n \in delivered'[s] \/ <<s, n>> \in Values(newMessages') \cup lost'
  BY <1>2 DEF SkipsNone
<1>3. ASSUME UNCHANGED <<followed, delivered, lost, newMessages>>,
             DOMAIN tracked' \subseteq DOMAIN tracked,
             \A s \in DOMAIN tracked' : tracked'[s] = tracked[s],
             disk'.tracked \in {disk.tracked, tracked, tracked'}
      PROVE  NothingSkipped'
  <2>1. SkipsNone(tracked) /\ SkipsNone(disk.tracked)
    BY DEF NothingSkipped
  <2>2. SkipsNone(tracked)'
    BY <1>2, <1>3, <2>1 DEF SkipsNone
  <2>3. SkipsNone(disk.tracked)'
    <3>1. CASE disk'.tracked = tracked'
      BY <2>2, <3>1 DEF SkipsNone
    <3>2. CASE disk'.tracked = disk.tracked
      BY <1>3, <2>1, <3>2 DEF SkipsNone
    <3>3. CASE disk'.tracked = tracked
      BY <1>3, <2>1, <3>3 DEF SkipsNone
    <3>. QED
      BY <1>3, <3>1, <3>2, <3>3
  <2>. QED
    BY <2>2, <2>3 DEF NothingSkipped
<1>4. disk'.tracked \in {disk.tracked, tracked, tracked'}
  BY NextOffsets DEF OffsetsStep
<1>5. CASE Still \/ Initialize \/ ReadHookEvents \/ DispatchHookEvent \/ FindMissing
           \/ Save \/ EndPass
  <2>1. UNCHANGED <<tracked, followed, delivered, lost, newMessages>>
    BY <1>5 DEF Still, Initialize, ReadHookEvents, DispatchHookEvent, FindMissing, Save,
                EndPass, offsets, history
  <2>. QED
    BY <1>3, <1>4, <2>1
<1>6. CASE CleanupStale \/ Reconcile
  <2>1. UNCHANGED <<followed, delivered, lost, newMessages>>
    BY <1>6 DEF CleanupStale, Reconcile
  <2>2. PICK S : ClearSessions(S)
    BY <1>6 DEF CleanupStale, Reconcile
  <2>3. /\ DOMAIN tracked' \subseteq DOMAIN tracked
        /\ \A s \in DOMAIN tracked' : tracked'[s] = tracked[s]
    BY <2>2, Cleared
  <2>. QED
    BY <1>3, <1>4, <2>1, <2>3
<1>7. ASSUME NEW s \in Session, CheckSession(s) \/ CheckMissing(s) \/ CheckLate(s)
      PROVE  NothingSkipped'
  <2>1. UNCHANGED <<delivered, disk>>
    BY <1>7 DEF CheckSession, CheckMissing, CheckLate
  <2>2. \/ ProcessSession(s) \/ SessionFails(s)
        \/ ClearSessions({s}) /\ UNCHANGED <<newMessages, followed, lost>>
        \/ UNCHANGED <<tracked, followed, lost, newMessages>>
    BY <1>7 DEF CheckSession, CheckMissing, CheckLate
  <2>3. CASE ClearSessions({s}) /\ UNCHANGED <<newMessages, followed, lost>>
    <3>1. /\ DOMAIN tracked' \subseteq DOMAIN tracked
          /\ \A r \in DOMAIN tracked' : tracked'[r] = tracked[r]
      BY <2>3, Cleared
    <3>. QED
      BY <1>3, <1>4, <2>1, <2>3, <3>1
  <2>4. CASE UNCHANGED <<tracked, followed, lost, newMessages>>
    BY <1>3, <1>4, <2>1, <2>4
  <2>. QED
    BY <2>1, <2>2, <2>3, <2>4, ProcessedSkipsNone
<1>8. CASE Start
  <2>1. /\ UNCHANGED <<followed, delivered, lost, newMessages, disk>>
        /\ tracked' = disk.tracked
    BY <1>8 DEF Start, history
  <2>. QED
    BY <2>1 DEF NothingSkipped, SkipsNone
<1>9. CASE PassFails
  <2>1. /\ UNCHANGED <<followed, delivered, tracked, disk>> /\ newMessages' = <<>>
        /\ lost' = lost \cup Values(newMessages)
    BY <1>9 DEF PassFails, offsets
  <2>. QED
    BY <1>1, <2>1 DEF NothingSkipped, SkipsNone
<1>10. CASE Crash \/ Stop
  <2>1. /\ Forget
        /\ disk' = disk \/ disk' = [tracked |-> tracked, eventsOffset |-> eventsOffset]
    BY <1>10 DEF Crash, Stop
  <2>2. /\ tracked' = <<>> /\ UNCHANGED <<delivered, followed>>
        /\ lost' = lost \cup
             {m \in Values(newMessages) : Covers(disk'.tracked, m[1], m[2])}
    BY <2>1 DEF Forget
  <2>3. disk'.tracked = disk.tracked \/ disk'.tracked = tracked
    BY <2>1
  <2>4. SkipsNone(disk'.tracked)
    BY <2>3 DEF NothingSkipped
  <2>5. ASSUME NEW s \in DOMAIN disk'.tracked,
               NEW n \in (followed[s] + 1)..disk'.tracked[s]
        PROVE  n \in delivered[s] \/ <<s, n>> \in lost'
    <3>1. n \in delivered[s] \/ <<s, n>> \in lost \/ <<s, n>> \in Values(newMessages)
      BY <2>4, <2>5 DEF SkipsNone
    <3>2. n <= disk'.tracked[s]
      BY <2>5
    <3>3. Covers(disk'.tracked, s, n)
      BY <3>2 DEF Covers
    <3>. QED
      BY <2>2, <3>1, <3>3
  <2>6. SkipsNone(disk.tracked)'
    BY <2>2, <2>5 DEF SkipsNone
  <2>7. SkipsNone(tracked)'
    BY <2>2, NoOffsets DEF SkipsNone
  <2>. QED
    BY <2>6, <2>7 DEF NothingSkipped
<1>11. CASE Deliver
  <2> DEFINE m == Head(newMessages)
  <2>1. /\ newMessages # <<>> /\ newMessages' = Tail(newMessages)
        /\ UNCHANGED <<tracked, disk, followed>> /\ lost' = lost \ {m}
        /\ delivered' = [delivered EXCEPT ![m[1]] = @ \cup {m[2]}]
    BY <1>11 DEF Deliver, offsets
  <2>2. Values(newMessages) = {m} \cup Values(newMessages') /\ m \in Session \X Line
    BY <1>1, <2>1, QueueValues
  <2> HIDE DEF m
  <2>3. /\ \A s \in Session : delivered[s] \subseteq delivered'[s]
        /\ m[2] \in delivered'[m[1]]
    BY <1>1, <2>1, <2>2
  <2>4. ASSUME NEW f \in Offsets, SkipsNone(f),
               NEW s \in DOMAIN f, NEW n \in (followed[s] + 1)..f[s]
        PROVE  n \in delivered'[s] \/ <<s, n>> \in Values(newMessages') \cup lost'
    <3>1. s \in Session
      BY OffsetsDef
    <3>2. n \in delivered[s] \/ <<s, n>> = m \/ <<s, n>> \in Values(newMessages') \cup lost'
      BY <2>1, <2>2, <2>4 DEF SkipsNone
    <3>. QED
      BY <2>3, <3>1, <3>2
  <2>. QED
    BY <1>1, <2>1, <2>4 DEF NothingSkipped, SkipsNone
<1>. QED
  BY <1>5, <1>6, <1>7, <1>8, <1>9, <1>10, <1>11, Steps

-----------------------------------------------------------------------------
(* Messages: none is handed over twice.                                    *)

\* What was handed over stays behind the offsets.
LEMMA NextDelivered ==
  ASSUME TypeOK, OffsetsOK, QueueOK, DeliveredOK, WaitingOK, NothingRepeated, [Next]_vars
  PROVE  DeliveredOK'
<1>1. /\ delivered \in [Session -> SUBSET Line] /\ newMessages \in Seq(Session \X Line)
      /\ Line \subseteq Nat /\ tracked \in Offsets /\ dirty \in BOOLEAN
  BY BoundsAssumption DEF TypeOK, Line
<1>2. ASSUME NEW s \in Session, NEW n \in delivered[s], <<s, n>> \notin again
      PROVE  /\ n <= lines'[s] /\ Covers(tracked', s, n)
             /\ disk'.tracked # disk.tracked => Covers(disk'.tracked, s, n)
  <2>1. n \in Nat
    BY <1>1
  <2>2. n <= lines[s] /\ Covers(tracked, s, n)
    BY <1>2 DEF DeliveredOK
  <2>3. pc = "down" => Covers(disk.tracked, s, n)
    BY <1>2 DEF DeliveredOK, QueueOK
  <2>. QED
    BY <2>1, <2>2, <2>3, StaysCovered
<1>3. ASSUME UNCHANGED delivered, again \subseteq again',
             exposed \subseteq exposed' \/ disk'.tracked = tracked \/ disk'.tracked = tracked'
      PROVE  DeliveredOK'
  <2>1. ASSUME NEW s \in Session, NEW n \in delivered[s], <<s, n>> \notin again'
        PROVE  /\ n <= lines'[s] /\ Covers(tracked', s, n)
               /\ <<s, n>> \notin exposed' => Covers(disk'.tracked, s, n)
    <3>1. <<s, n>> \notin again
      BY <1>3, <2>1
    <3>2. /\ n <= lines'[s] /\ Covers(tracked', s, n)
          /\ disk'.tracked # disk.tracked => Covers(disk'.tracked, s, n)
      BY <1>2, <3>1
    <3>3. /\ Covers(tracked, s, n)
          /\ <<s, n>> \notin exposed => Covers(disk.tracked, s, n)
      BY <3>1 DEF DeliveredOK
    <3>. QED
      BY <1>3, <3>2, <3>3
  <2>. QED
    BY <1>3, <2>1 DEF DeliveredOK
<1>4. CASE Still \/ Initialize \/ ReadHookEvents \/ DispatchHookEvent \/ FindMissing
           \/ EndPass \/ Start
  <2>1. UNCHANGED <<delivered, again, exposed>>
    BY <1>4 DEF Still, Initialize, ReadHookEvents, DispatchHookEvent, FindMissing, EndPass,
                Start, history
  <2>. QED
    BY <1>3, <2>1
<1>5. ASSUME NEW s \in Session, CheckSession(s) \/ CheckMissing(s) \/ CheckLate(s)
      PROVE  DeliveredOK'
  <2>1. UNCHANGED <<delivered, again>> /\ exposed \subseteq exposed'
    BY <1>5 DEF CheckSession, CheckMissing, CheckLate
  <2>. QED
    BY <1>3, <2>1
<1>6. ASSUME NEW t \in {tracked, tracked'}, NEW d, SaveStep(t, d), UNCHANGED <<delivered, again>>
      PROVE  DeliveredOK'
  BY <1>3, <1>6 DEF SaveStep
<1>7. CASE CleanupStale \/ Reconcile \/ Save
  <2>1. UNCHANGED <<delivered, again>>
    BY <1>7 DEF CleanupStale, Reconcile, Save
  <2>2. tracked' \in Offsets
    BY NextOffsets DEF OffsetsStep
  <2>3. \/ \E d \in BOOLEAN : SaveIfDirty(tracked', eventsOffset, d)
        \/ SaveIfDirty(tracked, eventsOffset, dirty)
        \/ UNCHANGED exposed
    <3>1. CASE CleanupStale
      BY <3>1 DEF CleanupStale
    <3>2. CASE Reconcile
      BY <1>1, <3>2 DEF Reconcile
    <3>3. CASE Save
      BY <3>3 DEF Save
    <3>. QED
      BY <1>7, <3>1, <3>2, <3>3
  <2>4. CASE \E d \in BOOLEAN : SaveIfDirty(tracked', eventsOffset, d)
    <3>1. PICK d \in BOOLEAN : SaveIfDirty(tracked', eventsOffset, d)
      BY <2>4
    <3>2. SaveStep(tracked', d)
      BY <2>2, <3>1, Saved
    <3>. QED
      BY <1>6, <2>1, <3>2
  <2>5. CASE SaveIfDirty(tracked, eventsOffset, dirty)
    <3>1. SaveStep(tracked, dirty)
      BY <1>1, <2>5, Saved
    <3>. QED
      BY <1>6, <2>1, <3>1
  <2>6. CASE UNCHANGED exposed
    BY <1>3, <2>1, <2>6
  <2>. QED
    BY <2>3, <2>4, <2>5, <2>6
<1>8. CASE PassFails
  <2>1. /\ UNCHANGED <<delivered, again, tracked, disk, lines>>
        /\ exposed' = exposed \ Values(newMessages)
    BY <1>8 DEF PassFails, offsets, files
  <2>2. ASSUME NEW s \in Session, NEW n \in delivered[s], <<s, n>> \notin again
        PROVE  <<s, n>> \notin Values(newMessages)
    <3>1. SUFFICES ASSUME NEW i \in DOMAIN newMessages, newMessages[i] = <<s, n>>
                   PROVE  FALSE
      BY DEF Values
    <3>2. newMessages[i][1] = s /\ newMessages[i][2] = n
      BY <3>1
    <3>3. n < n
      BY <2>2, <3>2 DEF NothingRepeated
    <3>. QED
      BY <1>1, <3>3
  <2>. QED
    BY <2>1, <2>2 DEF DeliveredOK
<1>9. CASE Crash \/ Stop
  <2>1. /\ Forget
        /\ disk' = disk \/ disk' = [tracked |-> tracked, eventsOffset |-> eventsOffset]
    BY <1>9 DEF Crash, Stop
  <2>2. /\ exposed' = {} /\ UNCHANGED delivered
        /\ again' = again \cup
             {m \in exposed : /\ m[2] \in delivered[m[1]]
                             /\ ~Covers(disk'.tracked, m[1], m[2])}
    BY <2>1 DEF Forget
  <2>3. ASSUME NEW s \in Session, NEW n \in delivered[s], <<s, n>> \notin again'
        PROVE  /\ n <= lines'[s] /\ Covers(tracked', s, n) /\ Covers(disk'.tracked, s, n)
    <3>1. <<s, n>> \notin again
      BY <2>2, <2>3
    <3>2. n <= lines'[s] /\ Covers(tracked', s, n)
      BY <1>2, <3>1
    <3>3. CASE <<s, n>> \in exposed
      <4>1. <<s, n>>[1] = s /\ <<s, n>>[2] = n
        OBVIOUS
      <4>2. <<s, n>>[2] \in delivered[<<s, n>>[1]]
        BY <2>3, <4>1
      <4>3. Covers(disk'.tracked, <<s, n>>[1], <<s, n>>[2])
        BY <2>2, <2>3, <3>3, <4>2
      <4>4. Covers(disk'.tracked, s, n)
        BY <4>1, <4>3
      <4>. QED
        BY <3>2, <4>4
    <3>4. CASE <<s, n>> \notin exposed
      <4>1. Covers(tracked, s, n) /\ Covers(disk.tracked, s, n)
        BY <3>1, <3>4 DEF DeliveredOK
      <4>2. disk'.tracked = disk.tracked \/ disk'.tracked = tracked
        BY <2>1
      <4>. QED
        BY <3>2, <4>1, <4>2
    <3>. QED
      BY <3>3, <3>4
  <2>. QED
    BY <2>2, <2>3 DEF DeliveredOK
<1>10. CASE Deliver
  <2> DEFINE m == Head(newMessages)
  <2>1. /\ newMessages # <<>> /\ pc = "late" /\ UNCHANGED <<tracked, disk, lines, exposed>>
        /\ delivered' = [delivered EXCEPT ![m[1]] = @ \cup {m[2]}]
        /\ again' = again \ {m}
    BY <1>10 DEF Deliver, offsets, files
  <2>2. m \in Values(newMessages) /\ m \in Session \X Line
    BY <1>1, <2>1, QueueValues
  <2> HIDE DEF m
  <2>3. ASSUME NEW s \in Session, NEW n \in delivered'[s], <<s, n>> \notin again'
        PROVE  /\ n <= lines[s] /\ Covers(tracked, s, n)
               /\ <<s, n>> \notin exposed => Covers(disk.tracked, s, n)
    <3>1. CASE <<s, n>> = m
      <4>1. m[1] = s /\ m[2] = n
        BY <3>1
      <4>. QED
        BY <2>1, <2>2, <3>1, <4>1 DEF WaitingOK
    <3>2. CASE <<s, n>> # m
      <4>1. m = <<m[1], m[2]>>
        BY <2>2
      <4>2. n \in delivered[s]
        BY <1>1, <2>1, <2>2, <2>3, <3>2, <4>1
      <4>3. <<s, n>> \notin again
        BY <2>1, <2>3, <3>2
      <4>. QED
        BY <4>2, <4>3 DEF DeliveredOK
    <3>. QED
      BY <3>1, <3>2
  <2>. QED
    BY <2>1, <2>3 DEF DeliveredOK
<1>. QED
  BY <1>4, <1>5, <1>7, <1>8, <1>9, <1>10, Steps

\* Reading a session of the pass: what it adds lies behind the new offset, which
\* is still to be saved, or the line is exposed.
LEMMA ProcessedWaits ==
  ASSUME TypeOK, OffsetsOK, WaitingOK, NEW s \in Session,
         ProcessSession(s) \/ SessionFails(s), UNCHANGED <<pc, lines, disk>>,
         \/ pc # "late" /\ exposed' = exposed
         \/ exposed' = exposed \cup (Values(newMessages') \ Values(newMessages))
  PROVE  WaitingOK'
<1>1. /\ DOMAIN tracked' = DOMAIN tracked \cup {s} /\ tracked'[s] = lines[s]
      /\ \A r \in DOMAIN tracked \ {s} : tracked'[r] = tracked[r]
      /\ dirty => dirty'
      /\ \/ newMessages' = newMessages
         \/ /\ s \in DOMAIN tracked /\ newMessages' = newMessages \o Unread(s)
            /\ (dirty' <=> dirty \/ tracked' # tracked)
  BY Processed
<1>2. newMessages \in Seq(Session \X Line) /\ lines[s] \in Nat
  BY BoundsAssumption DEF TypeOK
<1>3. ASSUME NEW m \in Values(newMessages)
      PROVE  /\ m[2] <= lines'[m[1]] /\ Covers(tracked', m[1], m[2])
             /\ (pc' = "late" \/ ~dirty') /\ m \notin exposed' => Covers(disk'.tracked, m[1], m[2])
  <2>1. /\ m[2] <= lines[m[1]] /\ Covers(tracked, m[1], m[2])
        /\ (pc = "late" \/ ~dirty) /\ m \notin exposed => Covers(disk.tracked, m[1], m[2])
    BY DEF WaitingOK
  <2>2. Covers(tracked', m[1], m[2])
    BY <1>1, <2>1 DEF Covers
  <2>3. (~dirty' => ~dirty) /\ exposed \subseteq exposed'
    BY <1>1
  <2>. QED
    BY <2>1, <2>2, <2>3
<1>4. CASE newMessages' = newMessages
  BY <1>3, <1>4 DEF WaitingOK
<1>5. CASE newMessages' # newMessages
  <2>1. s \in DOMAIN tracked /\ newMessages' = newMessages \o Unread(s)
    BY <1>1, <1>5
  <2>2. /\ Unread(s) \in Seq(Session \X Line) /\ Len(Unread(s)) = lines[s] - tracked[s]
        /\ \A i \in 1..Len(Unread(s)) : Unread(s)[i] = <<s, tracked[s] + i>>
    BY <2>1, UnreadLines DEF OffsetsOK
  <2>3. Values(newMessages') = Values(newMessages) \cup Values(Unread(s))
    BY <1>2, <2>1, <2>2, QueueValues
  <2>4. tracked[s] \in Nat
    BY <2>1, OffsetsDef, BoundsAssumption DEF TypeOK
  <2>5. ASSUME NEW m \in Values(Unread(s)), m \notin Values(newMessages)
        PROVE  /\ m[2] <= lines'[m[1]] /\ Covers(tracked', m[1], m[2])
               /\ (pc' = "late" \/ ~dirty') /\ m \notin exposed'
                    => Covers(disk'.tracked, m[1], m[2])
    <3>1. PICK i \in 1..Len(Unread(s)) : m = <<s, tracked[s] + i>>
      BY <2>2 DEF Values
    <3>2. m[1] = s /\ m[2] = tracked[s] + i /\ i > 0 /\ tracked[s] + i <= lines[s]
      BY <1>2, <2>2, <2>4, <3>1
    <3>3. tracked' # tracked
      BY <1>1, <1>2, <2>4, <3>2
    <3>4. dirty'
      BY <1>1, <1>5, <3>3
    <3>5. pc' # "late" \/ m \in exposed'
      BY <2>3, <2>5
    <3>. QED
      BY <1>1, <3>2, <3>4, <3>5 DEF Covers
  <2>. QED
    BY <1>3, <2>3, <2>5 DEF WaitingOK
<1>. QED
  BY <1>4, <1>5

\* What waits stays behind the offsets, and from the save on behind the saved ones.
LEMMA NextWaiting ==
  ASSUME TypeOK, OffsetsOK, QueueOK, WaitingOK, [Next]_vars
  PROVE  WaitingOK'
<1>1. /\ newMessages \in Seq(Session \X Line) /\ Values(newMessages) \subseteq Session \X Line
      /\ Values(<<>>) = {}
  BY QueueValues, NoOffsets DEF TypeOK
<1>2. ASSUME newMessages' = <<>>
      PROVE  WaitingOK'
  BY <1>1, <1>2 DEF WaitingOK
<1>3. CASE CleanupStale \/ Initialize \/ ReadHookEvents \/ DispatchHookEvent \/ Reconcile
           \/ PassFails \/ EndPass \/ Start \/ Crash \/ Stop
  <2>1. newMessages' = <<>>
    BY <1>3 DEF CleanupStale, Initialize, ReadHookEvents, DispatchHookEvent, Reconcile,
                PassFails, EndPass, Start, Crash, Stop, Forget, QueueOK
  <2>. QED
    BY <1>2, <2>1
<1>4. ASSUME UNCHANGED <<tracked, dirty, disk, newMessages, exposed>>, pc' = pc \/ pc' # "late"
      PROVE  WaitingOK'
  <2>1. ASSUME NEW m \in Values(newMessages)
        PROVE  /\ m[2] <= lines'[m[1]] /\ Covers(tracked, m[1], m[2])
               /\ (pc' = "late" \/ ~dirty) /\ m \notin exposed
                    => Covers(disk.tracked, m[1], m[2])
    <3>1. /\ m[2] <= lines[m[1]] /\ Covers(tracked, m[1], m[2])
          /\ (pc = "late" \/ ~dirty) /\ m \notin exposed => Covers(disk.tracked, m[1], m[2])
      BY DEF WaitingOK
    <3>2. m[1] \in Session /\ m[2] \in Nat
      BY <1>1, BoundsAssumption DEF Line
    <3>3. lines[m[1]] \in Nat /\ lines'[m[1]] \in Nat /\ lines[m[1]] <= lines'[m[1]]
      BY <3>2, FilesType, BoundsAssumption DEF TypeOK
    <3>4. m[2] <= lines'[m[1]]
      BY <3>1, <3>2, <3>3
    <3>. QED
      BY <1>4, <3>1, <3>4
  <2>. QED
    BY <1>4, <2>1 DEF WaitingOK
<1>5. CASE Still \/ FindMissing
  <2>1. UNCHANGED <<tracked, dirty, disk, newMessages, exposed>>
    BY <1>5 DEF Still, FindMissing, offsets, history
  <2>2. pc' = pc \/ pc' # "late"
    BY <1>5 DEF Still, FindMissing
  <2>. QED
    BY <1>4, <2>1, <2>2
<1>6. ASSUME NEW s \in Session, CheckSession(s)
      PROVE  WaitingOK'
  <2>1. pc # "late" /\ UNCHANGED <<pc, lines, disk, exposed>>
    BY <1>6 DEF CheckSession, files
  <2>2. CASE ProcessSession(s) \/ SessionFails(s)
    BY <2>1, <2>2, ProcessedWaits
  <2>3. CASE ClearSessions({s}) /\ dirty' = TRUE /\ UNCHANGED newMessages
    <3>1. /\ DOMAIN tracked' = DOMAIN tracked \ {s}
          /\ \A r \in DOMAIN tracked' : tracked'[r] = tracked[r]
      BY <2>3, Cleared
    <3>. QED
      BY <2>1, <2>3, <3>1 DEF WaitingOK, Covers
  <2>. QED
    BY <1>6, <2>2, <2>3 DEF CheckSession
<1>7. ASSUME NEW s \in Session, CheckMissing(s)
      PROVE  WaitingOK'
  <2>1. pc # "late" /\ UNCHANGED <<pc, lines, disk, exposed>>
    BY <1>7 DEF CheckMissing, files
  <2>2. CASE ProcessSession(s)
    BY <2>1, <2>2, ProcessedWaits
  <2>3. CASE UNCHANGED <<tracked, newMessages, dirty>>
    BY <1>4, <2>1, <2>3
  <2>. QED
    BY <1>7, <2>2, <2>3 DEF CheckMissing
<1>8. ASSUME NEW s \in Session, CheckLate(s)
      PROVE  WaitingOK'
  <2>1. UNCHANGED <<pc, lines, disk>>
    BY <1>8 DEF CheckLate
  <2>2. exposed' = exposed \cup (Values(newMessages') \ Values(newMessages))
    BY <1>8 DEF CheckLate
  <2>3. ProcessSession(s) \/ SessionFails(s)
    BY <1>8 DEF CheckLate
  <2>. QED
    BY <2>1, <2>2, <2>3, ProcessedWaits
<1>9. CASE Save
  <2>1. /\ SaveIfDirty(tracked, eventsOffset, dirty) /\ UNCHANGED <<tracked, lines>>
        /\ UNCHANGED newMessages
    BY <1>9 DEF Save, files
  <2>2. tracked \in Offsets /\ dirty \in BOOLEAN
    BY DEF TypeOK
  <2>3. SaveStep(tracked, dirty)
    BY <2>1, <2>2, Saved
  <2>. QED
    BY <2>1, <2>3 DEF WaitingOK, SaveStep
<1>10. CASE Deliver
  <2>1. /\ newMessages # <<>> /\ newMessages' = Tail(newMessages)
        /\ UNCHANGED <<tracked, dirty, disk, lines, pc, exposed>>
    BY <1>10 DEF Deliver, offsets, files
  <2>2. Values(newMessages') \subseteq Values(newMessages)
    BY <1>1, <2>1, QueueValues
  <2>. QED
    BY <2>1, <2>2 DEF WaitingOK
<1>. QED
  BY <1>3, <1>5, <1>6, <1>7, <1>8, <1>9, <1>10, Steps

\* Reading a session queues lines newer than any handed over or queued before.
LEMMA ProcessedInOrder ==
  ASSUME TypeOK, OffsetsOK, DeliveredOK, WaitingOK, NothingRepeated, NEW s \in Session,
         ProcessSession(s) \/ SessionFails(s), UNCHANGED <<delivered, again>>
  PROVE  NothingRepeated'
<1>1. \/ newMessages' = newMessages
      \/ s \in DOMAIN tracked /\ newMessages' = newMessages \o Unread(s)
  BY Processed
<1>2. CASE newMessages' = newMessages
  BY <1>2 DEF NothingRepeated
<1>3. CASE s \in DOMAIN tracked /\ newMessages' = newMessages \o Unread(s)
  <2> DEFINE q == newMessages
             r == Unread(s)
  <2>1. /\ r \in Seq(Session \X Line)
        /\ \A i \in 1..Len(r) : r[i] = <<s, tracked[s] + i>>
    BY <1>3, UnreadLines DEF OffsetsOK
  <2>2. q \in Seq(Session \X Line) /\ q' = q \o r
    BY <1>3 DEF TypeOK
  <2>3. /\ DOMAIN q' = 1..(Len(q) + Len(r)) /\ Len(q) \in Nat /\ Len(r) \in Nat
        /\ \A i \in 1..Len(q) : q'[i] = q[i]
        /\ \A i \in 1..Len(r) : q'[Len(q) + i] = r[i]
        /\ DOMAIN q = 1..Len(q)
    BY <2>1, <2>2
  <2>4. tracked[s] \in Nat /\ s \in DOMAIN tracked
    BY <1>3, OffsetsDef, BoundsAssumption DEF TypeOK
  <2>5. \A i \in 1..Len(q) : q[i][2] \in Nat
    BY <2>2, BoundsAssumption DEF Line
  <2>6. \A m \in delivered[s] : m \in Nat
    BY BoundsAssumption DEF TypeOK, Line
  <2>7. ASSUME NEW i \in DOMAIN q'
        PROVE  /\ \A m \in delivered'[q'[i][1]] : <<q'[i][1], m>> \notin again' => m < q'[i][2]
               /\ \A j \in 1..(i - 1) : q'[j][1] = q'[i][1] => q'[j][2] < q'[i][2]
    <3>1. CASE i <= Len(q)
      <4>1. i \in DOMAIN q /\ q'[i] = q[i] /\ \A j \in 1..(i - 1) : q'[j] = q[j]
        BY <2>3, <3>1
      <4>. QED
        BY <4>1 DEF NothingRepeated
    <3>2. CASE i > Len(q)
      <4> DEFINE k == i - Len(q)
      <4>1. k \in 1..Len(r) /\ Len(q) + k = i
        BY <2>3, <3>2
      <4> HIDE DEF k
      <4>2. q'[i] = <<s, tracked[s] + k>>
        BY <2>1, <2>3, <4>1
      <4>3. q'[i][1] = s /\ q'[i][2] = tracked[s] + k
        BY <4>2
      <4>4. s \in Session
        BY <2>4, OffsetsDef DEF TypeOK
      <4>5. \A m \in delivered[s] : <<s, m>> \notin again => m <= tracked[s]
        BY <2>4, <4>4 DEF DeliveredOK, Covers
      <4>6. ASSUME NEW j \in 1..(i - 1), q'[j][1] = s
            PROVE  q'[j][2] < tracked[s] + k
        <5>1. CASE j <= Len(q)
          <6>1. q'[j] = q[j] /\ q[j] \in Values(q) /\ q[j][2] \in Nat
            BY <2>3, <2>5, <5>1 DEF Values
          <6>2. q[j][2] <= tracked[s]
            BY <2>4, <4>6, <6>1 DEF WaitingOK, Covers
          <6>. QED
            BY <2>3, <2>4, <4>1, <6>1, <6>2
        <5>2. CASE j > Len(q)
          <6> DEFINE l == j - Len(q)
          <6>1. l \in 1..Len(r) /\ Len(q) + l = j /\ l < k
            BY <2>3, <4>1, <4>6, <5>2
          <6> HIDE DEF l
          <6>2. q'[j] = <<s, tracked[s] + l>>
            BY <2>1, <2>3, <6>1
          <6>3. q'[j][2] = tracked[s] + l
            BY <6>2
          <6>. QED
            BY <2>4, <4>1, <6>1, <6>3
        <5>. QED
          BY <2>3, <5>1, <5>2
      <4>7. \A m \in delivered[s] : <<s, m>> \notin again => m < tracked[s] + k
        BY <2>3, <2>4, <2>6, <4>1, <4>5
      <4>. QED
        BY <4>3, <4>6, <4>7
    <3>. QED
      BY <2>3, <3>1, <3>2
  <2>. QED
    BY <2>7 DEF NothingRepeated
<1>. QED
  BY <1>1, <1>2, <1>3

\* What waits stays newer than what was handed over, and in order.
LEMMA NextRepeated ==
  ASSUME TypeOK, OffsetsOK, QueueOK, DeliveredOK, WaitingOK, NothingRepeated, [Next]_vars
  PROVE  NothingRepeated'
<1>1. ASSUME newMessages' = <<>>
      PROVE  NothingRepeated'
  BY <1>1, NoOffsets DEF NothingRepeated
<1>2. CASE CleanupStale \/ Initialize \/ ReadHookEvents \/ DispatchHookEvent \/ Reconcile
           \/ PassFails \/ EndPass \/ Start \/ Crash \/ Stop
  <2>1. newMessages' = <<>>
    BY <1>2 DEF CleanupStale, Initialize, ReadHookEvents, DispatchHookEvent, Reconcile,
                PassFails, EndPass, Start, Crash, Stop, Forget, QueueOK
  <2>. QED
    BY <1>1, <2>1
<1>3. ASSUME UNCHANGED <<newMessages, delivered, again>>
      PROVE  NothingRepeated'
  BY <1>3 DEF NothingRepeated
<1>4. CASE Still \/ FindMissing \/ Save
  <2>1. UNCHANGED <<newMessages, delivered, again>>
    BY <1>4 DEF Still, FindMissing, Save, history
  <2>. QED
    BY <1>3, <2>1
<1>5. ASSUME NEW s \in Session, CheckSession(s) \/ CheckMissing(s) \/ CheckLate(s)
      PROVE  NothingRepeated'
  <2>1. UNCHANGED <<delivered, again>>
    BY <1>5 DEF CheckSession, CheckMissing, CheckLate
  <2>2. \/ ProcessSession(s) \/ SessionFails(s)
        \/ UNCHANGED newMessages
    BY <1>5 DEF CheckSession, CheckMissing, CheckLate
  <2>. QED
    BY <1>3, <2>1, <2>2, ProcessedInOrder
<1>6. CASE Deliver
  <2> DEFINE q == newMessages
             h == Head(newMessages)
  <2>1. /\ q \in Seq(Session \X Line) /\ q # <<>> /\ q' = Tail(q) /\ again' = again \ {h}
        /\ delivered' = [delivered EXCEPT ![h[1]] = @ \cup {h[2]}]
        /\ delivered \in [Session -> SUBSET Line]
    BY <1>6 DEF Deliver, TypeOK
  <2>2. /\ h = q[1] /\ Len(q) \in Nat /\ DOMAIN q = 1..Len(q)
        /\ DOMAIN q' = 1..(Len(q) - 1) /\ \A i \in 1..(Len(q) - 1) : q'[i] = q[i + 1]
    BY <2>1
  <2>3. \A i \in DOMAIN q : q[i] \in Session \X Line
    BY <2>1
  <2>4. ASSUME NEW i \in DOMAIN q'
        PROVE  /\ \A m \in delivered'[q'[i][1]] : <<q'[i][1], m>> \notin again' => m < q'[i][2]
               /\ \A j \in 1..(i - 1) : q'[j][1] = q'[i][1] => q'[j][2] < q'[i][2]
    <3>1. /\ i + 1 \in DOMAIN q /\ q'[i] = q[i + 1] /\ 1 \in 1..((i + 1) - 1)
          /\ \A j \in 1..(i - 1) : j + 1 \in 1..((i + 1) - 1) /\ q'[j] = q[j + 1]
      BY <2>2
    <3>2. /\ \A m \in delivered[q[i + 1][1]] :
               <<q[i + 1][1], m>> \notin again => m < q[i + 1][2]
          /\ \A j \in 1..((i + 1) - 1) : q[j][1] = q[i + 1][1] => q[j][2] < q[i + 1][2]
      BY <2>1, <2>4, <3>1 DEF NothingRepeated
    <3>3. q[i + 1][1] \in Session
      BY <2>3, <3>1
    <3>4. ASSUME NEW m \in delivered'[q[i + 1][1]]
          PROVE  m \in delivered[q[i + 1][1]] \/ (q[1][1] = q[i + 1][1] /\ m = q[1][2])
      BY <2>1, <2>2, <3>3, <3>4
    <3>5. ASSUME NEW m, <<q[i + 1][1], m>> \notin again', <<q[i + 1][1], m>> \in again
          PROVE  q[1][1] = q[i + 1][1] /\ m = q[1][2]
      <4>1. <<q[i + 1][1], m>> = q[1]
        BY <2>1, <2>2, <3>5
      <4>2. <<q[i + 1][1], m>>[1] = q[i + 1][1] /\ <<q[i + 1][1], m>>[2] = m
        OBVIOUS
      <4>. QED
        BY <4>1, <4>2
    <3>6. q[1][1] = q[i + 1][1] => q[1][2] < q[i + 1][2]
      BY <3>1, <3>2
    <3>7. ASSUME NEW m \in delivered'[q[i + 1][1]], <<q[i + 1][1], m>> \notin again'
          PROVE  m < q[i + 1][2]
      BY <3>2, <3>4, <3>5, <3>6, <3>7
    <3>8. \A j \in 1..(i - 1) : q'[j][1] = q'[i][1] => q'[j][2] < q'[i][2]
      BY <3>1, <3>2
    <3>. QED
      BY <3>1, <3>7, <3>8
  <2>. QED
    BY <2>4 DEF NothingRepeated
<1>. QED
  BY <1>2, <1>4, <1>5, <1>6, Steps

-----------------------------------------------------------------------------
(* The theorems.                                                           *)

\* Every step keeps the invariant.
LEMMA NextIInv == IInv /\ [Next]_vars => IInv'
BY NextTypes, NextOffsetsOK, NextEvents, NextSkipped, NextQueue, NextDelivered, NextWaiting,
   NextRepeated DEF IInv

\* It holds in every state the monitor can reach.
LEMMA Invariant == Spec => []IInv
BY InitIInv, NextIInv, PTL DEF Spec

\* Every variable keeps its type.
THEOREM TypesHold == Spec => []TypeOK
<1>1. IInv => TypeOK
  BY DEF IInv
<1>. QED
  BY <1>1, Invariant, PTL

\* A line that the offset has passed, in memory or saved, was handed over or is in
\* the batch, or was lost by a parser that raised (_read_new_lines moves the offset
\* first), an abandoned pass, or an end between save and delivery, and not otherwise.
THEOREM LinesNotSkipped == Spec => []NothingSkipped
<1>1. IInv => NothingSkipped
  BY DEF IInv
<1>. QED
  BY <1>1, Invariant, PTL

\* No message comes twice, failed saves, crashes and restarts included, but for
\* those handed over while no save of their offset had succeeded since they were
\* read (a failed save, a read after the save of the pass).
THEOREM LinesNotRepeated == Spec => []NothingRepeated
<1>1. IInv => NothingRepeated
  BY DEF IInv
<1>. QED
  BY <1>1, Invariant, PTL

\* The saved offset has passed no hook event the callback has not seen, but for a
\* line met half written and for a dispatch that stop() cut short.
THEOREM EventsNotSkipped == Spec => []NoEventSkipped
<1>1. IInv => NoEventSkipped
  BY DEF IInv
<1>. QED
  BY <1>1, Invariant, PTL
=============================================================================
