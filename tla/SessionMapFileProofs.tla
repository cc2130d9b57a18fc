------------------------- MODULE SessionMapFileProofs -------------------------
(***************************************************************************)
(* Proofs about SessionMapFile, for any set of windows, sessions, writers  *)
(* and loads.                                                              *)
(***************************************************************************)
EXTENDS SessionMapFile, TLAPS

-----------------------------------------------------------------------------
(* Dictionaries.                                                           *)

\* A dictionary is a function on its own keys.
LEMMA PartialFunctionsDef ==
  ASSUME NEW S, NEW T, NEW f
  PROVE  f \in PartialFunctions(S, T) <=> f \in [DOMAIN f -> T] /\ DOMAIN f \subseteq S
BY DEF PartialFunctions

\* Removing keys keeps a dictionary's type.
LEMMA WithoutType ==
  ASSUME NEW S, NEW T, NEW f \in PartialFunctions(S, T), NEW X
  PROVE  Without(f, X) \in PartialFunctions(S, T)
<1> DEFINE g == Without(f, X)
<1>1. f \in [DOMAIN f -> T] /\ DOMAIN f \subseteq S
  BY PartialFunctionsDef
<1>2. g \in [DOMAIN g -> T] /\ DOMAIN g \subseteq S
  BY <1>1 DEF Without
<1>. QED
  BY <1>2, PartialFunctionsDef

\* Setting a key keeps a dictionary's type.
LEMMA PutType ==
  ASSUME NEW S, NEW T, NEW f \in PartialFunctions(S, T), NEW x \in S, NEW v \in T
  PROVE  Put(f, x, v) \in PartialFunctions(S, T)
<1> DEFINE g == Put(f, x, v)
<1>1. f \in [DOMAIN f -> T] /\ DOMAIN f \subseteq S
  BY PartialFunctionsDef
<1>2. g \in [DOMAIN g -> T] /\ DOMAIN g \subseteq S
  BY <1>1 DEF Put
<1>. QED
  BY <1>2, PartialFunctionsDef

\* The empty dictionary has every type.
LEMMA EmptyType ==
  ASSUME NEW S, NEW T
  PROVE  <<>> \in PartialFunctions(S, T) /\ DOMAIN <<>> = {}
<1>1. <<>> \in [{} -> T] /\ DOMAIN <<>> = {}
  OBVIOUS
<1>. QED
  BY <1>1, PartialFunctionsDef

-----------------------------------------------------------------------------
(* The inductive invariant.                                                *)

Process == Writer \cup {Loop}

\* What a process may be doing: writers start agents, the loop clears and prunes.
JobOK(p, j) ==
  /\ p \in Writer => j.op \in {"idle", "start", "hookless"}
  /\ p = Loop => j.op \in {"idle", "clear", "prune"}
  /\ j.op = "idle" <=> j.at = "idle"
  /\ j.op = "prune" => j.at = "writing"
  /\ j.at # "writing" => DOMAIN j.seen = {}
  /\ j.op \in {"idle", "prune"} => j.window = None
  /\ j.op \in {"start", "hookless", "clear"} => j.window \in Window
  /\ j.op \in {"start", "hookless"} => j.session \in Session
  /\ j.op = "clear" => j.session = None

JobsOK == \A p \in Process : JobOK(p, job[p])

\* The lock is held from the reading to the writing, and by nobody else.
Holds(j) == j.at = "writing" /\ j.op # "prune"
LockOK == \A p \in Process : Holds(job[p]) <=> lock = p

\* Contents m hold what every finished write announced.
Announces(m) ==
  \A w \in Window : started[w] # None => w \in DOMAIN m /\ m[w].session = started[w]

\* The window whose entry the loop is clearing.
Clearing == {w \in Window : job[Loop].op = "clear" /\ w = job[Loop].window}

\* Contents that are in the file or will be written to it.  What the holder of
\* the lock has read may differ from the file by pruned entries only.
Current == {Contents} \cup {job[p].seen : p \in {q \in Process : lock = q}}

\* A file that cannot be read stays so only until somebody writes.
NothingRead == ~Readable => \A m \in Current : DOMAIN m = {}

\* Whatever may come to stand in the file keeps what was announced.
ContentsOK == NothingRead /\ \A m \in Current : Announces(m)

\* While there is no file nobody has read anything.
Unwritten == file = Missing => \A p \in Process : DOMAIN job[p].seen = {}

\* Of window w only the sessions X are in the file, in what was read of it, or
\* under way.
Only(X, w) ==
  /\ SessionsIn(Contents, w) \subseteq X
  /\ \A p \in Process : SessionsIn(job[p].seen, w) \subseteq X
  /\ UnderWay(w) \subseteq X

\* The record of w has no session but those of X.
Forgotten(X, w) ==
  w \in DOMAIN records =>
    \/ records[w].session = None /\ records[w].provider = "codex"
    \/ records[w].session \in X

\* A switched window, while its entry is being cleared and afterwards.
SwitchedOK(w) ==
  /\ w \in Clearing => Forgotten({}, w)
  /\ w \notin Clearing => Only(overtaken[w], w) /\ Forgotten(overtaken[w], w)

SwitchOK == \A w \in DOMAIN overtaken : SwitchedOK(w)

IInv ==
  /\ TypeOK /\ JobsOK /\ LockOK /\ Unwritten
  /\ mishaps \subseteq {"failed clear"} => ContentsOK
  /\ "failed clear" \notin mishaps => SwitchOK

-----------------------------------------------------------------------------
(* Types.                                                                  *)

\* The dictionaries of a typed state, as functions.
LEMMA Dicts ==
  ASSUME TypeOK
  PROVE  /\ records \in [DOMAIN records -> Record] /\ DOMAIN records \subseteq Window
         /\ Contents \in Entries
         /\ Contents \in [DOMAIN Contents -> Entry] /\ DOMAIN Contents \subseteq Key
<1>1. Contents \in Entries
  BY EmptyType DEF TypeOK, Contents, Readable, Entries
<1>. QED
  BY <1>1, PartialFunctionsDef DEF TypeOK, Entries

\* The record of any window.
LEMMA RecordOfType ==
  ASSUME TypeOK, NEW w
  PROVE  RecordOf(w) \in Record
BY Dicts DEF RecordOf, Get, NewRecord, Record, Provider

\* What a process makes of what it read are entries again.
LEMMA RewrittenType ==
  ASSUME TypeOK, JobsOK, NEW p \in Process, job[p].at = "writing", job[p].op # "prune"
  PROVE  Rewritten(p) \in Entries
<1> DEFINE w == job[p].window
           seen == job[p].seen
<1>1. /\ seen \in Entries /\ w \in Window
      /\ job[p].op \in {"start", "hookless", "clear"}
      /\ job[p].op # "clear" => NewEntry(p) \in Entry
  BY DEF TypeOK, JobsOK, JobOK, Process, NewEntry, Entry, Provider
<1>2. \A X : Without(seen, X) \in Entries
  BY <1>1, WithoutType DEF Entries
<1>3. \A m \in Entries : job[p].op # "clear" => Put(m, w, NewEntry(p)) \in Entries
  BY <1>1, PutType DEF Entries, Key
<1>. QED
  BY <1>1, <1>2, <1>3 DEF Rewritten

\* What a load makes of the records are records.
LEMMA SyncedType ==
  ASSUME TypeOK, NEW seen \in Entries
  PROVE  SyncedRecords(seen) \in PartialFunctions(Window, Record)
<1> DEFINE rs == SyncedRecords(seen)
<1>1. seen \in [DOMAIN seen -> Entry]
  BY PartialFunctionsDef DEF Entries
<1>2. ASSUME NEW w \in Named(seen)
      PROVE  Synced(w, seen[w]) \in Record /\ SyncedEmdash(w, seen[w]) \in Record
  <2>1. seen[w] \in Entry /\ RecordOf(w) \in Record
    BY <1>1, <1>2, RecordOfType DEF Named
  <2>2. Synced(w, seen[w]) \in Record
    BY <2>1 DEF Synced, Entry, Record
  <2>3. SyncedEmdash(w, seen[w]) \in Record
    BY <2>2 DEF SyncedEmdash, Record, Provider
  <2>. QED
    BY <2>2, <2>3
<1>3. DOMAIN rs = DOMAIN records \cup Named(seen) /\ rs = [w \in DOMAIN rs |-> rs[w]]
  BY DEF SyncedRecords
<1>4. ASSUME NEW w \in DOMAIN rs
      PROVE  rs[w] \in Record
  <2>1. CASE w \notin Named(seen)
    BY <1>3, <2>1, Dicts DEF SyncedRecords
  <2>2. CASE w \in Named(seen)
    BY <1>2, <1>3, <2>2 DEF SyncedRecords
  <2>. QED
    BY <2>1, <2>2
<1>5. rs \in [DOMAIN rs -> Record] /\ DOMAIN rs \subseteq Window
  BY <1>3, <1>4, Dicts DEF Named
<1>. QED
  BY <1>5, PartialFunctionsDef

\* Sessions under way are sessions.
LEMMA UnderWayType ==
  ASSUME TypeOK, JobsOK, NEW w \in Window
  PROVE  UnderWay(w) \subseteq Session
<1>1. ASSUME NEW q \in Writer, job[q].window = w
      PROVE  job[q].session \in Session
  BY <1>1, SessionMapAssumption DEF TypeOK, JobsOK, JobOK, Process
<1>2. ASSUME NEW l \in Loader, load[l] # None
      PROVE  SessionsIn(load[l], w) \subseteq Session
  <2>1. load[l] \in [DOMAIN load[l] -> Entry]
    BY <1>2, PartialFunctionsDef DEF TypeOK, Entries
  <2>. QED
    BY <2>1 DEF SessionsIn, Entry
<1>. QED
  BY <1>1, <1>2 DEF UnderWay

\* What may happen to overtaken keeps its type.
LEMMA OvertakenType ==
  ASSUME TypeOK, JobsOK, NEW w \in Window,
         \/ UNCHANGED overtaken
         \/ overtaken' = Without(overtaken, {w})
         \/ overtaken' = Put(overtaken, w, UnderWay(w))
         \/ Cleared(w)
  PROVE  overtaken' \in PartialFunctions(Window, SUBSET Session)
<1>1. overtaken \in PartialFunctions(Window, SUBSET Session)
  BY DEF TypeOK
<1>2. UnderWay(w) \in SUBSET Session
  BY UnderWayType
<1>3. Put(overtaken, w, UnderWay(w)) \in PartialFunctions(Window, SUBSET Session)
  BY <1>1, <1>2, PutType
<1>4. Without(overtaken, {w}) \in PartialFunctions(Window, SUBSET Session)
  BY <1>1, WithoutType
<1>. QED
  BY <1>1, <1>3, <1>4 DEF Cleared

\* Initially everything is typed, nobody holds the lock, and no write has finished.
LEMMA InitIInv == Init => IInv
<1> SUFFICES ASSUME Init PROVE IInv
  OBVIOUS
<1>1. file \in Entries \cup {Missing, Corrupt}
  <2>1. CASE file \in {Missing, Corrupt}
    BY <2>1
  <2>2. ASSUME NEW w \in Window, NEW s \in Session,
               file = [k \in {OldKey(w)} |-> [session |-> s, provider |-> ""]]
        PROVE  file \in Entries
    <3>1. file \in [{OldKey(w)} -> Entry]
      BY <2>2 DEF Entry, Provider
    <3>2. {OldKey(w)} \subseteq Key
      BY DEF Key
    <3>. QED
      BY <3>1, <3>2 DEF Entries, PartialFunctions
  <2>. QED
    BY <2>1, <2>2 DEF Init
<1>2. \A p \in Process : job[p] = Idle
  BY DEF Init, Process
<1>3. TypeOK
  <2>1. <<>> \in Entries /\ <<>> \in PartialFunctions(Window, Record)
    BY EmptyType DEF Entries
  <2>2. job = [p \in Writer \cup {Loop} |-> Idle]
    BY DEF Init
  <2>3. job \in [Writer \cup {Loop} ->
                  [op : {"idle", "start", "hookless", "clear", "prune"},
                   at : {"idle", "waiting", "writing"},
                   window : Window \cup {None}, session : Session \cup {None},
                   seen : Entries]]
    BY <2>1, <2>2 DEF Idle
  <2>4. /\ lock = None /\ load \in [Loader -> Entries \cup {None}]
        /\ records \in PartialFunctions(Window, Record)
        /\ live = Window /\ listed = None /\ starts = 0 /\ errors = 0
        /\ started \in [Window -> Session \cup {None}]
        /\ overtaken \in PartialFunctions(Window, SUBSET Session) /\ mishaps = {}
    BY <2>1, EmptyType DEF Init
  <2>. QED
    BY <1>1, <2>3, <2>4, SessionMapAssumption DEF TypeOK
<1>4. JobsOK /\ LockOK
  BY <1>2, SessionMapAssumption, EmptyType
     DEF Init, JobsOK, JobOK, LockOK, Holds, Idle, Process
<1>5. SwitchOK
  BY EmptyType DEF Init, SwitchOK
<1>6. \A m \in Current : m = Contents
  BY SessionMapAssumption DEF Current, Init, Process
<1>7. NothingRead
  BY <1>6, EmptyType DEF NothingRead, Contents
<1>8. \A m \in Current : Announces(m)
  BY DEF Announces, Init
<1>9. Unwritten
  BY <1>2, EmptyType DEF Unwritten, Idle
<1>. QED
  BY <1>3, <1>4, <1>5, <1>7, <1>8, <1>9 DEF IInv, ContentsOK

-----------------------------------------------------------------------------
(* Every step preserves it.                                                *)

\* Types.
LEMMA NextTypes ==
  ASSUME TypeOK, JobsOK, [Next]_vars
  PROVE  TypeOK'
<1> USE SessionMapAssumption
<1> DEFINE Jobs == [Writer \cup {Loop} ->
                     [op : {"idle", "start", "hookless", "clear", "prune"},
                      at : {"idle", "waiting", "writing"},
                      window : Window \cup {None}, session : Session \cup {None},
                      seen : Entries]]
<1>1. CASE UNCHANGED vars
  BY <1>1 DEF TypeOK, vars
<1>2. ASSUME NEW w \in Window, CloseWindow(w)
      PROVE  TypeOK'
  BY <1>2 DEF CloseWindow, TypeOK
<1>3. ASSUME NEW p \in Process, NEW op \in {"start", "hookless", "clear"},
             NEW w \in Window, NEW s \in Session \cup {None}, Ask(p, op, w, s)
      PROVE  job' \in Jobs
  <2>1. <<>> \in Entries
    BY EmptyType DEF Entries
  <2>. QED
    BY <1>3, <2>1 DEF Ask, TypeOK
<1>4. ASSUME NEW p \in Writer, NEW w \in Window, NEW s \in Session, SessionStart(p, w, s)
      PROVE  TypeOK'
  <2>1. job' \in Jobs
    BY <1>3, <1>4 DEF SessionStart, Process
  <2>2. overtaken' \in PartialFunctions(Window, SUBSET Session)
    BY <1>4, OvertakenType DEF SessionStart
  <2>. QED
    BY <1>4, <2>1, <2>2 DEF SessionStart, TypeOK
<1>5. ASSUME NEW p \in Writer, NEW w \in Window, NEW s \in Session, RegisterHookless(p, w, s)
      PROVE  TypeOK'
  <2>1. job' \in Jobs
    BY <1>3, <1>5 DEF RegisterHookless, Process
  <2>2. [RecordOf(w) EXCEPT !.session = s, !.provider = "codex"] \in Record
    BY RecordOfType DEF Record, Provider
  <2>3. records' \in PartialFunctions(Window, Record)
    BY <1>5, <2>2, PutType DEF RegisterHookless, TypeOK
  <2>4. overtaken' \in PartialFunctions(Window, SUBSET Session)
    BY <1>5, OvertakenType DEF RegisterHookless
  <2>. QED
    BY <1>5, <2>1, <2>3, <2>4 DEF RegisterHookless, TypeOK
<1>6. ASSUME NEW w \in Window, SwitchToHookless(w)
      PROVE  TypeOK'
  <2>1. job' \in Jobs
    BY <1>3, <1>6 DEF SwitchToHookless, AskClear, Process, TypeOK
  <2>2. [RecordOf(w) EXCEPT !.session = None, !.provider = "codex"] \in Record
    BY RecordOfType DEF Record, Provider
  <2>3. records' \in PartialFunctions(Window, Record)
    BY <1>6, <2>2, PutType DEF SwitchToHookless, TypeOK
  <2>4. overtaken' \in PartialFunctions(Window, SUBSET Session)
    BY <1>6, OvertakenType DEF SwitchToHookless
  <2>. QED
    BY <1>6, <2>1, <2>3, <2>4 DEF SwitchToHookless, TypeOK
<1>7. ASSUME NEW w \in Window, SwitchToHooked(w)
      PROVE  TypeOK'
  <2>1. [RecordOf(w) EXCEPT !.provider = "claude"] \in Record
    BY RecordOfType DEF Record, Provider
  <2>2. records' \in PartialFunctions(Window, Record)
    BY <1>7, <2>1, PutType DEF SwitchToHooked, TypeOK
  <2>3. overtaken' \in PartialFunctions(Window, SUBSET Session)
    BY <1>7, OvertakenType DEF SwitchToHooked
  <2>. QED
    BY <1>7, <2>2, <2>3 DEF SwitchToHooked, TypeOK
<1>8. Idle \in [op : {"idle", "start", "hookless", "clear", "prune"},
                at : {"idle", "waiting", "writing"},
                window : Window \cup {None}, session : Session \cup {None},
                seen : Entries]
  BY EmptyType DEF Idle, Entries
<1>9. ASSUME NEW p \in Process, job' = [job EXCEPT ![p] = Idle]
      PROVE  job' \in Jobs
  BY <1>8, <1>9 DEF TypeOK, Process
<1>10. ASSUME errors < MaxErrors, errors' = errors + 1
       PROVE  errors' \in 0..MaxErrors
  BY <1>10 DEF TypeOK
<1>11. ASSUME NEW p \in Process, LockAndRead(p)
       PROVE  TypeOK'
  <2>1. ASSUME job' = [job EXCEPT ![p].at = "writing", ![p].seen = Contents]
        PROVE  job' \in Jobs
    <3>1. Contents \in Entries
      BY Dicts
    <3>. QED
      BY <2>1, <3>1 DEF TypeOK, Process
  <2>2. job' \in Jobs /\ lock' \in Writer \cup {Loop, None}
    BY <1>9, <1>11, <2>1 DEF LockAndRead, TypeOK, Process
  <2>3. job[p].op = "clear" => job[p].window \in Window
    BY DEF JobsOK, JobOK
  <2>4. overtaken' \in PartialFunctions(Window, SUBSET Session)
    <3>1. CASE UNCHANGED overtaken
      BY <3>1 DEF TypeOK
    <3>2. CASE job[p].op = "clear" /\ Cleared(job[p].window)
      BY <2>3, <3>2, OvertakenType
    <3>. QED
      BY <1>11, <3>1, <3>2 DEF LockAndRead
  <2>. QED
    BY <1>11, <2>2, <2>4 DEF LockAndRead, TypeOK
<1>12. ASSUME NEW p \in Process, ReadFails(p)
       PROVE  TypeOK'
  <2>1. ASSUME job' = [job EXCEPT ![p].at = "writing"]
        PROVE  job' \in Jobs
    BY <2>1 DEF TypeOK, Process
  <2>2. job' \in Jobs /\ lock' \in Writer \cup {Loop, None}
    BY <1>9, <1>12, <2>1 DEF ReadFails, TypeOK, Process
  <2>3. errors' \in 0..MaxErrors
    BY <1>10, <1>12 DEF ReadFails
  <2>. QED
    BY <1>12, <2>2, <2>3 DEF ReadFails, TypeOK, Mishap
<1>13. ASSUME NEW p \in Process, WriteAndUnlock(p)
       PROVE  TypeOK'
  <2>1. file' \in Entries
    BY <1>13, RewrittenType DEF WriteAndUnlock
  <2>2. job' \in Jobs
    BY <1>8, <1>13 DEF WriteAndUnlock, TypeOK, Process
  <2>3. started' \in [Window -> Session \cup {None}]
    BY <1>13 DEF WriteAndUnlock, TypeOK, Process
  <2>4. job[p].op = "clear" => job[p].window \in Window
    BY DEF JobsOK, JobOK
  <2>5. overtaken' \in PartialFunctions(Window, SUBSET Session)
    <3>1. CASE UNCHANGED overtaken
      BY <3>1 DEF TypeOK
    <3>2. CASE job[p].op = "clear" /\ Cleared(job[p].window)
      BY <2>4, <3>2, OvertakenType
    <3>. QED
      BY <1>13, <3>1, <3>2 DEF WriteAndUnlock
  <2>. QED
    BY <1>13, <2>1, <2>2, <2>3, <2>5 DEF WriteAndUnlock, TypeOK
<1>14. ASSUME NEW p \in Process, WriteFails(p)
       PROVE  TypeOK'
  <2>1. job' \in Jobs
    BY <1>9, <1>14 DEF WriteFails
  <2>2. errors' \in 0..MaxErrors
    BY <1>10, <1>14 DEF WriteFails
  <2>. QED
    BY <1>14, <2>1, <2>2 DEF WriteFails, TypeOK, Mishap
<1>15. ASSUME NEW l \in Loader, ReadForLoad(l)
       PROVE  TypeOK'
  <2>1. load' \in [Loader -> Entries \cup {None}]
    BY <1>15 DEF ReadForLoad, Readable, TypeOK
  <2>. QED
    BY <1>15, <2>1 DEF ReadForLoad, TypeOK
<1>16. ASSUME NEW l \in Loader, ApplyLoad(l)
       PROVE  TypeOK'
  <2>1. load[l] \in Entries
    BY <1>16 DEF ApplyLoad, TypeOK
  <2>2. records' \in PartialFunctions(Window, Record)
    BY <1>16, <2>1, SyncedType, WithoutType DEF ApplyLoad
  <2>3. Without(load[l], OldKeys(load[l])) \in Entries
    BY <2>1, WithoutType DEF Entries
  <2>4. file' \in Entries \cup {Missing, Corrupt} /\ mishaps' \subseteq Mishap
    BY <1>16, <2>3 DEF ApplyLoad, Purge, TypeOK, Mishap
  <2>5. load' \in [Loader -> Entries \cup {None}]
    BY <1>16 DEF ApplyLoad, TypeOK
  <2>. QED
    BY <1>16, <2>2, <2>4, <2>5 DEF ApplyLoad, TypeOK
<1>17. ASSUME NEW found \in SUBSET Window, ListWindows(found)
       PROVE  TypeOK'
  BY <1>17 DEF ListWindows, TypeOK
<1>18. CASE ReadForPrune
  <2>1. ASSUME Readable, job' = [job EXCEPT ![Loop] = [Idle EXCEPT !.op = "prune",
                                           !.at = "writing", !.seen = file]]
        PROVE  job' \in Jobs
    <3>1. file \in Entries
      BY <2>1 DEF Readable, TypeOK
    <3>2. [Idle EXCEPT !.op = "prune", !.at = "writing", !.seen = file] \in
            [op : {"idle", "start", "hookless", "clear", "prune"},
             at : {"idle", "waiting", "writing"},
             window : Window \cup {None}, session : Session \cup {None},
             seen : Entries]
      BY <3>1 DEF Idle
    <3>. QED
      BY <2>1, <3>2 DEF TypeOK
  <2>2. job' \in Jobs
    BY <1>18, <2>1 DEF ReadForPrune, TypeOK
  <2>. QED
    BY <1>18, <2>2 DEF ReadForPrune, TypeOK
<1>19. CASE WritePruned
  <2>1. job[Loop].seen \in Entries
    BY DEF TypeOK
  <2>2. file' \in Entries
    BY <1>19, <2>1, WithoutType DEF WritePruned, Entries
  <2>3. records' \in PartialFunctions(Window, Record)
    BY <1>19, WithoutType DEF WritePruned, TypeOK
  <2>4. job' \in Jobs
    BY <1>8, <1>19 DEF WritePruned, TypeOK
  <2>5. started' \in [Window -> Session \cup {None}]
    BY <1>19 DEF WritePruned, TypeOK
  <2>. QED
    BY <1>19, <2>2, <2>3, <2>4, <2>5 DEF WritePruned, TypeOK, Mishap
<1>20. CASE PruneRecords
  <2>1. records' \in PartialFunctions(Window, Record)
    BY <1>20, WithoutType DEF PruneRecords, TypeOK
  <2>. QED
    BY <1>20, <2>1 DEF PruneRecords, TypeOK
<1>. QED
  BY <1>1, <1>2, <1>4, <1>5, <1>6, <1>7, <1>13, <1>14, <1>15, <1>16, <1>17,
     <1>18, <1>19, <1>20, <1>11, <1>12 DEF Next, Process

\* A step that changes the job of one process, and the lock for it alone.
LEMMA JobStep ==
  ASSUME TypeOK, JobsOK, LockOK, NEW p \in Process, NEW j,
         job' = [job EXCEPT ![p] = j], JobOK(p, j),
         Holds(j) <=> lock' = p,
         \A q \in Process \ {p} : lock' = q <=> lock = q
  PROVE  JobsOK' /\ LockOK'
<1>1. \A q \in Process : job'[q] = IF q = p THEN j ELSE job[q]
  BY DEF TypeOK, Process
<1>. QED
  BY <1>1 DEF JobsOK, LockOK, Process

\* Whoever gives up or has finished holds nothing, and nobody else does.
LEMMA JobEnds ==
  ASSUME TypeOK, JobsOK, LockOK, NEW p \in Process,
         job' = [job EXCEPT ![p] = Idle],
         \/ ~Holds(job[p]) /\ UNCHANGED lock
         \/ Holds(job[p]) /\ lock' = None
  PROVE  JobsOK' /\ LockOK'
<1>1. JobOK(p, Idle) /\ ~Holds(Idle)
  BY SessionMapAssumption, EmptyType DEF JobOK, Holds, Idle, Process
<1>2. None \notin Process /\ (Holds(job[p]) <=> lock = p)
  BY SessionMapAssumption DEF LockOK, Process
<1>3. lock' # p /\ \A q \in Process \ {p} : lock' = q <=> lock = q
  BY <1>2
<1>. QED
  BY <1>1, <1>3, JobStep

\* Jobs and the lock.
LEMMA NextJobs ==
  ASSUME TypeOK, JobsOK, LockOK, [Next]_vars
  PROVE  JobsOK' /\ LockOK'
<1> USE SessionMapAssumption
<1>1. CASE UNCHANGED <<job, lock>>
  BY <1>1 DEF JobsOK, LockOK
<1>2. ASSUME NEW p \in Process, NEW op \in {"start", "hookless", "clear"},
             NEW w \in Window, NEW s \in Session \cup {None}, Ask(p, op, w, s),
             job[p] = Idle, UNCHANGED lock,
             IF p = Loop THEN op = "clear" /\ s = None
                         ELSE op # "clear" /\ s \in Session
      PROVE  JobsOK' /\ LockOK'
  <2> DEFINE j == [op |-> op, at |-> "waiting", window |-> w, session |-> s, seen |-> <<>>]
  <2>1. job' = [job EXCEPT ![p] = j] /\ JobOK(p, j) /\ ~Holds(j)
    BY <1>2, EmptyType DEF Ask, JobOK, Holds, Process
  <2>2. lock' # p
    BY <1>2 DEF LockOK, Holds, Idle
  <2>. QED
    BY <1>2, <2>1, <2>2, JobStep
<1>3. ASSUME NEW p \in Process, NEW j, job[p].at = "waiting", lock = None, lock' = p,
             job' = [job EXCEPT ![p] = j], j.at = "writing",
             j.op = job[p].op, j.window = job[p].window, j.session = job[p].session
      PROVE  JobsOK' /\ LockOK'
  <2>1. JobOK(p, job[p])
    BY DEF JobsOK
  <2>2. JobOK(p, j) /\ Holds(j)
    BY <1>3, <2>1 DEF JobOK, Holds
  <2>3. \A q \in Process \ {p} : lock' = q <=> lock = q
    BY <1>3 DEF Process
  <2>. QED
    BY <1>3, <2>2, <2>3, JobStep
<1>4. ASSUME NEW p \in Writer, NEW w \in Window, NEW s \in Session,
             SessionStart(p, w, s) \/ RegisterHookless(p, w, s)
      PROVE  JobsOK' /\ LockOK'
  <2>1. p \in Process /\ p # Loop
    BY DEF Process
  <2>. QED
    BY <1>2, <1>4, <2>1 DEF SessionStart, RegisterHookless
<1>5. ASSUME NEW w \in Window, SwitchToHookless(w)
      PROVE  JobsOK' /\ LockOK'
  <2>1. Loop \in Process
    BY DEF Process
  <2>. QED
    BY <1>1, <1>2, <1>5, <2>1 DEF SwitchToHookless, AskClear, LoopFree
<1>6. ASSUME NEW p \in Process, LockAndRead(p)
      PROVE  JobsOK' /\ LockOK'
  <2>1. CASE job' = [job EXCEPT ![p] = Idle] /\ UNCHANGED lock
    BY <1>6, <2>1, JobEnds DEF LockAndRead, Holds
  <2>2. CASE lock' = p /\ job' = [job EXCEPT ![p].at = "writing", ![p].seen = Contents]
    <3> DEFINE j == [job[p] EXCEPT !.at = "writing", !.seen = Contents]
    <3>1. job' = [job EXCEPT ![p] = j]
      BY <2>2
    <3>2. /\ j.at = "writing" /\ j.op = job[p].op
          /\ j.window = job[p].window /\ j.session = job[p].session
      BY DEF TypeOK, Process
    <3>. QED
      BY <1>3, <1>6, <2>2, <3>1, <3>2 DEF LockAndRead, LockFree
  <2>. QED
    BY <1>6, <2>1, <2>2 DEF LockAndRead
<1>7. ASSUME NEW p \in Process, ReadFails(p)
      PROVE  JobsOK' /\ LockOK'
  <2>1. CASE job' = [job EXCEPT ![p] = Idle] /\ UNCHANGED lock
    BY <1>7, <2>1, JobEnds DEF ReadFails, Holds
  <2>2. CASE lock' = p /\ job' = [job EXCEPT ![p].at = "writing"]
    <3> DEFINE j == [job[p] EXCEPT !.at = "writing"]
    <3>1. job' = [job EXCEPT ![p] = j]
      BY <2>2
    <3>2. /\ j.at = "writing" /\ j.op = job[p].op
          /\ j.window = job[p].window /\ j.session = job[p].session
      BY DEF TypeOK, Process
    <3>. QED
      BY <1>3, <1>7, <2>2, <3>1, <3>2 DEF ReadFails, LockFree
  <2>. QED
    BY <1>7, <2>1, <2>2 DEF ReadFails
<1>8. ASSUME NEW p \in Process, WriteAndUnlock(p) \/ WriteFails(p)
      PROVE  JobsOK' /\ LockOK'
  BY <1>8, JobEnds DEF WriteAndUnlock, WriteFails, Holds
<1>9. CASE ReadForPrune
  <2> DEFINE j == [Idle EXCEPT !.op = "prune", !.at = "writing", !.seen = file]
  <2>1. CASE job' = [job EXCEPT ![Loop] = j]
    <3>1. JobOK(Loop, j) /\ ~Holds(j)
      BY DEF JobOK, Holds, Idle
    <3>2. Loop \in Process /\ ~Holds(job[Loop])
      BY <1>9 DEF Process, ReadForPrune, LoopFree, Holds, Idle
    <3>3. lock # Loop /\ UNCHANGED lock
      BY <1>9, <3>2 DEF LockOK, ReadForPrune
    <3>. QED
      BY <2>1, <3>1, <3>2, <3>3, JobStep
  <2>2. CASE UNCHANGED job
    BY <1>1, <1>9, <2>2 DEF ReadForPrune
  <2>. QED
    BY <1>9, <2>1, <2>2 DEF ReadForPrune
<1>10. CASE WritePruned
  <2>1. Loop \in Process /\ ~Holds(job[Loop])
    BY <1>10 DEF WritePruned, Holds, Process
  <2>. QED
    BY <1>10, <2>1, JobEnds DEF WritePruned
<1>11. ASSUME NEW l \in Loader, ReadForLoad(l) \/ ApplyLoad(l)
       PROVE  UNCHANGED <<job, lock>>
  BY <1>11 DEF ReadForLoad, ApplyLoad
<1>12. ASSUME NEW w \in Window, CloseWindow(w) \/ SwitchToHooked(w)
       PROVE  UNCHANGED <<job, lock>>
  BY <1>12 DEF CloseWindow, SwitchToHooked
<1>13. ASSUME NEW found, ListWindows(found) \/ PruneRecords
       PROVE  UNCHANGED <<job, lock>>
  BY <1>13 DEF ListWindows, PruneRecords
<1>14. CASE UNCHANGED vars
  BY <1>1, <1>14 DEF vars
<1>. QED
  BY <1>1, <1>4, <1>5, <1>6, <1>7, <1>8, <1>9, <1>10, <1>11, <1>12, <1>13, <1>14
     DEF Next, Process

\* Nobody removes the file, and before there is one nothing can be read.
LEMMA NextUnwritten ==
  ASSUME TypeOK, JobsOK, Unwritten, TypeOK', JobsOK', [Next]_vars
  PROVE  Unwritten'
<1>1. CASE file' # Missing
  BY <1>1 DEF Unwritten
<1>2. ASSUME file = Missing, UNCHANGED job
      PROVE  Unwritten'
  BY <1>2 DEF Unwritten
<1>3. ASSUME file = Missing, NEW p \in Process, NEW j, DOMAIN j.seen = {},
             job' = [job EXCEPT ![p] = j]
      PROVE  Unwritten'
  BY <1>3 DEF Unwritten, TypeOK, Process
<1>4. Missing \notin Entries
  BY KeyAssumption
<1>5. ASSUME NEW p \in Process, WriteAndUnlock(p)
      PROVE  file' # Missing
  BY <1>4, <1>5, RewrittenType DEF WriteAndUnlock
<1>6. ASSUME NEW l \in Loader, ApplyLoad(l)
      PROVE  file' # Missing \/ (file = Missing /\ UNCHANGED job)
  <2>1. load[l] \in Entries
    BY <1>6 DEF ApplyLoad, TypeOK
  <2>2. Without(load[l], OldKeys(load[l])) \in Entries
    BY <2>1, WithoutType DEF Entries
  <2>. QED
    BY <1>4, <1>6, <2>2 DEF ApplyLoad, Purge
<1>7. CASE WritePruned
  <2>1. job[Loop].seen \in Entries
    BY DEF TypeOK
  <2>2. file' \in Entries
    BY <1>7, <2>1, WithoutType DEF WritePruned, Entries
  <2>. QED
    BY <1>1, <1>4, <2>2
<1>8. DOMAIN Idle.seen = {}
  BY EmptyType DEF Idle
<1>9. ASSUME NEW p \in Process, NEW op, NEW w, NEW s, Ask(p, op, w, s), UNCHANGED file
      PROVE  Unwritten'
  <2> DEFINE j == [op |-> op, at |-> "waiting", window |-> w, session |-> s, seen |-> <<>>]
  <2>1. DOMAIN j.seen = {} /\ job' = [job EXCEPT ![p] = j]
    BY <1>9, EmptyType DEF Ask
  <2> HIDE DEF j
  <2>. QED
    BY <1>1, <1>3, <1>9, <2>1
<1>10. ASSUME NEW p \in Process, job' = [job EXCEPT ![p] = Idle], UNCHANGED file
       PROVE  Unwritten'
  BY <1>1, <1>3, <1>8, <1>10
<1>11. ASSUME NEW p \in Process, LockAndRead(p)
       PROVE  Unwritten'
  <2>1. CASE file = Missing /\ job' = [job EXCEPT ![p].at = "writing", ![p].seen = Contents]
    <3> DEFINE j == [job[p] EXCEPT !.at = "writing", !.seen = Contents]
    <3>1. DOMAIN Contents = {}
      BY <2>1, EmptyType DEF Contents, Readable
    <3>2. job' = [job EXCEPT ![p] = j]
      BY <2>1
    <3>3. j.seen = Contents
      BY DEF TypeOK, Process
    <3> HIDE DEF j
    <3>. QED
      BY <1>3, <2>1, <3>1, <3>2, <3>3
  <2>. QED
    BY <1>1, <1>10, <1>11, <2>1 DEF LockAndRead
<1>12. ASSUME NEW p \in Process, ReadFails(p)
       PROVE  Unwritten'
  <2>1. CASE file = Missing /\ job' = [job EXCEPT ![p].at = "writing"]
    <3> DEFINE j == [job[p] EXCEPT !.at = "writing"]
    <3>1. job' = [job EXCEPT ![p] = j]
      BY <2>1
    <3>2. j.seen = job[p].seen
      BY DEF TypeOK, Process
    <3>3. DOMAIN job[p].seen = {}
      BY <2>1 DEF Unwritten
    <3> HIDE DEF j
    <3>. QED
      BY <1>3, <2>1, <3>1, <3>2, <3>3
  <2>. QED
    BY <1>1, <1>10, <1>12, <2>1 DEF ReadFails
<1>13. ASSUME NEW p \in Process, WriteFails(p)
       PROVE  Unwritten'
  BY <1>10, <1>13 DEF WriteFails
<1>14. ASSUME NEW p \in Writer, NEW w \in Window, NEW s \in Session,
              SessionStart(p, w, s) \/ RegisterHookless(p, w, s)
       PROVE  Unwritten'
  <2>1. p \in Process
    BY DEF Process
  <2>. QED
    BY <1>9, <1>14, <2>1 DEF SessionStart, RegisterHookless
<1>15. ASSUME NEW w \in Window, SwitchToHookless(w)
       PROVE  Unwritten'
  <2>1. Loop \in Process
    BY DEF Process
  <2>. QED
    BY <1>1, <1>2, <1>9, <1>15, <2>1 DEF SwitchToHookless, AskClear
<1>16. CASE ReadForPrune
  BY <1>1, <1>2, <1>16 DEF ReadForPrune, Readable
<1>17. ASSUME NEW w, NEW found, NEW l,
              \/ CloseWindow(w) \/ SwitchToHooked(w) \/ ReadForLoad(l)
              \/ ListWindows(found) \/ PruneRecords \/ UNCHANGED vars
       PROVE  Unwritten'
  BY <1>1, <1>2, <1>17
     DEF CloseWindow, SwitchToHooked, ReadForLoad, ListWindows, PruneRecords, vars
<1>. QED
  BY <1>1, <1>2, <1>5, <1>6, <1>7, <1>11, <1>12, <1>13, <1>14, <1>15, <1>16, <1>17
     DEF Next, Process

\* A step after which no more contents are about than before, and that announces
\* nothing, keeps them in order.
LEMMA SameContents ==
  ASSUME ContentsOK, UNCHANGED <<file, started>>, Current' \subseteq Current
  PROVE  ContentsOK'
BY DEF ContentsOK, NothingRead, Announces, Readable

\* The contents about after a step that leaves the lock and what its holder has read.
LEMMA HolderKeeps ==
  ASSUME UNCHANGED lock, \A q \in Process : lock = q => job'[q].seen = job[q].seen
  PROVE  \A m \in Current' : m = Contents' \/ m \in Current \ {Contents'}
BY DEF Current

\* The same, when the file stays too.
LEMMA HolderKeepsFile ==
  ASSUME UNCHANGED <<file, lock>>,
         \A q \in Process : lock = q => job'[q].seen = job[q].seen
  PROVE  Current' \subseteq Current
<1>1. Contents' = Contents
  BY DEF Contents, Readable
<1>. QED
  BY <1>1 DEF Current

\* The holder's contents are current.
LEMMA HeldIsCurrent ==
  ASSUME NEW p \in Process, lock = p
  PROVE  job[p].seen \in Current
BY DEF Current

\* A rewriting of the file under the lock.
LEMMA WriteContents ==
  ASSUME TypeOK, JobsOK, LockOK, ContentsOK, TypeOK', LockOK',
         NEW p \in Process, WriteAndUnlock(p)
  PROVE  ContentsOK'
<1> DEFINE seen == job[p].seen
           w == job[p].window
<1>1. /\ job[p].op \in {"start", "hookless", "clear"} /\ w \in Window
      /\ job[p].op = "clear" <=> p = Loop
      /\ job[p].op = "clear" => job[p].session = None
  BY SessionMapAssumption DEF WriteAndUnlock, TypeOK, JobsOK, JobOK, Process
<1>2. Announces(seen)
  BY HeldIsCurrent DEF WriteAndUnlock, ContentsOK, LockOK, Holds
<1>3. file' \in Entries /\ file' = Rewritten(p)
  BY RewrittenType DEF WriteAndUnlock
<1>4. Readable' /\ Contents' = file'
  BY <1>3, KeyAssumption DEF Readable, Contents
<1>5. \A m \in Current' : m = file'
  BY <1>4, SessionMapAssumption DEF Current, WriteAndUnlock, Process
<1>6. started' = [started EXCEPT ![w] = job[p].session] /\ w \in DOMAIN started
  BY <1>1 DEF WriteAndUnlock, TypeOK
<1>7. \A u \in Window : u # OldKey(w)
  BY <1>1, KeyAssumption
<1>8. ASSUME NEW m, m = file', p = Loop
      PROVE  Announces(m)'
  <2>1. m = Without(seen, {w})
    BY <1>1, <1>3, <1>8 DEF Rewritten
  <2>2. \A u \in Window \ {w} : u \in DOMAIN seen => u \in DOMAIN m /\ m[u] = seen[u]
    BY <2>1 DEF Without
  <2>. QED
    BY <1>1, <1>2, <1>6, <1>8, <2>2 DEF Announces
<1>9. ASSUME NEW m, m = file', p # Loop
      PROVE  Announces(m)'
  <2>1. /\ w \in DOMAIN m /\ m[w] = NewEntry(p)
        /\ \A u \in Window \ {w} : u \in DOMAIN seen => u \in DOMAIN m /\ m[u] = seen[u]
    BY <1>1, <1>3, <1>7, <1>9 DEF Rewritten, Put, Without
  <2>. QED
    BY <1>1, <1>2, <1>6, <2>1 DEF Announces, NewEntry
<1>. QED
  BY <1>4, <1>5, <1>8, <1>9 DEF ContentsOK, NothingRead

\* A load: it removes old keys from the file it has read, if it is still that one.
LEMMA LoadContents ==
  ASSUME TypeOK, JobsOK, ContentsOK, TypeOK', mishaps' \subseteq {"failed clear"},
         NEW l \in Loader, ApplyLoad(l)
  PROVE  ContentsOK'
<1> DEFINE seen == load[l]
<1>1. UNCHANGED <<lock, job, started>>
  BY DEF ApplyLoad
<1>2. CASE OldKeys(seen) = {}
  <2>1. UNCHANGED file
    BY <1>2 DEF ApplyLoad, Purge
  <2>2. Current' \subseteq Current
    BY <1>1, <2>1, HolderKeepsFile
  <2>. QED
    BY <1>1, <2>1, <2>2, SameContents
<1>3. CASE OldKeys(seen) # {}
  <2>1. seen \in Entries
    BY DEF ApplyLoad, TypeOK
  <2>2. file = seen /\ file' = Without(seen, OldKeys(seen))
    <3>1. "unlocked write" \notin mishaps'
      OBVIOUS
    <3>. QED
      BY <1>3, <3>1 DEF ApplyLoad, Purge
  <2>3. file' \in Entries
    BY <2>1, <2>2, WithoutType DEF Entries
  <2>4. Readable' /\ Contents' = file' /\ Contents = seen
    BY <2>1, <2>2, <2>3, KeyAssumption DEF Readable, Contents
  <2>5. Announces(seen)
    BY <2>4 DEF ContentsOK, Current
  <2>6. ASSUME NEW m, m = file'
        PROVE  Announces(m)'
    <3>1. \A w \in Window : w \in DOMAIN seen => w \in DOMAIN m /\ m[w] = seen[w]
      BY <2>2, <2>6 DEF Without, OldKeys
    <3>. QED
      BY <1>1, <2>5, <3>1 DEF Announces
  <2>7. \A m \in Current' : m = file' \/ m \in Current
    BY <1>1, <2>4, HolderKeeps
  <2>8. ASSUME NEW m \in Current
        PROVE  Announces(m)'
    BY <1>1, <2>8 DEF ContentsOK, Announces
  <2>. QED
    BY <2>4, <2>6, <2>7, <2>8 DEF ContentsOK, NothingRead
<1>. QED
  BY <1>2, <1>3

\* A pruning that overwrote nothing and took no live window for dead.
LEMMA PrunedContents ==
  ASSUME TypeOK, JobsOK, LockOK, ContentsOK, TypeOK',
         mishaps' \subseteq {"failed clear"}, WritePruned
  PROVE  ContentsOK'
<1> DEFINE seen == job[Loop].seen
           dead == Dead(seen)
<1>1. /\ UNCHANGED lock /\ job' = [job EXCEPT ![Loop] = Idle]
      /\ file = seen /\ file' = Without(seen, dead) /\ dead \cap live = {}
      /\ started' = [w \in Window |-> IF w \in dead THEN None ELSE started[w]]
  <2>1. "unlocked write" \notin mishaps' /\ "live window pruned" \notin mishaps'
    OBVIOUS
  <2>2. file = seen /\ dead \cap live = {}
    BY <2>1 DEF WritePruned
  <2>. QED
    BY <2>2 DEF WritePruned
<1> HIDE DEF dead
<1>2. Loop \in DOMAIN job /\ lock # Loop
  BY DEF WritePruned, TypeOK, LockOK, Holds, Process
<1>3. seen \in Entries /\ file' \in Entries
  BY <1>1, <1>2, WithoutType DEF TypeOK, Entries
<1>4. Readable' /\ Contents' = file' /\ Contents = seen
  BY <1>1, <1>3, KeyAssumption DEF Readable, Contents
<1>5. Announces(seen)
  BY <1>4 DEF ContentsOK, Current
<1>6. ASSUME NEW m, m = file'
      PROVE  Announces(m)'
  <2>1. \A w \in DOMAIN seen \ dead : w \in DOMAIN m /\ m[w] = seen[w]
    BY <1>1, <1>6 DEF Without
  <2>. QED
    BY <1>1, <1>5, <2>1 DEF Announces
<1>7. \A m \in Current' : m = file' \/ m \in Current
  BY <1>1, <1>2, <1>4, HolderKeeps DEF TypeOK, Process
<1>8. ASSUME NEW m \in Current
      PROVE  Announces(m)'
  <2>1. Announces(m)
    BY DEF ContentsOK
  <2>. QED
    BY <1>1, <2>1 DEF Announces
<1>. QED
  BY <1>4, <1>6, <1>7, <1>8 DEF ContentsOK, NothingRead

\* Taking the lock: what is read is the file.
LEMMA ReadContents ==
  ASSUME TypeOK, LockOK, ContentsOK, NEW p \in Process, LockAndRead(p)
  PROVE  ContentsOK'
<1>1. lock = None /\ UNCHANGED <<file, started>>
  BY DEF LockAndRead, LockFree
<1>2. Contents' = Contents /\ p \in DOMAIN job
  BY <1>1 DEF Contents, Readable, TypeOK, Process
<1>3. CASE job[p].op = "clear" /\ ~Readable
  <2>1. UNCHANGED lock
    BY <1>3 DEF LockAndRead
  <2>2. \A q \in Process : lock # q
    BY <1>1, SessionMapAssumption DEF Process
  <2>3. Current' \subseteq Current
    BY <1>2, <2>1, <2>2 DEF Current
  <2>. QED
    BY <1>1, <2>3, SameContents
<1>4. CASE ~(job[p].op = "clear" /\ ~Readable)
  <2>1. lock' = p /\ job' = [job EXCEPT ![p].at = "writing", ![p].seen = Contents]
    BY <1>4 DEF LockAndRead
  <2>2. job'[p].seen = Contents
    <3> DEFINE j == [job[p] EXCEPT !.at = "writing", !.seen = Contents]
    <3>1. job' = [job EXCEPT ![p] = j]
      BY <2>1
    <3>2. j.seen = Contents
      BY DEF TypeOK, Process
    <3> HIDE DEF j
    <3>. QED
      BY <1>2, <3>1, <3>2
  <2>3. Current' \subseteq Current
    BY <1>2, <2>1, <2>2 DEF Current
  <2>. QED
    BY <1>1, <2>3, SameContents
<1>. QED
  BY <1>3, <1>4

\* A job that is begun or ended while its process holds no lock, or that ends
\* without a write.
LEMMA JobContents ==
  ASSUME TypeOK, LockOK, ContentsOK, UNCHANGED <<file, started>>, NEW p \in Process,
         \A q \in Process \ {p} : job'[q] = job[q],
         lock' # p, lock' \in {lock, None}
  PROVE  ContentsOK'
<1>1. Contents' = Contents
  BY DEF Contents, Readable
<1>2. \A q \in Process : lock' = q => lock = q /\ q # p
  BY SessionMapAssumption DEF Process
<1>3. Current' \subseteq Current
  BY <1>1, <1>2 DEF Current
<1>. QED
  BY <1>3, SameContents

\* Contents.
LEMMA NextContents ==
  ASSUME TypeOK, JobsOK, LockOK, ContentsOK, TypeOK', LockOK',
         mishaps' \subseteq {"failed clear"}, [Next]_vars
  PROVE  ContentsOK'
<1> USE SessionMapAssumption
<1>1. ASSUME UNCHANGED <<file, lock, job, started>>
      PROVE  ContentsOK'
  <2>1. Current' \subseteq Current
    BY <1>1, HolderKeepsFile
  <2>. QED
    BY <1>1, <2>1, SameContents
<1>2. ASSUME NEW p \in Process, job[p] = Idle
      PROVE  lock # p
  <2>1. Idle.at = "idle"
    BY DEF Idle
  <2>. QED
    BY <1>2, <2>1 DEF LockOK, Holds
<1>3. ASSUME NEW p \in Writer, NEW w \in Window, NEW s \in Session,
             SessionStart(p, w, s) \/ RegisterHookless(p, w, s)
      PROVE  ContentsOK'
  <2>1. /\ UNCHANGED <<file, lock, started>> /\ p \in Process
        /\ job[p] = Idle /\ \A q \in Process \ {p} : job'[q] = job[q]
    BY <1>3 DEF SessionStart, RegisterHookless, Ask, TypeOK, Process
  <2>. QED
    BY <1>2, <2>1, JobContents
<1>4. ASSUME NEW w \in Window, SwitchToHookless(w)
      PROVE  ContentsOK'
  <2>1. /\ UNCHANGED <<file, lock, started>> /\ Loop \in Process
        /\ job[Loop] = Idle /\ \A q \in Process \ {Loop} : job'[q] = job[q]
    BY <1>4 DEF SwitchToHookless, AskClear, LoopFree, Ask, TypeOK, Process
  <2>. QED
    BY <1>2, <2>1, JobContents
<1>5. ASSUME NEW p \in Process, ReadFails(p)
      PROVE  ContentsOK'
  <2>1. job[p].op = "clear"
    BY <1>5 DEF ReadFails
  <2>2. /\ UNCHANGED <<file, lock, started>> /\ job[p].at = "waiting"
        /\ \A q \in Process \ {p} : job'[q] = job[q]
    BY <1>5, <2>1 DEF ReadFails, TypeOK, Process
  <2>3. lock # p
    BY <2>2 DEF LockOK, Holds
  <2>. QED
    BY <2>2, <2>3, JobContents
<1>6. ASSUME NEW p \in Process, WriteFails(p)
      PROVE  ContentsOK'
  <2>1. /\ UNCHANGED <<file, started>> /\ lock' = None
        /\ \A q \in Process \ {p} : job'[q] = job[q]
    BY <1>6 DEF WriteFails, TypeOK, Process
  <2>. QED
    BY <2>1, JobContents DEF Process
<1>7. ASSUME NEW w \in Window, CloseWindow(w) \/ SwitchToHooked(w)
      PROVE  ContentsOK'
  BY <1>1, <1>7 DEF CloseWindow, SwitchToHooked
<1>8. ASSUME NEW l \in Loader, ReadForLoad(l)
      PROVE  ContentsOK'
  BY <1>1, <1>8 DEF ReadForLoad
<1>9. ASSUME NEW found, ListWindows(found) \/ PruneRecords
      PROVE  ContentsOK'
  BY <1>1, <1>9 DEF ListWindows, PruneRecords
<1>10. CASE UNCHANGED vars
  BY <1>1, <1>10 DEF vars
<1>11. CASE ReadForPrune
  <2>1. /\ UNCHANGED <<file, lock, started>> /\ Loop \in Process
        /\ job[Loop] = Idle /\ \A q \in Process \ {Loop} : job'[q] = job[q]
    BY <1>11 DEF ReadForPrune, LoopFree, TypeOK, Process
  <2>. QED
    BY <1>2, <2>1, JobContents
<1>. QED
  BY <1>3, <1>4, <1>5, <1>6, <1>7, <1>8, <1>9, <1>10, <1>11, WriteContents, LoadContents,
     PrunedContents, ReadContents DEF Next, Process

\* Removing keys brings no session.
LEMMA SessionsInWithout ==
  ASSUME NEW m, NEW X, NEW w
  PROVE  SessionsIn(Without(m, X), w) \subseteq SessionsIn(m, w)
<1>1. DOMAIN Without(m, X) = DOMAIN m \ X
      /\ \A k \in DOMAIN m \ X : Without(m, X)[k] = m[k]
  BY DEF Without
<1>. QED
  BY <1>1 DEF SessionsIn

\* An entry that is set brings its own session, to its own window.
LEMMA SessionsInPut ==
  ASSUME NEW m, NEW u, NEW e, NEW w
  PROVE  SessionsIn(Put(m, u, e), w) \subseteq
           SessionsIn(m, w) \cup {s \in {e.session} : u = w}
<1>1. DOMAIN Put(m, u, e) = DOMAIN m \cup {u}
      /\ \A k \in DOMAIN m \cup {u} : Put(m, u, e)[k] = IF k = u THEN e ELSE m[k]
  BY DEF Put
<1>. QED
  BY <1>1 DEF SessionsIn

\* Nothing is in an empty map.
LEMMA SessionsInEmpty ==
  ASSUME NEW m, DOMAIN m = {}, NEW w
  PROVE  SessionsIn(m, w) = {}
BY DEF SessionsIn

\* The dictionary of the switched windows, as a function.
LEMMA OvertakenDict ==
  ASSUME TypeOK
  PROVE  /\ overtaken \in [DOMAIN overtaken -> SUBSET Session]
         /\ DOMAIN overtaken \subseteq Window
BY PartialFunctionsDef DEF TypeOK

\* What a step must do so that a window that stays switched stays in order: the
\* contents, the jobs and the loads bring no other session of it.
LEMMA StaysSwitched ==
  ASSUME NEW w \in Window, SwitchedOK(w), w \in DOMAIN overtaken,
         overtaken'[w] = overtaken[w], w \in Clearing' <=> w \in Clearing,
         Forgotten(overtaken[w], w) => Forgotten(overtaken[w], w)',
         Forgotten({}, w) => Forgotten({}, w)',
         w \notin Clearing /\ Only(overtaken[w], w) => Only(overtaken[w], w)'
  PROVE  SwitchedOK(w)'
BY DEF SwitchedOK, Forgotten, Only

\* Unchanged records forget what they forgot.
LEMMA RecordsSame ==
  ASSUME UNCHANGED records, NEW w, NEW X
  PROVE  Forgotten(X, w) <=> Forgotten(X, w)'
BY DEF Forgotten

\* The sessions about, when neither the file nor the loads change.
LEMMA JobOnly ==
  ASSUME TypeOK, UNCHANGED <<file, load>>, NEW w, NEW X, Only(X, w),
         NEW p \in Process, NEW j, job' = [job EXCEPT ![p] = j],
         SessionsIn(j.seen, w) \subseteq X,
         p \in Writer /\ j.window = w => j.session \in X
  PROVE  Only(X, w)'
<1>1. Contents' = Contents
  BY DEF Contents, Readable
<1>2. \A q \in Process : job'[q] = IF q = p THEN j ELSE job[q]
  BY DEF TypeOK, Process
<1>3. \A q \in Process : SessionsIn(job'[q].seen, w) \subseteq X
  BY <1>2 DEF Only
<1>4. ASSUME NEW q \in Writer, job'[q].window = w
      PROVE  job'[q].session \in X
  <2>1. CASE q = p
    BY <1>2, <1>4, <2>1 DEF Process
  <2>2. CASE q # p
    BY <1>2, <1>4, <2>2 DEF Process, Only, UnderWay
  <2>. QED
    BY <2>1, <2>2
<1>5. \A l \in Loader : load[l] # None => SessionsIn(load[l], w) \subseteq X
  BY DEF Only, UnderWay
<1>6. UnderWay(w)' \subseteq X
  BY <1>4, <1>5 DEF UnderWay
<1>. QED
  BY <1>1, <1>3, <1>6 DEF Only, SessionsIn

\* The sessions about, when a process or a load puts the file in place of another.
LEMMA FileOnly ==
  ASSUME NEW w, NEW X,
         SessionsIn(Contents', w) \subseteq X,
         \A p \in Process : SessionsIn(job'[p].seen, w) \subseteq X,
         \A q \in Writer : job'[q].window = w => job'[q].session \in X,
         \A l \in Loader : load'[l] # None => SessionsIn(load'[l], w) \subseteq X
  PROVE  Only(X, w)'
<1>1. UnderWay(w)' \subseteq X
  BY DEF UnderWay, SessionsIn
<1>. QED
  BY <1>1 DEF Only, SessionsIn

\* A window that is begun anew is no longer switched; the others are as before.
LEMMA LeavesSwitched ==
  ASSUME TypeOK, SwitchOK, NEW u, overtaken' = Without(overtaken, {u}),
         NEW w \in DOMAIN overtaken'
  PROVE  w # u /\ w \in DOMAIN overtaken /\ w \in Window /\ overtaken'[w] = overtaken[w]
         /\ SwitchedOK(w)
BY OvertakenDict DEF Without, SwitchOK

\* The job of a process that asks for the lock.
LEMMA AskedJob ==
  ASSUME NEW p, NEW op, NEW w, NEW s, Ask(p, op, w, s)
  PROVE  \E j : job' = [job EXCEPT ![p] = j] /\ j.op = op /\ j.window = w
               /\ DOMAIN j.seen = {}
<1> DEFINE j == [op |-> op, at |-> "waiting", window |-> w, session |-> s, seen |-> <<>>]
<1>1. job' = [job EXCEPT ![p] = j] /\ j.op = op /\ j.window = w /\ DOMAIN j.seen = {}
  BY EmptyType DEF Ask
<1>. QED
  BY <1>1

\* A process that does nothing.
LEMMA IdleJob ==
  DOMAIN Idle.seen = {} /\ Idle.window = None /\ Idle.op = "idle"
BY EmptyType DEF Idle

\* An agent starts: its hook asks for the lock.
LEMMA StartSwitch ==
  ASSUME TypeOK, SwitchOK, NEW p \in Writer, NEW u \in Window, NEW s \in Session,
         SessionStart(p, u, s) \/ RegisterHookless(p, u, s)
  PROVE  SwitchOK'
<1>1. SUFFICES ASSUME NEW w \in DOMAIN overtaken' PROVE SwitchedOK(w)'
  BY DEF SwitchOK
<1>2. overtaken' = Without(overtaken, {u}) /\ UNCHANGED <<file, load>>
  BY DEF SessionStart, RegisterHookless
<1>3. /\ w # u /\ w \in DOMAIN overtaken /\ w \in Window /\ overtaken'[w] = overtaken[w]
      /\ SwitchedOK(w)
  BY <1>2, LeavesSwitched
<1>4. PICK j : job' = [job EXCEPT ![p] = j] /\ j.window = u /\ DOMAIN j.seen = {}
  <2>1. Ask(p, "start", u, s) \/ Ask(p, "hookless", u, s)
    BY DEF SessionStart, RegisterHookless
  <2>2. CASE Ask(p, "start", u, s)
    BY <2>2, AskedJob
  <2>3. CASE Ask(p, "hookless", u, s)
    BY <2>3, AskedJob
  <2>. QED
    BY <2>1, <2>2, <2>3
<1>5. p \in Process /\ p # Loop
  BY SessionMapAssumption DEF Process
<1>6. Clearing' = Clearing
  BY <1>4, <1>5 DEF Clearing, TypeOK, Process
<1>7. Only(overtaken[w], w) => Only(overtaken[w], w)'
  BY <1>2, <1>3, <1>4, <1>5, JobOnly, SessionsInEmpty
<1>8. w \in DOMAIN records' => w \in DOMAIN records /\ records'[w] = records[w]
  <2>1. CASE SessionStart(p, u, s)
    BY <2>1 DEF SessionStart
  <2>2. CASE RegisterHookless(p, u, s)
    BY <1>3, <2>2 DEF RegisterHookless, Put
  <2>. QED
    BY <2>1, <2>2
<1>9. \A X : Forgotten(X, w) => Forgotten(X, w)'
  BY <1>8 DEF Forgotten
<1>. QED
  BY <1>3, <1>6, <1>7, <1>9, StaysSwitched

\* A window gets a provider with hooks.
LEMMA HookedSwitch ==
  ASSUME TypeOK, SwitchOK, NEW u \in Window, SwitchToHooked(u)
  PROVE  SwitchOK'
<1>1. SUFFICES ASSUME NEW w \in DOMAIN overtaken' PROVE SwitchedOK(w)'
  BY DEF SwitchOK
<1>2. overtaken' = Without(overtaken, {u}) /\ UNCHANGED <<file, load, job>>
  BY DEF SwitchToHooked
<1>3. /\ w # u /\ w \in DOMAIN overtaken /\ w \in Window /\ overtaken'[w] = overtaken[w]
      /\ SwitchedOK(w)
  BY <1>2, LeavesSwitched
<1>4. w \in DOMAIN records' => w \in DOMAIN records /\ records'[w] = records[w]
  BY <1>3 DEF SwitchToHooked, Put
<1>5. \A X : Forgotten(X, w) => Forgotten(X, w)'
  BY <1>4 DEF Forgotten
<1>6. Clearing' = Clearing /\ Contents' = Contents
  BY <1>2 DEF Clearing, Contents, Readable
<1>7. \A X : Only(X, w) => Only(X, w)'
  BY <1>2, <1>6 DEF Only, UnderWay, SessionsIn
<1>. QED
  BY <1>3, <1>5, <1>6, <1>7, StaysSwitched

\* The switch itself: the record is forgotten, and the entry is being cleared, unless
\* there is no file to clear it in.
LEMMA HooklessSwitch ==
  ASSUME TypeOK, JobsOK, Unwritten, SwitchOK, NEW u \in Window, SwitchToHookless(u)
  PROVE  SwitchOK'
<1>1. SUFFICES ASSUME NEW w \in DOMAIN overtaken' PROVE SwitchedOK(w)'
  BY DEF SwitchOK
<1>2. overtaken' = Put(overtaken, u, UnderWay(u)) /\ UNCHANGED <<file, load>>
  BY DEF SwitchToHookless
<1>3. w \in Window /\ (w # u => w \in DOMAIN overtaken /\ overtaken'[w] = overtaken[w])
      /\ overtaken'[u] = UnderWay(u)
  BY <1>2, OvertakenDict DEF Put
<1>4. Loop \in Process /\ Clearing = {}
  BY DEF SwitchToHookless, LoopFree, Idle, Clearing, Process
<1>5. CASE file = Missing
  <2>1. UNCHANGED job
    BY <1>5 DEF SwitchToHookless, AskClear
  <2>2. Contents' = Contents /\ Clearing' = {}
    BY <1>2, <1>4, <2>1 DEF Contents, Readable, Clearing
  <2>3. \A X, v : Only(X, v) => Only(X, v)'
    BY <1>2, <2>1, <2>2 DEF Only, UnderWay, SessionsIn
  <2>4. CASE w # u
    <3>1. w \in DOMAIN records' => w \in DOMAIN records /\ records'[w] = records[w]
      BY <2>4 DEF SwitchToHookless, Put
    <3>2. \A X : Forgotten(X, w) => Forgotten(X, w)'
      BY <3>1 DEF Forgotten
    <3>. QED
      BY <1>3, <1>4, <2>2, <2>3, <2>4, <3>2, StaysSwitched DEF SwitchOK
  <2>5. CASE w = u
    <3>1. DOMAIN Contents = {} /\ \A p \in Process : DOMAIN job[p].seen = {}
      BY <1>5, EmptyType DEF Contents, Readable, Unwritten
    <3>2. PICK X : X = UnderWay(u)
      OBVIOUS
    <3>. Only(X, u)
      BY <3>1, <3>2, SessionsInEmpty DEF Only
    <3>3. records'[u] = [RecordOf(u) EXCEPT !.session = None, !.provider = "codex"]
      BY DEF SwitchToHookless, Put
    <3>4. RecordOf(u) \in Record
      BY RecordOfType
    <3>5. records'[u].session = None /\ records'[u].provider = "codex"
      BY <3>3, <3>4 DEF Record
    <3>6. Only(X, u)' /\ Forgotten(X, u)'
      BY <2>3, <3>5 DEF Forgotten
    <3>7. overtaken'[w] = X
      BY <1>3, <2>5, <3>2
    <3>. QED
      BY <2>2, <2>5, <3>6, <3>7 DEF SwitchedOK
  <2>. QED
    BY <2>4, <2>5
<1>6. CASE file # Missing
  <2>1. Ask(Loop, "clear", u, None)
    BY <1>6 DEF SwitchToHookless, AskClear
  <2>2. PICK j : job' = [job EXCEPT ![Loop] = j] /\ j.op = "clear" /\ j.window = u
                 /\ DOMAIN j.seen = {}
    BY <2>1, AskedJob
  <2>3. Clearing' = {u}
    BY <1>4, <2>2 DEF Clearing, TypeOK, Process
  <2>4. CASE w # u
    <3>1. w \in DOMAIN records' => w \in DOMAIN records /\ records'[w] = records[w]
      BY <2>4 DEF SwitchToHookless, Put
    <3>2. \A X : Forgotten(X, w) => Forgotten(X, w)'
      BY <3>1 DEF Forgotten
    <3>3. \A X : Only(X, w) => Only(X, w)'
      BY <1>2, <1>4, <2>2, SessionMapAssumption, SessionsInEmpty, JobOnly
    <3>. QED
      BY <1>3, <1>4, <2>3, <2>4, <3>2, <3>3, StaysSwitched DEF SwitchOK
  <2>5. CASE w = u
    <3>1. records'[u] = [RecordOf(u) EXCEPT !.session = None, !.provider = "codex"]
      BY DEF SwitchToHookless, Put
    <3>2. RecordOf(u) \in Record
      BY RecordOfType
    <3>3. records'[u].session = None /\ records'[u].provider = "codex"
      BY <3>1, <3>2 DEF Record
    <3>. QED
      BY <2>3, <2>5, <3>3 DEF SwitchedOK, Forgotten
  <2>. QED
    BY <2>4, <2>5
<1>. QED
  BY <1>5, <1>6

\* A process that takes the lock reads the file; a clearing that finds no entries in
\* it has ended.
LEMMA LockSwitch ==
  ASSUME TypeOK, JobsOK, LockOK, SwitchOK, NEW p \in Process, LockAndRead(p)
  PROVE  SwitchOK'
<1>1. SUFFICES ASSUME NEW w \in DOMAIN overtaken' PROVE SwitchedOK(w)'
  BY DEF SwitchOK
<1>2. /\ UNCHANGED <<file, load, records>> /\ lock = None
      /\ p \in DOMAIN job /\ Loop \in DOMAIN job
  BY DEF LockAndRead, LockFree, TypeOK, Process
<1>3. Contents' = Contents
  BY <1>2 DEF Contents, Readable
<1>4. CASE job[p].op = "clear" /\ ~Readable
  <2> DEFINE u == job[p].window
  <2>1. /\ job' = [job EXCEPT ![p] = Idle] /\ Cleared(u) /\ p = Loop /\ u \in Window
    BY <1>4, SessionMapAssumption DEF LockAndRead, JobsOK, JobOK, Process
  <2>2. Clearing = {u} /\ Clearing' = {}
    BY <1>2, <1>4, <2>1 DEF Clearing, Idle
  <2>3. DOMAIN Contents = {}
    BY <1>4, EmptyType DEF Contents
  <2>4. ASSUME NEW X, Only(X, w)
        PROVE  Only(X, w)'
    <3>1. Loop \notin Writer /\ SessionsIn(Idle.seen, w) \subseteq X
      BY IdleJob, SessionMapAssumption, SessionsInEmpty
    <3>. QED
      BY <1>2, <2>1, <2>4, <3>1, JobOnly
  <2>5. CASE w # u
    <3>1. w \in DOMAIN overtaken /\ w \in Window /\ overtaken'[w] = overtaken[w]
      BY <2>1, <2>5, OvertakenDict DEF Cleared, Put
    <3>2. Only(overtaken[w], w) => Only(overtaken[w], w)'
      BY <2>4, <3>1
    <3>3. \A X : Forgotten(X, w) => Forgotten(X, w)'
      BY <1>2, RecordsSame
    <3>. QED
      BY <2>2, <2>5, <3>1, <3>2, <3>3, StaysSwitched DEF SwitchOK
  <2>6. CASE w = u
    <3>1. PICK X : X = UnderWay(u)
      OBVIOUS
    <3>2. w \in DOMAIN overtaken /\ overtaken'[w] = X
      BY <2>1, <2>6, <3>1, OvertakenDict DEF Cleared, Put
    <3>3. \A q \in Process : DOMAIN job[q].seen = {}
      BY <1>2, <2>1, SessionMapAssumption, EmptyType
         DEF JobsOK, JobOK, LockOK, Holds, LockAndRead, Process
    <3>4. Only(X, w)
      BY <2>3, <2>6, <3>1, <3>3, SessionsInEmpty DEF Only
    <3>5. Only(X, w)'
      BY <2>4, <3>4
    <3>6. Forgotten({}, w)
      BY <2>2, <2>6, <3>2 DEF SwitchOK, SwitchedOK
    <3>7. Forgotten(X, w)'
      BY <1>2, <3>6 DEF Forgotten
    <3>. QED
      BY <2>2, <2>6, <3>2, <3>5, <3>7 DEF SwitchedOK
  <2>. QED
    BY <2>5, <2>6
<1>5. CASE ~(job[p].op = "clear" /\ ~Readable)
  <2> DEFINE j == [job[p] EXCEPT !.at = "writing", !.seen = Contents]
  <2>1. UNCHANGED overtaken /\ job' = [job EXCEPT ![p] = j]
    BY <1>5 DEF LockAndRead
  <2>2. /\ j.seen = Contents /\ j.window = job[p].window /\ j.session = job[p].session
        /\ j.op = job[p].op
    BY DEF TypeOK, Process
  <2> HIDE DEF j
  <2>3. w \in DOMAIN overtaken /\ w \in Window /\ SwitchedOK(w)
    BY <2>1, OvertakenDict DEF SwitchOK
  <2>4. ASSUME NEW X, Only(X, w)
        PROVE  Only(X, w)'
    <3>1. /\ SessionsIn(j.seen, w) \subseteq X
          /\ p \in Writer /\ j.window = w => j.session \in X
      BY <2>2, <2>4 DEF Only, UnderWay
    <3>. QED
      BY <1>2, <2>1, <2>4, <3>1, JobOnly
  <2>5. Clearing' = Clearing
    <3>1. job'[Loop].op = job[Loop].op /\ job'[Loop].window = job[Loop].window
      BY <1>2, <2>1, <2>2
    <3>. QED
      BY <3>1 DEF Clearing
  <2>6. \A X : Forgotten(X, w) => Forgotten(X, w)'
    BY <1>2, RecordsSame
  <2>. QED
    BY <2>1, <2>3, <2>4, <2>5, <2>6, StaysSwitched
<1>. QED
  BY <1>4, <1>5

\* A process whose read or write fails, other than a clearing.
LEMMA FailSwitch ==
  ASSUME TypeOK, JobsOK, SwitchOK, NEW p \in Process, ReadFails(p) \/ WriteFails(p),
         "failed clear" \notin mishaps'
  PROVE  SwitchOK'
<1>1. SUFFICES ASSUME NEW w \in DOMAIN overtaken' PROVE SwitchedOK(w)'
  BY DEF SwitchOK
<1>2. /\ UNCHANGED <<file, load, records, overtaken>>
      /\ p \in DOMAIN job /\ Loop \in DOMAIN job
  BY DEF ReadFails, WriteFails, TypeOK, Process
<1>3. job[p].op # "clear"
  BY DEF ReadFails, WriteFails
<1>4. PICK j : job' = [job EXCEPT ![p] = j] /\ j.op # "clear"
               /\ (DOMAIN j.seen = {} \/ j.seen = job[p].seen)
               /\ \/ j.window = None
                  \/ (j.window = job[p].window /\ j.session = job[p].session)
  <2>1. CASE job' = [job EXCEPT ![p] = Idle]
    <3>1. DOMAIN Idle.seen = {} /\ Idle.window = None /\ Idle.op # "clear"
      BY IdleJob
    <3>. QED
      BY <2>1, <3>1, Zenon
  <2>2. CASE job' = [job EXCEPT ![p].at = "writing"]
    <3> DEFINE j == [job[p] EXCEPT !.at = "writing"]
    <3>1. /\ j.seen = job[p].seen /\ j.window = job[p].window
          /\ j.session = job[p].session /\ j.op = job[p].op
      BY DEF TypeOK, Process
    <3>2. job' = [job EXCEPT ![p] = j]
      BY <2>2
    <3> HIDE DEF j
    <3>. QED
      BY <1>3, <3>1, <3>2
  <2>. QED
    BY <1>3, <2>1, <2>2 DEF ReadFails, WriteFails
<1>5. w \in DOMAIN overtaken /\ w \in Window /\ SwitchedOK(w) /\ w # None
  BY <1>2, OvertakenDict, SessionMapAssumption DEF SwitchOK
<1>6. Clearing' = Clearing
  <2>1. p = Loop => Clearing = {} /\ Clearing' = {}
    BY <1>2, <1>3, <1>4 DEF Clearing
  <2>2. p # Loop => Clearing' = Clearing
    BY <1>2, <1>4 DEF Clearing
  <2>. QED
    BY <2>1, <2>2
<1>7. ASSUME NEW X, Only(X, w)
      PROVE  Only(X, w)'
  <2>1. SessionsIn(j.seen, w) \subseteq X
    BY <1>4, <1>7, SessionsInEmpty DEF Only
  <2>2. p \in Writer /\ j.window = w => j.session \in X
    BY <1>4, <1>5, <1>7 DEF Only, UnderWay
  <2>. QED
    BY <1>2, <1>4, <1>7, <2>1, <2>2, JobOnly
<1>8. \A X : Forgotten(X, w) => Forgotten(X, w)'
  BY <1>2, RecordsSame
<1>. QED
  BY <1>2, <1>5, <1>6, <1>7, <1>8, StaysSwitched

\* A rewriting of the file under the lock: a start writes its own session, which was
\* under way, and a clearing leaves nothing but what is under way.
LEMMA WriteSwitch ==
  ASSUME TypeOK, JobsOK, LockOK, SwitchOK, NEW p \in Process, WriteAndUnlock(p)
  PROVE  SwitchOK'
<1>1. SUFFICES ASSUME NEW w \in DOMAIN overtaken' PROVE SwitchedOK(w)'
  BY DEF SwitchOK
<1> DEFINE u == job[p].window
           seen == job[p].seen
<1>2. /\ UNCHANGED <<load, records>> /\ job' = [job EXCEPT ![p] = Idle]
      /\ p \in DOMAIN job /\ Loop \in DOMAIN job
      /\ lock = p /\ job[p].at = "writing" /\ job[p].op # "prune"
  BY DEF WriteAndUnlock, TypeOK, Process, LockOK, Holds
<1>3. file' \in Entries /\ file' = Rewritten(p)
  BY RewrittenType DEF WriteAndUnlock
<1>4. Contents' = file'
  BY <1>3, KeyAssumption DEF Contents, Readable
<1>5. /\ job[p].op \in {"start", "hookless", "clear"} /\ u \in Window
      /\ job[p].op = "clear" <=> p = Loop
  BY <1>2, SessionMapAssumption DEF JobsOK, JobOK, TypeOK, Process
<1>6. \A q \in Process : job'[q] = IF q = p THEN Idle ELSE job[q]
  BY <1>2 DEF TypeOK, Process
<1>7. DOMAIN Idle.seen = {} /\ Idle.window = None /\ Idle.op = "idle"
  BY IdleJob
<1>8. ASSUME NEW X, w \in Window, SessionsIn(file', w) \subseteq X, UnderWay(w) \subseteq X,
             \A q \in Process \ {p} : SessionsIn(job[q].seen, w) \subseteq X
      PROVE  Only(X, w)'
  <2>1. \A q \in Process : SessionsIn(job'[q].seen, w) \subseteq X
    BY <1>6, <1>7, <1>8, SessionsInEmpty
  <2>2. \A q \in Writer : job'[q].window = w => job'[q].session \in X
    BY <1>6, <1>7, <1>8, SessionMapAssumption DEF Process, UnderWay
  <2>3. \A l \in Loader : load'[l] # None => SessionsIn(load'[l], w) \subseteq X
    BY <1>2, <1>8 DEF UnderWay
  <2>. QED
    BY <1>4, <1>8, <2>1, <2>2, <2>3, FileOnly
<1>9. CASE p = Loop
  <2>1. file' = Without(seen, {u}) /\ Cleared(u) /\ Clearing = {u} /\ Clearing' = {}
    BY <1>3, <1>2, <1>5, <1>7, <1>9 DEF Rewritten, WriteAndUnlock, Clearing
  <2>2. CASE w # u
    <3>1. w \in DOMAIN overtaken /\ w \in Window /\ overtaken'[w] = overtaken[w]
      BY <2>1, <2>2, OvertakenDict DEF Cleared, Put
    <3>2. SwitchedOK(w)
      BY <3>1 DEF SwitchOK
    <3>3. Only(overtaken[w], w) => Only(overtaken[w], w)'
      BY <1>8, <2>1, <3>1, SessionsInWithout DEF Only
    <3>4. \A X : Forgotten(X, w) => Forgotten(X, w)'
      BY <1>2, RecordsSame
    <3>. QED
      BY <2>1, <2>2, <3>1, <3>2, <3>3, <3>4, StaysSwitched
  <2>3. CASE w = u
    <3>1. PICK X : X = UnderWay(u)
      OBVIOUS
    <3>2. w \in DOMAIN overtaken /\ w \in Window /\ overtaken'[w] = X
      BY <1>5, <2>1, <2>3, <3>1, OvertakenDict DEF Cleared, Put
    <3>3. \A q \in Process \ {p} : DOMAIN job[q].seen = {}
      BY <1>2, <1>5, <1>9, SessionMapAssumption DEF JobsOK, JobOK, LockOK, Holds, Process
    <3>4. SessionsIn(file', w) = {}
      BY <2>1, <2>3 DEF SessionsIn, Without
    <3>5. Only(X, w)'
      BY <1>8, <2>3, <3>1, <3>2, <3>3, <3>4, SessionsInEmpty
    <3>6. Forgotten({}, w)
      BY <2>1, <2>3, <3>2 DEF SwitchOK, SwitchedOK
    <3>7. Forgotten(X, w)'
      BY <1>2, <3>6 DEF Forgotten
    <3>. QED
      BY <2>1, <2>3, <3>2, <3>5, <3>7 DEF SwitchedOK
  <2>. QED
    BY <2>2, <2>3
<1>10. CASE p # Loop
  <2>1. UNCHANGED overtaken /\ p \in Writer
    BY <1>5, <1>10 DEF WriteAndUnlock, Process
  <2>2. w \in DOMAIN overtaken /\ w \in Window /\ SwitchedOK(w)
    BY <2>1, OvertakenDict DEF SwitchOK
  <2>3. Clearing' = Clearing
    BY <1>2, <1>10 DEF Clearing
  <2>4. SessionsIn(file', w) \subseteq
          SessionsIn(seen, w) \cup {s \in {job[p].session} : u = w}
    <3>1. NewEntry(p).session = job[p].session
      BY DEF NewEntry
    <3>2. CASE job[p].op = "hookless"
      BY <1>3, <3>1, <3>2, SessionsInPut DEF Rewritten
    <3>3. CASE job[p].op = "start"
      <4>1. file' = Put(Without(seen, {OldKey(u)}), u, NewEntry(p))
        BY <1>3, <3>3 DEF Rewritten
      <4>2. SessionsIn(file', w) \subseteq
              SessionsIn(Without(seen, {OldKey(u)}), w)
                \cup {s \in {NewEntry(p).session} : u = w}
        BY <4>1, SessionsInPut
      <4>. QED
        BY <3>1, <4>2, SessionsInWithout
    <3>. QED
      BY <1>5, <1>10, <3>2, <3>3
  <2>5. ASSUME NEW X, Only(X, w)
        PROVE  Only(X, w)'
    <3>1. u = w => job[p].session \in X
      BY <2>1, <2>5 DEF Only, UnderWay
    <3>2. SessionsIn(seen, w) \subseteq X /\ UnderWay(w) \subseteq X
      BY <2>5 DEF Only
    <3>3. SessionsIn(file', w) \subseteq X
      BY <2>4, <3>1, <3>2
    <3>. QED
      BY <1>8, <2>2, <2>5, <3>2, <3>3 DEF Only
  <2>6. \A X : Forgotten(X, w) => Forgotten(X, w)'
    BY <1>2, RecordsSame
  <2>. QED
    BY <2>1, <2>2, <2>3, <2>5, <2>6, StaysSwitched
<1>. QED
  BY <1>9, <1>10

\* A load reads the file: of a switched window only what had been overtaken.
LEMMA ReadSwitch ==
  ASSUME TypeOK, SwitchOK, NEW l \in Loader, ReadForLoad(l)
  PROVE  SwitchOK'
<1>1. SUFFICES ASSUME NEW w \in DOMAIN overtaken' PROVE SwitchedOK(w)'
  BY DEF SwitchOK
<1>2. /\ UNCHANGED <<file, job, records, overtaken>>
      /\ Readable /\ load' = [load EXCEPT ![l] = file]
  BY DEF ReadForLoad
<1>3. w \in DOMAIN overtaken /\ w \in Window /\ SwitchedOK(w)
  BY <1>2, OvertakenDict DEF SwitchOK
<1>4. Contents' = Contents /\ Contents = file /\ Clearing' = Clearing
  BY <1>2 DEF Contents, Readable, Clearing
<1>5. ASSUME NEW X, Only(X, w)
      PROVE  Only(X, w)'
  <2>1. \A k \in Loader : load'[k] = IF k = l THEN file ELSE load[k]
    BY <1>2 DEF TypeOK
  <2>2. \A k \in Loader : load'[k] # None => SessionsIn(load'[k], w) \subseteq X
    BY <1>4, <1>5, <2>1 DEF Only, UnderWay
  <2>3. \A q \in Writer : job'[q].window = w => job'[q].session \in X
    BY <1>2, <1>5 DEF Only, UnderWay
  <2>4. \A q \in Process : SessionsIn(job'[q].seen, w) \subseteq X
    BY <1>2, <1>5 DEF Only
  <2>5. SessionsIn(Contents', w) \subseteq X
    BY <1>4, <1>5 DEF Only
  <2>. QED
    BY <2>2, <2>3, <2>4, <2>5, FileOnly
<1>6. \A X : Forgotten(X, w) => Forgotten(X, w)'
  BY <1>2, RecordsSame
<1>. QED
  BY <1>2, <1>3, <1>4, <1>5, <1>6, StaysSwitched

\* The step leaves the jobs, removes loads and puts a map in the file that has
\* sessions of w from X only.
LEMMA KeptOnly ==
  ASSUME NEW w, NEW X, Only(X, w), SessionsIn(Contents', w) \subseteq X,
         \A q \in Process : job'[q] = job[q] \/ job'[q] = Idle,
         \A k \in Loader : load'[k] # None => load'[k] = load[k], w # None
  PROVE  Only(X, w)'
<1>1. \A q \in Process : SessionsIn(job'[q].seen, w) \subseteq X
  BY IdleJob, SessionsInEmpty DEF Only
<1>2. \A q \in Writer : job'[q].window = w => job'[q].session \in X
  BY IdleJob DEF Only, UnderWay, Process
<1>3. \A k \in Loader : load'[k] # None => SessionsIn(load'[k], w) \subseteq X
  BY DEF Only, UnderWay
<1>. QED
  BY <1>1, <1>2, <1>3, FileOnly

\* A load is applied: what it brings back of a switched window had been overtaken,
\* and what it writes without the lock is what it had read.
LEMMA LoadSwitch ==
  ASSUME TypeOK, SwitchOK, NEW l \in Loader, ApplyLoad(l)
  PROVE  SwitchOK'
<1>1. SUFFICES ASSUME NEW w \in DOMAIN overtaken' PROVE SwitchedOK(w)'
  BY DEF SwitchOK
<1> DEFINE seen == load[l]
           rs == SyncedRecords(seen)
<1>2. /\ UNCHANGED <<job, overtaken>> /\ seen # None /\ seen \in Entries
      /\ load' = [load EXCEPT ![l] = None]
      /\ records' = Without(rs, StaleIn(rs, seen))
  BY DEF ApplyLoad, TypeOK
<1>3. w \in DOMAIN overtaken /\ w \in Window /\ SwitchedOK(w) /\ w # None
  BY <1>2, OvertakenDict, SessionMapAssumption DEF SwitchOK
<1>4. Clearing' = Clearing /\ Clearing = {}
  BY <1>2, IdleJob DEF Clearing, ApplyLoad, LoopFree
<1>5. SessionsIn(Contents', w) \subseteq SessionsIn(Contents, w) \cup SessionsIn(seen, w)
  <2>1. CASE OldKeys(seen) = {}
    <3>1. Contents' = Contents
      BY <2>1 DEF ApplyLoad, Purge, Contents, Readable
    <3>. QED
      BY <3>1
  <2>2. CASE OldKeys(seen) # {}
    <3>1. file' = Without(seen, OldKeys(seen))
      BY <2>2 DEF ApplyLoad, Purge
    <3>2. file' \in Entries
      BY <1>2, <3>1, WithoutType DEF Entries
    <3>3. Contents' = file'
      BY <3>2, KeyAssumption DEF Contents, Readable
    <3>. QED
      BY <3>1, <3>3, SessionsInWithout
  <2>. QED
    BY <2>1, <2>2
<1>6. ASSUME NEW X, Only(X, w)
      PROVE  Only(X, w)' /\ SessionsIn(seen, w) \subseteq X
  <2>1. SessionsIn(seen, w) \subseteq X /\ SessionsIn(Contents, w) \subseteq X
    BY <1>2, <1>6 DEF Only, UnderWay
  <2>2. \A k \in Loader : load'[k] # None => load'[k] = load[k]
    BY <1>2 DEF TypeOK
  <2>. QED
    BY <1>2, <1>3, <1>5, <1>6, <2>1, <2>2, KeptOnly
<1>7. ASSUME NEW X, SessionsIn(seen, w) \subseteq X, Forgotten(X, w)
      PROVE  Forgotten(X, w)'
  <2>1. SUFFICES ASSUME w \in DOMAIN records'
                 PROVE  \/ records'[w].session = None /\ records'[w].provider = "codex"
                        \/ records'[w].session \in X
    BY DEF Forgotten
  <2>2. records'[w] = rs[w] /\ w \in DOMAIN rs
    BY <1>2, <2>1 DEF Without
  <2>3. CASE w \notin Named(seen)
    <3>1. w \in DOMAIN records /\ rs[w] = records[w]
      BY <2>2, <2>3 DEF SyncedRecords
    <3>. QED
      BY <1>7, <2>2, <3>1 DEF Forgotten
  <2>4. CASE w \in Named(seen)
    <3>1. w \in DOMAIN seen /\ seen[w].session \in X
      BY <1>7, <2>4 DEF Named, SessionsIn
    <3>2. rs[w] = IF w \in Emdash THEN SyncedEmdash(w, seen[w]) ELSE Synced(w, seen[w])
      BY <2>2, <2>4 DEF SyncedRecords
    <3>3. Synced(w, seen[w]).session = seen[w].session
      BY DEF Synced
    <3>4. SyncedEmdash(w, seen[w]).session = Synced(w, seen[w]).session
      BY DEF SyncedEmdash, Synced
    <3>. QED
      BY <2>2, <3>1, <3>2, <3>3, <3>4
  <2>. QED
    BY <2>3, <2>4
<1>. QED
  BY <1>2, <1>3, <1>4, <1>6, <1>7, StaysSwitched DEF SwitchedOK

\* A pruning reads the file.
LEMMA ReadPruneSwitch ==
  ASSUME TypeOK, SwitchOK, ReadForPrune
  PROVE  SwitchOK'
<1>1. SUFFICES ASSUME NEW w \in DOMAIN overtaken' PROVE SwitchedOK(w)'
  BY DEF SwitchOK
<1>2. UNCHANGED <<file, load, records, overtaken>> /\ Loop \in Process /\ Loop \in DOMAIN job
  BY DEF ReadForPrune, TypeOK, Process
<1>3. w \in DOMAIN overtaken /\ w \in Window /\ SwitchedOK(w)
  BY <1>2, OvertakenDict DEF SwitchOK
<1>4. \A X : Forgotten(X, w) => Forgotten(X, w)'
  BY <1>2, RecordsSame
<1>5. CASE UNCHANGED job
  <2>1. Contents' = Contents /\ Clearing' = Clearing
    BY <1>2, <1>5 DEF Contents, Readable, Clearing
  <2>2. \A X : Only(X, w) => Only(X, w)'
    BY <1>2, <1>5, <2>1 DEF Only, UnderWay, SessionsIn
  <2>. QED
    BY <1>2, <1>3, <1>4, <2>1, <2>2, StaysSwitched
<1>6. CASE ~UNCHANGED job
  <2> DEFINE j == [Idle EXCEPT !.op = "prune", !.at = "writing", !.seen = file]
  <2>1. job' = [job EXCEPT ![Loop] = j] /\ Readable
    BY <1>6 DEF ReadForPrune
  <2>2. j.seen = Contents /\ j.op = "prune"
    BY <2>1 DEF Idle, Contents
  <2> HIDE DEF j
  <2>3. Clearing = {} /\ Clearing' = {}
    BY <1>2, <2>1, <2>2, IdleJob DEF Clearing, ReadForPrune, LoopFree
  <2>4. \A X : Only(X, w) => SessionsIn(j.seen, w) \subseteq X
    BY <2>2 DEF Only
  <2>5. \A X : Only(X, w) => Only(X, w)'
    BY <1>2, <2>1, <2>4, SessionMapAssumption, JobOnly
  <2>. QED
    BY <1>2, <1>3, <1>4, <2>3, <2>5, StaysSwitched
<1>. QED
  BY <1>5, <1>6

\* It writes without the lock what is left of what it had read, over whatever stands
\* there: entries may be lost, but none comes back.
LEMMA WritePruneSwitch ==
  ASSUME TypeOK, SwitchOK, WritePruned
  PROVE  SwitchOK'
<1>1. SUFFICES ASSUME NEW w \in DOMAIN overtaken' PROVE SwitchedOK(w)'
  BY DEF SwitchOK
<1> DEFINE seen == job[Loop].seen
           dead == Dead(seen)
<1>2. /\ UNCHANGED <<load, overtaken>> /\ Loop \in Process /\ Loop \in DOMAIN job
      /\ file' = Without(seen, dead) /\ records' = Without(records, dead)
      /\ job' = [job EXCEPT ![Loop] = Idle] /\ seen \in Entries
  BY DEF WritePruned, TypeOK, Process
<1>3. w \in DOMAIN overtaken /\ w \in Window /\ SwitchedOK(w) /\ w # None
  BY <1>2, OvertakenDict, SessionMapAssumption DEF SwitchOK
<1>4. Clearing = {} /\ Clearing' = {}
  BY <1>2, IdleJob DEF Clearing, WritePruned
<1>5. \A X : Forgotten(X, w) => Forgotten(X, w)'
  BY <1>2 DEF Forgotten, Without
<1>6. Contents' = file'
  <2>1. file' \in Entries
    BY <1>2, WithoutType DEF Entries
  <2>. QED
    BY <2>1, KeyAssumption DEF Contents, Readable
<1>7. ASSUME NEW X, Only(X, w)
      PROVE  Only(X, w)'
  <2>1. SessionsIn(Contents', w) \subseteq X
    BY <1>2, <1>6, <1>7, SessionsInWithout DEF Only
  <2>2. \A q \in Process : job'[q] = job[q] \/ job'[q] = Idle
    BY <1>2 DEF TypeOK, Process
  <2>3. \A k \in Loader : load'[k] # None => load'[k] = load[k]
    BY <1>2
  <2>. QED
    BY <1>3, <1>7, <2>1, <2>2, <2>3, KeptOnly
<1>. QED
  BY <1>2, <1>3, <1>4, <1>5, <1>7, StaysSwitched

\* Switched windows stay in order.
LEMMA NextSwitch ==
  ASSUME TypeOK, JobsOK, LockOK, Unwritten, SwitchOK, "failed clear" \notin mishaps',
         [Next]_vars
  PROVE  SwitchOK'
<1>1. ASSUME UNCHANGED <<file, load, job, overtaken>>,
             \A w \in DOMAIN records' : w \in DOMAIN records /\ records'[w] = records[w]
      PROVE  SwitchOK'
  <2>1. SUFFICES ASSUME NEW w \in DOMAIN overtaken' PROVE SwitchedOK(w)'
    BY DEF SwitchOK
  <2>2. w \in DOMAIN overtaken /\ w \in Window /\ SwitchedOK(w)
    BY <1>1, OvertakenDict DEF SwitchOK
  <2>3. Contents' = Contents /\ Clearing' = Clearing
    BY <1>1 DEF Contents, Readable, Clearing
  <2>4. \A X : Only(X, w) => Only(X, w)'
    BY <1>1, <2>2, <2>3, SessionMapAssumption, KeptOnly DEF Only
  <2>5. \A X : Forgotten(X, w) => Forgotten(X, w)'
    BY <1>1 DEF Forgotten
  <2>. QED
    BY <1>1, <2>2, <2>3, <2>4, <2>5, StaysSwitched
<1>2. ASSUME NEW w, NEW found, CloseWindow(w) \/ ListWindows(found) \/ UNCHANGED vars
      PROVE  SwitchOK'
  BY <1>1, <1>2 DEF CloseWindow, ListWindows, vars
<1>3. CASE PruneRecords
  BY <1>1, <1>3 DEF PruneRecords, Without
<1>. QED
  BY <1>2, <1>3, StartSwitch, HookedSwitch, HooklessSwitch, LockSwitch, FailSwitch,
     WriteSwitch, ReadSwitch, LoadSwitch, ReadPruneSwitch, WritePruneSwitch
     DEF Next, Process

\* What went wrong is not forgotten.
LEMMA MishapsStay ==
  ASSUME [Next]_vars
  PROVE  mishaps \subseteq mishaps'
BY DEF Next, vars, CloseWindow, SessionStart, RegisterHookless, SwitchToHookless,
       SwitchToHooked, LockAndRead, ReadFails, WriteAndUnlock, WriteFails, ReadForLoad,
       ApplyLoad, Purge, ListWindows, ReadForPrune, WritePruned, PruneRecords

\* Every step keeps the invariant.
LEMMA NextIInv ==
  ASSUME IInv, [Next]_vars
  PROVE  IInv'
<1>1. TypeOK'
  BY NextTypes DEF IInv
<1>2. JobsOK' /\ LockOK'
  BY NextJobs DEF IInv
<1>3. Unwritten'
  BY <1>1, <1>2, NextUnwritten DEF IInv
<1>4. mishaps \subseteq mishaps'
  BY MishapsStay
<1>5. ASSUME mishaps' \subseteq {"failed clear"}
      PROVE  ContentsOK'
  BY <1>1, <1>2, <1>4, <1>5, NextContents DEF IInv
<1>6. ASSUME "failed clear" \notin mishaps'
      PROVE  SwitchOK'
  BY <1>4, <1>6, NextSwitch DEF IInv
<1>. QED
  BY <1>1, <1>2, <1>3, <1>5, <1>6 DEF IInv

\* The invariant holds in every reachable state.
LEMMA Invariant == Spec => []IInv
BY InitIInv, NextIInv, PTL DEF Spec

-----------------------------------------------------------------------------
(* The theorems.                                                           *)

\* The file, the lock, the jobs, the records and the loads keep their types.
THEOREM TypesHold == Spec => []TypeOK
<1>1. IInv => TypeOK
  BY DEF IInv
<1>. QED
  BY <1>1, Invariant, PTL

\* The lock excludes: two processes are never both between the reading and the
\* writing of the file; a pruning, which takes no lock, is not counted.
WritersExclude ==
  \A p, q \in Process : Holds(job[p]) /\ Holds(job[q]) => p = q

\* The flock of the hooks, the hookless threads and the clearings excludes.
THEOREM LockExcludes == Spec => []WritersExclude
<1>1. IInv => WritersExclude
  BY DEF IInv, LockOK, WritersExclude
<1>. QED
  BY <1>1, Invariant, PTL

\* As long as nothing was written without the lock, no live window was pruned and
\* no hook found the file unreadable, what a hook or a thread wrote for its window
\* (_update_session_map, write_hookless_session_map) is in the file.
THEOREM StartsKept == Spec => []StartsAreKept
<1>1. ASSUME IInv
      PROVE  StartsAreKept
  <2>1. SUFFICES ASSUME mishaps \subseteq {"failed clear"}, NEW w \in Window, started[w] # None
                 PROVE  Readable /\ w \in DOMAIN file /\ file[w].session = started[w]
    BY DEF StartsAreKept
  <2>2. Contents \in Current /\ ContentsOK
    BY <1>1, <2>1 DEF Current, IInv
  <2>3. w \in DOMAIN Contents /\ Contents[w].session = started[w]
    BY <2>1, <2>2 DEF ContentsOK, Announces
  <2>4. Readable
    BY <2>2, <2>3 DEF ContentsOK, NothingRead
  <2>. QED
    BY <2>3, <2>4 DEF Contents
<1>. QED
  BY <1>1, Invariant, PTL

\* A window switched to a hookless provider (set_window_provider), with no agent
\* since, gets back no session but those that a writer was still to write, or a load
\* still to apply, when its entry had been cleared; unlocked prunings and purgings
\* included, as long as no clearing failed.
THEOREM SwitchKept == Spec => []SwitchHolds
<1>1. ASSUME IInv
      PROVE  SwitchHolds
  <2>1. SUFFICES ASSUME "failed clear" \notin mishaps, LoopFree, NEW w \in DOMAIN overtaken
                 PROVE  /\ Readable => SessionsIn(file, w) \subseteq overtaken[w]
                        /\ w \in DOMAIN records =>
                             \/ records[w].session = None /\ records[w].provider = "codex"
                             \/ records[w].session \in overtaken[w]
    BY DEF SwitchHolds
  <2>2. SwitchedOK(w)
    BY <1>1, <2>1 DEF IInv, SwitchOK
  <2>3. Clearing = {}
    BY <2>1, IdleJob DEF Clearing, LoopFree
  <2>4. Only(overtaken[w], w) /\ Forgotten(overtaken[w], w)
    BY <2>2, <2>3 DEF SwitchedOK
  <2>. QED
    BY <2>4 DEF Only, Forgotten, Contents
<1>. QED
  BY <1>1, Invariant, PTL
=============================================================================
