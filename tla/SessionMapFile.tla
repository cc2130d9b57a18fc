---------------------------- MODULE SessionMapFile ----------------------------
(***************************************************************************)
(* session_map.json: the file in which hooks tell the gateway which agent  *)
(* session runs in which window.  Hooks (hook/hook.py) and the threads of  *)
(* hookless providers write it under a lock file; on the gateway's event   *)
(* loop state/session_map.py reads it into window_store, clears entries    *)
(* under the lock, and prunes them without it.                             *)
(*                                                                         *)
(* The replacement of the file is atomic, so a reader sees a whole version.*)
(* A key is a window or, in the old format, the name of one.  An entry is  *)
(* its session and provider; the paths that go with a session are left out.*)
(***************************************************************************)
EXTENDS Dictionaries, Naturals

CONSTANTS
  Window,      \* tmux window ids, qualified with their tmux session
  Emdash,      \* those in a tmux session of emdash
  Session,     \* agent session ids
  Writer,      \* hook processes and hookless threads
  Loop,        \* the gateway's event loop
  Loader,      \* load_session_map calls under way at once
  None,        \* no session, nobody, nothing read, no listing
  Missing,     \* there is no file
  Corrupt,     \* there is one that is no JSON
  Bound,       \* windows with a channel; the bindings do not change here
  MaxStarts,   \* bound: agents started
  MaxErrors    \* bound: file operations that raise OSError

ASSUME SessionMapAssumption ==
  /\ Emdash \subseteq Window /\ Bound \subseteq Window
  /\ Loop \notin Writer
  /\ None \notin Session \cup Window \cup Writer \cup {Loop}
  /\ MaxStarts \in Nat /\ MaxErrors \in Nat

VARIABLES
  file,        \* session_map.json: its entries, or why there are none
  lock,        \* holder of session_map.lock
  job,         \* what each process is doing to the file
  load,        \* what each load_session_map read, until it is applied
  records,     \* window_store.window_states
  live,        \* the windows tmux has
  listed,      \* a listing of the windows taken for a pruning
  starts, errors

\* What happened, for the properties only.
VARIABLES
  started,     \* the session each window's last finished write announced
  overtaken,   \* windows switched to a hookless provider, with no agent since: for
               \* each the sessions still to be written, or to be applied, when
               \* its entry had been cleared
  mishaps      \* what the lock cannot prevent

vars == <<file, lock, job, load, records, live, listed, starts, errors,
          started, overtaken, mishaps>>

-----------------------------------------------------------------------------

OldKey(w) == <<w>>      \* its name, under which older hooks wrote
Key == Window \cup {OldKey(w) : w \in Window}
Provider == {"", "claude", "codex"}
Entry == [session : Session, provider : Provider]
Entries == PartialFunctions(Key, Entry)

\* The forms of a key are told apart (an id has the tmux session's name and a
\* colon in it), and a file that is read is not one that cannot be.
ASSUME KeyAssumption ==
  /\ \A w \in Window : OldKey(w) \notin Window
  /\ Missing \notin Entries /\ Corrupt \notin Entries

Record == [session : Session \cup {None}, provider : Provider]
NewRecord == [session |-> None, provider |-> ""]

Idle == [op |-> "idle", at |-> "idle", window |-> None, session |-> None, seen |-> <<>>]
Mishap == {"unlocked write", "live window pruned", "failed read", "failed clear"}

TypeOK ==
  /\ file \in Entries \cup {Missing, Corrupt}
  /\ lock \in Writer \cup {Loop, None}
  /\ job \in [Writer \cup {Loop} ->
                [op : {"idle", "start", "hookless", "clear", "prune"},
                 at : {"idle", "waiting", "writing"},
                 window : Window \cup {None}, session : Session \cup {None},
                 seen : Entries]]
  /\ load \in [Loader -> Entries \cup {None}]
  /\ records \in PartialFunctions(Window, Record)
  /\ live \subseteq Window
  /\ listed \in (SUBSET Window) \cup {None}
  /\ starts \in 0..MaxStarts /\ errors \in 0..MaxErrors
  /\ started \in [Window -> Session \cup {None}]
  /\ overtaken \in PartialFunctions(Window, SUBSET Session)
  /\ mishaps \subseteq Mishap

Readable == file \notin {Missing, Corrupt}
LoopFree == job[Loop] = Idle
Native == Window \ Emdash
RecordOf(w) == Get(records, w, NewRecord)

Init ==
  /\ \/ file \in {Missing, Corrupt}
     \/ \E w \in Window, s \in Session :
          file = [k \in {OldKey(w)} |-> [session |-> s, provider |-> ""]]
  /\ lock = None
  /\ job = [p \in Writer \cup {Loop} |-> Idle]
  /\ load = [l \in Loader |-> None]
  /\ records = <<>>
  /\ live = Window
  /\ listed = None
  /\ starts = 0 /\ errors = 0
  /\ started = [w \in Window |-> None]
  /\ overtaken = <<>>
  /\ mishaps = {}

-----------------------------------------------------------------------------
CloseWindow(w) ==
  /\ w \in live
  /\ live' = live \ {w}
  /\ UNCHANGED <<file, lock, job, load, records, listed, starts, errors,
                 started, overtaken, mishaps>>

-----------------------------------------------------------------------------
(* The writers that take the lock.                                         *)

Ask(p, op, w, s) ==
  job' = [job EXCEPT ![p] = [op |-> op, at |-> "waiting", window |-> w,
                             session |-> s, seen |-> <<>>]]

\* _resolve_window_id: the hook asks tmux in which window its agent runs.
Resolves(w) == w \in live

\* The SessionStart hook of an agent: _update_session_map.
SessionStart(p, w, s) ==
  /\ job[p] = Idle
  /\ Resolves(w)
  /\ starts < MaxStarts
  /\ starts' = starts + 1
  /\ Ask(p, "start", w, s)
  /\ overtaken' = Without(overtaken, {w})
  /\ UNCHANGED <<file, lock, load, records, live, listed, errors, started, mishaps>>

\* register_hookless_session on the loop; write_hookless_session_map then runs
\* in a thread.
RegisterHookless(p, w, s) ==
  /\ LoopFree
  /\ job[p] = Idle
  /\ starts < MaxStarts
  /\ starts' = starts + 1
  /\ records' = Put(records, w, [RecordOf(w) EXCEPT !.session = s, !.provider = "codex"])
  /\ Ask(p, "hookless", w, s)
  /\ overtaken' = Without(overtaken, {w})
  /\ UNCHANGED <<file, lock, load, live, listed, errors, started, mishaps>>

\* The session of window w in contents m, if it has one there.
SessionsIn(m, w) == {m[k].session : k \in DOMAIN m \cap {w}}

\* Sessions of w that a writer is still to write, or a load to apply.
UnderWay(w) ==
  {job[p].session : p \in {q \in Writer : job[q].window = w}}
    \cup UNION {SessionsIn(load[l], w) : l \in {k \in Loader : load[k] # None}}

\* The entry of w is cleared, or there was none.
Cleared(w) ==
  overtaken' = IF w \in DOMAIN overtaken THEN Put(overtaken, w, UnderWay(w)) ELSE overtaken

\* Mutant: the callback that clears is not wired.
LeaveEntry(w) == UNCHANGED job

AskClear(w) == IF file = Missing THEN UNCHANGED job ELSE Ask(Loop, "clear", w, None)

\* set_window_provider to a provider without hooks: the session is forgotten
\* and clear_session_map_entry waits for the lock, on the loop.
SwitchToHookless(w) ==
  /\ LoopFree
  /\ RecordOf(w).provider # "codex"
  /\ records' = Put(records, w, [RecordOf(w) EXCEPT !.session = None, !.provider = "codex"])
  /\ AskClear(w)
  /\ overtaken' = Put(overtaken, w, UnderWay(w))
  /\ UNCHANGED <<file, lock, load, live, listed, starts, errors, started, mishaps>>

\* set_window_provider to one with hooks.
SwitchToHooked(w) ==
  /\ LoopFree
  /\ RecordOf(w).provider # "claude"
  /\ records' = Put(records, w, [RecordOf(w) EXCEPT !.provider = "claude"])
  /\ overtaken' = Without(overtaken, {w})
  /\ UNCHANGED <<file, lock, job, load, live, listed, starts, errors, started, mishaps>>

\* Mutant: nobody waits.
LockIgnored(p) == TRUE

LockFree(p) == lock = None

\* Mutant: what does not parse is used as it is.
RawContents == file

Contents == IF Readable THEN file ELSE <<>>

\* Take the lock and read.  A file that is missing or no JSON counts as empty,
\* except that there is nothing to clear in it.
LockAndRead(p) ==
  /\ job[p].at = "waiting"
  /\ LockFree(p)
  /\ IF job[p].op = "clear" /\ ~Readable
       THEN job' = [job EXCEPT ![p] = Idle] /\ Cleared(job[p].window) /\ UNCHANGED lock
       ELSE /\ lock' = p
            /\ job' = [job EXCEPT ![p].at = "writing",
                                  ![p].seen = Contents]
            /\ UNCHANGED overtaken
  /\ UNCHANGED <<file, load, records, live, listed, starts, errors, started,
                 mishaps>>

\* The read raises OSError: the entry is not cleared, but a start goes on with
\* an empty map.
ReadFails(p) ==
  /\ job[p].at = "waiting"
  /\ LockFree(p)
  /\ errors < MaxErrors
  /\ errors' = errors + 1
  /\ IF job[p].op = "clear"
       THEN job' = [job EXCEPT ![p] = Idle] /\ UNCHANGED lock
       ELSE /\ lock' = p
            /\ job' = [job EXCEPT ![p].at = "writing"]
  /\ mishaps' = mishaps \cup
                  {IF job[p].op = "clear" THEN "failed clear" ELSE "failed read"}
  /\ UNCHANGED <<file, load, records, live, listed, starts, started, overtaken>>

NewEntry(p) ==
  [session |-> job[p].session,
   provider |-> IF job[p].op = "start" THEN "claude" ELSE "codex"]

\* What p makes of what it read; the hook also drops the old form of its key.
Rewritten(p) ==
  CASE job[p].op = "start" ->
         Put(Without(job[p].seen, {OldKey(job[p].window)}), job[p].window, NewEntry(p))
    [] job[p].op = "hookless" -> Put(job[p].seen, job[p].window, NewEntry(p))
    [] job[p].op = "clear" -> Without(job[p].seen, {job[p].window})

WriteAndUnlock(p) ==
  /\ job[p].at = "writing"
  /\ job[p].op # "prune"
  /\ file' = Rewritten(p)
  /\ lock' = None
  /\ job' = [job EXCEPT ![p] = Idle]
  /\ started' = [started EXCEPT ![job[p].window] = job[p].session]
  /\ IF job[p].op = "clear" THEN Cleared(job[p].window) ELSE UNCHANGED overtaken
  /\ UNCHANGED <<load, records, live, listed, starts, errors, mishaps>>

\* The write raises OSError and is given up; the file stays as it was.
WriteFails(p) ==
  /\ job[p].at = "writing"
  /\ job[p].op # "prune"
  /\ errors < MaxErrors
  /\ errors' = errors + 1
  /\ lock' = None
  /\ job' = [job EXCEPT ![p] = Idle]
  /\ mishaps' = mishaps \cup {m \in {"failed clear"} : job[p].op = "clear"}
  /\ UNCHANGED <<file, load, records, live, listed, starts, started, overtaken>>

-----------------------------------------------------------------------------
(* Reading the file into the records.                                      *)

\* load_session_map reads in a thread while the loop goes on; by itself, or
\* because wait_for_session_map_entry has seen the entry it waits for.
ReadForLoad(l) ==
  /\ load[l] = None
  /\ Readable
  /\ load' = [load EXCEPT ![l] = file]
  /\ UNCHANGED <<file, lock, job, records, live, listed, starts, errors,
                 started, overtaken, mishaps>>

\* _sync_window_from_session_map
Synced(w, entry) ==
  [session  |-> entry.session,
   provider |-> IF entry.provider # "" THEN entry.provider ELSE RecordOf(w).provider]

\* _sync_emdash_entry: the provider of a foreign window is in the name of its tmux
\* session, if nowhere else.
SyncedEmdash(w, entry) ==
  [Synced(w, entry) EXCEPT !.provider = IF @ = "" THEN "claude" ELSE @]

Named(seen) == DOMAIN seen \cap Window     \* windows with an entry
OldKeys(seen) == DOMAIN seen \ Window

\* _process_session_map_entries: the records after the sync.
SyncedRecords(seen) ==
  [w \in DOMAIN records \cup Named(seen) |->
     IF w \notin Named(seen) THEN records[w]
     ELSE IF w \in Emdash THEN SyncedEmdash(w, seen[w])
     ELSE Synced(w, seen[w])]

\* _remove_stale_window_states: records rs without entry, neither bound nor of
\* a session under an old key.
StaleIn(rs, seen) ==
  {w \in DOMAIN rs \ (Named(seen) \cup Bound) :
     rs[w].session \notin {seen[k].session : k \in OldKeys(seen)}}

\* _purge_old_format_keys writes what the load read, without the lock.
Purge(seen) ==
  IF OldKeys(seen) = {}
    THEN UNCHANGED <<file, mishaps>>
    ELSE /\ file' = Without(seen, OldKeys(seen))
         /\ mishaps' = mishaps \cup {m \in {"unlocked write"} : file # seen}

\* The load goes on with what it read.
ApplyLoad(l) ==
  LET rs    == SyncedRecords(load[l])
      stale == StaleIn(rs, load[l])
  IN  /\ LoopFree
      /\ load[l] # None
      /\ records' = Without(rs, stale)
      /\ Purge(load[l])
      /\ load' = [load EXCEPT ![l] = None]
      /\ UNCHANGED <<lock, job, live, listed, starts, errors, started, overtaken>>

-----------------------------------------------------------------------------
(* Pruning.                                                                *)

\* list_windows, some time before the pruning: windows opened since are not in
\* it, and when it fails none is.
ListWindows(found) ==
  /\ listed = None
  /\ found \subseteq live
  /\ listed' = found
  /\ UNCHANGED <<file, lock, job, load, records, live, starts, errors,
                 started, overtaken, mishaps>>

\* Native windows in map m that the listing has not.
Dead(m) == (DOMAIN m \cap Native) \ listed

\* prune_session_map reads, with no lock ...
ReadForPrune ==
  /\ LoopFree
  /\ listed # None
  /\ IF Readable /\ Dead(file) # {}
       THEN /\ job' = [job EXCEPT ![Loop] = [Idle EXCEPT !.op = "prune",
                                               !.at = "writing", !.seen = file]]
            /\ UNCHANGED listed
       ELSE listed' = None /\ UNCHANGED job
  /\ UNCHANGED <<file, lock, load, records, live, starts, errors, started,
                 overtaken, mishaps>>

\* ... and writes what is left of what it read.
WritePruned ==
  LET seen == job[Loop].seen
      dead == Dead(seen)
  IN  /\ job[Loop].op = "prune"
      /\ file' = Without(seen, dead)
      /\ records' = Without(records, dead)
      /\ job' = [job EXCEPT ![Loop] = Idle]
      /\ listed' = None
      /\ started' = [w \in Window |-> IF w \in dead \ live THEN None ELSE started[w]]
      /\ mishaps' = mishaps
           \cup {m \in {"unlocked write"} : file # seen}
           \cup {m \in {"live window pruned"} : dead \cap live # {}}
      /\ UNCHANGED <<lock, load, live, starts, errors, overtaken>>

\* SessionManager._get_session_map_window_ids: native ids come without their
\* tmux session, and so match no record.
MappedIds == IF Readable THEN DOMAIN file \cap Emdash ELSE {}

\* SessionManager.prune_stale_window_states.
PruneRecords ==
  LET stale == DOMAIN records \ (MappedIds \cup Bound \cup listed)
  IN  /\ LoopFree
      /\ listed # None
      /\ records' = Without(records, stale)
      /\ listed' = None
      /\ UNCHANGED <<file, lock, job, load, live, starts, errors, started,
                     overtaken, mishaps>>

-----------------------------------------------------------------------------
Next ==
  \/ \E w \in Window : CloseWindow(w)
  \/ \E p \in Writer, w \in Window, s \in Session :
       SessionStart(p, w, s) \/ RegisterHookless(p, w, s)
  \/ \E w \in Window : SwitchToHookless(w) \/ SwitchToHooked(w)
  \/ \E p \in Writer \cup {Loop} :
       LockAndRead(p) \/ ReadFails(p) \/ WriteAndUnlock(p) \/ WriteFails(p)
  \/ \E l \in Loader : ReadForLoad(l) \/ ApplyLoad(l)
  \/ \E found \in SUBSET Window : ListWindows(found)
  \/ ReadForPrune \/ WritePruned \/ PruneRecords

Spec == Init /\ [][Next]_vars

-----------------------------------------------------------------------------
(* Properties.                                                             *)

\* However hooks, hookless threads and clearings overlap, what one of them
\* wrote for its window is still in the file, until that window's entry is
\* cleared or pruned as dead.  Not covered are a pruning or purging without the
\* lock and a hook that cannot read the file and starts from an empty map: these
\* do lose entries.
StartsAreKept ==
  mishaps \subseteq {"failed clear"} =>
    \A w \in Window : started[w] # None =>
      Readable /\ w \in DOMAIN file /\ file[w].session = started[w]

\* A window switched to a hookless provider, with no agent since, has forgotten
\* its session: set_window_provider drops it from the record, and its clearing
\* drops it from the file.  A session comes back only if, when the entry had been
\* cleared, a writer was still waiting to write it or a load that had read it was
\* still to be applied; the code stops neither.  No read or write that begins later
\* brings another one back, no unlocked pruning or purging does, and no writer
\* of other windows; only a clearing that cannot read or write the file may fail.
SwitchHolds ==
  "failed clear" \notin mishaps /\ LoopFree =>
    \A w \in DOMAIN overtaken :
      /\ Readable => SessionsIn(file, w) \subseteq overtaken[w]
      /\ w \in DOMAIN records =>
           \/ records[w].session = None /\ records[w].provider = "codex"
           \/ records[w].session \in overtaken[w]
=============================================================================
