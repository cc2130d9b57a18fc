---------------------------- MODULE MailboxProofs ----------------------------
(***************************************************************************)
(* Proofs about Mailbox, for any windows, processes, messages and          *)
(* migrations.                                                             *)
(***************************************************************************)
EXTENDS Mailbox, TLAPS

-----------------------------------------------------------------------------
(* The inductive invariant.                                                *)

\* What a process may hold of a message: a copy to be written back, with the id of
\* a message that was written, handled if the copy says so.
HeldOK(p) ==
  LET d == doing[p]
  IN  /\ d.op \in {"mark", "rewrite"} =>
           d.id \in 1..sent /\ (d.msg.status # "pending" => d.id \in handled)
      /\ d.op = "sweep" => d.doomed \subseteq handled \cup old \cup unreadable
      /\ d.op \in {"move", "rewrite"} => d.todo \subseteq migrated
      /\ d.op = "rewrite" =>
           /\ d.id \in migrated
           /\ d.id \notin handled \cup old \cup removed \cup unreadable \cup overtaken =>
                Found(d.w, d.id)

\* A message in an inbox that is not pending was handled.
StatusOK ==
  \A w \in Window, id \in Id :
    Found(w, id) /\ inbox[w][id].status # "pending" => id \in handled

\* The windows in whose inbox a message is, or is about to be marked.
Places(id) == {w \in Window : Found(w, id)}
                \cup {doing[p].w : p \in {q \in Process : doing[q].op = "mark" /\ doing[q].id = id}}

\* A message that was never moved has one place, and is not pending there once it
\* was handled.
UnmovedOK ==
  \A id \in Id \ migrated :
    /\ \A v, w \in Places(id) : v = w
    /\ id \in handled => \A w \in Window : Found(w, id) => inbox[w][id].status # "pending"

MailboxInv ==
  /\ TypeOK /\ (\A p \in Process : HeldOK(p))
  /\ StatusOK /\ UnmovedOK /\ UnhandledIsKept
-----------------------------------------------------------------------------
(* What processes hold.                                                    *)

\* A process is in the middle of one kind of thing.
LEMMA Ops ==
  ASSUME TypeOK, NEW p \in Process
  PROVE  /\ doing[p].op \in {"idle", "mark", "sweep", "reply", "broadcast", "move", "rewrite"}
         /\ doing[p].op = "idle" => doing[p] = Idle
         /\ doing[p].op = "mark" =>
              /\ doing[p].w \in Window /\ doing[p].id \in Id
              /\ doing[p].msg \in Message /\ doing[p].mark \in Mark
         /\ doing[p].op = "sweep" =>
              /\ doing[p].w \in Window /\ doing[p].todo \subseteq Id
              /\ doing[p].live \subseteq Id /\ doing[p].doomed \subseteq Id
         /\ doing[p].op \in {"reply", "broadcast"} => doing[p].from \in Window
         /\ doing[p].op = "reply" => doing[p].w \in Window
         /\ doing[p].op = "broadcast" => doing[p].to \subseteq Window
         /\ doing[p].op \in {"move", "rewrite"} =>
              doing[p].w \in Window /\ doing[p].from \in Window /\ doing[p].todo \subseteq Id
         /\ doing[p].op = "rewrite" => doing[p].id \in Id /\ doing[p].msg \in Message
<1>1. doing[p] \in Doing
  BY DEF TypeOK
<1>. QED
  BY <1>1 DEF Doing, Idle, Marking, Sweeping, Sending, Moving

\* A process takes up another thing; the others go on with theirs.
LEMMA Taken ==
  ASSUME TypeOK, NEW p \in Process, NEW e \in Doing, Becomes(p, e)
  PROVE  /\ doing' \in [Process -> Doing] /\ doing'[p] = e
         /\ \A q \in Process \ {p} : doing'[q] = doing[q]
BY DEF TypeOK, Becomes

-----------------------------------------------------------------------------
(* What the file operations do.                                            *)

FilesOK ==
  /\ inbox \in [DOMAIN inbox -> Values(inbox)] /\ DOMAIN inbox \subseteq Window
  /\ drop \in [DOMAIN inbox -> SUBSET (1..sent)]
  /\ \A w \in DOMAIN inbox :
       inbox[w] \in [DOMAIN inbox[w] -> Message] /\ DOMAIN inbox[w] \subseteq 1..sent

\* One message is written; everything else stays.
Writes(w, id, msg) ==
  /\ \A v, j : Found(v, j)' <=> Found(v, j) \/ (v = w /\ j = id)
  /\ inbox'[w][id] = msg
  /\ \A v, j : Found(v, j) /\ ~(v = w /\ j = id) => inbox'[v][j] = inbox[v][j]

\* Messages go, none comes, and the others stay as they are.
Fewer ==
  \A v, j : Found(v, j)' => Found(v, j) /\ inbox'[v][j] = inbox[v][j]

\* _atomic_write_message
LEMMA WriteFiles ==
  ASSUME FilesOK, sent \in Nat, sent' \in Nat, sent <= sent',
         NEW w \in Window, NEW id \in 1..sent', NEW msg \in Message,
         inbox' = Written(w, id, msg), drop' = Touched(w)
  PROVE  FilesOK' /\ Writes(w, id, msg)
<1> DEFINE f == Get(inbox, w, <<>>)
           g == Put(f, id, msg)
<1>1. 1..sent \subseteq 1..sent'
  OBVIOUS
<1>2. f \in [DOMAIN f -> Message] /\ DOMAIN f \subseteq 1..sent
  <2>1. <<>> \in [{} -> Message] /\ DOMAIN <<>> = {}
    OBVIOUS
  <2>. QED
    BY <2>1 DEF Get, FilesOK
<1>3. \A j : j \in DOMAIN f <=> Found(w, j)
  <2>1. DOMAIN <<>> = {}
    OBVIOUS
  <2>. QED
    BY <2>1 DEF Get, Found
<1>4. /\ DOMAIN g = DOMAIN f \cup {id} /\ g \in [DOMAIN g -> Message] /\ g[id] = msg
      /\ \A j \in DOMAIN f \ {id} : g[j] = f[j]
  BY <1>2 DEF Put
<1>5. Found(w, id) => f = inbox[w]
  BY DEF Get, Found
<1> HIDE DEF f, g
<1>6. inbox' = Put(inbox, w, g)
  BY DEF Written, f, g
<1>7. /\ DOMAIN inbox' = DOMAIN inbox \cup {w} /\ inbox' \in [DOMAIN inbox' -> Values(inbox')]
      /\ inbox'[w] = g /\ \A v \in DOMAIN inbox \ {w} : inbox'[v] = inbox[v]
  BY <1>6 DEF Put, Values
<1>8. drop' \in [DOMAIN inbox' -> SUBSET (1..sent')]
  <2>1. drop' = Put(drop, w, Get(drop, w, {}))
    BY DEF Touched
  <2>2. Get(drop, w, {}) \subseteq 1..sent /\ DOMAIN drop = DOMAIN inbox
    BY DEF Get, FilesOK
  <2>. QED
    BY <1>1, <1>7, <2>1, <2>2 DEF Put, FilesOK
<1>9. FilesOK'
  BY <1>1, <1>2, <1>4, <1>7, <1>8 DEF FilesOK
<1>10. \A v, j : Found(v, j)' <=> Found(v, j) \/ (v = w /\ j = id)
  BY <1>3, <1>4, <1>7 DEF Found
<1>11. ASSUME NEW v, NEW j, Found(v, j), ~(v = w /\ j = id)
       PROVE  inbox'[v][j] = inbox[v][j]
  <2>1. CASE v = w
    <3>1. f = inbox[w]
      BY <1>11, <2>1 DEF Found, f, Get
    <3>. QED
      BY <1>3, <1>4, <1>7, <1>11, <2>1, <3>1
  <2>2. CASE v # w
    BY <1>7, <1>11, <2>2 DEF Found
  <2>. QED
    BY <2>1, <2>2
<1>. QED
  BY <1>4, <1>7, <1>9, <1>10, <1>11 DEF Writes

\* A sweep unlinks messages of one directory.
LEMMA UnlinkFiles ==
  ASSUME FilesOK, NEW w, NEW ids, inbox' = Unlinked(w, ids), drop' = drop, sent' = sent
  PROVE  /\ FilesOK' /\ Fewer
         /\ \A v, j : Found(v, j) => Found(v, j)' \/ j \in ids
<1>1. CASE w \notin DOMAIN inbox
  BY <1>1 DEF Unlinked, FilesOK, Fewer, Found
<1>2. CASE w \in DOMAIN inbox
  <2> DEFINE g == Without(inbox[w], ids)
  <2>1. /\ DOMAIN inbox' = DOMAIN inbox /\ inbox' \in [DOMAIN inbox' -> Values(inbox')]
        /\ inbox'[w] = g /\ \A v \in DOMAIN inbox \ {w} : inbox'[v] = inbox[v]
    BY <1>2 DEF Unlinked, Values, FilesOK
  <2>2. /\ DOMAIN g = DOMAIN inbox[w] \ ids /\ g \in [DOMAIN g -> Message]
        /\ \A j \in DOMAIN g : g[j] = inbox[w][j]
    BY <1>2 DEF Without, FilesOK
  <2> HIDE DEF g
  <2>3. FilesOK'
    BY <1>2, <2>1, <2>2 DEF FilesOK
  <2>. QED
    BY <1>2, <2>1, <2>2, <2>3 DEF Fewer, Found
<1>. QED
  BY <1>1, <1>2

\* clear_inbox removes the messages of one directory.
LEMMA ClearFiles ==
  ASSUME FilesOK, NEW w \in DOMAIN inbox, inbox' = [inbox EXCEPT ![w] = <<>>], drop' = drop,
         sent' = sent
  PROVE  /\ FilesOK' /\ Fewer
         /\ \A v, j : Found(v, j) => Found(v, j)' \/ j \in DOMAIN inbox[w]
<1>1. <<>> \in [{} -> Message] /\ DOMAIN <<>> = {}
  OBVIOUS
<1>2. /\ DOMAIN inbox' = DOMAIN inbox /\ inbox' \in [DOMAIN inbox' -> Values(inbox')]
      /\ inbox'[w] = <<>> /\ \A v \in DOMAIN inbox \ {w} : inbox'[v] = inbox[v]
  BY DEF Values, FilesOK
<1>3. FilesOK'
  BY <1>1, <1>2 DEF FilesOK
<1>. QED
  BY <1>1, <1>2, <1>3 DEF Fewer, Found

\* _remove_inbox_dir removes the directory.
LEMMA PruneFiles ==
  ASSUME FilesOK, NEW w \in DOMAIN inbox, inbox' = DirRemoved(inbox, w),
         drop' = DirRemoved(drop, w), sent' = sent
  PROVE  /\ FilesOK' /\ Fewer
         /\ \A v, j : Found(v, j) => Found(v, j)' \/ j \in DOMAIN inbox[w]
<1>1. /\ DOMAIN inbox' = DOMAIN inbox \ {w} /\ inbox' \in [DOMAIN inbox' -> Values(inbox')]
      /\ \A v \in DOMAIN inbox \ {w} : inbox'[v] = inbox[v]
  BY DEF DirRemoved, Without, Values
<1>2. drop' \in [DOMAIN inbox' -> SUBSET (1..sent')]
  BY <1>1 DEF DirRemoved, Without, FilesOK
<1>3. FilesOK'
  BY <1>1, <1>2 DEF FilesOK
<1>. QED
  BY <1>1, <1>3 DEF Fewer, Found

\* The rename of a directory.
LEMMA MoveFiles ==
  ASSUME FilesOK, NEW w \in DOMAIN inbox, NEW new \in Window \ DOMAIN inbox,
         inbox' = Put(Without(inbox, {w}), new, inbox[w]),
         drop' = Put(Without(drop, {w}), new, drop[w]), sent' = sent
  PROVE  /\ FilesOK'
         /\ \A v, j : Found(v, j)' <=> (v = new /\ Found(w, j)) \/ (v # w /\ Found(v, j))
         /\ \A j : Found(w, j) => inbox'[new][j] = inbox[w][j]
         /\ \A v, j : v # w /\ Found(v, j) => inbox'[v][j] = inbox[v][j]
<1>1. /\ DOMAIN inbox' = (DOMAIN inbox \ {w}) \cup {new}
      /\ inbox' \in [DOMAIN inbox' -> Values(inbox')]
      /\ inbox'[new] = inbox[w] /\ \A v \in DOMAIN inbox \ {w} : inbox'[v] = inbox[v]
  BY DEF Put, Without, Values
<1>2. drop' \in [DOMAIN inbox' -> SUBSET (1..sent')]
  BY <1>1 DEF Put, Without, FilesOK
<1>3. FilesOK'
  BY <1>1, <1>2 DEF FilesOK
<1>. QED
  BY <1>1, <1>3 DEF Found
-----------------------------------------------------------------------------
(* How the invariant survives: what a process goes on holding, steps by    *)
(* which messages only go, a message that is written, a migration.         *)

\* The messages of which nothing is claimed any more.
Gone == handled \cup old \cup removed \cup unreadable

\* What happened stays so.
Grows ==
  /\ sent \in Nat /\ sent' \in Nat /\ sent <= sent'
  /\ handled \subseteq handled' /\ old \subseteq old' /\ removed \subseteq removed'
  /\ unreadable \subseteq unreadable'
  /\ migrated \subseteq migrated' /\ overtaken \subseteq overtaken'

\* A process goes on holding what it held, if what it rewrites stays or is gone.
LEMMA HeldStays ==
  ASSUME NEW p \in Process, HeldOK(p), doing'[p] = doing[p], Grows,
         \A v, j : Found(v, j) =>
           Found(v, j)' \/ j \in (Gone \cup overtaken)' \/ ~Rewrites(p, v, j)
  PROVE  HeldOK(p)'
<1> DEFINE d == doing[p]
<1>1. 1..sent \subseteq 1..sent'
  BY DEF Grows
<1>2. ASSUME d.op = "rewrite", d.id \notin (Gone \cup overtaken)'
      PROVE  Found(d.w, d.id)'
  <2>1. d.id \notin Gone \cup overtaken
    BY <1>2 DEF Grows, Gone
  <2>2. Found(d.w, d.id)
    BY <1>2, <2>1 DEF HeldOK, Gone
  <2>. QED
    BY <1>2, <2>2 DEF Rewrites
<1>. QED
  BY <1>1, <1>2 DEF HeldOK, Grows, Gone

\* Nothing is said of a process that only sends.
LEMMA HoldsNothing ==
  ASSUME NEW p, doing[p].op \in {"idle", "reply", "broadcast"}
  PROVE  HeldOK(p)
BY DEF HeldOK

\* A step by which no message is written or moved keeps the invariant, if the
\* process that takes it holds what it may.
LEMMA ShrinkKeeps ==
  ASSUME MailboxInv, TypeOK', NEW p \in Process,
         UNCHANGED <<sent, handled, migrated, overtaken>>,
         old \subseteq old', removed \subseteq removed', unreadable \subseteq unreadable',
         Fewer, \A v, j : Found(v, j) => Found(v, j)' \/ j \in Gone',
         \A q \in Process \ {p} : doing'[q] = doing[q],
         doing'[p] = doing[p] \/ HeldOK(p)',
         doing'[p] # doing[p] /\ doing'[p].op = "mark" => Found(doing'[p].w, doing'[p].id)
  PROVE  MailboxInv'
<1>1. /\ TypeOK /\ (\A q \in Process : HeldOK(q)) /\ StatusOK /\ UnmovedOK /\ UnhandledIsKept
  BY DEF MailboxInv
<1>2. sent \in Nat /\ Grows
  BY <1>1 DEF TypeOK, Grows
<1>3. \A q \in Process : HeldOK(q)'
  BY <1>1, <1>2, HeldStays
<1>4. StatusOK'
  BY <1>1 DEF StatusOK, Fewer
<1>5. ASSUME NEW id \in Id
      PROVE  Places(id)' \subseteq Places(id)
  <2>1. ASSUME NEW q \in Process, doing'[q].op = "mark", doing'[q].id = id
        PROVE  doing'[q].w \in Places(id)
    <3>1. CASE doing'[q] = doing[q]
      BY <2>1, <3>1 DEF Places
    <3>2. CASE doing'[q] # doing[q]
      <4>1. Found(doing'[q].w, id) /\ DOMAIN inbox \subseteq Window
        BY <1>1, <2>1, <3>2 DEF TypeOK
      <4>. QED
        BY <4>1 DEF Places, Found
    <3>. QED
      BY <3>1, <3>2
  <2>2. \A w \in Window : Found(w, id)' => w \in Places(id)
    BY DEF Fewer, Places
  <2>. QED
    BY <2>1, <2>2 DEF Places
<1>6. UnmovedOK'
  BY <1>1, <1>5 DEF UnmovedOK, Fewer
<1>7. UnhandledIsKept'
  BY <1>1 DEF UnhandledIsKept, Fewer, Gone
<1>. QED
  BY <1>3, <1>4, <1>6, <1>7 DEF MailboxInv

\* So does a message sent to an inbox.
LEMMA PostKeeps ==
  ASSUME MailboxInv, NEW p \in Process, NEW from \in Window, NEW to \in Window,
         Post(from, to), NEW e \in Doing, e.op \in {"idle", "reply", "broadcast"}, Becomes(p, e)
  PROVE  MailboxInv'
<1> SUFFICES ASSUME NEW id, id = sent + 1
             PROVE  MailboxInv'
  OBVIOUS
<1> DEFINE msg == [from |-> from, to |-> to, status |-> "pending", delivered |-> FALSE]
<1>1. /\ TypeOK /\ (\A q \in Process : HeldOK(q)) /\ StatusOK /\ UnmovedOK /\ UnhandledIsKept
  BY DEF MailboxInv
<1>2. /\ sent < MaxMessages /\ sent' = id /\ inbox' = Written(to, id, msg) /\ drop' = Touched(to)
      /\ UNCHANGED <<old, handled, removed, unreadable, migrated, overtaken, moves>>
  BY DEF Post
<1>3. /\ sent \in Nat /\ id \in 1..sent' /\ sent' \in 0..MaxMessages /\ id \in Id
      /\ id \notin 1..sent /\ 1..sent \subseteq 1..sent' /\ sent' \in Nat /\ sent <= sent'
  BY <1>1, <1>2, MailboxAssumption DEF TypeOK, Id
<1>4. msg \in Message
  BY DEF Message
<1>5. msg.status = "pending"
  OBVIOUS
<1> HIDE DEF msg
<1>6. FilesOK' /\ Writes(to, id, msg)
  BY <1>1, <1>2, <1>3, <1>4, WriteFiles DEF TypeOK, FilesOK
<1>7. /\ doing' \in [Process -> Doing] /\ doing'[p] = e
      /\ \A q \in Process \ {p} : doing'[q] = doing[q]
  BY <1>1, Taken
<1>8. TypeOK'
  BY <1>1, <1>2, <1>3, <1>6, <1>7 DEF TypeOK, FilesOK
<1>9. Grows /\ \A v, j : Found(v, j) => Found(v, j)'
  BY <1>2, <1>3, <1>6 DEF Grows, Writes
<1>10. ASSUME NEW q \in Process
      PROVE  HeldOK(q)'
  <2>1. CASE q = p
    BY <1>7, <2>1, HoldsNothing DEF HeldOK
  <2>2. CASE q # p
    BY <1>1, <1>7, <1>9, <2>2, HeldStays
  <2>. QED
    BY <2>1, <2>2
<1>11. /\ \A v : ~Found(v, id)
       /\ \A q \in Process : doing[q].op \in {"mark", "rewrite"} => doing[q].id # id
       /\ id \notin Gone \cup migrated
  <2>1. \A v : ~Found(v, id)
    BY <1>1, <1>3 DEF Found, TypeOK
  <2>. QED
    BY <1>1, <1>3, <2>1 DEF HeldOK, TypeOK, Gone
<1>12. StatusOK'
  <2> SUFFICES ASSUME NEW v \in Window, NEW j \in Id, Found(v, j)', inbox'[v][j].status # "pending"
               PROVE  j \in handled
    BY <1>2 DEF StatusOK
  <2>1. ~(v = to /\ j = id)
    BY <1>6, <1>5 DEF Writes
  <2>2. Found(v, j) /\ inbox'[v][j] = inbox[v][j]
    BY <1>6, <2>1 DEF Writes
  <2>. QED
    BY <1>1, <2>2 DEF StatusOK
<1>13. /\ Places(id)' \subseteq {to}
       /\ \A j \in Id \ {id} : Places(j)' \subseteq Places(j)
  <2>1. \A q \in Process : doing'[q].op = "mark" =>
          doing'[q] = doing[q] /\ doing'[q].id # id
    BY <1>7, <1>11
  <2>2. \A v, j : Found(v, j)' => Found(v, j) \/ (v = to /\ j = id)
    BY <1>6 DEF Writes
  <2>. QED
    <3>1. \A v : Found(v, id)' => v = to
      BY <1>11, <2>2
    <3>2. Places(id)' \subseteq {to}
      BY <2>1, <3>1 DEF Places
    <3>3. ASSUME NEW j \in Id \ {id}
          PROVE  Places(j)' \subseteq Places(j)
      <4>1. \A v : Found(v, j)' => Found(v, j)
        BY <2>2
      <4>. QED
        BY <2>1, <4>1 DEF Places
    <3>. QED
      BY <3>2, <3>3
<1>14. UnmovedOK'
  <2>1. ASSUME NEW j \in Id \ migrated, j \in handled, NEW v \in Window, Found(v, j)'
        PROVE  inbox'[v][j].status # "pending"
    <3>1. j # id
      BY <1>11, <2>1 DEF Gone
    <3>2. Found(v, j) /\ inbox'[v][j] = inbox[v][j]
      BY <1>6, <2>1, <3>1 DEF Writes
    <3>. QED
      BY <1>1, <2>1, <3>2 DEF UnmovedOK
  <2>2. ASSUME NEW j \in Id \ migrated, NEW v \in Places(j)', NEW w \in Places(j)'
        PROVE  v = w
    <3>1. CASE j = id
      BY <1>13, <2>2, <3>1
    <3>2. CASE j # id
      <4>1. v \in Places(j) /\ w \in Places(j)
        BY <1>13, <2>2, <3>2
      <4>. QED
        BY <1>1, <4>1 DEF UnmovedOK
    <3>. QED
      BY <3>1, <3>2
  <2>. QED
    BY <1>2, <2>1, <2>2 DEF UnmovedOK
<1>15. UnhandledIsKept'
  <2>1. \A j \in 1..sent' : j = id \/ j \in 1..sent
    BY <1>2, <1>3
  <2>. QED
    BY <1>1, <1>2, <1>6, <1>11, <2>1 DEF UnhandledIsKept, Writes
<1>. QED
  BY <1>8, <1>10, <1>12, <1>14, <1>15 DEF MailboxInv

\* So does a mark written back, whatever became of the message meanwhile.
LEMMA MarkKeeps ==
  ASSUME MailboxInv, NEW p \in Process, WriteMark(p)
  PROVE  MailboxInv'
<1> DEFINE d == doing[p]
           msg == Marked(d.msg, d.mark)
           e == IF d.mark = "replied" THEN [op |-> "reply", w |-> d.msg.from, from |-> d.w]
                ELSE Idle
<1>1. /\ TypeOK /\ (\A q \in Process : HeldOK(q)) /\ StatusOK /\ UnmovedOK /\ UnhandledIsKept
  BY DEF MailboxInv
<1>2. /\ d.op = "mark" /\ inbox' = Written(d.w, d.id, msg) /\ drop' = Touched(d.w)
      /\ handled' = handled \cup {d.id} /\ Becomes(p, e)
      /\ UNCHANGED <<old, sent, removed, unreadable, migrated, overtaken, moves>>
  BY DEF WriteMark
<1>3. /\ d.w \in Window /\ d.id \in Id /\ d.id \in 1..sent /\ sent \in Nat
      /\ d.msg \in Message /\ d.mark \in Mark
  BY <1>1, <1>2, Ops DEF HeldOK, TypeOK
<1>4. msg \in Message /\ msg.status # "pending"
  BY <1>3 DEF Marked, Message, Mark
<1>5. e \in Doing /\ e.op \in {"idle", "reply", "broadcast"}
  BY <1>3 DEF Doing, Sending, Message, Idle
<1> HIDE DEF msg, e
<1>6. FilesOK' /\ Writes(d.w, d.id, msg)
  BY <1>1, <1>2, <1>3, <1>4, WriteFiles DEF TypeOK, FilesOK
<1>7. /\ doing' \in [Process -> Doing] /\ doing'[p] = e
      /\ \A q \in Process \ {p} : doing'[q] = doing[q]
  BY <1>1, <1>2, <1>5, Taken
<1>8. TypeOK'
  BY <1>1, <1>2, <1>3, <1>6, <1>7 DEF TypeOK, FilesOK
<1>9. Grows /\ \A v, j : Found(v, j) => Found(v, j)'
  BY <1>2, <1>3, <1>6 DEF Grows, Writes
<1>10. ASSUME NEW q \in Process
       PROVE  HeldOK(q)'
  <2>1. CASE q = p
    BY <1>5, <1>7, <2>1 DEF HeldOK
  <2>2. CASE q # p
    BY <1>1, <1>7, <1>9, <2>2, HeldStays
  <2>. QED
    BY <2>1, <2>2
<1>11. StatusOK'
  <2> SUFFICES ASSUME NEW v \in Window, NEW j \in Id, Found(v, j)',
                      inbox'[v][j].status # "pending"
               PROVE  j \in handled'
    BY DEF StatusOK
  <2>1. CASE v = d.w /\ j = d.id
    BY <1>2, <2>1
  <2>2. CASE ~(v = d.w /\ j = d.id)
    <3>1. Found(v, j) /\ inbox'[v][j] = inbox[v][j]
      BY <1>6, <2>2 DEF Writes
    <3>. QED
      BY <1>1, <1>2, <3>1 DEF StatusOK
  <2>. QED
    BY <2>1, <2>2
<1>12. ASSUME NEW j \in Id
       PROVE  Places(j)' \subseteq Places(j)
  <2>1. \A q \in Process : doing'[q].op = "mark" => doing'[q] = doing[q]
    BY <1>5, <1>7
  <2>2. \A v \in Window : Found(v, j)' => Found(v, j) \/ (v = d.w /\ j = d.id)
    BY <1>6 DEF Writes
  <2>3. d.w \in Places(d.id)
    BY <1>2 DEF Places
  <2>. QED
    BY <2>1, <2>2, <2>3 DEF Places
<1>13. UnmovedOK'
  <2>1. ASSUME NEW j \in Id \ migrated, j \in handled', NEW v \in Window, Found(v, j)'
        PROVE  inbox'[v][j].status # "pending"
    <3>1. CASE v = d.w /\ j = d.id
      BY <1>4, <1>6, <3>1 DEF Writes
    <3>2. CASE ~(v = d.w /\ j = d.id)
      <4>1. Found(v, j) /\ inbox'[v][j] = inbox[v][j]
        BY <1>6, <2>1, <3>2 DEF Writes
      <4>2. j # d.id
        <5>1. v \in Places(j) /\ (j = d.id => d.w \in Places(j))
          BY <1>2, <4>1 DEF Places
        <5>. QED
          BY <1>1, <3>2, <5>1 DEF UnmovedOK
      <4>. QED
        BY <1>1, <1>2, <2>1, <4>1, <4>2 DEF UnmovedOK
    <3>. QED
      BY <3>1, <3>2
  <2>2. ASSUME NEW j \in Id \ migrated, NEW v \in Places(j)', NEW w \in Places(j)'
        PROVE  v = w
    BY <1>1, <1>12 DEF UnmovedOK
  <2>. QED
    BY <1>2, <2>1, <2>2 DEF UnmovedOK
<1>14. UnhandledIsKept'
  BY <1>1, <1>2, <1>6 DEF UnhandledIsKept, Writes
<1>. QED
  BY <1>8, <1>10, <1>11, <1>13, <1>14 DEF MailboxInv

\* And a message that a migration writes with the new id: it is there already, or
\* nothing is claimed of it any more.
LEMMA RewriteKeeps ==
  ASSUME MailboxInv, NEW p \in Process, MigrateWrite(p)
  PROVE  MailboxInv'
<1> DEFINE d == doing[p]
           e == IF d.todo = {} THEN Idle
                ELSE [op |-> "move", w |-> d.w, from |-> d.from, todo |-> d.todo]
<1>1. /\ TypeOK /\ (\A q \in Process : HeldOK(q)) /\ StatusOK /\ UnmovedOK /\ UnhandledIsKept
  BY DEF MailboxInv
<1>2. /\ d.op = "rewrite" /\ inbox' = Written(d.w, d.id, d.msg) /\ drop' = Touched(d.w)
      /\ Becomes(p, e) /\ UNCHANGED <<old, past>>
  BY DEF MigrateWrite, MovesOn
<1>3. /\ d.w \in Window /\ d.from \in Window /\ d.todo \subseteq Id /\ d.id \in Id
      /\ d.id \in 1..sent /\ sent \in Nat /\ d.msg \in Message
      /\ d.todo \subseteq migrated /\ d.id \in migrated
      /\ d.msg.status # "pending" => d.id \in handled
      /\ d.id \notin Gone \cup overtaken => Found(d.w, d.id)
  BY <1>1, <1>2, Ops DEF HeldOK, TypeOK, Gone
<1>4. UNCHANGED <<sent, handled, old, removed, unreadable, migrated, overtaken, moves>>
  BY <1>2 DEF past
<1>5. /\ e \in Doing /\ e.op \in {"idle", "move"}
      /\ e.op = "move" => e.todo = d.todo
  BY <1>3 DEF Doing, Moving, Idle
<1> HIDE DEF e
<1>6. FilesOK' /\ Writes(d.w, d.id, d.msg)
  BY <1>1, <1>2, <1>3, <1>4, WriteFiles DEF TypeOK, FilesOK
<1>7. /\ doing' \in [Process -> Doing] /\ doing'[p] = e
      /\ \A q \in Process \ {p} : doing'[q] = doing[q]
  BY <1>1, <1>2, <1>5, Taken
<1>8. TypeOK'
  BY <1>1, <1>4, <1>6, <1>7 DEF TypeOK, FilesOK
<1>9. Grows /\ \A v, j : Found(v, j) => Found(v, j)'
  BY <1>3, <1>4, <1>6 DEF Grows, Writes
<1>10. ASSUME NEW q \in Process
       PROVE  HeldOK(q)'
  <2>1. CASE q = p
    BY <1>3, <1>4, <1>5, <1>7, <2>1 DEF HeldOK
  <2>2. CASE q # p
    BY <1>1, <1>7, <1>9, <2>2, HeldStays
  <2>. QED
    BY <2>1, <2>2
<1>11. StatusOK'
  <2> SUFFICES ASSUME NEW v \in Window, NEW j \in Id, Found(v, j)',
                      inbox'[v][j].status # "pending"
               PROVE  j \in handled
    BY <1>4 DEF StatusOK
  <2>1. CASE v = d.w /\ j = d.id
    BY <1>3, <1>6, <2>1 DEF Writes
  <2>2. CASE ~(v = d.w /\ j = d.id)
    <3>1. Found(v, j) /\ inbox'[v][j] = inbox[v][j]
      BY <1>6, <2>2 DEF Writes
    <3>. QED
      BY <1>1, <3>1 DEF StatusOK
  <2>. QED
    BY <2>1, <2>2
<1>12. ASSUME NEW j \in Id \ migrated
       PROVE  /\ Places(j)' \subseteq Places(j)
              /\ \A v \in Window : Found(v, j)' => inbox'[v][j] = inbox[v][j] /\ Found(v, j)
  <2>1. \A q \in Process : doing'[q].op = "mark" => doing'[q] = doing[q]
    BY <1>5, <1>7
  <2>2. \A v : Found(v, j)' => inbox'[v][j] = inbox[v][j] /\ Found(v, j)
    BY <1>3, <1>6 DEF Writes
  <2>. QED
    BY <2>1, <2>2 DEF Places
<1>13. UnmovedOK'
  <2>1. ASSUME NEW j \in Id \ migrated, NEW v \in Places(j)', NEW w \in Places(j)'
        PROVE  v = w
    BY <1>1, <1>12 DEF UnmovedOK
  <2>2. ASSUME NEW j \in Id \ migrated, j \in handled, NEW v \in Window, Found(v, j)'
        PROVE  inbox'[v][j].status # "pending"
    BY <1>1, <1>12, <2>2 DEF UnmovedOK
  <2>. QED
    BY <1>4, <2>1, <2>2 DEF UnmovedOK
<1>14. UnhandledIsKept'
  BY <1>1, <1>3, <1>4, <1>6 DEF UnhandledIsKept, Writes, Gone
<1>. QED
  BY <1>8, <1>10, <1>11, <1>13, <1>14 DEF MailboxInv

\* And the rename of a directory: every message it had is in the other one.
LEMMA MigrateKeeps ==
  ASSUME MailboxInv, NEW p \in Process, NEW w \in Window, NEW new \in Window,
         Migrate(p, w, new)
  PROVE  MailboxInv'
<1> DEFINE ids == DOMAIN inbox[w]
           e == [op |-> "move", w |-> new, from |-> w, todo |-> ids]
<1>1. /\ TypeOK /\ (\A q \in Process : HeldOK(q)) /\ StatusOK /\ UnmovedOK /\ UnhandledIsKept
  BY DEF MailboxInv
<1>2. /\ w \in DOMAIN inbox /\ new \notin DOMAIN inbox /\ moves < MaxMoves /\ moves' = moves + 1
      /\ migrated' = migrated \cup ids
      /\ overtaken' = overtaken \cup {id \in ids : \E q \in Process : Rewrites(q, w, id)}
      /\ inbox' = Put(Without(inbox, {w}), new, inbox[w])
      /\ drop' = Put(Without(drop, {w}), new, drop[w])
      /\ Becomes(p, e) /\ UNCHANGED <<old, sent, handled, removed, unreadable>>
  BY DEF Migrate
<1>3. /\ ids \subseteq 1..sent /\ sent \in Nat /\ 1..sent \subseteq Id
      /\ \A j : j \in ids <=> Found(w, j)
  BY <1>1, <1>2, MailboxAssumption DEF TypeOK, Id, Found
<1>4. e \in Doing
  BY <1>3 DEF Doing, Moving
<1>5. e.op = "move" /\ e.todo = ids
  OBVIOUS
<1> HIDE DEF e, ids
<1>6. /\ FilesOK'
      /\ \A v, j : Found(v, j)' <=> (v = new /\ Found(w, j)) \/ (v # w /\ Found(v, j))
      /\ \A j : Found(w, j) => inbox'[new][j] = inbox[w][j]
      /\ \A v, j : v # w /\ Found(v, j) => inbox'[v][j] = inbox[v][j]
  BY <1>1, <1>2, MoveFiles DEF TypeOK, FilesOK
<1>7. /\ doing' \in [Process -> Doing] /\ doing'[p] = e
      /\ \A q \in Process \ {p} : doing'[q] = doing[q]
  BY <1>1, <1>2, <1>4, Taken
<1>8. TypeOK'
  <2>1. moves' \in 0..MaxMoves
    BY <1>1, <1>2, MailboxAssumption DEF TypeOK
  <2>. QED
    BY <1>1, <1>2, <1>3, <1>6, <1>7, <2>1 DEF TypeOK, FilesOK
<1>9. Grows
  BY <1>2, <1>3 DEF Grows
<1>10. ASSUME NEW q \in Process
       PROVE  HeldOK(q)'
  <2>1. CASE q = p
    BY <1>2, <1>5, <1>7, <2>1 DEF HeldOK
  <2>2. CASE q # p
    <3>1. ASSUME NEW v, NEW j, Found(v, j), Rewrites(q, v, j)
          PROVE  Found(v, j)' \/ j \in (Gone \cup overtaken)'
      BY <1>2, <1>3, <1>6, <3>1
    <3>. QED
      BY <1>1, <1>7, <1>9, <2>2, <3>1, HeldStays
  <2>. QED
    BY <2>1, <2>2
<1>11. ASSUME NEW v, NEW j, Found(v, j)'
       PROVE  \E u : Found(u, j) /\ inbox'[v][j] = inbox[u][j] /\ (v = u \/ (u = w /\ v = new))
  <2>1. CASE v = new /\ Found(w, j)
    BY <1>6, <2>1
  <2>2. CASE v # w /\ Found(v, j)
    BY <1>6, <2>2
  <2>. QED
    BY <1>6, <1>11, <2>1, <2>2
<1>12. StatusOK'
  <2> SUFFICES ASSUME NEW v \in Window, NEW j \in Id, Found(v, j)',
                      inbox'[v][j].status # "pending"
               PROVE  j \in handled
    BY <1>2 DEF StatusOK
  <2>1. PICK u : Found(u, j) /\ inbox'[v][j] = inbox[u][j]
    BY <1>11
  <2>2. u \in Window
    BY <1>1, <2>1 DEF TypeOK, Found
  <2>. QED
    BY <1>1, <2>1, <2>2 DEF StatusOK
<1>13. ASSUME NEW j \in Id \ migrated'
       PROVE  /\ Places(j)' \subseteq Places(j)
              /\ \A v \in Window : Found(v, j)' => inbox'[v][j] = inbox[v][j] /\ Found(v, j)
  <2>1. j \notin migrated /\ ~Found(w, j)
    BY <1>2, <1>3
  <2>2. \A q \in Process : doing'[q].op = "mark" => doing'[q] = doing[q]
    BY <1>5, <1>7
  <2>3. \A v : Found(v, j)' => inbox'[v][j] = inbox[v][j] /\ Found(v, j)
    BY <1>6, <2>1
  <2>. QED
    BY <2>2, <2>3 DEF Places
<1>14. UnmovedOK'
  <2>1. ASSUME NEW j \in Id \ migrated', NEW u \in Places(j)', NEW v \in Places(j)'
        PROVE  u = v
    BY <1>1, <1>2, <1>13 DEF UnmovedOK
  <2>2. ASSUME NEW j \in Id \ migrated', j \in handled, NEW v \in Window, Found(v, j)'
        PROVE  inbox'[v][j].status # "pending"
    BY <1>1, <1>2, <1>13, <2>2 DEF UnmovedOK
  <2>. QED
    BY <1>2, <2>1, <2>2 DEF UnmovedOK
<1>15. UnhandledIsKept'
  <2> SUFFICES ASSUME NEW j \in 1..sent, j \notin handled \cup old \cup removed \cup unreadable
               PROVE  /\ \E v \in Window : Found(v, j)'
                      /\ j \notin overtaken' =>
                           \A u, v \in Window : Found(u, j)' /\ Found(v, j)' => u = v
    BY <1>2 DEF UnhandledIsKept
  <2>1. /\ \E v \in Window : Found(v, j)
        /\ j \notin overtaken => \A u, v \in Window : Found(u, j) /\ Found(v, j) => u = v
    BY <1>1 DEF UnhandledIsKept
  <2>. QED
    BY <1>2, <1>6, <2>1
<1>. QED
  BY <1>8, <1>10, <1>12, <1>14, <1>15 DEF MailboxInv
\* The steps that change no message: looking at files, taking something up, leaving
\* off, delivery files, the passing of time.
LEMMA LooksKeep ==
  ASSUME MailboxInv, NEW p \in Process, UNCHANGED <<inbox, past>>,
         old \subseteq old', old' \subseteq 1..sent, DOMAIN drop' = DOMAIN drop,
         drop' \in [DOMAIN drop -> SUBSET (1..sent)],
         NEW e \in Doing, doing' = [doing EXCEPT ![p] = e],
         e = doing[p] \/ HeldOK(p)',
         e # doing[p] /\ e.op = "mark" => Found(e.w, e.id)
  PROVE  MailboxInv'
<1>1. TypeOK
  BY DEF MailboxInv
<1>2. /\ doing' \in [Process -> Doing] /\ doing'[p] = e
      /\ \A q \in Process \ {p} : doing'[q] = doing[q]
  BY <1>1, Taken DEF Becomes
<1>3. UNCHANGED <<sent, handled, removed, unreadable, migrated, overtaken, moves, inbox>>
  BY DEF past
<1>4. TypeOK'
  BY <1>1, <1>2, <1>3 DEF TypeOK
<1>5. Fewer /\ \A v, j : Found(v, j) => Found(v, j)'
  BY <1>3 DEF Fewer, Found
<1>. QED
  BY <1>2, <1>3, <1>4, <1>5, ShrinkKeeps

\* Nor do those that no process's work depends on.
LEMMA PassKeeps ==
  ASSUME MailboxInv, UNCHANGED <<inbox, doing, past>>,
         old \subseteq old', old' \subseteq 1..sent,
         drop' \in [DOMAIN inbox -> SUBSET (1..sent)]
  PROVE  MailboxInv'
<1>1. /\ TypeOK /\ (\A p \in Process : HeldOK(p)) /\ StatusOK /\ UnmovedOK /\ UnhandledIsKept
  BY DEF MailboxInv
<1>2. UNCHANGED <<sent, handled, removed, unreadable, migrated, overtaken, moves, inbox, doing>>
  BY DEF past
<1>3. TypeOK'
  BY <1>1, <1>2 DEF TypeOK
<1>4. Grows /\ \A v, j : Found(v, j)' <=> Found(v, j)
  BY <1>1, <1>2 DEF Grows, TypeOK, Found
<1>5. \A p \in Process : HeldOK(p)'
  BY <1>1, <1>2, <1>4, HeldStays
<1>6. StatusOK'
  BY <1>1, <1>2, <1>4 DEF StatusOK
<1>7. \A id : Places(id)' = Places(id)
  BY <1>2, <1>4 DEF Places
<1>8. UnmovedOK'
  BY <1>1, <1>2, <1>4, <1>7 DEF UnmovedOK
<1>9. UnhandledIsKept'
  BY <1>1, <1>2, <1>4 DEF UnhandledIsKept
<1>. QED
  BY <1>3, <1>5, <1>6, <1>8, <1>9 DEF MailboxInv

\* A process sends: at once, as the reply to what it marked, or one of a broadcast.
LEMMA SendsKeep ==
  ASSUME MailboxInv, NEW p \in Process,
         \/ \E from, to \in Window : Send(p, from, to)
         \/ \E to \in Window : BroadcastOne(p, to)
         \/ SendReply(p)
  PROVE  MailboxInv'
<1>1. TypeOK
  BY DEF MailboxInv
<1>2. Idle \in Doing /\ Idle.op = "idle"
  BY DEF Doing, Idle
<1>3. ASSUME NEW from \in Window, NEW to \in Window, Send(p, from, to)
      PROVE  MailboxInv'
  <2>1. Becomes(p, Idle) /\ Post(from, to)
    BY <1>1, <1>3 DEF Send, Becomes, TypeOK
  <2>. QED
    BY <1>2, <2>1, PostKeeps
<1>4. CASE SendReply(p)
  <2>1. doing[p].op = "reply" /\ Post(doing[p].from, doing[p].w) /\ Becomes(p, Idle)
    BY <1>4 DEF SendReply
  <2>2. doing[p].from \in Window /\ doing[p].w \in Window
    BY <1>1, <2>1, Ops
  <2>. QED
    BY <1>2, <2>1, <2>2, PostKeeps
<1>5. ASSUME NEW to \in Window, BroadcastOne(p, to)
      PROVE  MailboxInv'
  <2> SUFFICES ASSUME NEW e,
                      e = IF doing[p].to \ {to} = {} THEN Idle
                          ELSE [doing[p] EXCEPT !.to = doing[p].to \ {to}]
               PROVE  MailboxInv'
    OBVIOUS
  <2>1. /\ doing[p].op = "broadcast" /\ Becomes(p, e)
        /\ Post(doing[p].from, to) \/ UNCHANGED <<inbox, drop, old, past>>
    BY <1>5 DEF BroadcastOne
  <2>2. doing[p] \in [op : {"broadcast"}, from : Window, to : SUBSET Window]
    BY <1>1, <2>1 DEF TypeOK, Doing, Idle, Marking, Sweeping, Sending, Moving
  <2>3. e \in Doing /\ e.op \in {"idle", "broadcast"}
    <3>1. [doing[p] EXCEPT !.to = doing[p].to \ {to}]
            \in [op : {"broadcast"}, from : Window, to : SUBSET Window]
      BY <2>2
    <3>. QED
      BY <1>2, <3>1 DEF Doing, Sending
  <2>4. CASE Post(doing[p].from, to)
    BY <2>1, <2>2, <2>3, <2>4, PostKeeps
  <2>5. CASE UNCHANGED <<inbox, drop, old, past>>
    <3>1. doing'[p] = e
      BY <1>1, <2>1, <2>3, Taken
    <3>2. HeldOK(p)'
      BY <2>3, <3>1 DEF HeldOK
    <3>3. old \subseteq 1..sent /\ drop \in [DOMAIN drop -> SUBSET (1..sent)]
      BY <1>1 DEF TypeOK
    <3>. QED
      BY <2>1, <2>3, <2>5, <3>2, <3>3, LooksKeep DEF Becomes
  <2>. QED
    BY <2>1, <2>4, <2>5
<1>. QED
  BY <1>3, <1>4, <1>5

\* A process takes up something, or goes on to the next file of a directory.
LEMMA TakesUpKeeps ==
  ASSUME MailboxInv, NEW p \in Process,
         \/ \E w \in Window, id \in Id, mark \in Mark : Find(p, w, id, mark)
         \/ \E from \in Window : Broadcast(p, from, Window)
         \/ \E w \in Window : SweepScan(p, w)
         \/ \E id \in Id : SweepRead(p, id) \/ SweepCannotRead(p, id) \/ MigrateRead(p, id)
         \/ MigrateSkips(p) \/ SweepTmp(p) \/ Fail(p)
  PROVE  MailboxInv'
<1>1. TypeOK /\ HeldOK(p) /\ StatusOK
  BY DEF MailboxInv
<1>2. /\ old \subseteq 1..sent /\ drop \in [DOMAIN drop -> SUBSET (1..sent)]
      /\ sent \in Nat /\ 1..sent \subseteq Id
  BY <1>1, MailboxAssumption DEF TypeOK, Id
<1>3. Idle \in Doing /\ Idle.op = "idle"
  BY DEF Doing, Idle
<1>4. \A v \in Window, j \in Id : Found(v, j) => j \in 1..sent /\ inbox[v][j] \in Message
  BY <1>1 DEF TypeOK, Found
<1>5. ASSUME NEW e \in Doing, Becomes(p, e), UNCHANGED <<inbox, drop, old, past>>,
             e.op \notin {"mark", "sweep", "move", "rewrite"} \/ HeldOK(p)',
             e.op = "mark" => Found(e.w, e.id)
      PROVE  MailboxInv'
  <2>1. doing'[p] = e
    BY <1>1, <1>5, Taken
  <2>2. HeldOK(p)'
    BY <1>5, <2>1 DEF HeldOK
  <2>. QED
    BY <1>2, <1>5, <2>2, LooksKeep DEF Becomes
<1>6. ASSUME NEW w \in Window, NEW id \in Id, NEW mark \in Mark, Find(p, w, id, mark)
      PROVE  MailboxInv'
  <2> SUFFICES ASSUME NEW e, e = [op |-> "mark", w |-> w, id |-> id, msg |-> inbox[w][id],
                                  mark |-> mark]
               PROVE  MailboxInv'
    OBVIOUS
  <2>1. Found(w, id) /\ Becomes(p, e) /\ UNCHANGED <<inbox, drop, old, past>>
    BY <1>6 DEF Find
  <2>2. inbox[w][id] \in Message /\ id \in 1..sent
    BY <1>4, <2>1
  <2>3. e \in Doing
    BY <2>2 DEF Doing, Marking
  <2>4. doing'[p] = e
    BY <1>1, <2>1, <2>3, Taken
  <2>5. inbox[w][id].status # "pending" => id \in handled
    BY <1>1, <2>1 DEF StatusOK
  <2>6. HeldOK(p)'
    BY <2>1, <2>2, <2>4, <2>5 DEF HeldOK, past
  <2>. QED
    BY <1>5, <2>1, <2>3, <2>6
<1>7. ASSUME NEW from \in Window, Broadcast(p, from, Window)
      PROVE  MailboxInv'
  <2> SUFFICES ASSUME NEW e, e = [op |-> "broadcast", from |-> from, to |-> Window]
               PROVE  MailboxInv'
    OBVIOUS
  <2>1. Becomes(p, e) /\ UNCHANGED <<inbox, drop, old, past>>
    BY <1>7 DEF Broadcast
  <2>2. e \in Doing /\ e.op = "broadcast"
    BY DEF Doing, Sending
  <2>. QED
    BY <1>5, <2>1, <2>2
<1>8. ASSUME NEW w \in Window, SweepScan(p, w)
      PROVE  MailboxInv'
  <2> SUFFICES ASSUME NEW e, e = [op |-> "sweep", w |-> w, todo |-> DOMAIN inbox[w],
                                  live |-> {}, doomed |-> {}]
               PROVE  MailboxInv'
    OBVIOUS
  <2>1. w \in DOMAIN inbox /\ Becomes(p, e) /\ UNCHANGED <<inbox, drop, old, past>>
    BY <1>8 DEF SweepScan
  <2>2. DOMAIN inbox[w] \subseteq Id
    BY <1>1, <1>2, <2>1 DEF TypeOK
  <2>3. e \in Doing
    BY <2>2 DEF Doing, Sweeping
  <2>4. doing'[p] = e
    BY <1>1, <2>1, <2>3, Taken
  <2>5. HeldOK(p)'
    BY <2>4 DEF HeldOK
  <2>. QED
    BY <1>5, <2>1, <2>3, <2>5
<1>9. CASE Fail(p)
  BY <1>3, <1>5, <1>9 DEF Fail
<1>10. CASE SweepTmp(p)
  <2>1. /\ Becomes(p, Idle) /\ UNCHANGED <<inbox, old, past>>
        /\ drop' = IF doing[p].w \in DOMAIN drop
                   THEN [drop EXCEPT ![doing[p].w] = @ \cap doing[p].live] ELSE drop
    BY <1>10 DEF SweepTmp
  <2>2. DOMAIN drop' = DOMAIN drop /\ drop' \in [DOMAIN drop -> SUBSET (1..sent)]
    BY <1>2, <2>1
  <2>3. doing'[p] = Idle
    BY <1>1, <1>3, <2>1, Taken
  <2>4. HeldOK(p)'
    BY <1>3, <2>3, HoldsNothing DEF HeldOK
  <2>. QED
    BY <1>2, <1>3, <2>1, <2>2, <2>4, LooksKeep DEF Becomes
<1>11. ASSUME NEW id \in Id, SweepRead(p, id)
       PROVE  MailboxInv'
  <2> DEFINE d == doing[p]
  <2> SUFFICES ASSUME NEW doomed, doomed = (Found(d.w, id) /\ Sweepable(d.w, id)),
                      NEW e, e = [op |-> "sweep", w |-> d.w, todo |-> d.todo \ {id},
                                  live |-> IF doomed THEN d.live ELSE d.live \cup {id},
                                  doomed |-> IF doomed THEN {id} ELSE {}]
               PROVE  MailboxInv'
    OBVIOUS
  <2>1. /\ d.op = "sweep" /\ id \in d.todo /\ Becomes(p, e)
        /\ UNCHANGED <<inbox, drop, old, past>>
    BY <1>11 DEF SweepRead
  <2>2. d.w \in Window /\ d.todo \subseteq Id /\ d.live \subseteq Id
    BY <1>1, <2>1, Ops
  <2>3. e \in Doing
    <3>1. CASE doomed
      BY <2>2, <3>1 DEF Doing, Sweeping
    <3>2. CASE ~doomed
      BY <2>2, <3>2 DEF Doing, Sweeping
    <3>. QED
      BY <3>1, <3>2
  <2>4. doing'[p] = e
    BY <1>1, <2>1, <2>3, Taken
  <2>5. doomed => id \in handled \cup old
    BY <1>1, <2>2 DEF StatusOK, Sweepable
  <2>6. e.op = "sweep" /\ e.doomed \subseteq handled \cup old
    BY <2>5
  <2>7. HeldOK(p)'
    BY <2>1, <2>4, <2>6 DEF HeldOK, past
  <2>. QED
    BY <1>5, <2>1, <2>3, <2>6, <2>7
<1>13. ASSUME NEW rest \in SUBSET doing[p].todo, doing[p].op \in {"move", "rewrite"},
              MovesOn(p, rest), UNCHANGED <<inbox, drop, old, past>>
       PROVE  MailboxInv'
  <2> DEFINE d == doing[p]
  <2> SUFFICES ASSUME NEW e, e = IF rest = {} THEN Idle
                                 ELSE [op |-> "move", w |-> d.w, from |-> d.from, todo |-> rest]
               PROVE  MailboxInv'
    OBVIOUS
  <2>1. Becomes(p, e)
    BY <1>13 DEF MovesOn
  <2>2. d.w \in Window /\ d.from \in Window /\ rest \subseteq Id /\ rest \subseteq migrated
    BY <1>1, <1>13, Ops DEF HeldOK
  <2>3. e \in Doing /\ (e.op = "idle" \/ (e.op = "move" /\ e.todo = rest))
    BY <1>3, <2>2 DEF Doing, Moving
  <2>4. doing'[p] = e
    BY <1>1, <2>1, <2>3, Taken
  <2>5. HeldOK(p)'
    BY <1>13, <2>2, <2>3, <2>4 DEF HeldOK, past
  <2>. QED
    BY <1>5, <1>13, <2>1, <2>3, <2>5
<1>14. CASE MigrateSkips(p)
  <2>1. CASE doing[p].op = "move" /\ \E id \in doing[p].todo : MovesOn(p, doing[p].todo \ {id})
    BY <1>13, <1>14, <2>1 DEF MigrateSkips
  <2>2. CASE doing[p].op = "rewrite" /\ MovesOn(p, doing[p].todo)
    BY <1>13, <1>14, <2>2 DEF MigrateSkips
  <2>. QED
    BY <1>14, <2>1, <2>2 DEF MigrateSkips
<1>15. ASSUME NEW id \in Id, SweepCannotRead(p, id)
       PROVE  MailboxInv'
  <2> DEFINE d == doing[p]
  <2> SUFFICES ASSUME NEW e, e = [d EXCEPT !.todo = @ \ {id}, !.doomed = {id}]
               PROVE  MailboxInv'
    OBVIOUS
  <2>1. /\ d.op = "sweep" /\ Found(d.w, id) /\ Becomes(p, e)
        /\ unreadable' = unreadable \cup {id}
        /\ UNCHANGED <<inbox, drop, old, sent, handled, removed, migrated, overtaken, moves>>
    BY <1>15 DEF SweepCannotRead
  <2>2. d \in Sweeping /\ d.w \in Window
    BY <1>1, <2>1, Ops DEF TypeOK, Doing, Idle, Marking, Sending, Moving
  <2>3. e \in Sweeping /\ e.op = "sweep" /\ e.doomed = {id}
    BY <2>2 DEF Sweeping
  <2>4. e \in Doing
    BY <2>3 DEF Doing
  <2>5. /\ doing' \in [Process -> Doing] /\ doing'[p] = e
        /\ \A q \in Process \ {p} : doing'[q] = doing[q]
    BY <1>1, <2>1, <2>4, Taken
  <2>6. HeldOK(p)'
    BY <2>1, <2>3, <2>5 DEF HeldOK
  <2>7. TypeOK'
    <3>1. id \in 1..sent
      BY <1>4, <2>1, <2>2
    <3>. QED
      BY <1>1, <2>1, <2>5, <3>1 DEF TypeOK
  <2>8. Fewer /\ \A v, j : Found(v, j) => Found(v, j)'
    BY <2>1 DEF Fewer, Found
  <2>. QED
    BY <2>1, <2>3, <2>5, <2>6, <2>7, <2>8, ShrinkKeeps
<1>12. ASSUME NEW id \in Id, MigrateRead(p, id)
       PROVE  MailboxInv'
  <2> DEFINE d == doing[p]
             Renamed(v) == IF v = d.from THEN d.w ELSE v
             rest == d.todo \ {id}
  <2>1. /\ d.op = "move" /\ id \in d.todo /\ UNCHANGED <<inbox, drop, old, past>>
    BY <1>12 DEF MigrateRead
  <2>2. /\ d \in [op : {"move"}, w : Window, from : Window, todo : SUBSET Id]
        /\ d.w \in Window /\ d.from \in Window /\ d.todo \subseteq Id
    BY <1>1, <2>1 DEF TypeOK, Doing, Idle, Marking, Sweeping, Sending, Moving
  <2>3. d.todo \subseteq migrated
    BY <1>1, <2>1 DEF HeldOK
  <2>4. CASE Found(d.w, id) /\ d.from \in {inbox[d.w][id].to, inbox[d.w][id].from}
    <3> SUFFICES
          ASSUME NEW msg, msg = [from |-> Renamed(inbox[d.w][id].from),
                                 to |-> Renamed(inbox[d.w][id].to),
                                 status |-> inbox[d.w][id].status,
                                 delivered |-> inbox[d.w][id].delivered],
                 NEW e, e = [op |-> "rewrite", w |-> d.w, from |-> d.from, todo |-> rest,
                             id |-> id, msg |-> msg]
          PROVE  MailboxInv'
      OBVIOUS
    <3>1. Becomes(p, e)
      BY <1>12, <2>4 DEF MigrateRead
    <3>2. id \in 1..sent /\ inbox[d.w][id] \in Message
      BY <1>4, <2>2, <2>4
    <3>3. msg \in Message /\ msg.status = inbox[d.w][id].status
      BY <2>2, <3>2 DEF Message
    <3>4. e \in Doing
      BY <2>2, <3>3 DEF Doing, Moving
    <3>5. doing'[p] = e
      BY <1>1, <3>1, <3>4, Taken
    <3>6. msg.status # "pending" => id \in handled
      BY <1>1, <2>2, <2>4, <3>3 DEF StatusOK
    <3>7. UNCHANGED <<sent, handled, migrated>> /\ (Found(d.w, id))'
      BY <2>1, <2>4, <3>5 DEF past, Found
    <3>8. HeldOK(p)'
      BY <2>1, <2>3, <2>4, <3>2, <3>5, <3>6, <3>7 DEF HeldOK, Found
    <3>. QED
      BY <1>5, <2>1, <3>1, <3>4, <3>8
  <2>5. CASE ~(Found(d.w, id) /\ d.from \in {inbox[d.w][id].to, inbox[d.w][id].from})
    <3>1. MovesOn(p, rest)
      BY <1>12, <2>5 DEF MigrateRead
    <3>. QED
      BY <1>13, <2>1, <3>1
  <2>. QED
    BY <2>4, <2>5
<1>. QED
  BY <1>6, <1>7, <1>8, <1>9, <1>10, <1>11, <1>12, <1>14, <1>15

\* Messages are removed: by a sweep, which judged them, or with their inbox.
LEMMA RemovesKeep ==
  ASSUME MailboxInv, NEW p \in Process,
         SweepUnlink(p) \/ \E w \in Window : Clear(p, w) \/ Prune(p, w)
  PROVE  MailboxInv'
<1>1. TypeOK /\ HeldOK(p)
  BY DEF MailboxInv
<1>2. FilesOK /\ sent \in Nat
  BY <1>1 DEF TypeOK, FilesOK
<1>3. CASE SweepUnlink(p)
  <2> DEFINE d == doing[p]
  <2> SUFFICES ASSUME NEW e, e = [d EXCEPT !.doomed = {}]
               PROVE  MailboxInv'
    OBVIOUS
  <2>1. /\ d.op = "sweep" /\ inbox' = Unlinked(d.w, d.doomed) /\ Becomes(p, e)
        /\ UNCHANGED <<drop, old, past>>
    BY <1>3 DEF SweepUnlink
  <2>2. UNCHANGED <<drop, old, sent, handled, removed, unreadable, migrated, overtaken, moves>>
    BY <2>1 DEF past
  <2>3. FilesOK' /\ Fewer /\ \A v, j : Found(v, j) => Found(v, j)' \/ j \in d.doomed
    BY <1>2, <2>1, <2>2, UnlinkFiles
  <2>4. d \in Sweeping
    BY <1>1, <2>1 DEF TypeOK, Doing, Idle, Marking, Sending, Moving
  <2>5. e \in Sweeping /\ e.op = "sweep" /\ e.doomed = {}
    BY <2>1, <2>4 DEF Sweeping
  <2>6. e \in Doing
    BY <2>5 DEF Doing
  <2>7. /\ doing' \in [Process -> Doing] /\ doing'[p] = e
        /\ \A q \in Process \ {p} : doing'[q] = doing[q]
    BY <1>1, <2>1, <2>6, Taken
  <2>8. HeldOK(p)'
    BY <2>5, <2>7 DEF HeldOK
  <2>9. d.doomed \subseteq Gone'
    BY <1>1, <2>1, <2>2 DEF HeldOK, Gone
  <2>10. TypeOK'
    BY <1>1, <2>2, <2>3, <2>7 DEF TypeOK, FilesOK
  <2>. QED
    BY <2>2, <2>3, <2>5, <2>7, <2>8, <2>9, <2>10, ShrinkKeeps
<1>4. ASSUME NEW w \in Window, Clear(p, w) \/ Prune(p, w)
      PROVE  MailboxInv'
  <2>1. /\ w \in DOMAIN inbox /\ removed' = removed \cup DOMAIN inbox[w]
        /\ UNCHANGED <<old, doing, sent, handled, unreadable, migrated, overtaken, moves>>
    BY <1>4 DEF Clear, Prune
  <2>2. FilesOK' /\ Fewer /\ \A v, j : Found(v, j) => Found(v, j)' \/ j \in DOMAIN inbox[w]
    <3>1. CASE Clear(p, w)
      BY <1>2, <2>1, <3>1, ClearFiles DEF Clear
    <3>2. CASE Prune(p, w)
      BY <1>2, <2>1, <3>2, PruneFiles DEF Prune
    <3>. QED
      BY <1>4, <3>1, <3>2
  <2>3. removed' \subseteq 1..sent /\ DOMAIN inbox[w] \subseteq Gone'
    BY <1>1, <2>1 DEF TypeOK, Gone
  <2>4. TypeOK'
    BY <1>1, <2>1, <2>2, <2>3 DEF TypeOK, FilesOK
  <2>. QED
    BY <2>1, <2>2, <2>3, <2>4, ShrinkKeeps
<1>. QED
  BY <1>3, <1>4

-----------------------------------------------------------------------------
(* The theorems.                                                           *)

\* The first state, with no inbox, has the invariant.
LEMMA InitMailboxInv == Init => MailboxInv
<1> SUFFICES ASSUME Init
             PROVE  MailboxInv
  OBVIOUS
<1>1. /\ inbox = <<>> /\ drop = <<>> /\ old = {} /\ doing = [p \in Process |-> Idle]
      /\ sent = 0 /\ moves = 0
      /\ handled = {} /\ removed = {} /\ unreadable = {} /\ migrated = {} /\ overtaken = {}
  BY DEF Init
<1>2. DOMAIN <<>> = {} /\ \A T : <<>> \in [{} -> T]
  OBVIOUS
<1>3. DOMAIN inbox = {} /\ inbox \in [DOMAIN inbox -> Values(inbox)]
      /\ drop \in [DOMAIN inbox -> SUBSET (1..sent)]
  BY <1>1, <1>2
<1>4. doing \in [Process -> Doing] /\ \A p \in Process : doing[p].op = "idle"
  BY <1>1 DEF Doing, Idle
<1>5. TypeOK
  BY <1>1, <1>3, <1>4, MailboxAssumption DEF TypeOK
<1>6. \A v, j : ~Found(v, j)
  BY <1>3 DEF Found
<1>7. \A p \in Process : HeldOK(p)
  BY <1>4 DEF HeldOK
<1>8. \A j : Places(j) = {}
  BY <1>4, <1>6 DEF Places
<1>9. UnmovedOK
  BY <1>6, <1>8 DEF UnmovedOK
<1>10. StatusOK /\ UnhandledIsKept
  BY <1>1, <1>6 DEF StatusOK, UnhandledIsKept
<1>. QED
  BY <1>5, <1>7, <1>9, <1>10 DEF MailboxInv

\* Every step keeps the invariant.
LEMMA NextMailboxInv == MailboxInv /\ [Next]_vars => MailboxInv'
<1> SUFFICES ASSUME MailboxInv, [Next]_vars
             PROVE  MailboxInv'
  OBVIOUS
<1>1. TypeOK
  BY DEF MailboxInv
<1>2. /\ old \subseteq 1..sent /\ drop \in [DOMAIN inbox -> SUBSET (1..sent)]
      /\ sent \in Nat /\ 1..sent \subseteq Id
  BY <1>1, MailboxAssumption DEF TypeOK, Id
<1>3. ASSUME NEW p \in Process, NEW w \in Window, NEW id \in Id, WriteDelivery(p, w, id)
      PROVE  MailboxInv'
  <2>1. /\ Found(w, id) /\ drop' = [drop EXCEPT ![w] = @ \cup {id}]
        /\ UNCHANGED <<inbox, old, doing, past>>
    BY <1>3 DEF WriteDelivery
  <2>2. id \in 1..sent
    BY <1>1, <2>1 DEF TypeOK, Found
  <2>3. drop' \in [DOMAIN inbox -> SUBSET (1..sent)]
    BY <1>2, <2>1, <2>2
  <2>. QED
    BY <1>2, <2>1, <2>3, PassKeeps
<1>4. ASSUME NEW id \in Id, Expire(id)
      PROVE  MailboxInv'
  BY <1>2, <1>4, PassKeeps DEF Expire, Id
<1>5. CASE UNCHANGED vars
  BY <1>2, <1>5, PassKeeps DEF vars
<1>6. ASSUME NEW p \in Process, WriteMark(p) \/ MigrateWrite(p)
      PROVE  MailboxInv'
  BY <1>6, MarkKeeps, RewriteKeeps
<1>7. ASSUME NEW p \in Process, NEW w \in Window, NEW new \in Window, Migrate(p, w, new)
      PROVE  MailboxInv'
  BY <1>7, MigrateKeeps
<1>. QED
  BY <1>3, <1>4, <1>5, <1>6, <1>7, SendsKeep, TakesUpKeeps, RemovesKeep DEF Next

\* In every run, of any number of processes, the invariant holds.
THEOREM Invariant == Spec => []MailboxInv
BY InitMailboxInv, NextMailboxInv, PTL DEF Spec

\* The state is always of its type: every inbox has its tmp/, and only messages that
\* were sent are in a directory, marked, or named by a delivery file.
THEOREM TypesHold == Spec => []TypeOK
<1>1. MailboxInv => TypeOK
  BY DEF MailboxInv
<1>. QED
  BY <1>1, Invariant, PTL

\* _atomic_write_message, sweep, migrate_window_ids: a message that nobody has
\* handled and whose time is not over is in an inbox, unless the inbox was cleared or
\* pruned or a sweep could not read the message; and in one only unless a migration
\* overtook another.
THEOREM UnhandledKept == Spec => []UnhandledIsKept
<1>1. MailboxInv => UnhandledIsKept
  BY DEF MailboxInv
<1>. QED
  BY <1>1, Invariant, PTL

\* pending_undelivered never offers a message that was handled, unless a migration
\* undid the mark.
THEOREM OfferedUnhandled == Spec => []OfferedIsUnhandled
<1>1. MailboxInv => OfferedIsUnhandled
  <2> SUFFICES ASSUME MailboxInv, NEW w \in Window, NEW id \in 1..sent, Offered(w, id),
                      id \in handled, id \notin migrated
               PROVE  FALSE
    BY DEF OfferedIsUnhandled
  <2>1. TypeOK /\ UnmovedOK
    BY DEF MailboxInv
  <2>2. id \in Id
    BY <2>1, MailboxAssumption DEF TypeOK, Id
  <2>. QED
    BY <2>1, <2>2 DEF UnmovedOK, Offered
<1>. QED
  BY <1>1, Invariant, PTL
=============================================================================
