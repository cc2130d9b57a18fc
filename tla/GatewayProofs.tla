----------------------------- MODULE GatewayProofs -----------------------------
(***************************************************************************)
(* Proofs about ChannelRouter and Gateway, for any channels, windows,      *)
(* calls and failures.  The first part is the router on its own.  The      *)
(* gateway's actions are the router's and more, so the second part takes   *)
(* from it what an operation does to the registry, and the router's        *)
(* invariant IInv is a part of the gateway's.                              *)
(***************************************************************************)
EXTENDS Gateway, TLAPS

-----------------------------------------------------------------------------
(* THE ROUTER.  Dictionaries.                                              *)

\* A dictionary is a function on its own keys.
LEMMA PartialFunctionsDef ==
  ASSUME NEW S, NEW T, NEW f
  PROVE  f \in PartialFunctions(S, T) <=> f \in [DOMAIN f -> T] /\ DOMAIN f \subseteq S
BY DEF PartialFunctions

\* Removing keys and setting one keep a dictionary's type.
LEMMA WithoutType ==
  ASSUME NEW S, NEW T, NEW f \in PartialFunctions(S, T), NEW X
  PROVE  Without(f, X) \in PartialFunctions(S, T)
<1> DEFINE g == Without(f, X)
<1>1. f \in [DOMAIN f -> T] /\ DOMAIN f \subseteq S
  BY PartialFunctionsDef
<1>2. g \in [DOMAIN g -> T] /\ DOMAIN g \subseteq S
  BY <1>1 DEF Without
<1>. QED
  BY <1>2, PartialFunctionsDef

\* Setting a key keeps a dictionary's type.
LEMMA PutType ==
  ASSUME NEW S, NEW T, NEW f \in PartialFunctions(S, T), NEW x \in S, NEW v \in T
  PROVE  Put(f, x, v) \in PartialFunctions(S, T)
<1> DEFINE g == Put(f, x, v)
<1>1. f \in [DOMAIN f -> T] /\ DOMAIN f \subseteq S
  BY PartialFunctionsDef
<1>2. g \in [DOMAIN g -> T] /\ DOMAIN g \subseteq S
  BY <1>1 DEF Put
<1>. QED
  BY <1>2, PartialFunctionsDef

\* Updating a dictionary with another of its type keeps the type.
LEMMA MergeType ==
  ASSUME NEW S, NEW T, NEW f \in PartialFunctions(S, T), NEW g \in PartialFunctions(S, T)
  PROVE  Merge(f, g) \in PartialFunctions(S, T)
<1> DEFINE h == Merge(f, g)
<1>1. /\ f \in [DOMAIN f -> T] /\ DOMAIN f \subseteq S
      /\ g \in [DOMAIN g -> T] /\ DOMAIN g \subseteq S
  BY PartialFunctionsDef
<1>2. h \in [DOMAIN h -> T] /\ DOMAIN h \subseteq S
  BY <1>1 DEF Merge
<1>. QED
  BY <1>2, PartialFunctionsDef

-----------------------------------------------------------------------------
(* The router: the reverse index as a function of the bindings.            *)

\* The index of a dictionary of bindings has the type of _reverse.
LEMMA IndexType ==
  ASSUME NEW b \in PartialFunctions(Channel, Window)
  PROVE  IndexOf(b) \in PartialFunctions(Window, (SUBSET Channel) \ {{}})
<1> DEFINE index == IndexOf(b)
<1>1. b \in [DOMAIN b -> Window] /\ DOMAIN b \subseteq Channel
  BY PartialFunctionsDef
<1>2. index \in [DOMAIN index -> (SUBSET Channel) \ {{}}] /\ DOMAIN index \subseteq Window
  BY <1>1 DEF IndexOf, Values, KeysOf
<1>. QED
  BY <1>2, PartialFunctionsDef

\* _remove_from_reverse keeps the index exact: removing the channels of Y,
\* after those of X, from the index is indexing what is left.
LEMMA UnlistIndex ==
  ASSUME NEW X, NEW Y
  PROVE  Unlist(IndexOf(Without(bindings, X)), Y) = IndexOf(Without(bindings, X \cup Y))
<1> DEFINE before == IndexOf(Without(bindings, X))
           after  == IndexOf(Without(bindings, X \cup Y))
           Left(w) == before[w] \ {c \in Y : bindings[c] = w}
           kept   == {v \in DOMAIN before : Left(v) # {}}
<1>1. ASSUME NEW w \in DOMAIN before
      PROVE  Left(w) = KeysOf(Without(bindings, X \cup Y), w)
  BY <1>1 DEF IndexOf, Without, KeysOf, Values
<1>2. kept = Values(Without(bindings, X \cup Y))
  <2>1. ASSUME NEW w \in kept
        PROVE  w \in Values(Without(bindings, X \cup Y))
    <3>1. PICK c : c \in KeysOf(Without(bindings, X \cup Y), w)
      BY <1>1, <2>1
    <3>. QED
      BY <3>1 DEF KeysOf, Values
  <2>2. ASSUME NEW w \in Values(Without(bindings, X \cup Y))
        PROVE  w \in kept
    <3>1. PICK c \in DOMAIN Without(bindings, X \cup Y) :
             Without(bindings, X \cup Y)[c] = w
      BY <2>2 DEF Values
    <3>2. w \in DOMAIN before
      BY <3>1 DEF IndexOf, Values, Without
    <3>3. c \in KeysOf(Without(bindings, X \cup Y), w)
      BY <3>1 DEF KeysOf
    <3>. QED
      BY <1>1, <3>2, <3>3
  <2>. QED
    BY <2>1, <2>2
<1>3. Unlist(before, Y) = [w \in kept |-> Left(w)]
  BY DEF Unlist
<1>4. after = [w \in kept |-> KeysOf(Without(bindings, X \cup Y), w)]
  BY <1>2 DEF IndexOf
<1>. QED
  BY <1>1, <1>3, <1>4

\* Setting the list of a window nobody is bound to indexes the new binding.
LEMMA PutIndex ==
  ASSUME NEW b, NEW c, NEW w, c \notin DOMAIN b, w \notin Values(b)
  PROVE  Put(IndexOf(b), w, {c}) = IndexOf(Put(b, c, w))
<1>1. Values(Put(b, c, w)) = Values(b) \cup {w}
  BY DEF Values, Put
<1>2. ASSUME NEW v \in Values(b) \cup {w}
      PROVE  KeysOf(Put(b, c, w), v) = IF v = w THEN {c} ELSE KeysOf(b, v)
  BY <1>2 DEF Values, Put, KeysOf
<1>. QED
  BY <1>1, <1>2 DEF IndexOf, Put

\* Removing a window's key indexes the bindings without its channels.
LEMMA WithoutIndex ==
  ASSUME NEW b, NEW w
  PROVE  Without(IndexOf(b), {w}) = IndexOf(Without(b, KeysOf(b, w)))
<1>1. Values(Without(b, KeysOf(b, w))) = Values(b) \ {w}
  BY DEF Values, Without, KeysOf
<1>2. ASSUME NEW v \in Values(b) \ {w}
      PROVE  KeysOf(Without(b, KeysOf(b, w)), v) = KeysOf(b, v)
  BY <1>2 DEF Values, Without, KeysOf
<1>. QED
  BY <1>1, <1>2 DEF IndexOf, Without

-----------------------------------------------------------------------------
(* The router's inductive invariant.  IndexExact is needed for every       *)
(* operation that looks a window up in the index and then edits the        *)
(* bindings.                                                               *)

IInv == TypeOK /\ IndexExact /\ MetaOnlyForBound

\* The dictionaries of a typed state, as functions.
LEMMA Dicts ==
  ASSUME TypeOK
  PROVE  /\ bindings \in [DOMAIN bindings -> Window] /\ DOMAIN bindings \subseteq Channel
         /\ displayNames \in [DOMAIN displayNames -> Name]
         /\ DOMAIN displayNames \subseteq Window
BY PartialFunctionsDef DEF TypeOK

\* Removing nothing from the bindings leaves them.
LEMMA WithoutNone ==
  ASSUME TypeOK
  PROVE  Without(bindings, {}) = bindings
BY Dicts DEF Without

\* resolve_channels answers exactly the channels bound to the window.
LEMMA ResolveExact ==
  ASSUME IndexExact, NEW w
  PROVE  ResolveChannels(w) = KeysOf(bindings, w)
BY DEF IndexExact, IndexOf, ResolveChannels, Get, Values, KeysOf

\* In a state satisfying the invariant, removing the channels of X from the
\* index is indexing the bindings without them.
LEMMA UnlistExact ==
  ASSUME TypeOK, IndexExact, NEW X
  PROVE  Unlist(reverse, X) = IndexOf(Without(bindings, X))
<1>1. Unlist(IndexOf(Without(bindings, {})), X) = IndexOf(Without(bindings, {} \cup X))
  BY UnlistIndex
<1>2. {} \cup X = X
  OBVIOUS
<1>. QED
  BY <1>1, <1>2, WithoutNone DEF IndexExact

\* The windows Rebind(c, w) discards, read off the bindings.
DiscardedByBind(c, w) ==
  {v \in Values(bindings) : KeysOf(bindings, v) = {c}}
    \cup {v \in {w} : KeysOf(bindings, w) # {}}

NamesAfterBind(c, w, name) ==
  LET names == Without(displayNames, DiscardedByBind(c, w))
  IN  IF name = NoName THEN names ELSE Put(names, w, name)

\* What bind does, with the index eliminated: the channels it evicts are the
\* other holders of w, the windows it discards are the old one if it ends up
\* empty and w itself if somebody was evicted from it.
LEMMA RebindStep ==
  ASSUME TypeOK, IndexExact, NEW c \in Channel, NEW w \in Window,
         NEW withUser, NEW name,
         ~ (c \in DOMAIN bindings /\ bindings[c] = w),
         Rebind(c, w, withUser, name)
  PROVE  /\ bindings' = Put(Without(bindings, KeysOf(bindings, w)), c, w)
         /\ reverse' = IndexOf(bindings')
         /\ channelMeta' = (channelMeta \ KeysOf(bindings, w))
                             \cup (IF withUser THEN {c} ELSE {})
         /\ displayNames' = NamesAfterBind(c, w, name)
         /\ created' = created \ DiscardedByBind(c, w)
         /\ kills' = kills \cup DiscardedByBind(c, w)
         /\ unsaved' = TRUE
         /\ tmux' = tmux
<1> DEFINE stale   == KeysOf(bindings, w)
           old     == {c} \cap DOMAIN bindings
           index1  == Unlist(reverse, old)
           orphan1 == {bindings[d] : d \in old} \ DOMAIN index1
           orphan2 == {v \in Values(bindings) : KeysOf(bindings, v) = {c}}
           index2  == Unlist(index1, stale)
           emptied == {bindings[d] : d \in stale} \ DOMAIN index2
<1>1. c \notin stale
  BY DEF KeysOf
<1>2. index1 = IndexOf(Without(bindings, old))
  BY UnlistExact
<1>3. StaleChannels(index1, w, c) = stale
  <2>1. Get(index1, w, {}) = KeysOf(Without(bindings, old), w)
    BY <1>2 DEF Get, IndexOf, Values, KeysOf
  <2>. QED
    BY <1>1, <2>1 DEF StaleChannels, KeysOf, Without
<1>4. index2 = IndexOf(Without(bindings, old \cup stale))
  BY <1>2, UnlistIndex
<1>5. orphan1 = orphan2
  <2>1. DOMAIN index1 = Values(Without(bindings, old))
    BY <1>2 DEF IndexOf
  <2>. QED
    BY <2>1 DEF Values, KeysOf, Without
<1>6. emptied = {v \in {w} : stale # {}}
  <2>1. w \notin Values(Without(bindings, old \cup stale))
    BY DEF Values, Without, KeysOf
  <2>2. DOMAIN index2 = Values(Without(bindings, old \cup stale))
    BY <1>4 DEF IndexOf
  <2>3. \A d \in stale : bindings[d] = w
    BY DEF KeysOf
  <2>. QED
    BY <2>1, <2>2, <2>3
<1>7. /\ bindings' = Put(Without(bindings, stale), c, w)
      /\ reverse' = Put(index2, w, {c})
      /\ channelMeta' = (channelMeta \ stale) \cup (IF withUser THEN {c} ELSE {})
      /\ LET names == Without(displayNames, orphan1 \cup emptied)
         IN  displayNames' = IF name = NoName THEN names ELSE Put(names, w, name)
      /\ created' = created \ (orphan1 \cup emptied)
      /\ kills' = kills \cup (orphan1 \cup emptied)
      /\ unsaved' = TRUE
      /\ tmux' = tmux
  BY <1>3 DEF Rebind, KillWindows, ScheduleSave
<1>8. reverse' = IndexOf(bindings')
  <2> DEFINE left == Without(bindings, old \cup stale)
  <2>1. c \notin DOMAIN left /\ w \notin Values(left)
    BY DEF Without, Values, KeysOf
  <2>2. Put(IndexOf(left), w, {c}) = IndexOf(Put(left, c, w))
    BY <2>1, PutIndex
  <2>3. Put(left, c, w) = Put(Without(bindings, stale), c, w)
    BY <1>1 DEF Put, Without
  <2>. QED
    BY <1>4, <1>7, <2>2, <2>3
<1>9. orphan1 \cup emptied = DiscardedByBind(c, w)
  BY <1>5, <1>6 DEF DiscardedByBind
<1>. QED
  BY <1>7, <1>8, <1>9 DEF NamesAfterBind

\* What unbind and unbind_window do, with the index eliminated.
LEMMA UnbindStep ==
  ASSUME TypeOK, IndexExact, NEW c \in DOMAIN bindings, Unbind(c)
  PROVE  LET w       == bindings[c]
             discard == {v \in {w} : KeysOf(bindings, w) = {c}}
         IN  /\ bindings' = Without(bindings, {c})
             /\ reverse' = IndexOf(bindings')
             /\ channelMeta' = channelMeta \ {c}
             /\ displayNames' = Without(displayNames, discard)
             /\ created' = created \ discard
             /\ kills' = kills \cup {w}
             /\ unsaved' = TRUE
             /\ tmux' = tmux
<1> DEFINE w       == bindings[c]
           index   == Unlist(reverse, {c})
           discard == {v \in {w} : KeysOf(bindings, w) = {c}}
<1>1. index = IndexOf(Without(bindings, {c}))
  BY UnlistExact
<1>2. {w} \ DOMAIN index = discard
  <2>1. DOMAIN index = Values(Without(bindings, {c}))
    BY <1>1 DEF IndexOf
  <2>. QED
    BY <2>1 DEF Values, KeysOf, Without
<1>3. /\ bindings' = Without(bindings, {c})
      /\ reverse' = index
      /\ channelMeta' = channelMeta \ {c}
      /\ displayNames' = Without(displayNames, {w} \ DOMAIN index)
      /\ created' = created \ ({w} \ DOMAIN index)
      /\ kills' = kills \cup {w}
      /\ unsaved' = TRUE
      /\ tmux' = tmux
  BY DEF Unbind, ForgetChannels, KillWindows, ScheduleSave
<1>. QED
  BY <1>1, <1>2, <1>3

\* What unbind_window does: its channels are those bound to the window.
LEMMA UnbindWindowStep ==
  ASSUME TypeOK, IndexExact, NEW w \in Window, NEW kill \in BOOLEAN, UnbindWindow(w, kill)
  PROVE  /\ bindings' = Without(bindings, KeysOf(bindings, w))
         /\ reverse' = IndexOf(bindings')
         /\ channelMeta' = channelMeta \ KeysOf(bindings, w)
         /\ displayNames' = Without(displayNames, {w})
         /\ created' = created \ {w}
         /\ kills' = kills \cup {v \in {w} : kill}
         /\ unsaved' = TRUE
         /\ tmux' = tmux
<1>1. ResolveChannels(w) = KeysOf(bindings, w)
  BY ResolveExact
<1>2. reverse' = IndexOf(Without(bindings, KeysOf(bindings, w)))
  BY WithoutIndex DEF UnbindWindow, IndexExact
<1>3. kills' = kills \cup {v \in {w} : kill}
  BY DEF UnbindWindow, KillWindows
<1>. QED
  BY <1>1, <1>2, <1>3 DEF UnbindWindow, ForgetChannels, ScheduleSave

-----------------------------------------------------------------------------
(* The router's invariant holds initially and is preserved.                *)

\* from_dict establishes the invariant: it builds the index from the bindings.
LEMMA InitIInv == Init => IInv
<1> SUFFICES ASSUME Init PROVE IInv
  OBVIOUS
<1>1. bindings \in [DOMAIN bindings -> Window] /\ DOMAIN bindings \subseteq Channel
  BY PartialFunctionsDef DEF Init
<1>2. Values(bindings) \subseteq Window
  BY <1>1 DEF Values
<1>3. reverse \in PartialFunctions(Window, (SUBSET Channel) \ {{}})
  BY IndexType DEF Init
<1>4. displayNames \in PartialFunctions(Window, Name)
  BY <1>2 DEF Init, PartialFunctions
<1>. QED
  BY <1>1, <1>2, <1>3, <1>4 DEF Init, IInv, TypeOK, IndexExact, MetaOnlyForBound

\* bind preserves it: however many channels are evicted and windows emptied,
\* the index it patches list by list is the index of the new bindings.
LEMMA RebindIInv ==
  ASSUME IInv, NEW c \in Channel, NEW w \in Window, NEW withUser \in BOOLEAN,
         NEW name \in Name \cup {NoName},
         ~ (c \in DOMAIN bindings /\ bindings[c] = w),
         Rebind(c, w, withUser, name)
  PROVE  IInv'
<1> USE DEF IInv
<1>1. /\ bindings' = Put(Without(bindings, KeysOf(bindings, w)), c, w)
      /\ reverse' = IndexOf(bindings')
      /\ channelMeta' = (channelMeta \ KeysOf(bindings, w))
                          \cup (IF withUser THEN {c} ELSE {})
      /\ displayNames' = NamesAfterBind(c, w, name)
      /\ created' = created \ DiscardedByBind(c, w)
      /\ kills' = kills \cup DiscardedByBind(c, w)
      /\ unsaved' = TRUE
      /\ tmux' = tmux
  BY RebindStep
<1>2. bindings' \in PartialFunctions(Channel, Window)
  BY <1>1, WithoutType, PutType DEF TypeOK
<1>3. reverse' \in PartialFunctions(Window, (SUBSET Channel) \ {{}})
  BY <1>1, <1>2, IndexType
<1>4. displayNames' \in PartialFunctions(Window, Name)
  <2>1. Without(displayNames, DiscardedByBind(c, w)) \in PartialFunctions(Window, Name)
    BY WithoutType DEF TypeOK
  <2>. QED
    BY <1>1, <2>1, PutType DEF NamesAfterBind
<1>5. DiscardedByBind(c, w) \subseteq Window
  BY Dicts DEF Values, DiscardedByBind
<1>6. TypeOK'
  BY <1>1, <1>2, <1>3, <1>4, <1>5 DEF TypeOK
<1>7. MetaOnlyForBound'
  BY <1>1 DEF MetaOnlyForBound, Put, Without
<1>. QED
  BY <1>1, <1>6, <1>7 DEF IndexExact

\* unbind preserves it, for a channel that shares its window and one that does not.
LEMMA UnbindIInv ==
  ASSUME IInv, NEW c \in DOMAIN bindings, Unbind(c)
  PROVE  IInv'
<1> USE DEF IInv
<1> DEFINE w       == bindings[c]
           discard == {v \in {w} : KeysOf(bindings, w) = {c}}
<1>1. /\ bindings' = Without(bindings, {c})
      /\ reverse' = IndexOf(bindings')
      /\ channelMeta' = channelMeta \ {c}
      /\ displayNames' = Without(displayNames, discard)
      /\ created' = created \ discard
      /\ kills' = kills \cup {w}
      /\ unsaved' = TRUE
      /\ tmux' = tmux
  BY UnbindStep
<1>2. bindings' \in PartialFunctions(Channel, Window)
  BY <1>1, WithoutType DEF TypeOK
<1>3. reverse' \in PartialFunctions(Window, (SUBSET Channel) \ {{}})
  BY <1>1, <1>2, IndexType
<1>4. displayNames' \in PartialFunctions(Window, Name)
  BY <1>1, WithoutType DEF TypeOK
<1>5. TypeOK'
  BY <1>1, <1>2, <1>3, <1>4, Dicts DEF TypeOK
<1>6. MetaOnlyForBound'
  BY <1>1 DEF MetaOnlyForBound, Without
<1>. QED
  BY <1>1, <1>5, <1>6 DEF IndexExact

\* unbind_window preserves it, for a window with any number of channels.
LEMMA UnbindWindowIInv ==
  ASSUME IInv, NEW w \in Window, NEW kill \in BOOLEAN, UnbindWindow(w, kill)
  PROVE  IInv'
<1> USE DEF IInv
<1>1. /\ bindings' = Without(bindings, KeysOf(bindings, w))
      /\ reverse' = IndexOf(bindings')
      /\ channelMeta' = channelMeta \ KeysOf(bindings, w)
      /\ displayNames' = Without(displayNames, {w})
      /\ created' = created \ {w}
      /\ kills' = kills \cup {v \in {w} : kill}
      /\ unsaved' = TRUE
      /\ tmux' = tmux
  BY UnbindWindowStep
<1>2. bindings' \in PartialFunctions(Channel, Window)
  BY <1>1, WithoutType DEF TypeOK
<1>3. reverse' \in PartialFunctions(Window, (SUBSET Channel) \ {{}})
  BY <1>1, <1>2, IndexType
<1>4. displayNames' \in PartialFunctions(Window, Name)
  BY <1>1, WithoutType DEF TypeOK
<1>5. TypeOK'
  BY <1>1, <1>2, <1>3, <1>4 DEF TypeOK
<1>6. MetaOnlyForBound'
  BY <1>1 DEF MetaOnlyForBound, Without
<1>. QED
  BY <1>1, <1>5, <1>6 DEF IndexExact

\* The operations on display names touch nothing the index depends on.
LEMMA DisplayNameIInv ==
  ASSUME IInv, UNCHANGED <<bindings, reverse, channelMeta, created, kills, tmux>>,
         displayNames' \in PartialFunctions(Window, Name), unsaved' \in BOOLEAN
  PROVE  IInv'
BY DEF IInv, TypeOK, IndexExact, MetaOnlyForBound

\* Every step of the registry and of its surroundings preserves it.
LEMMA NextIInv == IInv /\ [Next]_vars => IInv'
<1> SUFFICES ASSUME IInv, [Next]_vars PROVE IInv'
  OBVIOUS
<1> USE DEF IInv
<1>0. CASE UNCHANGED vars
  BY <1>0 DEF vars, TypeOK, IndexExact, MetaOnlyForBound
<1>1. ASSUME NEW c \in Channel, NEW w \in Known, NEW withUser \in BOOLEAN,
             NEW name \in Name \cup {NoName}, Bind(c, w, withUser, name)
      PROVE  IInv'
  BY <1>0, <1>1, RebindIInv DEF Bind, Known
<1>2. ASSUME NEW c \in Channel, Unbind(c)
      PROVE  IInv'
  <2>1. CASE c \notin DOMAIN bindings
    BY <1>0, <1>2, <2>1 DEF Unbind
  <2>2. CASE c \in DOMAIN bindings
    BY <1>2, <2>2, UnbindIInv
  <2>. QED
    BY <2>1, <2>2
<1>3. ASSUME NEW w \in Known, NEW kill \in BOOLEAN, UnbindWindow(w, kill)
      PROVE  IInv'
  BY <1>3, UnbindWindowIInv DEF Known
<1>4. ASSUME NEW w \in Known, NEW name \in Name, SetDisplayName(w, name)
      PROVE  IInv'
  <2>1. displayNames' \in PartialFunctions(Window, Name)
    BY <1>4, PutType DEF SetDisplayName, TypeOK, Known
  <2>. QED
    BY <1>4, <2>1, DisplayNameIInv DEF SetDisplayName, ScheduleSave, TypeOK
<1>5. ASSUME NEW listed \in LiveListings, SyncDisplayNames(listed)
      PROVE  IInv'
  <2>1. listed \in PartialFunctions(Window, Name)
    BY DEF LiveListings, PartialFunctions
  <2>2. displayNames' \in PartialFunctions(Window, Name)
    BY <1>5, <2>1, MergeType DEF SyncDisplayNames, TypeOK
  <2>. QED
    BY <1>5, <2>2, DisplayNameIInv DEF SyncDisplayNames, TypeOK
<1>6. ASSUME NEW w \in DOMAIN displayNames, PopDisplayName(w)
      PROVE  IInv'
  <2>1. displayNames' \in PartialFunctions(Window, Name)
    BY <1>6, WithoutType DEF PopDisplayName, TypeOK
  <2>. QED
    BY <1>6, <2>1, DisplayNameIInv DEF PopDisplayName, TypeOK
<1>7. ASSUME NEW w \in Window, CreateWindow(w) \/ RunKill(w) \/ WindowExits(w)
      PROVE  IInv'
  BY <1>7 DEF CreateWindow, RunKill, WindowExits, ScheduleSave, TypeOK, IndexExact,
              MetaOnlyForBound, WindowStatus
<1>8. CASE Save
  BY <1>8 DEF Save, TypeOK, IndexExact, MetaOnlyForBound
<1>. QED
  BY <1>0, <1>1, <1>2, <1>3, <1>4, <1>5, <1>6, <1>7, <1>8 DEF Next

\* Types, exact index and metadata together: the inductive invariant.  Each
\* operation reads the index to find the channels it moves, so the exactness of
\* the index is what makes the other two inductive.
THEOREM RouterInvariant == Spec => []IInv
BY InitIInv, NextIInv, PTL DEF Spec

\* Every variable keeps its type.
THEOREM TypeCorrect == Spec => []TypeOK
BY RouterInvariant, PTL DEF IInv

\* The reverse index is the inverse of the bindings in every reachable state.
THEOREM IndexCorrect == Spec => []IndexExact
BY RouterInvariant, PTL DEF IInv

\* No channel without a binding has metadata.
THEOREM MetaCorrect == Spec => []MetaOnlyForBound
BY RouterInvariant, PTL DEF IInv

-----------------------------------------------------------------------------
(* What a step of the router may never do.                                 *)

\* A step that moves bindings or the index is a rebinding, an unbinding of
\* a bound channel or of a window.
LEMMA MovingSteps ==
  ASSUME TypeOK, [Next]_vars
  PROVE  \/ UNCHANGED <<bindings, reverse, channelMeta>>
         \/ \E c \in Channel, w \in Window, withUser \in BOOLEAN, name \in Name \cup {NoName} :
              /\ ~ (c \in DOMAIN bindings /\ bindings[c] = w)
              /\ Rebind(c, w, withUser, name)
         \/ \E c \in DOMAIN bindings : Unbind(c)
         \/ \E w \in Window, kill \in BOOLEAN : UnbindWindow(w, kill)
<1> USE DEF Known
<1>1. ASSUME NEW c \in Channel, NEW w \in Known, NEW withUser \in BOOLEAN,
             NEW name \in Name \cup {NoName}, Bind(c, w, withUser, name)
      PROVE  \/ UNCHANGED <<bindings, reverse, channelMeta>>
             \/ /\ ~ (c \in DOMAIN bindings /\ bindings[c] = w)
                /\ Rebind(c, w, withUser, name)
  BY <1>1 DEF Bind, vars
<1>2. ASSUME NEW c \in Channel, Unbind(c)
      PROVE  UNCHANGED <<bindings, reverse, channelMeta>> \/ c \in DOMAIN bindings
  BY <1>2 DEF Unbind, vars
<1>3. ASSUME NEW w \in DOMAIN displayNames, PopDisplayName(w)
      PROVE  UNCHANGED <<bindings, reverse, channelMeta>>
  BY <1>3 DEF PopDisplayName
<1>4. CASE UNCHANGED vars
  BY <1>4 DEF vars
<1>5. CASE \/ \E w \in Known, name \in Name : SetDisplayName(w, name)
           \/ \E listed \in LiveListings : SyncDisplayNames(listed)
           \/ \E w \in Window : CreateWindow(w) \/ RunKill(w) \/ WindowExits(w)
           \/ Save
  BY <1>5 DEF SetDisplayName, SyncDisplayNames, CreateWindow, RunKill, WindowExits, Save
<1>. QED
  BY <1>1, <1>2, <1>3, <1>4, <1>5 DEF Next

\* Every change of the bindings, of the metadata or of the markers schedules a
\* save, and every change of a display name but those of sync_display_names and
\* pop_display_name.
THEOREM ChangesSaved == Spec => BindingChangesAreSaved
<1> DEFINE Changed ==
             \/ bindings' # bindings \/ channelMeta' # channelMeta \/ created' # created
             \/ /\ displayNames' # displayNames
                /\ ~\E listed \in LiveListings : SyncDisplayNames(listed)
                /\ ~\E w \in Window : PopDisplayName(w)
<1>1. ASSUME TypeOK, Next
      PROVE  Changed => unsaved'
  <2>1. ASSUME NEW c \in Channel, NEW w \in Known, NEW withUser \in BOOLEAN,
               NEW name \in Name \cup {NoName}, Bind(c, w, withUser, name)
        PROVE  Changed => unsaved'
    BY <2>1 DEF Bind, Rebind, ScheduleSave, vars
  <2>2. ASSUME NEW c \in Channel, Unbind(c)
        PROVE  Changed => unsaved'
    BY <2>2 DEF Unbind, ScheduleSave, vars
  <2>3. ASSUME NEW w \in Known, NEW kill \in BOOLEAN, UnbindWindow(w, kill)
        PROVE  Changed => unsaved'
    BY <2>3 DEF UnbindWindow, ScheduleSave
  <2>4. ASSUME NEW w \in Known, NEW name \in Name, SetDisplayName(w, name)
        PROVE  Changed => unsaved'
    BY <2>4 DEF SetDisplayName, ScheduleSave
  <2>5. ASSUME NEW listed \in LiveListings, SyncDisplayNames(listed)
        PROVE  Changed => unsaved'
    <3>1. UNCHANGED <<bindings, channelMeta, created>>
      BY <2>5 DEF SyncDisplayNames
    <3>. QED
      BY <2>5, <3>1
  <2>6. ASSUME NEW w \in DOMAIN displayNames, PopDisplayName(w)
        PROVE  Changed => unsaved'
    <3>1. UNCHANGED <<bindings, channelMeta, created>> /\ w \in Window
      BY <1>1, <2>6, Dicts DEF PopDisplayName
    <3>. QED
      BY <2>6, <3>1
  <2>7. ASSUME NEW w \in Window, CreateWindow(w) \/ RunKill(w) \/ WindowExits(w)
        PROVE  Changed => unsaved'
    BY <2>7 DEF CreateWindow, RunKill, WindowExits, ScheduleSave
  <2>8. CASE Save
    BY <2>8 DEF Save
  <2>. QED
    BY <1>1, <2>1, <2>2, <2>3, <2>4, <2>5, <2>6, <2>7, <2>8 DEF Next
<1>2. IInv /\ [Next]_vars => [Changed => unsaved']_vars
  BY <1>1 DEF IInv
<1>. QED
  BY <1>2, RouterInvariant, PTL DEF Spec, BindingChangesAreSaved

\* No call makes two channels share a window.
THEOREM NoSharing == Spec => SharingNeverArises
<1>1. ASSUME IInv, [Next]_vars, OneToOne
      PROVE  OneToOne'
  <2>1. CASE UNCHANGED <<bindings, reverse, channelMeta>>
    BY <1>1, <2>1 DEF OneToOne
  <2>2. ASSUME NEW X, bindings' = Without(bindings, X)
        PROVE  OneToOne'
    BY <1>1, <2>2 DEF OneToOne, Without
  <2>3. ASSUME NEW c, NEW w,
               bindings' = Put(Without(bindings, KeysOf(bindings, w)), c, w)
        PROVE  OneToOne'
    BY <1>1, <2>3 DEF OneToOne, Without, Put, KeysOf
  <2>. QED
    BY <1>1, <2>1, <2>2, <2>3, MovingSteps, RebindStep, UnbindStep, UnbindWindowStep
       DEF IInv
<1>. QED
  BY <1>1, RouterInvariant, PTL DEF Spec, SharingNeverArises

\* A window that loses its last channel is discarded in the same step.
THEOREM OrphansDiscarded == Spec => OrphanIsDiscarded
<1> DEFINE Discarded(w) ==
      /\ w \notin created'
      /\ w \notin DOMAIN displayNames'
      /\ w \in kills' \/ UnbindWindow(w, FALSE)
<1>1. ASSUME IInv, IInv', [Next]_vars, NEW w \in Window,
             IsWindowBound(w), ~IsWindowBound(w)'
      PROVE  Discarded(w)
  <2>1. KeysOf(bindings, w) # {}
    BY <1>1, ResolveExact DEF IInv, IsWindowBound
  <2>2. KeysOf(bindings', w) = {}
    <3>1. ResolveChannels(w)' = {}
      BY <1>1 DEF IsWindowBound
    <3>2. reverse' = IndexOf(bindings')
      BY <1>1 DEF IInv, IndexExact
    <3>. QED
      BY <3>1, <3>2 DEF ResolveChannels, Get, IndexOf, Values, KeysOf
  <2>3. CASE UNCHANGED <<bindings, reverse, channelMeta>>
    BY <2>1, <2>2, <2>3
  <2>4. ASSUME NEW c \in Channel, NEW v \in Window, NEW withUser \in BOOLEAN,
               NEW name \in Name \cup {NoName},
               ~ (c \in DOMAIN bindings /\ bindings[c] = v),
               Rebind(c, v, withUser, name)
        PROVE  Discarded(w)
    <3>1. /\ bindings' = Put(Without(bindings, KeysOf(bindings, v)), c, v)
          /\ displayNames' = NamesAfterBind(c, v, name)
          /\ created' = created \ DiscardedByBind(c, v)
          /\ kills' = kills \cup DiscardedByBind(c, v)
      BY <1>1, <2>4, RebindStep DEF IInv
    <3>2. w # v
      BY <2>2, <3>1 DEF KeysOf, Put
    <3>3. KeysOf(bindings, w) = {c}
      BY <2>1, <2>2, <3>1, <3>2 DEF KeysOf, Put, Without
    <3>4. w \in DiscardedByBind(c, v)
      BY <3>3 DEF DiscardedByBind, Values, KeysOf
    <3>5. w \notin DOMAIN displayNames'
      BY <3>1, <3>2, <3>4 DEF NamesAfterBind, Without, Put
    <3>. QED
      BY <3>1, <3>4, <3>5
  <2>5. ASSUME NEW c \in DOMAIN bindings, Unbind(c)
        PROVE  Discarded(w)
    <3>1. /\ bindings' = Without(bindings, {c})
          /\ displayNames' =
               Without(displayNames, {v \in {bindings[c]} : KeysOf(bindings, bindings[c]) = {c}})
          /\ created' =
               created \ {v \in {bindings[c]} : KeysOf(bindings, bindings[c]) = {c}}
          /\ kills' = kills \cup {bindings[c]}
      BY <1>1, <2>5, UnbindStep DEF IInv
    <3>2. w = bindings[c] /\ KeysOf(bindings, w) = {c}
      BY <2>1, <2>2, <3>1 DEF KeysOf, Without
    <3>. QED
      BY <3>1, <3>2 DEF Without
  <2>6. ASSUME NEW v \in Window, NEW kill \in BOOLEAN, UnbindWindow(v, kill)
        PROVE  Discarded(w)
    <3>1. /\ bindings' = Without(bindings, KeysOf(bindings, v))
          /\ displayNames' = Without(displayNames, {v})
          /\ created' = created \ {v}
          /\ kills' = kills \cup {u \in {v} : kill}
      BY <1>1, <2>6, UnbindWindowStep DEF IInv
    <3>2. w = v
      BY <2>1, <2>2, <3>1 DEF KeysOf, Without
    <3>. QED
      BY <2>6, <3>1, <3>2 DEF Without
  <2>. QED
    BY <1>1, <2>3, <2>4, <2>5, <2>6, MovingSteps DEF IInv
<1>2. ASSUME IInv, IInv', [Next]_vars
      PROVE  \A w \in Window :
               IsWindowBound(w) /\ ~IsWindowBound(w)' =>
                 /\ w \notin created'
                 /\ w \notin DOMAIN displayNames'
                 /\ w \in kills' \/ UnbindWindow(w, FALSE)
  BY <1>1, <1>2
<1>. QED
  BY <1>2, RouterInvariant, PTL DEF Spec, OrphanIsDiscarded

-----------------------------------------------------------------------------
(* The router implements the abstract routing table.                       *)

\* What from_dict loads is an initial state of the routing table.
LEMMA InitRouted == Init => Routed!Init
BY DEF Init, Routed!Init, PartialFunctions, Routed!PartialFunctions

\* A step of the registry assigns, releases or retires in the routing table,
\* or moves nobody.
LEMMA StepRouted ==
  ASSUME IInv, [Next]_vars
  PROVE  [Routed!Next]_bindings
<1> USE DEF Routed!Next, Routed!Assign, Routed!Release, Routed!Retire,
            Routed!Without, Routed!Put, Routed!KeysOf, Without, Put, KeysOf
<1>1. ASSUME NEW c \in Channel, NEW w \in Window, NEW withUser \in BOOLEAN,
             NEW name \in Name \cup {NoName},
             ~ (c \in DOMAIN bindings /\ bindings[c] = w),
             Rebind(c, w, withUser, name)
      PROVE  Routed!Next
  BY <1>1, RebindStep DEF IInv
<1>2. ASSUME NEW c \in DOMAIN bindings, Unbind(c)
      PROVE  Routed!Next
  BY <1>2, UnbindStep, Dicts DEF IInv
<1>3. ASSUME NEW w \in Window, NEW kill \in BOOLEAN, UnbindWindow(w, kill)
      PROVE  Routed!Next
  BY <1>3, UnbindWindowStep DEF IInv
<1>. QED
  BY <1>1, <1>2, <1>3, MovingSteps DEF IInv

\* Every behaviour of the registry is one of the routing table.
THEOREM ImplementsRouting == Spec => RoutingSpec
BY InitRouted, StepRouted, RouterInvariant, PTL DEF Spec, RoutingSpec, Routed!Spec

-----------------------------------------------------------------------------
(* THE GATEWAY.  The inductive invariant.                                  *)

\* What the gateway knows when it does not serve: nothing runs, and a process that
\* has loaded the file has changed nothing yet.
PhasesOK ==
  /\ process # "up" =>
       /\ kills = {} /\ ~unsaved /\ turn = NoRequest /\ channelMeta = {}
       /\ request = [r \in Request |-> Idle] /\ took = [r \in Request |-> {}]
  /\ process = "starting" => Snapshot = disk

\* No id is known before tmux has given it out; the empty id is never given out.
KnownOK ==
  /\ Values(bindings) \cup DOMAIN windowStates \cup Recorded(disk) \subseteq Known
  /\ Blank \in Window => tmux[Blank] = "gone"

\* What a call holds at each stage: a window id tmux gave out or the empty one, a
\* channel to bind, no live window unless it created it, is killing it or tmux
\* refused.
CallOK(r) ==
  /\ request[r].window \in Known \cup {Blank} /\ request[r].rest \subseteq Known
  /\ request[r].at \in {"created", "bound", "killing"} => request[r].window \in Window
  /\ request[r].at = "bound" => request[r].channel \in Channel
  /\ request[r].at \in {"idle", "creating", "closing"} =>
       request[r].window \notin Live \ refused

\* A window just created is its call's alone until it is bound or recorded.
FreshOK ==
  \A r \in Request : request[r].at = "created" /\ request[r].window # Blank =>
    /\ request[r].window \notin Values(bindings) \cup DOMAIN windowStates
    /\ \A q \in Request : request[r].window \notin took[q]
    /\ \A q \in Request \ {r} :
         request[r].window \notin request[q].rest \cup {request[q].window}

\* What a close has come to of the windows it took is unbound, and dead unless
\* tmux refused or has not yet answered.
CloseOK(r) ==
  /\ took[r] \subseteq Known
  /\ request[r].at \notin {"closing", "killing"} => took[r] = {}
  /\ \A w \in took[r] \ request[r].rest :
       /\ w \notin Values(bindings) \ {Blank}
       /\ w \in Live =>
            \/ w \in refused
            \/ request[r].at = "killing" /\ request[r].window = w

TookOK == \A r \in Request : CloseOK(r)

\* No live window is forgotten but those, in any phase of the process.
NoneLost ==
  Live \subseteq refused \cup strays \cup
    (IF process = "down" THEN Recorded(disk)
     ELSE Values(bindings) \cup DOMAIN windowStates \cup kills \cup InFlight)

GatewayInv ==
  /\ GatewayTypeOK /\ IInv /\ PhasesOK /\ KnownOK
  /\ \A r \in Request : CallOK(r)
  /\ FreshOK /\ TookOK /\ NoneLost /\ SavedIsCurrent

-----------------------------------------------------------------------------
(* The records of windows and the calls.                                   *)

\* What a window's record may say, and what a call may be.
Records == PartialFunctions(Window, Channel \cup {NoChannel})
Calls == [at : Stages, channel : Channel \cup {NoChannel},
          window : Window \cup {Blank}, rest : SUBSET Window]

\* Call r goes on to a stage; no other call moves.
Becomes(r, at, channel, window, rest) ==
  /\ request' \in [Request -> Calls]
  /\ request'[r] = [at |-> at, channel |-> channel, window |-> window, rest |-> rest]
  /\ \A q \in Request \ {r} : request'[q] = request[q]

\* A call given a record for its next stage.
LEMMA Moved ==
  ASSUME GatewayTypeOK, NEW r \in Request, NEW at \in Stages,
         NEW channel \in Channel \cup {NoChannel}, NEW window \in Window \cup {Blank},
         NEW rest \in SUBSET Window,
         request' = [request EXCEPT ![r] = [at |-> at, channel |-> channel,
                                            window |-> window, rest |-> rest]]
  PROVE  Becomes(r, at, channel, window, rest)
<1> DEFINE j == [at |-> at, channel |-> channel, window |-> window, rest |-> rest]
<1>1. request \in [Request -> Calls]
  BY DEF GatewayTypeOK, Calls
<1>2. j \in Calls
  BY DEF Calls
<1> HIDE DEF j
<1>3. /\ request' \in [Request -> Calls] /\ request'[r] = j
      /\ \A q \in Request \ {r} : request'[q] = request[q]
  BY <1>1, <1>2 DEF j
<1>. QED
  BY <1>3 DEF Becomes, j

\* The fields of a call.
LEMMA Fields ==
  ASSUME GatewayTypeOK, NEW r \in Request
  PROVE  /\ request[r].at \in Stages /\ request[r].channel \in Channel \cup {NoChannel}
         /\ request[r].window \in Window \cup {Blank} /\ request[r].rest \in SUBSET Window
         /\ request[r] = [at |-> request[r].at, channel |-> request[r].channel,
                          window |-> request[r].window, rest |-> request[r].rest]
BY DEF GatewayTypeOK

\* A call that only goes to another stage.
LEMMA Replaced ==
  ASSUME GatewayTypeOK, NEW r \in Request, NEW at
  PROVE  [request[r] EXCEPT !.at = at]
           = [at |-> at, channel |-> request[r].channel,
              window |-> request[r].window, rest |-> request[r].rest]
<1> SUFFICES ASSUME NEW j, j = request[r]
             PROVE  [j EXCEPT !.at = at]
                      = [at |-> at, channel |-> j.channel, window |-> j.window, rest |-> j.rest]
  OBVIOUS
<1>1. j = [at |-> j.at, channel |-> j.channel, window |-> j.window, rest |-> j.rest]
  BY Fields
<1>. QED
  BY <1>1

\* Which stage each step of a call takes it to, with what.
LEMMA CallSteps ==
  ASSUME GatewayTypeOK, NEW r \in Request, CallOK(r)
  PROVE  /\ \A c \in Channel \cup {NoChannel} :
              AskCreate(r, c) => Becomes(r, "creating", c, Blank, {})
         /\ \A w \in Window :
              TmuxCreates(r, w) => Becomes(r, "created", request[r].channel, w, {})
         /\ \A opened : TmuxFails(r, opened) =>
              Blank \in Window /\ Becomes(r, "created", request[r].channel, Blank, {})
         /\ \A named \in BOOLEAN : BindCreated(r, named) =>
              Becomes(r, "bound", request[r].channel, request[r].window, request[r].rest)
         /\ RecordWindow(r) \/ RecordCliWindow(r) => Becomes(r, "idle", NoChannel, Blank, {})
         /\ \A c \in Channel :
              AskClose(r, c) => Becomes(r, "closing", c, Blank, WindowsOf(c))
         /\ \A w \in Window : KillNext(r, w) =>
              Becomes(r, "killing", request[r].channel, w, request[r].rest \ {w})
         /\ TmuxKills(r) =>
              \/ Becomes(r, "idle", NoChannel, Blank, {})
              \/ Becomes(r, "closing", request[r].channel, request[r].window, request[r].rest)
<1> DEFINE c0 == request[r].channel
           w0 == request[r].window
           rest0 == request[r].rest
<1>1. /\ c0 \in Channel \cup {NoChannel} /\ w0 \in Window \cup {Blank}
      /\ rest0 \in SUBSET Window
      /\ {"idle", "creating", "created", "bound", "closing", "killing"} = Stages
  BY Fields DEF Stages
<1>2. Idle = [at |-> "idle", channel |-> NoChannel, window |-> Blank, rest |-> {}]
  BY DEF Idle
<1>3. ASSUME NEW c \in Channel \cup {NoChannel}, AskCreate(r, c)
      PROVE  Becomes(r, "creating", c, Blank, {})
  <2>1. request' = [request EXCEPT ![r] = [at |-> "creating", channel |-> c,
                                           window |-> Blank, rest |-> {}]]
    BY <1>3 DEF AskCreate
  <2>. QED
    BY <1>1, <2>1, Moved
<1>4. ASSUME NEW w \in Window, TmuxCreates(r, w)
      PROVE  Becomes(r, "created", c0, w, {})
  <2>1. request' = [request EXCEPT ![r] = [at |-> "created", channel |-> c0, window |-> w,
                                           rest |-> {}]]
    BY <1>4 DEF TmuxCreates, Answer
  <2>. QED
    BY <1>1, <2>1, Moved
<1>11. ASSUME NEW opened, TmuxFails(r, opened)
       PROVE  Blank \in Window /\ Becomes(r, "created", c0, Blank, {})
  <2>1. request' = [request EXCEPT ![r] = [at |-> "created", channel |-> c0,
                                           window |-> Blank, rest |-> {}]]
    BY <1>11 DEF TmuxFails, Answer
  <2>2. failures \in 0..MaxFailures /\ failures < MaxFailures
    BY <1>11 DEF TmuxFails, GatewayTypeOK
  <2>3. Blank \in Window
    BY <2>2, GatewayAssumption
  <2>. QED
    BY <1>1, <2>1, <2>3, Moved
<1>5. ASSUME NEW named \in BOOLEAN, BindCreated(r, named)
      PROVE  Becomes(r, "bound", c0, w0, rest0)
  <2>1. request' = [request EXCEPT ![r] = [at |-> "bound", channel |-> c0, window |-> w0,
                                           rest |-> rest0]]
    BY <1>5, Replaced DEF BindCreated
  <2>. QED
    BY <1>1, <2>1, Moved
<1>6. ASSUME request' = [request EXCEPT ![r] = Idle]
      PROVE  Becomes(r, "idle", NoChannel, Blank, {})
  BY <1>1, <1>2, <1>6, Moved
<1>7. RecordWindow(r) \/ RecordCliWindow(r) => Becomes(r, "idle", NoChannel, Blank, {})
  BY <1>6 DEF RecordWindow, RecordCliWindow
<1>8. ASSUME NEW c \in Channel, AskClose(r, c)
      PROVE  Becomes(r, "closing", c, Blank, WindowsOf(c))
  <2>1. WindowsOf(c) \subseteq Window
    BY PartialFunctionsDef DEF GatewayTypeOK, TypeOK, WindowsOf, KeysOf
  <2>2. request' = [request EXCEPT ![r] = [at |-> "closing", channel |-> c, window |-> Blank,
                                           rest |-> WindowsOf(c)]]
    BY <1>8 DEF AskClose
  <2>. QED
    BY <1>1, <2>1, <2>2, Moved
<1>9. ASSUME NEW w \in Window, KillNext(r, w)
      PROVE  Becomes(r, "killing", c0, w, rest0 \ {w})
  <2>1. request' = [request EXCEPT ![r] = [at |-> "killing", channel |-> c0, window |-> w,
                                           rest |-> rest0 \ {w}]]
    BY <1>9 DEF KillNext
  <2>. QED
    BY <1>1, <2>1, Moved
<1>10. ASSUME TmuxKills(r)
       PROVE  \/ Becomes(r, "idle", NoChannel, Blank, {})
              \/ Becomes(r, "closing", c0, w0, rest0)
  <2>1. request' = [request EXCEPT ![r] = IF @.rest = {} THEN Idle
                                          ELSE [@ EXCEPT !.at = "closing"]]
    BY <1>10 DEF TmuxKills
  <2>2. CASE rest0 = {}
    BY <1>6, <2>1, <2>2
  <2>3. CASE rest0 # {}
    <3>1. request' = [request EXCEPT ![r] = [at |-> "closing", channel |-> c0,
                                             window |-> w0, rest |-> rest0]]
      BY <2>1, <2>3, Replaced
    <3>. QED
      BY <1>1, <3>1, Moved
  <2>. QED
    BY <2>2, <2>3
<1>. QED
  BY <1>3, <1>4, <1>5, <1>7, <1>8, <1>9, <1>10, <1>11

-----------------------------------------------------------------------------
(* What the router's operations do to the windows.                         *)

\* bind: a window that loses its last channel is being killed, and only the bound
\* one is new.
LEMMA BindMoves ==
  ASSUME IInv, NEW c \in Channel, NEW w \in Window, Bind(c, w, FALSE, NoName)
  PROVE  /\ tmux' = tmux /\ kills \subseteq kills'
         /\ Values(bindings') \subseteq Values(bindings) \cup {w}
         /\ Values(bindings) \subseteq Values(bindings') \cup kills'
         /\ UNCHANGED vars \/ unsaved'
<1>1. CASE c \in DOMAIN bindings /\ bindings[c] = w
  BY <1>1 DEF Bind, vars
<1>2. CASE ~(c \in DOMAIN bindings /\ bindings[c] = w)
  <2>1. Rebind(c, w, FALSE, NoName)
    BY <1>2 DEF Bind
  <2>2. /\ bindings' = Put(Without(bindings, KeysOf(bindings, w)), c, w)
        /\ kills' = kills \cup DiscardedByBind(c, w)
        /\ unsaved' = TRUE /\ tmux' = tmux
    BY <1>2, <2>1, RebindStep DEF IInv
  <2>3. Values(bindings') \subseteq Values(bindings) \cup {w}
    BY <2>2 DEF Values, Put, Without
  <2>4. ASSUME NEW v \in Values(bindings)
        PROVE  v \in Values(bindings') \cup kills'
    <3>1. PICK d \in DOMAIN bindings : bindings[d] = v
      BY DEF Values
    <3>2. CASE v = w
      BY <2>2, <3>2 DEF Values, Put, Without
    <3>3. CASE v # w /\ KeysOf(bindings, v) = {c}
      BY <2>2, <3>3 DEF DiscardedByBind
    <3>4. CASE v # w /\ KeysOf(bindings, v) # {c}
      <4>1. PICK e \in DOMAIN bindings : bindings[e] = v /\ e # c
        BY <3>1, <3>4 DEF KeysOf
      <4>2. e \in DOMAIN bindings' /\ bindings'[e] = v
        BY <2>2, <3>4, <4>1 DEF Put, Without, KeysOf
      <4>. QED
        BY <4>2 DEF Values
    <3>. QED
      BY <3>2, <3>3, <3>4
  <2>. QED
    BY <2>2, <2>3, <2>4
<1>. QED
  BY <1>1, <1>2

\* unbind: the window, if it loses its last channel, is being killed.
LEMMA UnbindMoves ==
  ASSUME IInv, NEW c \in Channel, Unbind(c)
  PROVE  /\ tmux' = tmux /\ kills \subseteq kills'
         /\ Values(bindings') \subseteq Values(bindings)
         /\ Values(bindings) \subseteq Values(bindings') \cup kills'
         /\ UNCHANGED vars \/ unsaved'
<1>1. CASE c \notin DOMAIN bindings
  BY <1>1 DEF Unbind, vars
<1>2. CASE c \in DOMAIN bindings
  <2>1. /\ bindings' = Without(bindings, {c}) /\ kills' = kills \cup {bindings[c]}
        /\ unsaved' = TRUE /\ tmux' = tmux
    BY <1>2, UnbindStep DEF IInv
  <2>. QED
    BY <2>1 DEF Values, Without
<1>. QED
  BY <1>1, <1>2

\* unbind_window: that window is bound no more, every other is as before.
LEMMA ForgetMoves ==
  ASSUME IInv, NEW w \in Window, ForgetWindow(w)
  PROVE  /\ tmux' = tmux /\ kills' = kills /\ unsaved'
         /\ Values(bindings') = Values(bindings) \ {w}
<1>1. /\ bindings' = Without(bindings, KeysOf(bindings, w))
      /\ kills' = kills \cup {v \in {w} : FALSE}
      /\ unsaved' = TRUE /\ tmux' = tmux
  BY UnbindWindowStep DEF IInv, ForgetWindow
<1>2. Values(bindings') = Values(bindings) \ {w}
  BY <1>1 DEF Values, Without, KeysOf
<1>. QED
  BY <1>1, <1>2

\* No dictionary, of any type.
LEMMA Empty ==
  /\ \A S, T : <<>> \in PartialFunctions(S, T)
  /\ DOMAIN <<>> = {} /\ Values(<<>>) = {} /\ IndexOf(<<>>) = <<>>
<1>1. DOMAIN <<>> = {} /\ <<>> = [x \in {} |-> x]
  OBVIOUS
<1>2. ASSUME NEW S, NEW T
      PROVE  <<>> \in PartialFunctions(S, T)
  <2>1. <<>> \in [DOMAIN <<>> -> T] /\ DOMAIN <<>> \subseteq S
    BY <1>1
  <2>. QED
    BY <2>1, PartialFunctionsDef
<1>3. Values(<<>>) = {}
  BY <1>1 DEF Values
<1>4. IndexOf(<<>>) = <<>>
  BY <1>1, <1>3 DEF IndexOf
<1>. QED
  BY <1>1, <1>2, <1>3, <1>4

-----------------------------------------------------------------------------
(* Startup.                                                                *)

\* _startup_cleanup: the bindings to listed windows stay, exactly their windows
\* are recorded next to those that were and are bound or alive, and marked.
LEMMA CleanupStep ==
  ASSUME GatewayTypeOK, IInv, NEW listed \in SUBSET Window, NEW killed \in SUBSET Orphans,
         StartupCleanup(listed, killed)
  PROVE  LET alive == Values(bindings) \cap listed
             dead  == Values(bindings) \ listed
         IN  /\ IInv' /\ windowStates' \in Records
             /\ Values(bindings') = alive
             /\ DOMAIN windowStates' = alive \cup (DOMAIN windowStates \ (dead \cup Orphans))
             /\ created' = ({w \in created \cap listed : w \in DOMAIN windowStates} \ Orphans)
                             \cup alive
             /\ tmux' = [w \in Window |-> IF w \in killed \cap Live THEN "gone" ELSE tmux[w]]
             /\ refused' = refused \cup ((Orphans \ killed) \cap Live)
             /\ strays' = strays \cup (dead \cap Live)
             /\ DOMAIN bindings' \subseteq DOMAIN bindings
             /\ \A c \in DOMAIN bindings' : bindings'[c] = bindings[c]
<1> DEFINE dead  == Values(bindings) \ listed
           kept  == {c \in DOMAIN bindings : bindings[c] \in listed}
           alive == {bindings[c] : c \in kept}
           Owner(w) == CHOOSE c \in kept : bindings[c] = w
           Record(w) == IF Get(windowStates, w, NoChannel) = NoChannel
                          THEN Owner(w) ELSE windowStates[w]
           recorded == alive \cup (DOMAIN windowStates \ (dead \cup Orphans))
<1>1. /\ bindings \in [DOMAIN bindings -> Window] /\ DOMAIN bindings \subseteq Channel
      /\ windowStates \in [DOMAIN windowStates -> Channel \cup {NoChannel}]
      /\ DOMAIN windowStates \subseteq Window
      /\ reverse = IndexOf(bindings) /\ channelMeta \subseteq DOMAIN bindings
      /\ displayNames \in PartialFunctions(Window, Name)
      /\ created \subseteq Window /\ kills \subseteq Window /\ tmux \in [Window -> WindowStatus]
  BY PartialFunctionsDef DEF GatewayTypeOK, TypeOK, IInv, IndexExact, MetaOnlyForBound
<1>2. /\ bindings' = [c \in kept |-> bindings[c]]
      /\ reverse' = Without(reverse, dead)
      /\ displayNames' = Without(displayNames, dead)
      /\ channelMeta' = channelMeta \cap kept
      /\ windowStates' = [w \in recorded |-> IF w \in alive THEN Record(w) ELSE windowStates[w]]
      /\ created' = ({w \in created \cap listed : w \in DOMAIN windowStates} \ Orphans) \cup alive
      /\ KillOrphans(killed)
      /\ unsaved' = (Recorded(disk) \cup created # {})
      /\ refused' = refused \cup ((Orphans \ killed) \cap Live)
      /\ strays' = strays \cup (dead \cap Live)
      /\ kills' = kills
  BY DEF StartupCleanup
<1>3. alive = Values(bindings) \cap listed /\ alive \subseteq Window
  BY <1>1 DEF Values
<1>4. /\ DOMAIN bindings' = kept /\ bindings' \in [kept -> Window]
      /\ \A c \in kept : bindings'[c] = bindings[c]
  BY <1>1, <1>2
<1>5. Values(bindings') = alive
  BY <1>4 DEF Values
<1>6. reverse' = IndexOf(bindings')
  <2>1. Without(IndexOf(bindings), dead) = [w \in alive |-> KeysOf(bindings, w)]
    BY <1>3 DEF Without, IndexOf
  <2>2. \A w \in alive : KeysOf(bindings, w) = KeysOf(bindings', w)
    BY <1>3, <1>4 DEF KeysOf
  <2>3. IndexOf(bindings') = [w \in alive |-> KeysOf(bindings, w)]
    BY <1>5, <2>2 DEF IndexOf
  <2>. QED
    BY <1>1, <1>2, <2>1, <2>3
<1>7. windowStates' \in Records /\ DOMAIN windowStates' = recorded
  <2>1. DOMAIN windowStates' = recorded /\ recorded \subseteq Window
    BY <1>1, <1>2, <1>3
  <2>2. ASSUME NEW w \in alive
        PROVE  Record(w) \in Channel \cup {NoChannel}
    <3>1. Owner(w) \in kept
      <4>1. \E c \in kept : bindings[c] = w
        OBVIOUS
      <4>. QED
        BY <4>1
    <3>2. Get(windowStates, w, NoChannel) # NoChannel =>
            windowStates[w] \in Channel \cup {NoChannel}
      BY <1>1 DEF Get
    <3>. QED
      BY <1>1, <3>1, <3>2
  <2> HIDE DEF Record
  <2>3. \A w \in recorded \ alive : windowStates[w] \in Channel \cup {NoChannel}
    BY <1>1
  <2>4. windowStates' \in [recorded -> Channel \cup {NoChannel}]
    BY <1>2, <2>2, <2>3
  <2>. QED
    BY <2>1, <2>4, PartialFunctionsDef DEF Records
<1>8. bindings' \in PartialFunctions(Channel, Window)
  BY <1>1, <1>4, PartialFunctionsDef
<1>9. /\ reverse' \in PartialFunctions(Window, (SUBSET Channel) \ {{}})
      /\ displayNames' \in PartialFunctions(Window, Name)
  BY <1>1, <1>2, <1>6, <1>8, IndexType, WithoutType
<1>10. /\ tmux' = [w \in Window |-> IF w \in killed \cap Live THEN "gone" ELSE tmux[w]]
       /\ tmux' \in [Window -> WindowStatus]
  BY <1>1, <1>2 DEF KillOrphans, WindowStatus
<1>11. /\ channelMeta' \subseteq Channel /\ channelMeta' \subseteq DOMAIN bindings'
       /\ created' \subseteq Window /\ kills' \subseteq Window /\ unsaved' \in BOOLEAN
  BY <1>1, <1>2, <1>3, <1>4
<1>12. IInv'
  BY <1>6, <1>8, <1>9, <1>10, <1>11 DEF IInv, TypeOK, IndexExact, MetaOnlyForBound
<1>. QED
  BY <1>2, <1>3, <1>4, <1>5, <1>7, <1>10, <1>12

-----------------------------------------------------------------------------
(* The invariant is kept: the router and the types.                        *)

\* A window a call creates or holds is one the router may be asked about.
LEMMA HeldIsKnown ==
  ASSUME KnownOK, NEW r \in Request, CallOK(r), request[r].window \in Window
  PROVE  request[r].window \in Known
BY DEF KnownOK, CallOK, Known

\* The end of the process empties the router.
LEMMA EndRouter ==
  ASSUME GatewayTypeOK, NEW due, ProcessEnds(due)
  PROVE  IInv'
<1>1. /\ bindings' = <<>> /\ reverse' = <<>> /\ displayNames' = <<>> /\ channelMeta' = {}
      /\ created' = {} /\ kills' = {} /\ unsaved' = FALSE /\ tmux' = tmux
  BY DEF ProcessEnds
<1>2. /\ bindings' \in PartialFunctions(Channel, Window)
      /\ reverse' \in PartialFunctions(Window, (SUBSET Channel) \ {{}})
      /\ displayNames' \in PartialFunctions(Window, Name)
  BY <1>1, Empty
<1>3. reverse' = IndexOf(bindings')
  BY <1>1, Empty
<1>4. tmux' \in [Window -> WindowStatus]
  BY <1>1 DEF GatewayTypeOK, TypeOK
<1>. QED
  BY <1>1, <1>2, <1>3, <1>4 DEF IInv, TypeOK, IndexExact, MetaOnlyForBound

\* _load_state rebuilds the index of what it loads.
LEMMA LoadRouter ==
  ASSUME GatewayTypeOK, PhasesOK, Load
  PROVE  IInv'
<1>1. disk \in State
  BY DEF GatewayTypeOK
<1>2. /\ bindings' = disk.bindings /\ bindings' \in PartialFunctions(Channel, Window)
      /\ created' \subseteq Window
  BY <1>1 DEF Load, State
<1>3. reverse' = IndexOf(bindings')
  BY <1>2 DEF Load
<1>4. reverse' \in PartialFunctions(Window, (SUBSET Channel) \ {{}})
  BY <1>2, <1>3, IndexType
<1>5. channelMeta' = {} /\ UNCHANGED <<displayNames, kills, tmux, unsaved>>
  BY DEF Load, PhasesOK
<1>. QED
  BY <1>2, <1>3, <1>4, <1>5 DEF GatewayTypeOK, IInv, TypeOK, IndexExact, MetaOnlyForBound

\* Every step keeps the router's invariant.
LEMMA NextRouter ==
  ASSUME GatewayTypeOK, IInv, PhasesOK, KnownOK, \A r \in Request : CallOK(r),
         [GatewayNext]_allVars
  PROVE  IInv'
<1>1. [Next]_vars => IInv'
  BY NextIInv
<1>2. ASSUME NEW r \in Request, NEW w \in Window, TmuxCreates(r, w)
      PROVE  IInv'
  <2>1. /\ UNCHANGED <<bindings, reverse, displayNames, channelMeta, created, kills, unsaved>>
        /\ tmux' = tmux \/ tmux' = [tmux EXCEPT ![w] = "live"]
    BY <1>2 DEF TmuxCreates, registry
  <2>2. tmux \in [Window -> WindowStatus]
    BY DEF IInv, TypeOK
  <2>3. tmux' \in [Window -> WindowStatus]
    BY <2>1, <2>2 DEF WindowStatus
  <2>. QED
    BY <2>1, <2>3 DEF IInv, TypeOK, IndexExact, MetaOnlyForBound
<1>3. ASSUME NEW r \in Request, TmuxKills(r)
      PROVE  IInv'
  <2>1. /\ UNCHANGED <<bindings, reverse, displayNames, channelMeta, created, kills, unsaved>>
        /\ tmux' \in {tmux, [tmux EXCEPT ![request[r].window] = "gone"]}
    BY <1>3 DEF TmuxKills, registry
  <2>2. tmux \in [Window -> WindowStatus]
    BY DEF IInv, TypeOK
  <2>3. tmux' \in [Window -> WindowStatus]
    BY <2>1, <2>2 DEF WindowStatus
  <2>. QED
    BY <2>1, <2>3 DEF IInv, TypeOK, IndexExact, MetaOnlyForBound
<1>13. ASSUME NEW r \in Request, NEW opened, TmuxFails(r, opened)
       PROVE  IInv'
  <2>1. /\ UNCHANGED <<bindings, reverse, displayNames, channelMeta, created, kills, unsaved>>
        /\ tmux' = [w \in Window |-> IF w \in opened THEN "live" ELSE tmux[w]]
    BY <1>13 DEF TmuxFails, registry
  <2>2. tmux \in [Window -> WindowStatus]
    BY DEF IInv, TypeOK
  <2>3. tmux' \in [Window -> WindowStatus]
    BY <2>1, <2>2 DEF WindowStatus
  <2>. QED
    BY <2>1, <2>3 DEF IInv, TypeOK, IndexExact, MetaOnlyForBound
<1>4. ASSUME NEW r \in Request, RecordWindow(r)
      PROVE  IInv'
  <2>1. /\ UNCHANGED <<bindings, reverse, displayNames, channelMeta, kills, tmux>>
        /\ created' = created \cup {request[r].window} /\ unsaved' = TRUE
        /\ request[r].window \in Window
    BY <1>4 DEF RecordWindow, ScheduleSave, CallOK
  <2>. QED
    BY <2>1 DEF IInv, TypeOK, IndexExact, MetaOnlyForBound
<1>5. ASSUME NEW r \in Request, NEW named \in BOOLEAN, BindCreated(r, named)
      PROVE  IInv'
  <2>1. request[r].channel \in Channel
    BY <1>5, Fields DEF BindCreated
  <2>2. request[r].window \in Known
    BY <1>5, HeldIsKnown DEF BindCreated, CallOK
  <2>3. Bind(request[r].channel, request[r].window, FALSE, NoName)
    BY <1>5 DEF BindCreated
  <2>4. Next
    BY <2>1, <2>2, <2>3 DEF Next
  <2>. QED
    BY <1>1, <2>4
<1>6. ASSUME NEW r \in Request, NEW w \in Window, KillNext(r, w)
      PROVE  IInv'
  <2>1. w \in Known /\ UnbindWindow(w, FALSE)
    BY <1>6 DEF KillNext, ForgetWindow, CallOK
  <2>2. Next
    BY <2>1 DEF Next
  <2>. QED
    BY <1>1, <2>2
<1>7. ASSUME \/ \E c \in Channel : UnbindChannel(c)
             \/ \E w \in Window : KillThread(w) \/ AgentExits(w)
             \/ TimerSaves
      PROVE  IInv'
  <2>1. Next
    BY <1>7 DEF UnbindChannel, KillThread, AgentExits, TimerSaves, Next
  <2>. QED
    BY <1>1, <2>1
<1>8. ASSUME NEW r \in Request, \/ \E c \in Channel \cup {NoChannel} : AskCreate(r, c)
                                \/ \E c \in Channel : AskClose(r, c)
                                \/ RecordCliWindow(r)
      PROVE  IInv'
  <2>1. UNCHANGED vars
    BY <1>8 DEF AskCreate, AskClose, RecordCliWindow
  <2>. QED
    BY <1>1, <2>1
<1>9. CASE UNCHANGED allVars
  <2>1. UNCHANGED vars
    BY <1>9 DEF allVars
  <2>. QED
    BY <1>1, <2>1
<1>10. CASE Crash \/ Stop
  BY <1>10, EndRouter DEF Crash, Stop
<1>11. CASE Load
  BY <1>11, LoadRouter
<1>12. ASSUME NEW listed \in {Live, {}}, NEW killed \in SUBSET Orphans,
              StartupCleanup(listed, killed)
       PROVE  IInv'
  <2>1. listed \in SUBSET Window
    BY DEF Live
  <2>. QED
    BY <1>12, <2>1, CleanupStep
<1>. QED
  BY <1>2, <1>3, <1>4, <1>5, <1>6, <1>7, <1>8, <1>9, <1>10, <1>11, <1>12, <1>13
     DEF GatewayNext

\* The steps beside the calls while nothing starts or ends: the router's own, the
\* exit of an agent, the save.  They leave calls and records as they are.
LEMMA QuietSteps ==
  ASSUME GatewayTypeOK, IInv, PhasesOK,
         \/ \E c \in Channel : UnbindChannel(c)
         \/ \E w \in Window : KillThread(w) \/ AgentExits(w)
         \/ TimerSaves \/ UNCHANGED allVars
  PROVE  /\ UNCHANGED <<windowStates, process, request, turn, took, strays>>
         /\ failures' \in 0..MaxFailures
         /\ refused \subseteq refused' /\ refused' \subseteq Window
         /\ Values(bindings') \subseteq Values(bindings)
         /\ Values(bindings) \cup kills \subseteq
              Values(bindings') \cup kills' \cup refused' \cup {w \in Window : tmux'[w] # "live"}
         /\ disk' = disk \/ (disk' = Snapshot /\ UNCHANGED <<bindings, created>>)
         /\ \/ process = "up"
            \/ UNCHANGED <<bindings, created, kills, unsaved, channelMeta, disk>>
         /\ \/ UNCHANGED <<bindings, created, disk, unsaved>> \/ unsaved'
            \/ disk' = Snapshot /\ UNCHANGED <<bindings, created>>
<1>1. /\ tmux \in [Window -> WindowStatus] /\ kills \subseteq Window
      /\ failures \in 0..MaxFailures /\ MaxFailures \in Nat /\ refused \subseteq Window
  BY GatewayAssumption DEF IInv, TypeOK, GatewayTypeOK
<1>2. CASE UNCHANGED allVars
  BY <1>1, <1>2 DEF allVars, vars, gatewayVars
<1>3. ASSUME NEW c \in Channel, UnbindChannel(c)
      PROVE  /\ process = "up"
             /\ UNCHANGED <<windowStates, disk, process, request, turn, failures, took, refused, strays>>
             /\ Values(bindings') \subseteq Values(bindings)
             /\ Values(bindings) \cup kills \subseteq Values(bindings') \cup kills'
             /\ UNCHANGED <<bindings, created, disk, unsaved>> \/ unsaved'
  BY <1>3, UnbindMoves DEF UnbindChannel, gatewayVars, vars
<1>4. ASSUME NEW w \in Window, KillThread(w)
      PROVE  /\ UNCHANGED <<windowStates, disk, process, request, turn, took, strays>>
             /\ failures' \in 0..MaxFailures
             /\ refused \subseteq refused' /\ refused' \subseteq Window
             /\ UNCHANGED <<bindings, created, unsaved>>
             /\ process = "up"
             /\ kills \subseteq kills' \cup refused' \cup {v \in Window : tmux'[v] # "live"}
  <2>1. /\ w \in kills /\ kills' = kills \ {w}
        /\ UNCHANGED <<bindings, created, unsaved>>
        /\ UNCHANGED <<windowStates, disk, process, request, turn, took, strays>>
    BY <1>4 DEF KillThread, RunKill
  <2>2. process = "up"
    BY <2>1 DEF PhasesOK
  <2>3. CASE tmux'[w] = "live"
    <3>1. failures < MaxFailures /\ failures' = failures + 1 /\ refused' = refused \cup {w}
      BY <1>4, <2>3 DEF KillThread, Refuse
    <3>. QED
      BY <1>1, <2>1, <2>2, <3>1
  <2>4. CASE tmux'[w] # "live"
    <3>1. UNCHANGED <<failures, refused>>
      BY <1>4, <2>4 DEF KillThread
    <3>. QED
      BY <1>1, <2>1, <2>2, <2>4, <3>1
  <2>. QED
    BY <2>3, <2>4
<1>5. ASSUME NEW w \in Window, AgentExits(w)
      PROVE  /\ UNCHANGED <<windowStates, disk, process, request, turn, failures, took, refused, strays>>
             /\ UNCHANGED <<bindings, created, unsaved, kills, channelMeta>>
  BY <1>5 DEF AgentExits, WindowExits, gatewayVars
<1>6. ASSUME TimerSaves
      PROVE  /\ UNCHANGED <<windowStates, process, request, turn, failures, took, refused, strays>>
             /\ UNCHANGED <<bindings, created, kills>>
             /\ disk' = Snapshot /\ process = "up"
  BY <1>6 DEF TimerSaves, Save, PhasesOK
<1>. QED
  BY <1>1, <1>2, <1>3, <1>4, <1>5, <1>6

\* A call that has begun runs in a process that serves.
LEMMA CallsAreUp ==
  ASSUME PhasesOK, NEW r \in Request, request[r].at # "idle" \/ Runs(r)
  PROVE  process = "up"
<1>1. CASE Runs(r)
  BY <1>1 DEF Runs
<1>2. CASE request[r].at # "idle"
  BY <1>2 DEF PhasesOK, Idle
<1>. QED
  BY <1>1, <1>2

\* The steps of a call r.
StepOf(r) ==
  \/ \E c \in Channel \cup {NoChannel} : AskCreate(r, c)
  \/ \E w \in Window : TmuxCreates(r, w) \/ KillNext(r, w)
  \/ \E opened \in {{}} \cup {{w} : w \in Window} : TmuxFails(r, opened)
  \/ \E named \in BOOLEAN : BindCreated(r, named)
  \/ RecordWindow(r) \/ RecordCliWindow(r) \/ TmuxKills(r)
  \/ \E c \in Channel : AskClose(r, c)

QuietStep ==
  \/ \E c \in Channel : UnbindChannel(c)
  \/ \E w \in Window : KillThread(w) \/ AgentExits(w)
  \/ TimerSaves \/ UNCHANGED allVars

\* Every step is one of a call, beside the calls, or of the process.
LEMMA GatewaySteps ==
  ASSUME [GatewayNext]_allVars
  PROVE  \/ \E r \in Request : StepOf(r)
         \/ QuietStep
         \/ Crash \/ Stop \/ Load
         \/ \E listed \in {Live, {}}, killed \in SUBSET Orphans : StartupCleanup(listed, killed)
BY DEF GatewayNext, StepOf, QuietStep

\* The process goes on serving, and writes no file, while its calls run.
LEMMA StepsAreUp ==
  ASSUME PhasesOK, NEW r \in Request, StepOf(r)
  PROVE  process = "up" /\ process' = "up" /\ UNCHANGED disk
<1>1. request[r].at # "idle" \/ Runs(r)
  BY DEF StepOf, AskCreate, TmuxCreates, TmuxFails, KillNext, BindCreated, RecordWindow, RecordCliWindow,
         TmuxKills, AskClose
<1>2. process = "up"
  BY <1>1, CallsAreUp
<1>3. UNCHANGED <<process, disk>>
  BY DEF StepOf, AskCreate, TmuxCreates, TmuxFails, KillNext, BindCreated, RecordWindow, RecordCliWindow,
         TmuxKills, AskClose
<1>. QED
  BY <1>2, <1>3

\* Whatever stage a step takes its call to, the calls stay typed, the others do not
\* move, and a close takes only windows that are bound or recorded.
LEMMA StepsMove ==
  ASSUME GatewayTypeOK, NEW r \in Request, CallOK(r), StepOf(r)
  PROVE  /\ request' \in [Request -> Calls]
         /\ \A q \in Request \ {r} : request'[q] = request[q]
         /\ turn' \in {turn, NoRequest, r} /\ failures' \in 0..MaxFailures
         /\ took' \in [Request -> SUBSET Window]
         /\ \A q \in Request \ {r} : took'[q] = took[q]
         /\ took'[r] \subseteq took[r] \cup Values(bindings) \cup DOMAIN windowStates
         /\ refused \subseteq refused' /\ refused' \subseteq Window
         /\ strays \subseteq strays' /\ strays' \subseteq Window
<1>1. /\ request' \in [Request -> Calls]
      /\ \A q \in Request \ {r} : request'[q] = request[q]
  BY CallSteps DEF StepOf, Becomes
<1>2. turn' \in {turn, NoRequest, r}
  BY DEF StepOf, AskCreate, TmuxCreates, TmuxFails, KillNext, BindCreated, RecordWindow, RecordCliWindow,
         TmuxKills, AskClose
<1>4. /\ took' \in [Request -> SUBSET Window]
      /\ \A q \in Request \ {r} : took'[q] = took[q]
      /\ took'[r] \subseteq took[r] \cup Values(bindings) \cup DOMAIN windowStates
  <2>1. took \in [Request -> SUBSET Window]
    BY DEF GatewayTypeOK
  <2>2. \A c : /\ WindowsOf(c) \subseteq Window
              /\ WindowsOf(c) \subseteq Values(bindings) \cup DOMAIN windowStates
    BY PartialFunctionsDef DEF GatewayTypeOK, TypeOK, WindowsOf, KeysOf, Values
  <2>3. \/ took' = took \/ \E c \in Channel : took' = [took EXCEPT ![r] = WindowsOf(c)]
        \/ took' = [took EXCEPT ![r] = IF request[r].rest = {} THEN {} ELSE @]
    BY DEF StepOf, AskCreate, TmuxCreates, TmuxFails, KillNext, BindCreated, RecordWindow,
           RecordCliWindow, TmuxKills, AskClose
  <2>. QED
    BY <2>1, <2>2, <2>3
<1>5. /\ refused \subseteq refused' /\ refused' \subseteq Window
      /\ strays \subseteq strays' /\ strays' \subseteq Window
  <2>1. refused \subseteq Window /\ strays \subseteq Window
    BY DEF GatewayTypeOK
  <2>2. /\ refused' = refused \/ \E w \in Live : refused' = refused \cup {w}
        /\ strays' = strays
           \/ \E opened \in {{}} \cup {{w} : w \in Window} : strays' = strays \cup opened
    BY DEF StepOf, AskCreate, TmuxCreates, TmuxFails, KillNext, BindCreated, RecordWindow,
           RecordCliWindow, TmuxKills, Refuse, AskClose
  <2>. QED
    BY <2>1, <2>2 DEF Live
<1>3. failures' \in 0..MaxFailures
  <2>1. failures \in 0..MaxFailures /\ MaxFailures \in Nat
    BY GatewayAssumption DEF GatewayTypeOK
  <2>2. failures' = failures \/ (failures < MaxFailures /\ failures' = failures + 1)
    BY DEF StepOf, AskCreate, TmuxCreates, TmuxFails, KillNext, BindCreated, RecordWindow, RecordCliWindow,
           TmuxKills, Refuse, AskClose
  <2>. QED
    BY <2>1, <2>2
<1>. QED
  BY <1>1, <1>2, <1>3, <1>4, <1>5

\* A call changes the records of windows only for the window it holds.
LEMMA StepsRecord ==
  ASSUME GatewayTypeOK, NEW r \in Request, CallOK(r), StepOf(r)
  PROVE  windowStates' \in Records
<1>1. windowStates \in Records
  BY DEF GatewayTypeOK, Records
<1>2. CASE UNCHANGED windowStates
  BY <1>1, <1>2
<1>3. CASE RecordWindow(r)
  <2>1. /\ request[r].window \in Window /\ request[r].channel \in Channel \cup {NoChannel}
        /\ windowStates' = Put(windowStates, request[r].window, request[r].channel)
    BY <1>3, Fields DEF RecordWindow, CallOK
  <2>. QED
    BY <1>1, <2>1, PutType DEF Records
<1>4. CASE RecordCliWindow(r)
  <2> DEFINE w == request[r].window
             v == Get(windowStates, w, NoChannel)
  <2>1. w \in Window /\ windowStates' = Put(windowStates, w, v)
    BY <1>4 DEF RecordCliWindow, CallOK
  <2>2. v \in Channel \cup {NoChannel}
    BY <1>1, PartialFunctionsDef DEF Records, Get
  <2>. QED
    BY <1>1, <2>1, <2>2, PutType DEF Records
<1>5. ASSUME NEW w \in Window, KillNext(r, w)
      PROVE  windowStates' \in Records
  <2>1. windowStates' = Without(windowStates, {w})
    BY <1>5 DEF KillNext
  <2>. QED
    BY <1>1, <2>1, WithoutType DEF Records
<1>6. UNCHANGED windowStates \/ RecordWindow(r) \/ RecordCliWindow(r)
        \/ \E w \in Window : KillNext(r, w)
  BY DEF StepOf, AskCreate, TmuxCreates, TmuxFails, BindCreated, TmuxKills, AskClose
<1>. QED
  BY <1>2, <1>3, <1>4, <1>5, <1>6

\* Every step keeps the types.
LEMMA NextGatewayTypes ==
  ASSUME GatewayTypeOK, IInv, PhasesOK, KnownOK, \A r \in Request : CallOK(r),
         [GatewayNext]_allVars
  PROVE  GatewayTypeOK'
<1>1. TypeOK'
  BY NextRouter DEF IInv
<1>2. Snapshot \in State
  BY DEF GatewayTypeOK, TypeOK, Snapshot, State
<1>3. ASSUME NEW r \in Request, StepOf(r)
      PROVE  GatewayTypeOK'
  <2>1. /\ windowStates' \in Records /\ request' \in [Request -> Calls]
        /\ turn' \in {turn, NoRequest, r} /\ failures' \in 0..MaxFailures
        /\ process' = "up" /\ UNCHANGED disk
        /\ took' \in [Request -> SUBSET Window]
        /\ refused' \subseteq Window /\ strays' \subseteq Window
    BY <1>3, StepsRecord, StepsMove, StepsAreUp
  <2>. QED
    BY <1>1, <2>1 DEF GatewayTypeOK, Records, Calls
<1>4. CASE QuietStep
  <2>1. /\ UNCHANGED <<windowStates, process, request, turn, took, strays>>
        /\ failures' \in 0..MaxFailures /\ refused' \subseteq Window
        /\ disk' \in {disk, Snapshot}
    BY <1>4, QuietSteps DEF QuietStep
  <2>. QED
    BY <1>1, <1>2, <2>1 DEF GatewayTypeOK
<1>5. CASE Crash \/ Stop
  <2>1. disk' \in {disk, Snapshot} /\ \E due \in BOOLEAN : ProcessEnds(due)
    BY <1>5 DEF Crash, Stop, GatewayTypeOK, TypeOK
  <2>2. /\ windowStates' = <<>> /\ process' = "down" /\ request' = [q \in Request |-> Idle]
        /\ turn' = NoRequest /\ failures' = failures /\ refused' = refused
        /\ took' = [q \in Request |-> {}] /\ strays' \subseteq strays \cup Live
    BY <2>1 DEF ProcessEnds
  <2>3. Idle \in Calls
    BY DEF Idle, Calls, Stages
  <2>4. request' \in [Request -> Calls]
    BY <2>2, <2>3
  <2>5. windowStates' \in PartialFunctions(Window, Channel \cup {NoChannel})
    BY <2>2, Empty
  <2>6. strays' \subseteq Window
    BY <2>2 DEF GatewayTypeOK, Live
  <2>. QED
    BY <1>1, <1>2, <2>1, <2>2, <2>4, <2>5, <2>6 DEF GatewayTypeOK, Calls
<1>6. CASE Load
  <2>1. windowStates' \in PartialFunctions(Window, Channel \cup {NoChannel})
    BY <1>6 DEF Load, GatewayTypeOK, State
  <2>. QED
    BY <1>1, <1>6, <2>1 DEF Load, GatewayTypeOK
<1>7. ASSUME NEW listed \in {Live, {}}, NEW killed \in SUBSET Orphans,
             StartupCleanup(listed, killed)
      PROVE  GatewayTypeOK'
  <2>1. listed \in SUBSET Window
    BY DEF Live
  <2>2. windowStates' \in Records
    BY <1>7, <2>1, CleanupStep
  <2>3. strays' \subseteq Window /\ refused' \subseteq Window
    BY <1>7, <2>1, CleanupStep DEF Live, GatewayTypeOK
  <2>4. process' = "up" /\ UNCHANGED <<disk, request, turn, failures, took>>
    BY <1>7 DEF StartupCleanup
  <2>. QED
    BY <1>1, <2>2, <2>3, <2>4 DEF GatewayTypeOK, Records
<1>. QED
  BY <1>3, <1>4, <1>5, <1>6, <1>7, GatewaySteps

-----------------------------------------------------------------------------
(* The phases of the process.                                              *)

\* A process that does not serve runs nothing, and has not changed what it loaded.
LEMMA NextPhases ==
  ASSUME GatewayTypeOK, IInv, PhasesOK, \A r \in Request : CallOK(r), [GatewayNext]_allVars
  PROVE  PhasesOK'
<1>1. ASSUME NEW r \in Request, StepOf(r)
      PROVE  PhasesOK'
  BY <1>1, StepsAreUp DEF PhasesOK
<1>2. CASE QuietStep
  <2>1. process' = process
    BY <1>2, QuietSteps DEF QuietStep
  <2>2. CASE process = "up"
    BY <2>1, <2>2 DEF PhasesOK
  <2>3. CASE process # "up"
    <3>1. /\ UNCHANGED <<windowStates, request, turn, took>>
          /\ UNCHANGED <<bindings, created, kills, unsaved, channelMeta, disk>>
      BY <1>2, <2>3, QuietSteps DEF QuietStep
    <3>2. Snapshot' = Snapshot
      BY <3>1 DEF Snapshot
    <3>. QED
      BY <2>1, <3>1, <3>2 DEF PhasesOK
  <2>. QED
    BY <2>2, <2>3
<1>3. CASE Crash \/ Stop
  BY <1>3 DEF Crash, Stop, ProcessEnds, PhasesOK
<1>4. CASE Load
  <2>1. disk = [bindings |-> disk.bindings, created |-> disk.created,
                windowStates |-> disk.windowStates]
    BY DEF GatewayTypeOK, State
  <2>2. Snapshot' = disk'
    BY <1>4, <2>1 DEF Load, Snapshot
  <2>3. process = "down" /\ process' = "starting"
        /\ UNCHANGED <<channelMeta, kills, unsaved, request, turn, took>>
    BY <1>4 DEF Load
  <2>. QED
    BY <2>2, <2>3 DEF PhasesOK
<1>5. ASSUME NEW listed \in {Live, {}}, NEW killed \in SUBSET Orphans,
             StartupCleanup(listed, killed)
      PROVE  PhasesOK'
  BY <1>5 DEF StartupCleanup, PhasesOK
<1>. QED
  BY <1>1, <1>2, <1>3, <1>4, <1>5, GatewaySteps

-----------------------------------------------------------------------------
(* Window ids: once given out, never again.                                *)

\* tmux gives out only ids that nobody had, a window that is gone stays so, and
\* what it refused is on record.
TmuxMoves ==
  /\ Known \subseteq Known' /\ Live' \cap Known \subseteq Live
  /\ Blank \in Window => tmux'[Blank] = "gone"
  /\ refused \subseteq refused'

\* Every step moves tmux so.
LEMMA NextTmux ==
  ASSUME GatewayTypeOK, IInv, KnownOK, \A r \in Request : CallOK(r), [GatewayNext]_allVars
  PROVE  TmuxMoves
<1>1. tmux \in [Window -> WindowStatus] /\ (Blank \in Window => tmux[Blank] = "gone")
  BY DEF IInv, TypeOK, KnownOK
<1>2. ASSUME UNCHANGED tmux, refused \subseteq refused'
      PROVE  TmuxMoves
  BY <1>1, <1>2 DEF TmuxMoves, Known, Live
<1>3. ASSUME NEW w, tmux' = [tmux EXCEPT ![w] = "gone"], refused \subseteq refused'
      PROVE  TmuxMoves
  BY <1>1, <1>3 DEF TmuxMoves, Known, Live
<1>4. ASSUME NEW w \in Window, tmux[w] = "unborn", tmux' = [tmux EXCEPT ![w] = "live"],
             UNCHANGED refused
      PROVE  TmuxMoves
  BY <1>1, <1>4 DEF TmuxMoves, Known, Live
<1>5. ASSUME NEW r \in Request, StepOf(r)
      PROVE  TmuxMoves
  <2>1. ASSUME NEW w \in Window, TmuxCreates(r, w)
        PROVE  TmuxMoves
    BY <1>2, <1>4, <2>1 DEF TmuxCreates
  <2>2. CASE TmuxKills(r)
    BY <1>2, <1>3, <2>2 DEF TmuxKills, Refuse
  <2>6. ASSUME NEW opened, TmuxFails(r, opened)
        PROVE  TmuxMoves
    <3>1. /\ \A w \in opened : tmux[w] = "unborn"
          /\ tmux' = [w \in Window |-> IF w \in opened THEN "live" ELSE tmux[w]]
          /\ UNCHANGED refused
      BY <2>6 DEF TmuxFails
    <3>. QED
      BY <1>1, <3>1 DEF TmuxMoves, Known, Live
  <2>3. ASSUME NEW named \in BOOLEAN, BindCreated(r, named)
        PROVE  TmuxMoves
    <3>1. /\ request[r].channel \in Channel /\ request[r].window \in Window
          /\ Bind(request[r].channel, request[r].window, FALSE, NoName)
          /\ UNCHANGED refused
      BY <2>3, Fields DEF BindCreated, CallOK
    <3>. QED
      BY <1>2, <3>1, BindMoves
  <2>4. ASSUME NEW w \in Window, KillNext(r, w)
        PROVE  TmuxMoves
    BY <1>2, <2>4, ForgetMoves DEF KillNext
  <2>5. CASE \/ \E c \in Channel \cup {NoChannel} : AskCreate(r, c)
             \/ \E c \in Channel : AskClose(r, c)
             \/ RecordWindow(r) \/ RecordCliWindow(r)
    BY <1>2, <2>5 DEF AskCreate, AskClose, RecordWindow, RecordCliWindow, vars
  <2>. QED
    BY <1>5, <2>1, <2>2, <2>3, <2>4, <2>5, <2>6 DEF StepOf
<1>6. CASE QuietStep
  <2>1. ASSUME NEW c \in Channel, UnbindChannel(c)
        PROVE  TmuxMoves
    BY <1>2, <2>1, UnbindMoves DEF UnbindChannel, gatewayVars
  <2>2. ASSUME NEW w \in Window, KillThread(w) \/ AgentExits(w)
        PROVE  TmuxMoves
    BY <1>2, <1>3, <2>2 DEF KillThread, RunKill, Refuse, AgentExits, WindowExits, gatewayVars
  <2>3. CASE TimerSaves \/ UNCHANGED allVars
    BY <1>2, <2>3 DEF TimerSaves, Save, allVars, vars, gatewayVars
  <2>. QED
    BY <1>6, <2>1, <2>2, <2>3 DEF QuietStep
<1>7. CASE Crash \/ Stop \/ Load
  BY <1>2, <1>7 DEF Crash, Stop, ProcessEnds, Load
<1>8. ASSUME NEW listed \in {Live, {}}, NEW killed \in SUBSET Orphans,
             StartupCleanup(listed, killed)
      PROVE  TmuxMoves
  <2>1. /\ tmux' = [w \in Window |-> IF w \in killed \cap Live THEN "gone" ELSE tmux[w]]
        /\ refused \subseteq refused'
    BY <1>8 DEF StartupCleanup, KillOrphans
  <2>. QED
    BY <1>1, <2>1 DEF TmuxMoves, Known, Live
<1>. QED
  BY <1>5, <1>6, <1>7, <1>8, GatewaySteps

\* The windows a call's step binds or records: only the one it holds.
LEMMA StepsName ==
  ASSUME GatewayTypeOK, IInv, NEW r \in Request, CallOK(r), StepOf(r)
  PROVE  LET w == request[r].window
         IN  /\ Values(bindings') \subseteq Values(bindings) \cup {w}
             /\ ~(\E named \in BOOLEAN : BindCreated(r, named)) =>
                  Values(bindings') \subseteq Values(bindings)
             /\ DOMAIN windowStates' \subseteq DOMAIN windowStates \cup {w}
             /\ request[r].at \notin {"created", "bound"} =>
                  /\ Values(bindings') \subseteq Values(bindings)
                  /\ DOMAIN windowStates' \subseteq DOMAIN windowStates
<1> DEFINE w == request[r].window
<1>1. ASSUME NEW named \in BOOLEAN, BindCreated(r, named)
      PROVE  /\ Values(bindings') \subseteq Values(bindings) \cup {w}
             /\ UNCHANGED windowStates /\ request[r].at = "created"
  <2>1. /\ request[r].channel \in Channel /\ request[r].window \in Window
        /\ Bind(request[r].channel, request[r].window, FALSE, NoName)
    BY <1>1, Fields DEF BindCreated, CallOK
  <2>. QED
    BY <1>1, <2>1, BindMoves DEF BindCreated
<1>2. ASSUME NEW v \in Window, KillNext(r, v)
      PROVE  /\ Values(bindings') \subseteq Values(bindings)
             /\ DOMAIN windowStates' \subseteq DOMAIN windowStates
  BY <1>2, ForgetMoves DEF KillNext, Without
<1>3. CASE RecordWindow(r) \/ RecordCliWindow(r)
  <2>1. /\ UNCHANGED bindings /\ request[r].at \in {"created", "bound"}
        /\ \E v : windowStates' = Put(windowStates, w, v)
    BY <1>3 DEF RecordWindow, RecordCliWindow, vars
  <2>2. DOMAIN windowStates' = DOMAIN windowStates \cup {w}
    BY <2>1 DEF Put
  <2>. QED
    BY <2>1, <2>2
<1>4. CASE \/ \E c \in Channel \cup {NoChannel} : AskCreate(r, c)
           \/ \E c \in Channel : AskClose(r, c)
           \/ \E v \in Window : TmuxCreates(r, v)
           \/ \E opened \in {{}} \cup {{v} : v \in Window} : TmuxFails(r, opened)
           \/ TmuxKills(r)
  BY <1>4 DEF AskCreate, AskClose, TmuxCreates, TmuxFails, TmuxKills, registry, vars
<1>. QED
  BY <1>1, <1>2, <1>3, <1>4 DEF StepOf

\* The registries name only ids that tmux gave out.
LEMMA NextKnown ==
  ASSUME GatewayTypeOK, IInv, PhasesOK, KnownOK, \A r \in Request : CallOK(r),
         [GatewayNext]_allVars
  PROVE  KnownOK'
<1> DEFINE Named == Values(bindings) \cup DOMAIN windowStates \cup Recorded(disk)
<1>1. TmuxMoves
  BY NextTmux
<1>2. Named \subseteq Known
  BY DEF KnownOK
<1>3. Recorded(Snapshot) = Values(bindings) \cup DOMAIN windowStates
  BY DEF Recorded, Snapshot
<1>4. ASSUME Named' \subseteq Known
      PROVE  KnownOK'
  BY <1>1, <1>4 DEF TmuxMoves, KnownOK
<1>5. ASSUME NEW r \in Request, StepOf(r)
      PROVE  Named' \subseteq Known
  <2>1. CallOK(r) /\ UNCHANGED disk
    BY <1>5, StepsAreUp
  <2>2. CASE request[r].at \in {"created", "bound"}
    <3>1. request[r].window \in Known
      BY <2>1, <2>2, HeldIsKnown DEF CallOK
    <3>. QED
      BY <1>2, <1>5, <2>1, <3>1, StepsName
  <2>3. CASE request[r].at \notin {"created", "bound"}
    BY <1>2, <1>5, <2>1, <2>3, StepsName
  <2>. QED
    BY <2>2, <2>3
<1>6. CASE QuietStep
  <2>1. /\ UNCHANGED windowStates /\ Values(bindings') \subseteq Values(bindings)
        /\ disk' = disk \/ disk' = Snapshot
    BY <1>6, QuietSteps DEF QuietStep
  <2>2. Recorded(disk)' \subseteq Named
    BY <1>3, <2>1 DEF Recorded
  <2>. QED
    BY <1>2, <1>4, <2>1, <2>2 DEF Recorded
<1>7. CASE Crash \/ Stop
  <2>1. /\ bindings' = <<>> /\ windowStates' = <<>>
        /\ disk' = disk \/ disk' = Snapshot
    BY <1>7 DEF Crash, Stop, ProcessEnds
  <2>2. Values(bindings') = {} /\ DOMAIN windowStates' = {}
    BY <2>1, Empty
  <2>3. Recorded(disk)' \subseteq Named
    BY <1>3, <2>1 DEF Recorded
  <2>. QED
    BY <1>2, <1>4, <2>2, <2>3 DEF Recorded
<1>8. CASE Load
  <2>1. bindings' = disk.bindings /\ windowStates' = disk.windowStates /\ disk' = disk
    BY <1>8 DEF Load
  <2>2. /\ Values(bindings') \cup DOMAIN windowStates' = Recorded(disk)
        /\ Recorded(disk)' = Recorded(disk)
    BY <2>1 DEF Recorded
  <2>. QED
    BY <1>2, <1>4, <2>2 DEF Recorded
<1>9. ASSUME NEW listed \in {Live, {}}, NEW killed \in SUBSET Orphans,
             StartupCleanup(listed, killed)
      PROVE  Named' \subseteq Known
  <2>1. listed \in SUBSET Window
    BY DEF Live
  <2>2. /\ Values(bindings') \subseteq Values(bindings)
        /\ DOMAIN windowStates' \subseteq Values(bindings) \cup DOMAIN windowStates
    BY <1>9, <2>1, CleanupStep
  <2>3. UNCHANGED disk
    BY <1>9 DEF StartupCleanup
  <2>. QED
    BY <1>2, <2>2, <2>3
<1>. QED
  BY <1>4, <1>5, <1>6, <1>7, <1>8, <1>9, GatewaySteps

-----------------------------------------------------------------------------
(* What calls hold.                                                        *)

\* A call that does not move holds what it held, whatever tmux does.
LEMMA CallStays ==
  ASSUME TmuxMoves, tmux' \in [Window -> WindowStatus], NEW q \in Request, CallOK(q),
         request'[q] = request[q]
  PROVE  CallOK(q)'
<1> DEFINE w == request[q].window
<1>1. w \notin Live \ refused => w \notin Live' \ refused'
  <2>1. CASE w \in Known
    BY <2>1 DEF TmuxMoves
  <2>2. CASE w = Blank
    BY <2>2 DEF TmuxMoves, Live
  <2>. QED
    BY <2>1, <2>2 DEF CallOK
<1>2. Known \subseteq Known'
  BY DEF TmuxMoves
<1>. QED
  BY <1>1, <1>2 DEF CallOK

\* An idle call holds nothing.
LEMMA IdleHolds ==
  ASSUME TmuxMoves, NEW q \in Request, request'[q].at \in {"idle", "creating", "closing"},
         request'[q].window = Blank, request'[q].rest \subseteq Known
  PROVE  CallOK(q)'
<1>1. Blank \notin Live'
  BY DEF TmuxMoves, Live
<1>2. Known \subseteq Known'
  BY DEF TmuxMoves
<1>. QED
  BY <1>1, <1>2 DEF CallOK

\* Every step keeps what each call may hold.
LEMMA NextCalls ==
  ASSUME GatewayTypeOK, IInv, PhasesOK, KnownOK, \A r \in Request : CallOK(r),
         [GatewayNext]_allVars
  PROVE  \A q \in Request : CallOK(q)'
<1>1. TmuxMoves /\ tmux' \in [Window -> WindowStatus] /\ Known \subseteq Known'
  BY NextTmux, NextRouter DEF IInv, TypeOK, TmuxMoves
<1>2. ASSUME UNCHANGED request
      PROVE  \A q \in Request : CallOK(q)'
  BY <1>1, <1>2, CallStays
<1>3. ASSUME NEW r \in Request, StepOf(r)
      PROVE  \A q \in Request : CallOK(q)'
  <2>1. \A q \in Request \ {r} : CallOK(q)'
    BY <1>1, <1>3, CallStays, StepsMove
  <2>2. ASSUME NEW c \in Channel \cup {NoChannel}, AskCreate(r, c)
        PROVE  CallOK(r)'
    <3>1. Becomes(r, "creating", c, Blank, {})
      BY <2>2, CallSteps
    <3>2. request'[r].at = "creating" /\ request'[r].window = Blank /\ request'[r].rest = {}
      BY <3>1 DEF Becomes
    <3>. QED
      BY <1>1, <3>2, IdleHolds
  <2>3. ASSUME NEW w \in Window, TmuxCreates(r, w)
        PROVE  CallOK(r)'
    <3>1. Becomes(r, "created", request[r].channel, w, {})
      BY <2>3, CallSteps
    <3>2. request'[r].at = "created" /\ request'[r].window = w /\ request'[r].rest = {}
      BY <3>1 DEF Becomes
    <3>3. tmux' = [tmux EXCEPT ![w] = "live"] \/ w = Blank
      BY <2>3 DEF TmuxCreates
    <3>4. w \in Known' \/ w = Blank
      BY <3>3 DEF Known, GatewayTypeOK, TypeOK
    <3>. QED
      BY <3>2, <3>4 DEF CallOK
  <2>9. ASSUME NEW opened, TmuxFails(r, opened)
        PROVE  CallOK(r)'
    <3>1. Blank \in Window /\ Becomes(r, "created", request[r].channel, Blank, {})
      BY <2>9, CallSteps
    <3>2. request'[r].at = "created" /\ request'[r].window = Blank /\ request'[r].rest = {}
      BY <3>1 DEF Becomes
    <3>. QED
      BY <3>1, <3>2 DEF CallOK
  <2>4. ASSUME NEW named \in BOOLEAN, BindCreated(r, named)
        PROVE  CallOK(r)'
    <3>1. Becomes(r, "bound", request[r].channel, request[r].window, request[r].rest)
      BY <2>4, CallSteps
    <3>2. /\ request'[r].at = "bound" /\ request'[r].window = request[r].window
          /\ request'[r].rest = request[r].rest /\ request'[r].channel = request[r].channel
      BY <3>1 DEF Becomes
    <3>3. request[r].channel \in Channel /\ request[r].window \in Window
      BY <2>4, Fields DEF BindCreated, CallOK
    <3>. QED
      BY <1>1, <3>2, <3>3 DEF CallOK
  <2>5. CASE RecordWindow(r) \/ RecordCliWindow(r)
    <3>1. Becomes(r, "idle", NoChannel, Blank, {})
      BY <2>5, CallSteps
    <3>2. request'[r].at = "idle" /\ request'[r].window = Blank /\ request'[r].rest = {}
      BY <3>1 DEF Becomes
    <3>3. CallOK(r)'
      BY <1>1, <3>2, IdleHolds
    <3>. QED
      BY <2>1, <3>3
  <2>6. ASSUME NEW c \in Channel, AskClose(r, c)
        PROVE  CallOK(r)'
    <3>1. Becomes(r, "closing", c, Blank, WindowsOf(c))
      BY <2>6, CallSteps
    <3>2. /\ request'[r].at = "closing" /\ request'[r].window = Blank
          /\ request'[r].rest = WindowsOf(c)
      BY <3>1 DEF Becomes
    <3>3. WindowsOf(c) \subseteq Known
      BY DEF WindowsOf, KnownOK, Values, KeysOf
    <3>. QED
      BY <1>1, <3>2, <3>3, IdleHolds
  <2>7. ASSUME NEW w \in Window, KillNext(r, w)
        PROVE  CallOK(r)'
    <3>1. Becomes(r, "killing", request[r].channel, w, request[r].rest \ {w})
      BY <2>7, CallSteps
    <3>2. /\ request'[r].at = "killing" /\ request'[r].window = w
          /\ request'[r].rest = request[r].rest \ {w}
      BY <3>1 DEF Becomes
    <3>3. w \in Known /\ request[r].rest \subseteq Known
      BY <2>7 DEF KillNext, CallOK
    <3>. QED
      BY <1>1, <3>2, <3>3 DEF CallOK
  <2>8. CASE TmuxKills(r)
    <3>1. /\ request[r].window \in Window /\ request[r].rest \subseteq Known
          /\ request[r].window \in Known \cup {Blank}
      BY <2>8 DEF TmuxKills, CallOK
    <3>2. \/ tmux' = [tmux EXCEPT ![request[r].window] = "gone"]
          \/ request[r].window \in refused'
      BY <2>8 DEF TmuxKills, Refuse
    <3>3. request[r].window \notin Live' \ refused'
      BY <3>1, <3>2 DEF Live, GatewayTypeOK, TypeOK
    <3>4. CASE Becomes(r, "idle", NoChannel, Blank, {})
      <4>1. request'[r].at = "idle" /\ request'[r].window = Blank /\ request'[r].rest = {}
        BY <3>4 DEF Becomes
      <4>2. CallOK(r)'
        BY <1>1, <4>1, IdleHolds
      <4>. QED
        BY <2>1, <4>2
    <3>5. CASE Becomes(r, "closing", request[r].channel, request[r].window, request[r].rest)
      <4>1. /\ request'[r].at = "closing" /\ request'[r].window = request[r].window
            /\ request'[r].rest = request[r].rest
        BY <3>5 DEF Becomes
      <4>2. CallOK(r)'
        BY <1>1, <3>1, <3>3, <4>1 DEF CallOK
      <4>. QED
        BY <2>1, <4>2
    <3>. QED
      BY <2>8, <3>4, <3>5, CallSteps
  <2>. QED
    BY <1>3, <2>1, <2>2, <2>3, <2>4, <2>5, <2>6, <2>7, <2>8, <2>9 DEF StepOf
<1>4. CASE QuietStep
  BY <1>2, <1>4, QuietSteps DEF QuietStep
<1>5. CASE Crash \/ Stop
  <2>1. request' = [q \in Request |-> Idle]
    BY <1>5 DEF Crash, Stop, ProcessEnds
  <2>2. ASSUME NEW q \in Request
        PROVE  CallOK(q)'
    <3>1. request'[q].at = "idle" /\ request'[q].window = Blank /\ request'[q].rest = {}
      BY <2>1 DEF Idle
    <3>. QED
      BY <1>1, <3>1, IdleHolds
  <2>. QED
    BY <2>2
<1>6. CASE Load
  BY <1>2, <1>6 DEF Load
<1>7. ASSUME NEW listed \in {Live, {}}, NEW killed \in SUBSET Orphans,
             StartupCleanup(listed, killed)
      PROVE  \A q \in Request : CallOK(q)'
  BY <1>2, <1>7 DEF StartupCleanup
<1>. QED
  BY <1>3, <1>4, <1>5, <1>6, <1>7, GatewaySteps

\* What the step of a call makes it hold: what it held, the empty id, a window that
\* tmux just created, or windows that were bound or recorded.
LEMMA StepsHold ==
  ASSUME GatewayTypeOK, NEW r \in Request, CallOK(r), StepOf(r)
  PROVE  /\ \/ request'[r].window \in {request[r].window, Blank} \cup request[r].rest
            \/ request'[r].at = "created" /\ tmux[request'[r].window] = "unborn"
         /\ request'[r].rest \subseteq
              request[r].rest \cup Values(bindings) \cup DOMAIN windowStates
         /\ request'[r].at = "created" =>
              /\ UNCHANGED <<bindings, windowStates, took>> /\ request[r].at = "creating"
              /\ request'[r].window = Blank \/ tmux[request'[r].window] = "unborn"
         /\ request'[r].at = "killing" => \E w \in request[r].rest \cap Window :
              KillNext(r, w) /\ request'[r].window = w
<1>1. ASSUME NEW at, NEW channel, NEW window, NEW rest, Becomes(r, at, channel, window, rest)
      PROVE  request'[r].at = at /\ request'[r].window = window /\ request'[r].rest = rest
  BY <1>1 DEF Becomes
<1>2. ASSUME NEW c \in Channel \cup {NoChannel}, AskCreate(r, c)
      PROVE  request'[r].at = "creating" /\ request'[r].window = Blank /\ request'[r].rest = {}
  BY <1>1, <1>2, CallSteps
<1>3. ASSUME NEW w \in Window, TmuxCreates(r, w)
      PROVE  /\ request'[r].at = "created" /\ request'[r].window = w /\ request'[r].rest = {}
             /\ w = Blank \/ tmux[w] = "unborn"
             /\ UNCHANGED <<bindings, windowStates, took>> /\ request[r].at = "creating"
  <2>1. Becomes(r, "created", request[r].channel, w, {})
    BY <1>3, CallSteps
  <2>2. /\ w = Blank \/ tmux[w] = "unborn"
        /\ UNCHANGED <<bindings, windowStates, took>> /\ request[r].at = "creating"
    BY <1>3 DEF TmuxCreates, registry
  <2>. QED
    BY <1>1, <2>1, <2>2
<1>9. ASSUME NEW opened, TmuxFails(r, opened)
      PROVE  /\ request'[r].at = "created" /\ request'[r].window = Blank
             /\ request'[r].rest = {}
             /\ UNCHANGED <<bindings, windowStates, took>> /\ request[r].at = "creating"
  <2>1. Becomes(r, "created", request[r].channel, Blank, {})
    BY <1>9, CallSteps
  <2>2. UNCHANGED <<bindings, windowStates, took>> /\ request[r].at = "creating"
    BY <1>9 DEF TmuxFails, registry
  <2>. QED
    BY <1>1, <2>1, <2>2
<1>4. ASSUME NEW named \in BOOLEAN, BindCreated(r, named)
      PROVE  /\ request'[r].at = "bound" /\ request'[r].window = request[r].window
             /\ request'[r].rest = request[r].rest
  BY <1>1, <1>4, CallSteps
<1>5. ASSUME RecordWindow(r) \/ RecordCliWindow(r)
      PROVE  request'[r].at = "idle" /\ request'[r].window = Blank /\ request'[r].rest = {}
  BY <1>1, <1>5, CallSteps
<1>6. ASSUME NEW c \in Channel, AskClose(r, c)
      PROVE  /\ request'[r].at = "closing" /\ request'[r].window = Blank
             /\ request'[r].rest \subseteq Values(bindings) \cup DOMAIN windowStates
  <2>1. WindowsOf(c) \subseteq Values(bindings) \cup DOMAIN windowStates
    BY DEF WindowsOf, Values, KeysOf
  <2>. QED
    BY <1>1, <1>6, <2>1, CallSteps
<1>7. ASSUME NEW w \in Window, KillNext(r, w)
      PROVE  /\ request'[r].at = "killing" /\ request'[r].window = w /\ w \in request[r].rest
             /\ request'[r].rest \subseteq request[r].rest
  <2>1. Becomes(r, "killing", request[r].channel, w, request[r].rest \ {w})
    BY <1>7, CallSteps
  <2>2. w \in request[r].rest
    BY <1>7 DEF KillNext
  <2>3. /\ request'[r].at = "killing" /\ request'[r].window = w
        /\ request'[r].rest = request[r].rest \ {w}
    BY <1>1, <2>1
  <2>. QED
    BY <2>2, <2>3
<1>8. ASSUME TmuxKills(r)
      PROVE  /\ request'[r].at \in {"idle", "closing"}
             /\ request'[r].window \in {request[r].window, Blank}
             /\ request'[r].rest \subseteq request[r].rest
  <2>1. CASE Becomes(r, "idle", NoChannel, Blank, {})
    BY <1>1, <2>1
  <2>2. CASE Becomes(r, "closing", request[r].channel, request[r].window, request[r].rest)
    BY <1>1, <2>2
  <2>. QED
    BY <1>8, <2>1, <2>2, CallSteps
<1>. QED
  BY <1>2, <1>3, <1>4, <1>5, <1>6, <1>7, <1>8, <1>9 DEF StepOf

\* A process that does not serve has no call at any stage.
LEMMA NoCalls ==
  ASSUME PhasesOK, process # "up", NEW r \in Request
  PROVE  request[r].at = "idle"
BY DEF PhasesOK, Idle

\* A created window stays its call's alone.
LEMMA NextFresh ==
  ASSUME GatewayTypeOK, IInv, PhasesOK, KnownOK, FreshOK, TookOK,
         \A r \in Request : CallOK(r), [GatewayNext]_allVars
  PROVE  FreshOK'
<1>1. ASSUME NEW p \in Request, StepOf(p)
      PROVE  FreshOK'
  <2> DEFINE w(q) == request[q].window
             named == Values(bindings) \cup DOMAIN windowStates
  <2>1. /\ \A q \in Request \ {p} : request'[q] = request[q] /\ took'[q] = took[q]
        /\ took'[p] \subseteq took[p] \cup named
    BY <1>1, StepsMove
  <2>2. /\ \/ request'[p].window \in {w(p), Blank} \cup request[p].rest
           \/ request'[p].at = "created" /\ tmux[request'[p].window] = "unborn"
        /\ request'[p].rest \subseteq request[p].rest \cup named
        /\ request'[p].at = "created" =>
             /\ UNCHANGED <<bindings, windowStates, took>>
             /\ request'[p].window = Blank \/ tmux[request'[p].window] = "unborn"
    BY <1>1, StepsHold
  <2>3. /\ Values(bindings') \subseteq Values(bindings) \cup {w(p)}
        /\ DOMAIN windowStates' \subseteq DOMAIN windowStates \cup {w(p)}
    BY <1>1, StepsName
  <2>4. ASSUME NEW r \in Request \ {p}, request[r].at = "created", w(r) # Blank
        PROVE  /\ w(r) \notin Values(bindings') \cup DOMAIN windowStates'
               /\ \A q \in Request : w(r) \notin took'[q]
               /\ \A q \in Request \ {r} :
                    w(r) \notin request'[q].rest \cup {request'[q].window}
    <3>1. /\ \A q \in Request : w(r) \notin took[q]
          /\ w(r) \notin named /\ w(r) # w(p) /\ w(r) \notin request[p].rest
          /\ \A q \in Request \ {r} : w(r) \notin request[q].rest \cup {w(q)}
      BY <2>4 DEF FreshOK
    <3>2. tmux[w(r)] # "unborn"
      BY <2>4 DEF CallOK, Known
    <3>3. w(r) \notin request'[p].rest \cup {request'[p].window}
      BY <2>2, <2>4, <3>1, <3>2
    <3>. QED
      BY <2>1, <2>3, <3>1, <3>3
  <2>5. ASSUME request'[p].at = "created", request'[p].window # Blank
        PROVE  /\ request'[p].window \notin Values(bindings') \cup DOMAIN windowStates'
               /\ \A q \in Request : request'[p].window \notin took'[q]
               /\ \A q \in Request \ {p} :
                    request'[p].window \notin request[q].rest \cup {w(q)}
    <3>2. UNCHANGED <<bindings, windowStates, took>>
      BY <2>2, <2>5
    <3>3. request'[p].window \notin Known
      BY <2>2, <2>5 DEF Known
    <3>4. \A q \in Request : /\ w(q) \in Known \cup {Blank} /\ request[q].rest \subseteq Known
                             /\ took[q] \subseteq Known
      BY DEF CallOK, TookOK, CloseOK
    <3>. QED
      BY <2>5, <3>2, <3>3, <3>4 DEF KnownOK
  <2>. QED
    BY <2>1, <2>4, <2>5 DEF FreshOK
<1>2. CASE QuietStep
  <2>1. /\ UNCHANGED <<request, windowStates, took>>
        /\ Values(bindings') \subseteq Values(bindings)
    BY <1>2, QuietSteps DEF QuietStep
  <2>. QED
    BY <2>1 DEF FreshOK
<1>3. ASSUME \A r \in Request : request'[r].at = "idle"
      PROVE  FreshOK'
  BY <1>3 DEF FreshOK
<1>4. CASE Crash \/ Stop
  <2>1. request' = [r \in Request |-> Idle] /\ Idle.at = "idle"
    BY <1>4 DEF Crash, Stop, ProcessEnds, Idle
  <2>. QED
    BY <1>3, <2>1
<1>5. CASE Load
  BY <1>3, <1>5, NoCalls DEF Load
<1>6. ASSUME NEW listed \in {Live, {}}, NEW killed \in SUBSET Orphans,
             StartupCleanup(listed, killed)
      PROVE  FreshOK'
  BY <1>3, <1>6, NoCalls DEF StartupCleanup
<1>. QED
  BY <1>1, <1>2, <1>4, <1>5, <1>6, GatewaySteps

\* What a close has come to is not bound again, for only a created window is bound
\* and that is its call's alone; and it goes on to the next window when tmux has
\* killed this one or refused.
LEMMA NextTook ==
  ASSUME GatewayTypeOK, IInv, PhasesOK, KnownOK, FreshOK, TookOK,
         \A r \in Request : CallOK(r), [GatewayNext]_allVars
  PROVE  TookOK'
<1>1. TmuxMoves /\ \A r \in Request : CloseOK(r)
  BY NextTmux DEF TookOK
<1>2. ASSUME NEW r \in Request, request'[r] = request[r], took'[r] = took[r],
             \A w \in took[r] \ {Blank} : w \in Values(bindings') => w \in Values(bindings)
      PROVE  CloseOK(r)'
  BY <1>1, <1>2 DEF TmuxMoves, CloseOK
<1>3. ASSUME NEW r \in Request, took'[r] = {}
      PROVE  CloseOK(r)'
  BY <1>3 DEF CloseOK
<1>4. ASSUME NEW p \in Request, StepOf(p)
      PROVE  TookOK'
  <2>1. /\ \A q \in Request \ {p} : request'[q] = request[q] /\ took'[q] = took[q]
        /\ CallOK(p)
    BY <1>4, StepsMove
  <2>2. ASSUME NEW r \in Request, NEW w \in took[r] \ {Blank}, w \in Values(bindings')
        PROVE  w \in Values(bindings)
    <3>1. CASE \E named \in BOOLEAN : BindCreated(p, named)
      <4>1. request[p].at = "created"
        BY <3>1 DEF BindCreated
      <4>2. w # request[p].window
        BY <4>1 DEF FreshOK
      <4>. QED
        BY <1>4, <2>1, <2>2, <4>2, StepsName
    <3>2. CASE ~(\E named \in BOOLEAN : BindCreated(p, named))
      BY <1>4, <2>1, <2>2, <3>2, StepsName
    <3>. QED
      BY <3>1, <3>2
  <2>3. \A r \in Request \ {p} : CloseOK(r)'
    BY <1>2, <2>1, <2>2
  <2>4. ASSUME request[p].at \notin {"closing", "killing"}, took' = took
        PROVE  CloseOK(p)'
    BY <1>1, <1>3, <2>4 DEF CloseOK
  <2>. SUFFICES CloseOK(p)'
    BY <2>3 DEF TookOK
  <2>5. CASE \/ \E c \in Channel \cup {NoChannel} : AskCreate(p, c)
             \/ \E w \in Window : TmuxCreates(p, w)
             \/ \E opened \in {{}} \cup {{w} : w \in Window} : TmuxFails(p, opened)
             \/ \E named \in BOOLEAN : BindCreated(p, named)
             \/ RecordWindow(p) \/ RecordCliWindow(p)
    <3>1. request[p].at \notin {"closing", "killing"} /\ took' = took
      <4>1. Idle.at = "idle"
        BY DEF Idle
      <4>. QED
        BY <2>5, <4>1 DEF AskCreate, TmuxCreates, TmuxFails, BindCreated, RecordWindow,
                          RecordCliWindow
    <3>. QED
      BY <2>4, <3>1
  <2>6. ASSUME NEW c \in Channel, AskClose(p, c)
        PROVE  CloseOK(p)'
    <3>1. Becomes(p, "closing", c, Blank, WindowsOf(c))
      BY <2>6, CallSteps
    <3>2. request'[p].at = "closing" /\ request'[p].rest = WindowsOf(c)
      BY <3>1 DEF Becomes
    <3>3. took'[p] = WindowsOf(c)
      BY <2>6 DEF AskClose, GatewayTypeOK
    <3>4. WindowsOf(c) \subseteq Known
      BY DEF WindowsOf, KnownOK, Values, KeysOf
    <3>. QED
      BY <1>1, <3>2, <3>3, <3>4 DEF TmuxMoves, CloseOK
  <2>7. ASSUME NEW v \in Window, KillNext(p, v)
        PROVE  CloseOK(p)'
    <3>1. Becomes(p, "killing", request[p].channel, v, request[p].rest \ {v})
      BY <2>7, CallSteps
    <3>2. /\ request'[p].at = "killing" /\ request'[p].window = v
          /\ request'[p].rest = request[p].rest \ {v}
      BY <3>1 DEF Becomes
    <3>3. took' = took /\ request[p].at = "closing" /\ ForgetWindow(v)
      BY <2>7 DEF KillNext
    <3>4. Values(bindings') = Values(bindings) \ {v}
      BY <3>3, ForgetMoves
    <3>. QED
      BY <1>1, <3>2, <3>3, <3>4 DEF TmuxMoves, CloseOK
  <2>8. CASE TmuxKills(p)
    <3> DEFINE w0 == request[p].window
    <3>1. UNCHANGED bindings /\ took' = [took EXCEPT ![p] = IF request[p].rest = {} THEN {} ELSE @]
      BY <2>8 DEF TmuxKills, registry
    <3>2. CASE took'[p] = {}
      BY <1>3, <3>2
    <3>3. CASE took'[p] # {}
      <4>1. took'[p] = took[p] /\ request[p].rest # {}
        BY <3>1, <3>3 DEF GatewayTypeOK
      <4>2. request' = [request EXCEPT ![p] = [@ EXCEPT !.at = "closing"]]
        BY <2>8, <4>1 DEF TmuxKills
      <4>3. request'[p].at = "closing" /\ request'[p].rest = request[p].rest
        BY <4>2 DEF GatewayTypeOK
      <4>4. w0 \in Live' => w0 \in refused'
        BY <2>8 DEF TmuxKills, Refuse, Live, GatewayTypeOK, TypeOK
      <4>. QED
        BY <1>1, <3>1, <4>1, <4>3, <4>4 DEF TmuxMoves, CloseOK
    <3>. QED
      BY <3>2, <3>3
  <2>. QED
    BY <1>4, <2>3, <2>5, <2>6, <2>7, <2>8 DEF StepOf
<1>5. CASE QuietStep
  <2>1. UNCHANGED <<request, took>> /\ Values(bindings') \subseteq Values(bindings)
    BY <1>5, QuietSteps DEF QuietStep
  <2>. QED
    BY <1>2, <2>1 DEF TookOK
<1>6. CASE Crash \/ Stop
  <2>1. took' = [r \in Request |-> {}]
    BY <1>6 DEF Crash, Stop, ProcessEnds
  <2>. QED
    BY <1>3, <2>1 DEF TookOK
<1>7. CASE Load
  <2>1. took' = [r \in Request |-> {}]
    BY <1>7 DEF Load, PhasesOK
  <2>. QED
    BY <1>3, <2>1 DEF TookOK
<1>8. ASSUME NEW listed \in {Live, {}}, NEW killed \in SUBSET Orphans,
             StartupCleanup(listed, killed)
      PROVE  TookOK'
  <2>1. took' = [r \in Request |-> {}]
    BY <1>8 DEF StartupCleanup, PhasesOK
  <2>. QED
    BY <1>3, <2>1 DEF TookOK
<1>. QED
  BY <1>4, <1>5, <1>6, <1>7, <1>8, GatewaySteps

-----------------------------------------------------------------------------
(* No live window is forgotten.                                            *)

\* A step of a call forgets none.
LEMMA StepsForgetNone ==
  ASSUME GatewayTypeOK, IInv, PhasesOK, KnownOK, NoneLost, NEW r \in Request, CallOK(r),
         StepOf(r)
  PROVE  NoneLost'
<1> DEFINE w == request[r].window
           known == Values(bindings) \cup DOMAIN windowStates \cup kills \cup refused \cup strays
           others == {request[q].window : q \in Request \ {r}}
<1>1. /\ Live \subseteq known \cup others \cup {w}
      /\ process' = "up" /\ strays \subseteq strays' /\ refused \subseteq refused'
      /\ tmux \in [Window -> WindowStatus]
  BY StepsAreUp, StepsMove DEF NoneLost, InFlight, GatewayTypeOK, TypeOK
<1>2. others \subseteq InFlight' /\ request'[r].window \in InFlight'
  BY StepsMove DEF InFlight
<1>3. ASSUME Live' \subseteq known' \cup others \cup {request'[r].window}
      PROVE  NoneLost'
  BY <1>1, <1>2, <1>3 DEF NoneLost
<1>4. ASSUME NEW at, NEW channel, NEW window, NEW rest, Becomes(r, at, channel, window, rest)
      PROVE  request'[r].window = window
  BY <1>4 DEF Becomes
<1>5. ASSUME UNCHANGED <<bindings, windowStates, kills, tmux>>, w \notin Live \ refused
      PROVE  NoneLost'
  <2>1. known \subseteq known' /\ Live' = Live
    BY <1>1, <1>5 DEF Live
  <2>. QED
    BY <1>1, <1>3, <1>5, <2>1
<1>6. CASE \/ \E c \in Channel \cup {NoChannel} : AskCreate(r, c)
           \/ \E c \in Channel : AskClose(r, c)
  <2>1. UNCHANGED <<bindings, windowStates, kills, tmux>> /\ request[r].at = "idle"
    BY <1>6 DEF AskCreate, AskClose, vars, Idle
  <2>2. w \notin Live \ refused
    BY <2>1 DEF CallOK
  <2>. QED
    BY <1>5, <2>1, <2>2
<1>7. ASSUME NEW v \in Window, TmuxCreates(r, v)
      PROVE  NoneLost'
  <2>1. /\ UNCHANGED <<bindings, windowStates, kills>> /\ request[r].at = "creating"
        /\ tmux' = [tmux EXCEPT ![v] = "live"]
    BY <1>7 DEF TmuxCreates, registry
  <2>2. w \notin Live \ refused
    BY <2>1 DEF CallOK
  <2>3. request'[r].window = v
    BY <1>4, <1>7, CallSteps
  <2>4. Live' \subseteq Live \cup {v}
    BY <1>1, <2>1 DEF Live
  <2>5. known \subseteq known'
    BY <1>1, <2>1
  <2>. QED
    BY <1>1, <1>3, <2>2, <2>3, <2>4, <2>5
<1>12. ASSUME NEW opened \in {{}} \cup {{v} : v \in Window}, TmuxFails(r, opened)
       PROVE  NoneLost'
  <2>1. /\ UNCHANGED <<bindings, windowStates, kills>> /\ request[r].at = "creating"
        /\ tmux' = [v \in Window |-> IF v \in opened THEN "live" ELSE tmux[v]]
        /\ strays' = strays \cup opened
    BY <1>12 DEF TmuxFails, registry
  <2>2. w \notin Live \ refused
    BY <2>1 DEF CallOK
  <2>3. Live' \subseteq Live \cup opened
    BY <1>1, <2>1 DEF Live
  <2>4. known \cup opened \subseteq known'
    BY <1>1, <2>1
  <2>. QED
    BY <1>1, <1>3, <2>2, <2>3, <2>4
<1>8. ASSUME NEW named \in BOOLEAN, BindCreated(r, named)
      PROVE  NoneLost'
  <2>1. /\ request[r].channel \in Channel /\ w \in Window /\ UNCHANGED windowStates
        /\ Bind(request[r].channel, w, FALSE, NoName)
    BY <1>8, Fields DEF BindCreated, CallOK
  <2>2. /\ tmux' = tmux /\ kills \subseteq kills'
        /\ Values(bindings) \subseteq Values(bindings') \cup kills'
    BY <2>1, BindMoves
  <2>3. request'[r].window = w
    BY <1>4, <1>8, CallSteps
  <2>4. Live' = Live /\ known \subseteq known'
    BY <1>1, <2>1, <2>2 DEF Live
  <2>. QED
    BY <1>1, <1>3, <2>3, <2>4
<1>9. ASSUME RecordWindow(r) \/ RecordCliWindow(r)
      PROVE  NoneLost'
  <2>1. UNCHANGED <<bindings, kills, tmux>> /\ \E v : windowStates' = Put(windowStates, w, v)
    BY <1>9 DEF RecordWindow, RecordCliWindow, vars
  <2>2. DOMAIN windowStates' = DOMAIN windowStates \cup {w}
    BY <2>1 DEF Put
  <2>3. Live' = Live /\ known \cup {w} \subseteq known'
    BY <1>1, <2>1, <2>2 DEF Live
  <2>. QED
    BY <1>1, <1>3, <2>3
<1>10. ASSUME NEW v \in Window, KillNext(r, v)
       PROVE  NoneLost'
  <2>1. /\ request[r].at = "closing" /\ ForgetWindow(v)
        /\ windowStates' = Without(windowStates, {v})
    BY <1>10 DEF KillNext
  <2>2. tmux' = tmux /\ kills' = kills /\ Values(bindings') = Values(bindings) \ {v}
    BY <2>1, ForgetMoves
  <2>3. DOMAIN windowStates' = DOMAIN windowStates \ {v}
    BY <2>1 DEF Without
  <2>4. w \notin Live \ refused
    BY <2>1 DEF CallOK
  <2>5. Becomes(r, "killing", request[r].channel, v, request[r].rest \ {v})
    BY <1>10, CallSteps
  <2>6. request'[r].window = v
    BY <1>4, <2>5
  <2>7. Live' = Live /\ known \subseteq known' \cup {v}
    BY <1>1, <2>2, <2>3 DEF Live
  <2>. QED
    BY <1>1, <1>3, <2>4, <2>6, <2>7
<1>11. ASSUME TmuxKills(r)
       PROVE  NoneLost'
  <2>1. /\ UNCHANGED <<bindings, windowStates, kills>>
        /\ \/ tmux' = [tmux EXCEPT ![w] = "gone"]
           \/ UNCHANGED tmux /\ w \in refused'
    BY <1>11 DEF TmuxKills, Refuse, registry
  <2>2. Live' \subseteq Live /\ Live' \cap {w} \subseteq refused'
    BY <1>1, <2>1 DEF Live
  <2>3. known \subseteq known'
    BY <1>1, <2>1
  <2>. QED
    BY <1>1, <1>3, <2>2, <2>3
<1>. QED
  BY <1>6, <1>7, <1>8, <1>9, <1>10, <1>11, <1>12 DEF StepOf

\* What is live when a process ends was on record as refused or astray, is in the
\* file, or was at risk: SavedIsCurrent makes the file good for the rest.
LEMMA EndsForgetNone ==
  ASSUME GatewayTypeOK, PhasesOK, NoneLost, SavedIsCurrent, Crash \/ Stop
  PROVE  NoneLost'
<1>1. PICK due \in BOOLEAN :
        /\ ProcessEnds(due) /\ process # "down"
        /\ unsaved => due \/ disk' = Snapshot
        /\ ~unsaved => disk' = disk
  BY DEF Crash, Stop, GatewayTypeOK, TypeOK
<1>2. /\ process' = "down" /\ Live' = Live /\ refused' = refused
      /\ strays' = strays \cup ((AtRisk(due) \ Recorded(disk')) \cap Live)
  BY <1>1 DEF ProcessEnds, Live
<1>3. Live \subseteq refused \cup strays \cup Recorded(Snapshot) \cup kills \cup InFlight
  BY <1>1 DEF NoneLost, Recorded, Snapshot
<1>4. kills \cup InFlight \subseteq AtRisk(due)
  BY DEF AtRisk, Unwritten
<1>5. CASE unsaved
  BY <1>1, <1>2, <1>3, <1>4, <1>5 DEF NoneLost, AtRisk
<1>6. CASE ~unsaved /\ process = "up"
  <2>1. /\ disk'.bindings = bindings
        /\ \A w \in DOMAIN windowStates : windowStates[w] # NoChannel =>
             Get(disk'.windowStates, w, NoChannel) = windowStates[w]
    BY <1>1, <1>6 DEF SavedIsCurrent
  <2>2. \A w \in DOMAIN windowStates :
          w \in DOMAIN disk'.windowStates \cup AtRisk(due)
    BY <2>1 DEF Get, AtRisk, Unwritten
  <2>3. Recorded(Snapshot) \subseteq Recorded(disk') \cup AtRisk(due)
    BY <2>1, <2>2 DEF Recorded, Snapshot
  <2>. QED
    BY <1>2, <1>3, <1>4, <2>3 DEF NoneLost
<1>7. CASE ~unsaved /\ process # "up"
  <2>1. disk' = disk /\ Snapshot = disk
    BY <1>1, <1>7 DEF PhasesOK, GatewayTypeOK
  <2>2. Recorded(Snapshot) = Recorded(disk')
    BY <2>1
  <2>. QED
    BY <1>2, <1>3, <1>4, <2>2 DEF NoneLost
<1>. QED
  BY <1>5, <1>6, <1>7

\* No step forgets a live window.
LEMMA NextLost ==
  ASSUME GatewayTypeOK, IInv, PhasesOK, KnownOK, NoneLost, SavedIsCurrent,
         \A r \in Request : CallOK(r), [GatewayNext]_allVars
  PROVE  NoneLost'
<1>1. tmux \in [Window -> WindowStatus] /\ TmuxMoves
  BY NextTmux DEF IInv, TypeOK
<1>2. ASSUME NEW r \in Request, StepOf(r)
      PROVE  NoneLost'
  BY <1>2, StepsForgetNone
<1>3. CASE QuietStep
  <2>1. /\ UNCHANGED <<windowStates, process, request, strays>>
        /\ refused \subseteq refused'
        /\ Values(bindings) \cup kills \subseteq
             Values(bindings') \cup kills' \cup refused' \cup {w \in Window : tmux'[w] # "live"}
        /\ process = "up" \/ UNCHANGED disk
    BY <1>3, QuietSteps DEF QuietStep
  <2>2. Live' \subseteq Live
    <3>1. ASSUME NEW c \in Channel, UnbindChannel(c)
          PROVE  tmux' = tmux
      BY <3>1, UnbindMoves DEF UnbindChannel
    <3>2. tmux' = tmux \/ \E w : tmux' = [tmux EXCEPT ![w] = "gone"]
      BY <1>3, <3>1 DEF QuietStep, KillThread, RunKill, AgentExits, WindowExits, TimerSaves,
                        Save, allVars, vars
    <3>. QED
      BY <1>1, <3>2 DEF Live
  <2>3. InFlight' = InFlight /\ Live' \cap {w \in Window : tmux'[w] # "live"} = {}
    BY <2>1 DEF InFlight, Live
  <2>4. CASE process = "down"
    <3>1. Recorded(disk') = Recorded(disk)
      BY <2>1, <2>4
    <3>. QED
      BY <2>1, <2>2, <2>4, <3>1 DEF NoneLost
  <2>5. CASE process # "down"
    BY <2>1, <2>2, <2>3, <2>5 DEF NoneLost
  <2>. QED
    BY <2>4, <2>5
<1>4. CASE Crash \/ Stop
  BY <1>4, EndsForgetNone
<1>5. CASE Load
  <2>1. /\ process = "down" /\ process' = "starting" /\ tmux' = tmux
        /\ UNCHANGED <<refused, strays>>
        /\ bindings' = disk.bindings /\ windowStates' = disk.windowStates
    BY <1>5 DEF Load
  <2>2. Live' = Live
    BY <2>1 DEF Live
  <2>. QED
    BY <2>1, <2>2 DEF NoneLost, Recorded
<1>6. ASSUME NEW listed \in {Live, {}}, NEW killed \in SUBSET Orphans,
             StartupCleanup(listed, killed)
      PROVE  NoneLost'
  <2> DEFINE alive == Values(bindings) \cap listed
             dead  == Values(bindings) \ listed
  <2>1. /\ listed \in SUBSET Window
    BY DEF Live
  <2>2. /\ Values(bindings') = alive
        /\ DOMAIN windowStates' = alive \cup (DOMAIN windowStates \ (dead \cup Orphans))
        /\ tmux' = [w \in Window |-> IF w \in killed \cap Live THEN "gone" ELSE tmux[w]]
        /\ refused' = refused \cup ((Orphans \ killed) \cap Live)
        /\ strays' = strays \cup (dead \cap Live)
    BY <1>6, <2>1, CleanupStep
  <2>3. process = "starting" /\ process' = "up" /\ UNCHANGED <<kills, request>>
    BY <1>6 DEF StartupCleanup
  <2>4. Live' = Live \ killed /\ InFlight' = InFlight
    BY <2>2, <2>3 DEF Live, InFlight
  <2>5. Live \subseteq refused \cup strays \cup Values(bindings) \cup DOMAIN windowStates \cup kills
                       \cup InFlight
    BY <2>3 DEF NoneLost
  <2>. QED
    BY <2>2, <2>3, <2>4, <2>5 DEF NoneLost
<1>. QED
  BY <1>2, <1>3, <1>4, <1>5, <1>6, GatewaySteps

-----------------------------------------------------------------------------
(* What is saved.                                                          *)

\* A step of a call leaves the registries as they are, or only records a window for
\* no channel, or has a save due.
LEMMA StepsSave ==
  ASSUME GatewayTypeOK, IInv, SavedIsCurrent, process = "up",
         NEW r \in Request, CallOK(r), StepOf(r)
  PROVE  SavedIsCurrent'
<1> DEFINE Same == /\ UNCHANGED <<bindings, created, disk, unsaved>>
                   /\ \A w \in DOMAIN windowStates' : windowStates'[w] # NoChannel =>
                        w \in DOMAIN windowStates /\ windowStates'[w] = windowStates[w]
<1>1. ASSUME Same
      PROVE  SavedIsCurrent'
  BY <1>1 DEF SavedIsCurrent, Get
<1>2. ASSUME unsaved'
      PROVE  SavedIsCurrent'
  BY <1>2 DEF SavedIsCurrent
<1>3. CASE \/ \E c \in Channel \cup {NoChannel} : AskCreate(r, c)
           \/ \E w \in Window : TmuxCreates(r, w)
           \/ \E opened \in {{}} \cup {{w} : w \in Window} : TmuxFails(r, opened)
           \/ TmuxKills(r)
           \/ \E c \in Channel : AskClose(r, c)
  <2>1. UNCHANGED <<bindings, created, disk, unsaved, windowStates>>
    BY <1>3 DEF AskCreate, TmuxCreates, TmuxFails, TmuxKills, AskClose, registry, vars
  <2>. QED
    BY <1>1, <2>1
<1>6. ASSUME NEW named \in BOOLEAN, BindCreated(r, named)
      PROVE  SavedIsCurrent'
  <2>1. /\ request[r].channel \in Channel /\ request[r].window \in Window
        /\ Bind(request[r].channel, request[r].window, FALSE, NoName)
        /\ UNCHANGED <<windowStates, disk>>
    BY <1>6, Fields DEF BindCreated, CallOK
  <2>2. UNCHANGED vars \/ unsaved'
    BY <2>1, BindMoves
  <2>3. UNCHANGED vars => Same
    BY <2>1 DEF vars
  <2>. QED
    BY <1>1, <1>2, <2>2, <2>3
<1>7. ASSUME RecordCliWindow(r)
      PROVE  SavedIsCurrent'
  <2> DEFINE w == request[r].window
  <2>1. /\ windowStates' = Put(windowStates, w, Get(windowStates, w, NoChannel))
        /\ UNCHANGED <<bindings, created, disk, unsaved>>
    BY <1>7 DEF RecordCliWindow, vars
  <2>2. Same
    BY <2>1 DEF Put, Get
  <2>. QED
    BY <1>1, <2>2
<1>8. ASSUME RecordWindow(r)
      PROVE  SavedIsCurrent'
  BY <1>2, <1>8 DEF RecordWindow, ScheduleSave
<1>9. ASSUME NEW w \in Window, KillNext(r, w)
      PROVE  SavedIsCurrent'
  BY <1>2, <1>9, ForgetMoves DEF KillNext
<1>. QED
  BY <1>3, <1>6, <1>7, <1>8, <1>9 DEF StepOf

\* No step leaves a change that is neither saved nor due to be.
LEMMA NextSaved ==
  ASSUME GatewayTypeOK, IInv, PhasesOK, SavedIsCurrent,
         \A r \in Request : CallOK(r), [GatewayNext]_allVars
  PROVE  SavedIsCurrent'
<1>1. ASSUME NEW r \in Request, StepOf(r)
      PROVE  SavedIsCurrent'
  BY <1>1, StepsAreUp, StepsSave
<1>2. CASE QuietStep
  <2>1. /\ UNCHANGED <<windowStates, process, turn>>
        /\ \/ UNCHANGED <<bindings, created, disk, unsaved>> \/ unsaved'
           \/ disk' = Snapshot /\ UNCHANGED <<bindings, created>>
    BY <1>2, QuietSteps DEF QuietStep
  <2>2. CASE UNCHANGED <<bindings, created, disk, unsaved>>
    BY <2>1, <2>2 DEF SavedIsCurrent
  <2>3. CASE unsaved'
    BY <2>3 DEF SavedIsCurrent
  <2>4. CASE disk' = Snapshot /\ UNCHANGED <<bindings, created>>
    <3>1. /\ disk'.bindings = bindings' /\ disk'.created = created'
          /\ disk'.windowStates = windowStates'
      BY <2>1, <2>4 DEF Snapshot
    <3>. QED
      BY <3>1 DEF SavedIsCurrent, Get
  <2>. QED
    BY <2>1, <2>2, <2>3, <2>4
<1>3. CASE Crash \/ Stop \/ Load
  BY <1>3 DEF Crash, Stop, Load, ProcessEnds, SavedIsCurrent
<1>4. ASSUME NEW listed \in {Live, {}}, NEW killed \in SUBSET Orphans,
             StartupCleanup(listed, killed)
      PROVE  SavedIsCurrent'
  <2>1. SUFFICES ASSUME ~unsaved'
                 PROVE  SavedIsCurrent'
    BY DEF SavedIsCurrent
  <2>2. /\ process = "starting" /\ disk' = disk
        /\ unsaved' = (Recorded(disk) \cup created # {})
        /\ bindings' = [c \in {c \in DOMAIN bindings : bindings[c] \in listed} |-> bindings[c]]
    BY <1>4 DEF StartupCleanup
  <2>3. /\ disk.bindings = bindings /\ disk.created = created
        /\ disk.windowStates = windowStates
    BY <2>2 DEF PhasesOK, Snapshot
  <2>4. Values(bindings) = {} /\ DOMAIN windowStates = {} /\ created = {}
    BY <2>1, <2>2, <2>3 DEF Recorded
  <2>5. listed \in SUBSET Window
    BY DEF Live
  <2>6. DOMAIN windowStates' = {} /\ created' = {}
    BY <1>4, <2>4, <2>5, CleanupStep
  <2>7. DOMAIN bindings = {}
    BY <2>4 DEF Values
  <2>8. bindings \in [DOMAIN bindings -> Window]
    BY PartialFunctionsDef DEF GatewayTypeOK, TypeOK
  <2>9. bindings' = bindings
    BY <2>2, <2>7, <2>8
  <2>. QED
    BY <2>2, <2>3, <2>4, <2>6, <2>9 DEF SavedIsCurrent
<1>. QED
  BY <1>1, <1>2, <1>3, <1>4, GatewaySteps

-----------------------------------------------------------------------------
(* The gateway's theorems.                                                 *)

\* The first state, before any process, has the invariant.
LEMMA InitGatewayInv == GatewayInit => GatewayInv
<1> SUFFICES ASSUME GatewayInit
             PROVE  GatewayInv
  OBVIOUS
<1>1. /\ bindings = <<>> /\ reverse = <<>> /\ displayNames = <<>> /\ channelMeta = {}
      /\ created = {} /\ kills = {} /\ unsaved = FALSE /\ windowStates = <<>>
      /\ process = "down" /\ turn = NoRequest /\ failures = 0
      /\ took = [r \in Request |-> {}] /\ refused = {} /\ strays = {}
      /\ tmux = [w \in Window |-> IF w = Blank THEN "gone" ELSE "unborn"]
      /\ request = [r \in Request |-> Idle]
      /\ disk = Snapshot
  BY DEF GatewayInit
<1>2. disk.bindings = <<>> /\ disk.created = {} /\ disk.windowStates = <<>>
  BY <1>1 DEF Snapshot
<1>3. /\ bindings \in PartialFunctions(Channel, Window)
      /\ reverse \in PartialFunctions(Window, (SUBSET Channel) \ {{}})
      /\ displayNames \in PartialFunctions(Window, Name)
      /\ windowStates \in PartialFunctions(Window, Channel \cup {NoChannel})
      /\ reverse = IndexOf(bindings)
  BY <1>1, Empty
<1>4. tmux \in [Window -> WindowStatus]
  BY <1>1 DEF WindowStatus
<1>5. IInv
  BY <1>1, <1>3, <1>4 DEF IInv, TypeOK, IndexExact, MetaOnlyForBound
<1>6. disk \in State
  BY <1>1, <1>3 DEF Snapshot, State
<1>7. Idle \in Calls
  BY DEF Idle, Calls, Stages
<1>8. request \in [Request -> Calls]
  BY <1>1, <1>7
<1>9. failures \in 0..MaxFailures
  BY <1>1, GatewayAssumption
<1>10. GatewayTypeOK
  BY <1>1, <1>3, <1>5, <1>6, <1>8, <1>9 DEF GatewayTypeOK, IInv, Calls
<1>11. Live = {}
  BY <1>1 DEF Live
<1>12. Values(bindings) = {} /\ DOMAIN windowStates = {} /\ Recorded(disk) = {}
  BY <1>1, <1>2, Empty DEF Recorded
<1>13. PhasesOK /\ SavedIsCurrent
  BY <1>1 DEF PhasesOK, SavedIsCurrent
<1>14. KnownOK
  BY <1>1, <1>12 DEF KnownOK
<1>15. ASSUME NEW r \in Request
       PROVE  CallOK(r) /\ request[r].at = "idle"
  <2>1. request[r] = Idle
    BY <1>1
  <2>. QED
    BY <1>11, <2>1 DEF CallOK, Idle
<1>16. FreshOK /\ TookOK
  BY <1>1, <1>15 DEF FreshOK, TookOK, CloseOK
<1>17. NoneLost
  BY <1>11 DEF NoneLost
<1>. QED
  BY <1>5, <1>10, <1>13, <1>14, <1>15, <1>16, <1>17 DEF GatewayInv

\* Every step keeps the invariant.
LEMMA NextGatewayInv == GatewayInv /\ [GatewayNext]_allVars => GatewayInv'
<1> SUFFICES ASSUME GatewayInv, [GatewayNext]_allVars
             PROVE  GatewayInv'
  OBVIOUS
<1>1. /\ GatewayTypeOK /\ IInv /\ PhasesOK /\ KnownOK
      /\ \A r \in Request : CallOK(r)
      /\ FreshOK /\ TookOK /\ NoneLost /\ SavedIsCurrent
  BY DEF GatewayInv
<1>2. GatewayTypeOK' /\ IInv' /\ PhasesOK' /\ KnownOK'
  BY <1>1, NextRouter, NextGatewayTypes, NextPhases, NextKnown
<1>3. \A r \in Request : CallOK(r)'
  BY <1>1, NextCalls
<1>4. FreshOK' /\ TookOK' /\ NoneLost' /\ SavedIsCurrent'
  BY <1>1, NextFresh, NextTook, NextLost, NextSaved
<1>. QED
  BY <1>2, <1>3, <1>4 DEF GatewayInv

\* The invariant of a gateway process over its life.
THEOREM GatewayInvariant == GatewaySpec => []GatewayInv
BY InitGatewayInv, NextGatewayInv, PTL DEF GatewaySpec

\* Every variable keeps its type, state.json included.
THEOREM GatewayTypes == GatewaySpec => []GatewayTypeOK
BY GatewayInvariant, PTL DEF GatewayInv

\* However calls, kill threads, failures, crashes and restarts interleave, every live
\* window is bound, recorded, being killed or in the hands of a call; or tmux refused
\* to kill it, its creation failed, a startup did not see it, or it was at risk when a
\* process ended, which only unsaved windows are.
THEOREM NoneForgotten == GatewaySpec => []NoWindowForgotten
<1>1. NoneLost => NoWindowForgotten
  BY DEF NoneLost, NoWindowForgotten
<1>. QED
  BY <1>1, GatewayInvariant, PTL DEF GatewayInv

\* While no save is due, state.json is current.
THEOREM SavedState == GatewaySpec => []SavedIsCurrent
BY GatewayInvariant, PTL DEF GatewayInv

\* After a startup that could list the windows, exactly the live bound windows are
\* recorded and marked, whatever a crash left in the file.
THEOREM StartupAgrees == GatewaySpec => StartupReconciles
<1>1. ASSUME GatewayInv, NEW killed \in SUBSET Orphans, StartupCleanup(Live, killed)
      PROVE  /\ Values(bindings') \subseteq Live'
             /\ DOMAIN windowStates' = Values(bindings')
             /\ created' = Values(bindings')
  <2> DEFINE alive == Values(bindings) \cap Live
             dead  == Values(bindings) \ Live
  <2>1. GatewayTypeOK /\ IInv /\ Live \in SUBSET Window
    BY <1>1 DEF GatewayInv, Live
  <2>2. /\ Values(bindings') = alive
        /\ DOMAIN windowStates' = alive \cup (DOMAIN windowStates \ (dead \cup Orphans))
        /\ created' = ({w \in created \cap Live : w \in DOMAIN windowStates} \ Orphans)
                        \cup alive
        /\ tmux' = [w \in Window |-> IF w \in killed \cap Live THEN "gone" ELSE tmux[w]]
    BY <1>1, <2>1, CleanupStep
  <2>3. DOMAIN windowStates \ (dead \cup Orphans) \subseteq alive
    BY DEF Orphans
  <2>4. {w \in created \cap Live : w \in DOMAIN windowStates} \ Orphans \subseteq alive
    BY DEF Orphans
  <2>5. Live' = Live \ killed
    BY <2>2 DEF Live
  <2>6. alive \cap killed = {}
    BY DEF Orphans
  <2>. QED
    BY <2>2, <2>3, <2>4, <2>5, <2>6
<1>2. GatewayInv => \A killed \in SUBSET Orphans : StartupCleanup(Live, killed) =>
        /\ Values(bindings') \subseteq Live'
        /\ DOMAIN windowStates' = Values(bindings')
        /\ created' = Values(bindings')
  BY <1>1
<1>. QED
  BY <1>2, GatewayInvariant, PTL DEF StartupReconciles

\* When a close ends, none of the windows it took is bound, and each is dead or tmux
\* refused to kill it.
THEOREM CloseFinishes == GatewaySpec => CloseIsFinal
<1> DEFINE Final(r) == \A w \in took[r] :
                         /\ w \notin Live' \/ w \in refused'
                         /\ w \notin Values(bindings') \ {Blank}
<1>1. ASSUME GatewayInv, [GatewayNext]_allVars, NEW r \in Request,
             request[r].at = "killing", request'[r] = Idle
      PROVE  process' = "down" \/ Final(r)
  <2>1. /\ GatewayTypeOK /\ IInv /\ PhasesOK /\ KnownOK /\ CallOK(r) /\ TookOK
        /\ \A q \in Request : CallOK(q)
    BY <1>1 DEF GatewayInv
  <2>2. request'[r] # request[r] /\ request'[r].at = "idle"
    BY <1>1 DEF Idle
  <2>3. ASSUME NEW q \in Request, StepOf(q)
        PROVE  TmuxKills(r)
    <3>1. q = r
      BY <2>1, <2>2, <2>3, StepsMove
    <3>2. ~(RecordWindow(r) \/ RecordCliWindow(r))
      BY <1>1 DEF RecordWindow, RecordCliWindow
    <3>3. ASSUME NEW at, NEW c, NEW w, NEW rest, Becomes(r, at, c, w, rest)
          PROVE  at = "idle"
      BY <2>2, <3>3 DEF Becomes
    <3>4. /\ \A c \in Channel \cup {NoChannel} : ~AskCreate(r, c)
          /\ \A w \in Window : ~TmuxCreates(r, w) /\ ~KillNext(r, w)
          /\ \A opened : ~TmuxFails(r, opened)
          /\ \A named \in BOOLEAN : ~BindCreated(r, named)
          /\ \A c \in Channel : ~AskClose(r, c)
      BY <2>1, <3>3, CallSteps
    <3>. QED
      BY <2>3, <3>1, <3>2, <3>4 DEF StepOf
  <2>4. CASE TmuxKills(r)
    <3> DEFINE w0 == request[r].window
    <3>1. /\ UNCHANGED bindings /\ TmuxMoves
          /\ w0 \in Live' => w0 \in refused'
      BY <1>1, <2>1, <2>4, NextTmux
         DEF TmuxKills, Refuse, registry, Live, GatewayTypeOK, TypeOK
    <3>2. request[r].rest = {}
      <4>1. request'[r] = IF request[r].rest = {} THEN Idle
                          ELSE [request[r] EXCEPT !.at = "closing"]
        BY <2>1, <2>4 DEF TmuxKills, GatewayTypeOK
      <4>2. [request[r] EXCEPT !.at = "closing"].at = "closing"
        BY <2>1, Replaced
      <4>. QED
        BY <2>2, <4>1, <4>2
    <3>3. \A w \in took[r] :
            /\ w \in Known /\ w \notin Values(bindings) \ {Blank}
            /\ w \in Live => w \in refused \/ w = w0
      BY <2>1, <3>2 DEF TookOK, CloseOK
    <3>. QED
      BY <3>1, <3>3 DEF TmuxMoves
  <2>5. CASE QuietStep
    BY <2>1, <2>2, <2>5, QuietSteps DEF QuietStep
  <2>6. CASE Crash \/ Stop
    BY <2>6 DEF Crash, Stop, ProcessEnds
  <2>7. ~Load /\ \A listed, killed : ~StartupCleanup(listed, killed)
    BY <1>1, <2>1, NoCalls DEF Load, StartupCleanup
  <2>. QED
    BY <1>1, <2>3, <2>4, <2>5, <2>6, <2>7, GatewaySteps
<1>2. GatewayInv /\ [GatewayNext]_allVars =>
        \A r \in Request : request[r].at = "killing" /\ request'[r] = Idle =>
          process' = "down" \/ Final(r)
  BY <1>1
<1>. QED
  BY <1>2, GatewayInvariant, PTL DEF GatewaySpec, CloseIsFinal
=============================================================================
