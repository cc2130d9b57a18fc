---------------------------- MODULE AgentPaneProofs ----------------------------
(***************************************************************************)
(* Proofs about AgentPane, for any texts, probes, keys of others and       *)
(* faults.                                                                 *)
(***************************************************************************)
EXTENDS AgentPane, TLAPS

-----------------------------------------------------------------------------
(* The inductive invariant.                                                *)

\* Nothing of a text is on the screen or was submitted.
Absent(c) == ~Contains(line, c) /\ \A l \in submitted : ~Contains(l, c)

\* A text was submitted as it is, and nothing of it is on the screen.
Arrived(c) ==
  /\ Pieces(c) \in submitted /\ ~Contains(line, c)
  /\ \A l \in submitted : Contains(l, c) => l = Pieces(c)

\* What an undisturbed text finds, and leaves, at each step of its turn.
TurnOK(c) ==
  /\ ui = "input"
  /\ call[c] \in {"check", "probe"} => line = <<>>
  /\ call[c] = "probe" => vim # "insert"
  /\ call[c] \in {"look", "erase"} =>
       \/ vim = "insert" /\ line = <<>>
       \/ vim = "off" /\ line \in {<<>>, <<"i">>}
  /\ call[c] \in {"type", "rest", "enter"} => vim # "normal"
  /\ call[c] = "type" => line = <<>>
  /\ call[c] = "rest" => c \in Bang /\ line = <<"!">>
  /\ call[c] = "enter" => line = Pieces(c) /\ \A l \in submitted : ~Contains(l, c)

\* A text is not on the screen before its last piece was typed; an undisturbed one is
\* in its turn, or has arrived.
TextOK(c) ==
  /\ call[c] \in {"idle"} \cup (Turn \ {"enter"}) => Absent(c)
  /\ c \in clean => IF call[c] \in Turn THEN TurnOK(c) ELSE call[c] = "sent" /\ Arrived(c)

\* Nothing that only probes type.
Traceless(l) == ~Contains(l, "/status") /\ ~Contains(l, "1")

\* What an undisturbed probe finds, and leaves, at each of its steps.
StageOK(p) ==
  /\ probe[p] # "open" => line = <<>>
  /\ probe[p] = "open" => line \in {<<>>, <<"/status">>}
  /\ probe[p] \in {"wait", "settle"} => ui \in {"trust", "input"}
  /\ probe[p] = "accept" => ui = "trust"
  /\ probe[p] \in {"read", "escape", "escape2"} => ui \in {"input", "status"}
  /\ probe[p] \in {"clear", "ask", "open", "clear2", "store"} => ui = "input"

\* As long as no probe was disturbed: what each leaves, and what the one under way
\* is about.
AloneOK ==
  alone =>
    /\ \A l \in submitted : Traceless(l)
    /\ probing = None => ui \in {"trust", "input"} /\ Traceless(line)
    /\ \A p \in Prober : probing = p => StageOK(p)

IInv == TypeOK /\ (\A c \in Call : TextOK(c)) /\ AloneOK

-----------------------------------------------------------------------------
(* Lines.                                                                  *)

Tokens == Call \cup Key

\* The first n pieces of a line.
LEMMA Prefix ==
  ASSUME NEW l \in Seq(Tokens), NEW n \in Nat, n <= Len(l)
  PROVE  /\ SubSeq(l, 1, n) \in Seq(Tokens) /\ Len(SubSeq(l, 1, n)) = n
         /\ \A i \in 1..n : SubSeq(l, 1, n)[i] = l[i]
OBVIOUS

\* What a line contains after one more piece, or one less.
LEMMA Lines ==
  ASSUME NEW l \in Seq(Tokens), NEW t \in Tokens
  PROVE  /\ Append(l, t) \in Seq(Tokens)
         /\ \A x : Contains(Append(l, t), x) <=> Contains(l, x) \/ x = t
         /\ l # <<>> => /\ Front(l) \in Seq(Tokens)
                        /\ \A x : Contains(Front(l), x) => Contains(l, x)
<1>1. /\ Append(l, t) \in Seq(Tokens) /\ Len(Append(l, t)) = Len(l) + 1 /\ Len(l) \in Nat
      /\ Append(l, t)[Len(l) + 1] = t /\ \A i \in 1..Len(l) : Append(l, t)[i] = l[i]
  OBVIOUS
<1>2. ASSUME NEW x
      PROVE  Contains(Append(l, t), x) <=> Contains(l, x) \/ x = t
  <2>1. ASSUME Contains(Append(l, t), x)
        PROVE  Contains(l, x) \/ x = t
    BY <1>1, <2>1 DEF Contains
  <2>2. ASSUME Contains(l, x) \/ x = t
        PROVE  Contains(Append(l, t), x)
    <3>1. CASE x = t
      <4>1. Len(l) + 1 \in 1..Len(Append(l, t))
        BY <1>1
      <4>. QED
        BY <1>1, <3>1, <4>1 DEF Contains
    <3>2. CASE Contains(l, x)
      <4>1. PICK i \in 1..Len(l) : l[i] = x
        BY <3>2 DEF Contains
      <4>2. i \in 1..Len(Append(l, t)) /\ Append(l, t)[i] = x
        BY <1>1, <4>1
      <4>. QED
        BY <4>2 DEF Contains
    <3>. QED
      BY <2>2, <3>1, <3>2
  <2>. QED
    BY <2>1, <2>2
<1>3. ASSUME l # <<>>
      PROVE  Front(l) \in Seq(Tokens) /\ \A x : Contains(Front(l), x) => Contains(l, x)
  <2>1. Len(l) - 1 \in Nat /\ Len(l) - 1 <= Len(l)
    BY <1>1, <1>3
  <2>2. /\ Front(l) \in Seq(Tokens) /\ Len(Front(l)) = Len(l) - 1
        /\ \A i \in 1..(Len(l) - 1) : Front(l)[i] = l[i]
    BY <2>1, Prefix DEF Front
  <2>. QED
    BY <2>1, <2>2 DEF Contains
<1>. QED
  BY <1>1, <1>2, <1>3

\* The empty line, one piece, and the pieces of a text.
LEMMA Shorts ==
  /\ <<>> \in Seq(Tokens) /\ \A x : ~Contains(<<>>, x)
  /\ \A t : Append(<<>>, t) = <<t>> /\ <<t>> # <<>>
  /\ \A t, x : Contains(<<t>>, x) <=> x = t
  /\ \A t \in Tokens : <<t>> \in Seq(Tokens)
<1>1. \A x : ~Contains(<<>>, x)
  BY DEF Contains
<1>2. \A t : Len(<<t>>) = 1 /\ <<t>>[1] = t
  OBVIOUS
<1>3. \A t, x : Contains(<<t>>, x) <=> x = t
  BY <1>2 DEF Contains
<1>. QED
  BY <1>1, <1>3

\* A text is typed in one piece, or as "!" and the rest.
LEMMA TextPieces ==
  ASSUME NEW c \in Call
  PROVE  /\ Head(Pieces(c)) \in {c, "!"} /\ Last(Pieces(c)) = c
         /\ Len(Pieces(c)) > 1 <=> c \in Bang
         /\ c \notin Bang => Pieces(c) = <<c>> /\ Head(Pieces(c)) = c
         /\ c \in Bang => Head(Pieces(c)) = "!" /\ Pieces(c) = Append(<<"!">>, c)
         /\ \A x : Contains(Pieces(c), x) => x \in {c, "!"}
<1>1. CASE c \in Bang
  <2>1. Pieces(c) = <<"!", c>>
    BY <1>1 DEF Pieces
  <2>2. Len(<<"!", c>>) = 2 /\ <<"!", c>>[1] = "!" /\ <<"!", c>>[2] = c
    OBVIOUS
  <2>3. <<"!", c>> = Append(<<"!">>, c) /\ Head(<<"!", c>>) = "!"
    OBVIOUS
  <2>. QED
    BY <1>1, <2>1, <2>2, <2>3 DEF Contains, Last
<1>2. CASE c \notin Bang
  <2>1. Pieces(c) = <<c>>
    BY <1>2 DEF Pieces
  <2>2. Len(<<c>>) = 1 /\ <<c>>[1] = c /\ Head(<<c>>) = c
    OBVIOUS
  <2>. QED
    BY <1>2, <2>1, <2>2 DEF Contains, Last
<1>. QED
  BY <1>1, <1>2

-----------------------------------------------------------------------------
(* Keys: what they may add to the screen and to what was submitted.        *)

\* The screen is of its type, and only the pieces ts are new on it.
Adds(ts) ==
  /\ ui' \in {"trust", "input", "status"} /\ vim' \in {"off", "insert", "normal"}
  /\ line' \in Seq(Tokens)
  /\ submitted \subseteq submitted'
  /\ \A x : x \notin ts =>
       /\ Contains(line', x) => Contains(line, x)
       /\ \A l \in submitted' \ submitted : Contains(l, x) => Contains(line, x)

\* A piece is typed.
LEMMA TypedAdds ==
  ASSUME TypeOK, NEW t \in Tokens, Typed(t)
  PROVE  Adds({t})
<1>1. line \in Seq(Tokens)
  BY DEF TypeOK, Tokens
<1>2. Append(line, t) \in Seq(Tokens) /\ \A x : Contains(Append(line, t), x) <=> Contains(line, x) \/ x = t
  BY <1>1, Lines
<1>. QED
  BY <1>1, <1>2 DEF Adds, TypeOK, Typed

\* Enter, Escape, the clearing of the line, or nothing.
LEMMA PressedAdds ==
  ASSUME TypeOK, EnterPressed \/ EscapePressed \/ LineCleared \/ UNCHANGED screen
  PROVE  Adds({})
<1>1. line \in Seq(Tokens) /\ <<>> \in Seq(Tokens) /\ \A x : ~Contains(<<>>, x)
  BY Shorts DEF TypeOK, Tokens
<1>2. CASE EnterPressed
  BY <1>1, <1>2 DEF Adds, TypeOK, EnterPressed
<1>3. CASE EscapePressed
  BY <1>1, <1>3 DEF Adds, TypeOK, EscapePressed
<1>4. CASE LineCleared
  BY <1>1, <1>4 DEF Adds, TypeOK, LineCleared
<1>5. CASE UNCHANGED screen
  BY <1>1, <1>5 DEF Adds, TypeOK, screen
<1>. QED
  BY <1>2, <1>3, <1>4, <1>5

\* Backspace may leave a text without its last character.
LEMMA BackspaceAdds ==
  ASSUME TypeOK, BackspacePressed
  PROVE  Adds({"cut"})
<1>1. line \in Seq(Tokens) /\ "cut" \in Tokens
  BY DEF TypeOK, Tokens, Key
<1>2. CASE line = <<>>
  BY <1>1, <1>2 DEF Adds, TypeOK, BackspacePressed
<1>3. CASE line # <<>>
  <2>1. Front(line) \in Seq(Tokens) /\ \A x : Contains(Front(line), x) => Contains(line, x)
    BY <1>1, <1>3, Lines
  <2>2. /\ Append(Front(line), "cut") \in Seq(Tokens)
        /\ \A x : Contains(Append(Front(line), "cut"), x) <=> Contains(Front(line), x) \/ x = "cut"
    BY <1>1, <2>1, Lines
  <2>. QED
    BY <1>1, <2>1, <2>2 DEF Adds, TypeOK, BackspacePressed
<1>. QED
  BY <1>2, <1>3

\* The probe's answer to the trust prompt, at whatever the pane shows.
LEMMA TrustAdds ==
  ASSUME TypeOK, AnswersTrust \/ UNCHANGED screen \/ Typed("1") \/ EnterPressed
  PROVE  Adds({"1"})
<1>1. line \in Seq(Tokens) /\ "1" \in Tokens /\ <<>> \in Seq(Tokens) /\ \A x : ~Contains(<<>>, x)
  BY Shorts DEF TypeOK, Tokens, Key
<1>2. \A x : Contains(Append(line, "1"), x) <=> Contains(line, x) \/ x = "1"
  BY <1>1, Lines
<1>3. CASE Typed("1")
  BY <1>1, <1>3, TypedAdds
<1>4. CASE UNCHANGED screen \/ EnterPressed
  <2>1. Adds({})
    BY <1>4, PressedAdds
  <2>. QED
    BY <2>1 DEF Adds
<1>5. CASE submitted' = submitted \cup {Append(line, "1")} /\ line' = <<>> /\ UNCHANGED <<ui, vim>>
  <2>1. ASSUME NEW x, x \notin {"1"}
        PROVE  /\ ~Contains(line', x)
               /\ \A l \in submitted' \ submitted : Contains(l, x) => Contains(line, x)
    BY <1>1, <1>2, <1>5, <2>1
  <2>. QED
    BY <1>1, <1>5, <2>1 DEF Adds, TypeOK
<1>. QED
  BY <1>3, <1>4, <1>5 DEF AnswersTrust

-----------------------------------------------------------------------------
(* How the invariant survives the keys.                                    *)

\* Pieces of others leave a text absent, or arrived.
LEMMA TextStays ==
  ASSUME NEW c, NEW ts, Adds(ts), c \notin ts
  PROVE  (Absent(c) => Absent(c)') /\ (Arrived(c) => Arrived(c)')
<1>1. /\ Contains(line', c) => Contains(line, c)
      /\ \A l \in submitted' \ submitted : Contains(l, c) => Contains(line, c)
      /\ submitted \subseteq submitted'
  BY DEF Adds
<1>2. Absent(c) => Absent(c)'
  BY <1>1 DEF Absent
<1>3. ASSUME Arrived(c)
      PROVE  Arrived(c)'
  <2>1. \A l \in submitted' : Contains(l, c) => l = Pieces(c)
    BY <1>1, <1>3 DEF Arrived
  <2>2. Pieces(c) \in submitted' /\ ~Contains(line', c)
    BY <1>1, <1>3 DEF Arrived
  <2>. QED
    BY <2>1, <2>2 DEF Arrived, Pieces
<1>. QED
  BY <1>2, <1>3

\* Keys that no probe sends: an undisturbed probe is not under way.
LEMMA KeysKeepAlone ==
  ASSUME TypeOK, AloneOK, UNCHANGED <<probing, probe>>, NEW ts, Adds(ts),
         \/ UNCHANGED <<ui, line, submitted, alone>>
         \/ /\ alone' = (alone /\ probing = None) /\ "1" \notin ts /\ "/status" \notin ts
            /\ ui' \in {"trust", "input"} \/ ui' = ui \/ line = <<"/status">>
  PROVE  AloneOK'
<1>1. CASE UNCHANGED <<ui, line, submitted, alone>>
  BY <1>1 DEF AloneOK, StageOK
<1>2. CASE /\ alone' = (alone /\ probing = None) /\ "1" \notin ts /\ "/status" \notin ts
           /\ ui' \in {"trust", "input"} \/ ui' = ui \/ line = <<"/status">>
  <2> SUFFICES ASSUME alone, probing = None
               PROVE  /\ \A l \in submitted' : Traceless(l)
                      /\ ui' \in {"trust", "input"} /\ Traceless(line')
                      /\ \A p \in Prober : probing # p
    BY <1>2 DEF AloneOK, Traceless
  <2>1. /\ \A l \in submitted : Traceless(l)
        /\ ui \in {"trust", "input"} /\ Traceless(line)
    BY DEF AloneOK
  <2>2. line # <<"/status">>
    BY <2>1, Shorts DEF Traceless
  <2>3. Traceless(line') /\ \A l \in submitted' : Traceless(l)
    BY <1>2, <2>1 DEF Adds, Traceless
  <2>. QED
    BY <1>2, <2>1, <2>2, <2>3, PaneAssumption
<1>. QED
  BY <1>1, <1>2

\* Keys of the probes and of others, past the lock: a text in its turn is disturbed.
LEMMA OthersKeepTexts ==
  ASSUME IInv, UNCHANGED <<lock, call>>, NEW ts, Adds(ts), ts \cap Call = {},
         clean' = clean \ {lock} \/ (UNCHANGED screen /\ clean' = clean)
  PROVE  \A c \in Call : TextOK(c)'
<1> SUFFICES ASSUME NEW c \in Call
             PROVE  TextOK(c)'
  OBVIOUS
<1>1. TypeOK /\ TextOK(c)
  BY DEF IInv
<1>2. (Absent(c) => Absent(c)') /\ (Arrived(c) => Arrived(c)')
  BY TextStays
<1>3. CASE UNCHANGED screen /\ clean' = clean
  <2>1. TurnOK(c) => TurnOK(c)'
    BY <1>3 DEF TurnOK, screen, Pieces
  <2>. QED
    BY <1>1, <1>2, <1>3, <2>1 DEF TextOK
<1>4. CASE clean' = clean \ {lock}
  <2>1. c \in clean' => c \in clean /\ call[c] \notin Turn
    BY <1>1, <1>4 DEF TypeOK
  <2>. QED
    BY <1>1, <1>2, <2>1 DEF TextOK
<1>. QED
  BY <1>3, <1>4

\* A step of sending text d, which has the lock or takes it: the other texts are not
\* in their turn.
LEMMA SendKeeps ==
  ASSUME IInv, NEW d \in Call, lock \in {d, None},
         NEW pc \in Turn \cup {"sent", "failed"}, Goes(d, pc),
         lock' = IF pc \in Turn THEN d ELSE None,
         NEW ts, Adds(ts), ts \cap Call \subseteq {d}, clean' \subseteq clean \cup {d},
         cache' \in {"unknown", "on", "off"}, UNCHANGED asking, TextOK(d)',
         \/ UNCHANGED <<ui, line, submitted, alone>>
         \/ /\ alone' = (alone /\ probing = None) /\ "1" \notin ts /\ "/status" \notin ts
            /\ ui' \in {"trust", "input"} \/ ui' = ui \/ line = <<"/status">>
  PROVE  IInv'
<1>1. TypeOK /\ (\A c \in Call : TextOK(c)) /\ AloneOK
  BY DEF IInv
<1>2. UNCHANGED <<probing, probe, found, known>>
  BY DEF asking
<1>3. call' = [call EXCEPT ![d] = pc] /\ call \in [Call -> Turn \cup {"idle", "sent", "failed"}]
  BY <1>1 DEF Goes, TypeOK
<1>4. \A c \in Call \ {d} : call[c] \notin Turn /\ call'[c] = call[c]
  BY <1>1, <1>3, PaneAssumption DEF TypeOK
<1>5. TypeOK'
  <2>1. \A c \in Call : call'[c] \in Turn <=> lock' = c
    BY <1>3, <1>4, PaneAssumption
  <2>2. call' \in [Call -> Turn \cup {"idle", "sent", "failed"}] /\ lock' \in Call \cup {None}
    BY <1>3
  <2>3. clean' \subseteq Call /\ alone' \in BOOLEAN
    BY <1>1 DEF TypeOK
  <2>4. line' \in Seq(Call \cup Key) /\ ui' \in {"trust", "input", "status"}
        /\ vim' \in {"off", "insert", "normal"}
    BY DEF Adds, Tokens
  <2>. QED
    BY <1>1, <1>2, <2>1, <2>2, <2>3, <2>4 DEF TypeOK
<1>6. ASSUME NEW c \in Call
      PROVE  TextOK(c)'
  <2>1. CASE c = d
    BY <2>1
  <2>2. CASE c # d
    <3>1. c \notin ts
      BY <2>2
    <3>2. (Absent(c) => Absent(c)') /\ (Arrived(c) => Arrived(c)')
      BY <3>1, TextStays
    <3>3. c \in clean' => c \in clean
      BY <2>2
    <3>. QED
      BY <1>1, <1>4, <2>2, <3>2, <3>3 DEF TextOK
  <2>. QED
    BY <2>1, <2>2
<1>7. AloneOK'
  BY <1>1, <1>2, KeysKeepAlone
<1>. QED
  BY <1>5, <1>6, <1>7 DEF IInv

-----------------------------------------------------------------------------
(* The steps of sending a text.                                            *)

\* A text in its turn has the lock; one that is to be sent is not undisturbed yet.
LEMMA Turns ==
  ASSUME IInv, NEW d \in Call
  PROVE  /\ call[d] \in Turn => lock = d
         /\ call[d] \in {"idle", "failed"} => d \notin clean
         /\ d \in clean /\ call[d] \in Turn => TurnOK(d)
         /\ call[d] \in {"idle"} \cup (Turn \ {"enter"}) => Absent(d)
         /\ Goes(d, "failed") => call'[d] = "failed"
         /\ \A pc \in Turn : Goes(d, pc) => call'[d] = pc
BY DEF IInv, TypeOK, TextOK, Goes, Turn

\* The steps that only look: the screen stays.
LEMMA LooksKeep ==
  ASSUME IInv, NEW d \in Call,
         TakeLock(d) \/ SkipCheck(d) \/ CaptureFails(d) \/ Check(d) \/ Look(d)
  PROVE  IInv'
<1>1. TypeOK /\ Adds({}) /\ UNCHANGED screen /\ UNCHANGED <<asking, alone>>
  <2>1. TypeOK /\ UNCHANGED screen /\ UNCHANGED <<asking, alone>>
    BY DEF IInv, TakeLock, SkipCheck, CaptureFails, Check, Look, history
  <2>. QED
    BY <2>1, PressedAdds
<1>2. UNCHANGED <<ui, vim, line, submitted>>
  BY <1>1 DEF screen
<1>3. (Absent(d) => Absent(d)') /\ cache \in {"unknown", "on", "off"}
  BY <1>1, TextStays DEF TypeOK
<1>4. ASSUME NEW pc \in Turn \cup {"failed"}, Goes(d, pc), lock \in {d, None},
             lock' = IF pc \in Turn THEN d ELSE None,
             clean' \subseteq clean \cup {d}, cache' \in {"unknown", "on", "off"},
             pc \in Turn \ {"enter"} => Absent(d), d \in clean' => pc \in Turn /\ TurnOK(d)'
      PROVE  IInv'
  <2>1. call'[d] = pc
    BY <1>1, <1>4 DEF Goes, TypeOK
  <2>2. pc # "idle"
    BY <1>4 DEF Turn
  <2>3. TextOK(d)'
    BY <1>3, <1>4, <2>1, <2>2 DEF TextOK
  <2>. QED
    BY <1>1, <1>2, <1>4, <2>3, SendKeeps
<1>5. CASE TakeLock(d)
  <2>1. /\ call[d] = "idle" /\ lock = None /\ lock' = d /\ Goes(d, "check")
        /\ clean' = (IF ui = "input" /\ line = <<>> THEN clean \cup {d} ELSE clean)
        /\ UNCHANGED cache
    BY <1>5 DEF TakeLock, At, LockFree
  <2>2. "check" \in Turn \ {"enter"}
    BY DEF Turn
  <2>3. d \notin clean /\ Absent(d) /\ call'[d] = "check"
    BY <2>1, <2>2, Turns
  <2>4. d \in clean' => TurnOK(d)'
    BY <1>2, <2>1, <2>3 DEF TurnOK
  <2>. QED
    BY <1>3, <1>4, <2>1, <2>2, <2>3, <2>4
<1>6. CASE SkipCheck(d)
  <2>1. /\ call[d] = "check" /\ Goes(d, "type") /\ UNCHANGED <<lock, cache>>
        /\ clean' = (IF vim = "normal" THEN clean \ {d} ELSE clean)
    BY <1>6 DEF SkipCheck, At
  <2>2. "check" \in Turn \ {"enter"} /\ "type" \in Turn \ {"enter"}
    BY DEF Turn
  <2>3. lock = d /\ Absent(d) /\ (d \in clean => TurnOK(d)) /\ call'[d] = "type"
    BY <2>1, <2>2, Turns
  <2>4. d \in clean' => TurnOK(d)'
    BY <1>2, <2>1, <2>3 DEF TurnOK
  <2>. QED
    BY <1>3, <1>4, <2>1, <2>2, <2>3, <2>4
<1>7. CASE CaptureFails(d)
  <2>1. /\ call[d] \in {"check", "look"} /\ Goes(d, "type") /\ UNCHANGED <<lock, cache>>
        /\ clean' = clean \ {d}
    BY <1>7 DEF CaptureFails, At
  <2>2. {"check", "look", "type"} \subseteq Turn \ {"enter"}
    BY DEF Turn
  <2>3. lock = d /\ Absent(d)
    BY <2>1, <2>2, Turns
  <2>. QED
    BY <1>3, <1>4, <2>1, <2>2, <2>3
<1>8. CASE Check(d)
  <2>1. /\ call[d] = "check" /\ UNCHANGED <<lock, clean>>
        /\ \/ ShowsInsert /\ cache' = "on" /\ Goes(d, "type")
           \/ ~ShowsInsert /\ UNCHANGED cache /\ Goes(d, "probe")
    BY <1>8 DEF Check, At, history
  <2>2. {"check", "probe", "type"} \subseteq Turn \ {"enter"}
    BY DEF Turn
  <2>3. lock = d /\ Absent(d) /\ (d \in clean => TurnOK(d))
    BY <2>1, <2>2, Turns
  <2>4. CASE ShowsInsert /\ cache' = "on" /\ Goes(d, "type")
    <3>1. call'[d] = "type"
      BY <2>2, <2>4, Turns
    <3>2. d \in clean' => TurnOK(d)'
      BY <1>2, <2>1, <2>3, <2>4, <3>1 DEF TurnOK, ShowsInsert
    <3>. QED
      BY <1>4, <2>1, <2>2, <2>3, <2>4, <3>2
  <2>5. CASE ~ShowsInsert /\ UNCHANGED cache /\ Goes(d, "probe")
    <3>1. call'[d] = "probe"
      BY <2>2, <2>5, Turns
    <3>2. d \in clean' => TurnOK(d)'
      BY <1>2, <2>1, <2>3, <2>5, <3>1 DEF TurnOK, ShowsInsert
    <3>. QED
      BY <1>3, <1>4, <2>1, <2>2, <2>3, <2>5, <3>2
  <2>. QED
    BY <2>1, <2>4, <2>5
<1>9. CASE Look(d)
  <2>1. /\ call[d] = "look" /\ UNCHANGED <<lock, clean>> /\ cache' \in {"on", "off"}
        /\ (ShowsInsert /\ Goes(d, "type")) \/ Goes(d, "erase")
    BY <1>9 DEF Look, At, history
  <2>2. {"look", "erase", "type"} \subseteq Turn \ {"enter"}
    BY DEF Turn
  <2>3. lock = d /\ Absent(d) /\ (d \in clean => TurnOK(d))
    BY <2>1, <2>2, Turns
  <2>4. CASE ShowsInsert /\ Goes(d, "type")
    <3>1. call'[d] = "type"
      BY <2>2, <2>4, Turns
    <3>2. d \in clean' => TurnOK(d)'
      BY <1>2, <2>1, <2>3, <2>4, <3>1 DEF TurnOK, ShowsInsert
    <3>. QED
      BY <1>4, <2>1, <2>2, <2>3, <2>4, <3>2
  <2>5. CASE Goes(d, "erase")
    <3>1. call'[d] = "erase"
      BY <2>2, <2>5, Turns
    <3>2. d \in clean' => TurnOK(d)'
      BY <1>2, <2>1, <2>3, <2>5, <3>1 DEF TurnOK
    <3>. QED
      BY <1>4, <2>1, <2>2, <2>3, <2>5, <3>2
  <2>. QED
    BY <2>1, <2>4, <2>5
<1>. QED
  BY <1>5, <1>6, <1>7, <1>8, <1>9

\* A text one of whose keys failed is not undisturbed any more, whatever tmux took.
LEMMA FailuresKeep ==
  ASSUME IInv, NEW d \in Call, SendFails(d)
  PROVE  IInv'
<1>1. TypeOK /\ line \in Seq(Tokens) /\ cache \in {"unknown", "on", "off"}
  BY DEF IInv, TypeOK, Tokens
<1>2. {"rest", "enter", "type"} \subseteq Turn /\ "failed" \notin Turn /\ "sent" \notin Turn
  BY DEF Turn
<1>3. d \notin Key /\ d \in Tokens /\ Key \subseteq Tokens /\ {"!", "1", "/status"} \subseteq Key
  BY PaneAssumption DEF Tokens, Key
<1>4. call[d] \in {"type", "rest", "enter"}
  BY DEF SendFails
<1>5. /\ UNCHANGED <<cache, asking>> /\ alone' = (alone /\ probing = None)
      /\ clean' = clean \ {d}
  BY DEF SendFails, DisturbsProbe
<1>6. lock = d /\ (call[d] # "enter" => Absent(d))
  BY <1>2, <1>4, Turns
<1>7. CASE /\ UNCHANGED screen /\ Goes(d, AfterKey(d))
           /\ lock' = IF At(d, "enter") THEN None ELSE lock
  <2> DEFINE pc == AfterKey(d)
  <2>1. pc = IF call[d] = "enter" THEN "sent"
             ELSE IF call[d] = "type" /\ d \in Bang THEN "rest" ELSE "enter"
    BY DEF AfterKey, At
  <2>2. Goes(d, pc) /\ Adds({}) /\ UNCHANGED <<ui, line, submitted>>
    BY <1>1, <1>7, PressedAdds DEF screen
  <2> HIDE DEF pc
  <2>3. call'[d] = pc
    BY <1>1, <2>2 DEF Goes, TypeOK
  <2>4. TextOK(d)'
    <3>1. pc = "rest" => Absent(d)'
      BY <1>6, <2>1, <2>2, TextStays
    <3>2. pc \in {"sent", "rest", "enter"}
      BY <2>1
    <3>. QED
      BY <1>5, <2>3, <3>1, <3>2 DEF TextOK, Turn
  <2>5. lock' = IF pc \in Turn THEN d ELSE None
    BY <1>2, <1>6, <1>7, <2>1 DEF At
  <2>6. pc \in Turn \cup {"sent", "failed"}
    BY <1>2, <2>1
  <2>7. ui' \in {"trust", "input"} \/ ui' = ui \/ line = <<"/status">>
    BY <2>2
  <2>. QED
    BY <1>1, <1>5, <1>6, <2>2, <2>4, <2>5, <2>6, <2>7, SendKeeps
<1>8. ASSUME Goes(d, "failed"), lock' = None, NEW ts, Adds(ts),
             ts \subseteq {d, "!"}, ui' \in {"trust", "input"} \/ ui' = ui \/ line = <<"/status">>
      PROVE  IInv'
  <2>1. call'[d] = "failed"
    BY <1>8, Turns
  <2>2. TextOK(d)'
    BY <1>5, <2>1 DEF TextOK, Turn
  <2>3. ts \cap Call \subseteq {d} /\ "1" \notin ts /\ "/status" \notin ts
    BY <1>3, <1>8, PaneAssumption
  <2>. QED
    BY <1>1, <1>2, <1>5, <1>6, <1>8, <2>2, <2>3, SendKeeps
<1>9. CASE Goes(d, "failed") /\ lock' = None /\ (UNCHANGED screen \/ EnterPressed)
  <2>1. Adds({})
    BY <1>1, <1>9, PressedAdds
  <2>2. ui' \in {"trust", "input"} \/ ui' = ui \/ line = <<"/status">>
    BY <1>9 DEF screen, EnterPressed
  <2>. QED
    BY <1>8, <1>9, <2>1, <2>2
<1>10. ASSUME Goes(d, "failed"), lock' = None, NEW k \in {d, "!"}, Typed(k)
       PROVE  IInv'
  <2>1. Adds({k}) /\ (ui' \in {"trust", "input"} \/ ui' = ui)
    BY <1>1, <1>3, <1>10, TypedAdds DEF Typed
  <2>. QED
    BY <1>8, <1>10, <2>1
<1>. QED
  BY <1>7, <1>9, <1>10, TextPieces DEF SendFails

\* The steps that send keys.
LEMMA SentKeysKeep ==
  ASSUME IInv, NEW d \in Call, TypeI(d) \/ Erase(d) \/ Type(d) \/ Rest(d) \/ Enter(d)
  PROVE  IInv'
<1>1. TypeOK /\ line \in Seq(Tokens) /\ cache \in {"unknown", "on", "off"}
  BY DEF IInv, TypeOK, Tokens
<1>2. {"probe", "look", "erase", "type", "rest", "enter"} \subseteq Turn
  BY DEF Turn
<1>3. d \notin Key /\ d \in Tokens /\ Key \subseteq Tokens
  BY PaneAssumption DEF Tokens
<1>4. {"i", "!", "cut", "1", "/status"} \subseteq Key
  BY DEF Key
<1>5. CASE TypeI(d)
  <2>1. call[d] = "probe" /\ lock = d /\ Absent(d) /\ (d \in clean => TurnOK(d))
    BY <1>2, <1>5, Turns DEF TypeI, At
  <2>2. UNCHANGED <<cache, lock, asking>> /\ alone' = (alone /\ probing = None)
    BY <1>5 DEF TypeI, DisturbsProbe
  <2>3. ASSUME Typed("i"), NEW pc \in {"look", "type"}, Goes(d, pc), clean' \subseteq clean,
               d \in clean' => pc = "look" /\ d \in clean
        PROVE  IInv'
    <3>1. Adds({"i"})
      BY <1>1, <1>3, <1>4, <2>3, TypedAdds
    <3>2. call'[d] = pc /\ Absent(d)'
      BY <1>2, <1>3, <1>4, <2>1, <2>3, <3>1, Turns, TextStays
    <3>3. d \in clean' => TurnOK(d)'
      <4>1. Append(<<>>, "i") = <<"i">>
        BY Shorts
      <4>2. vim \in {"off", "insert", "normal"}
        BY <1>1 DEF TypeOK
      <4>. QED
        BY <2>1, <2>3, <3>2, <4>1, <4>2 DEF TurnOK, Typed
    <3>4. TextOK(d)'
      BY <1>2, <2>3, <3>2, <3>3 DEF TextOK
    <3>5. {"i"} \cap Call \subseteq {d} /\ (ui' \in {"trust", "input"} \/ ui' = ui)
      BY <1>4, <2>3, PaneAssumption DEF Typed
    <3>6. pc \in Turn /\ clean' \subseteq clean \cup {d}
      BY <1>2, <2>3
    <3>. QED
      BY <1>1, <2>1, <2>2, <2>3, <3>1, <3>4, <3>5, <3>6, SendKeeps
  <2>4. ASSUME UNCHANGED screen, NEW pc \in {"look", "type"}, Goes(d, pc),
               clean' = IF vim = "normal" THEN clean \ {d} ELSE clean
        PROVE  IInv'
    <3>1. Adds({}) /\ UNCHANGED <<ui, vim, line, submitted>>
      BY <1>1, <2>4, PressedAdds DEF screen
    <3>2. call'[d] = pc /\ Absent(d)'
      BY <1>2, <2>1, <2>4, <3>1, Turns, TextStays
    <3>3. d \in clean' => TurnOK(d)'
      <4>1. vim \in {"off", "insert", "normal"}
        BY <1>1 DEF TypeOK
      <4>. QED
        BY <2>1, <2>4, <3>1, <3>2, <4>1 DEF TurnOK
    <3>4. TextOK(d)'
      BY <1>2, <2>4, <3>2, <3>3 DEF TextOK
    <3>5. ui' \in {"trust", "input"} \/ ui' = ui
      BY <3>1
    <3>6. pc \in Turn /\ clean' \subseteq clean \cup {d} /\ {} \cap Call \subseteq {d}
      BY <1>2, <2>4
    <3>. QED
      BY <1>1, <2>1, <2>2, <2>4, <3>1, <3>4, <3>5, <3>6, SendKeeps
  <2>. QED
    BY <1>5, <2>3, <2>4 DEF TypeI, KeyLost
<1>6. CASE Erase(d)
  <2>1. call[d] = "erase" /\ lock = d /\ Absent(d) /\ (d \in clean => TurnOK(d))
    BY <1>2, <1>6, Turns DEF Erase, At
  <2>2. /\ Goes(d, "type") /\ UNCHANGED <<cache, lock, asking>>
        /\ alone' = (alone /\ probing = None)
        /\ \/ BackspacePressed /\ clean' = clean
           \/ UNCHANGED screen /\ clean' = IF line = <<>> THEN clean ELSE clean \ {d}
    BY <1>6 DEF Erase, KeyLost, DisturbsProbe
  <2>3. Adds({"cut"}) /\ ui' = ui
    <3>1. CASE BackspacePressed
      BY <1>1, <3>1, BackspaceAdds DEF BackspacePressed
    <3>2. CASE UNCHANGED screen
      <4>1. Adds({})
        BY <1>1, <3>2, PressedAdds
      <4>. QED
        BY <3>2, <4>1 DEF Adds, screen
    <3>. QED
      BY <2>2, <3>1, <3>2
  <2>4. call'[d] = "type" /\ Absent(d)'
    BY <1>2, <1>3, <1>4, <2>1, <2>2, <2>3, Turns, TextStays
  <2>5. d \in clean' => TurnOK(d)'
    <3>1. Last(<<"i">>) = "i" /\ Front(<<"i">>) = <<>>
      BY DEF Last, Front
    <3>2. CASE BackspacePressed /\ clean' = clean
      BY <2>1, <2>4, <3>1, <3>2 DEF TurnOK, BackspacePressed
    <3>3. CASE UNCHANGED screen /\ clean' = IF line = <<>> THEN clean ELSE clean \ {d}
      BY <2>1, <2>4, <3>3 DEF TurnOK, screen
    <3>. QED
      BY <2>2, <3>2, <3>3
  <2>6. TextOK(d)'
    BY <1>2, <2>4, <2>5 DEF TextOK
  <2>7. {"cut"} \cap Call \subseteq {d} /\ clean' \subseteq clean \cup {d}
        /\ (ui' \in {"trust", "input"} \/ ui' = ui)
    BY <1>4, <2>2, <2>3, PaneAssumption
  <2>. QED
    BY <1>1, <1>2, <1>4, <2>1, <2>2, <2>3, <2>6, <2>7, SendKeeps
<1>7. CASE Type(d)
  <2> DEFINE t == Head(Pieces(d))
  <2>1. call[d] = "type" /\ lock = d /\ Absent(d) /\ (d \in clean => TurnOK(d))
    BY <1>2, <1>7, Turns DEF Type, At
  <2>2. /\ t \in {d, "!"} /\ (d \notin Bang => Pieces(d) = <<d>> /\ t = d)
        /\ (d \in Bang => t = "!") /\ (Len(Pieces(d)) > 1 <=> d \in Bang)
    BY TextPieces
  <2>3. Typed(t) /\ Goes(d, IF d \in Bang THEN "rest" ELSE "enter")
    <3>1. AfterKey(d) = IF d \in Bang THEN "rest" ELSE "enter"
      BY <2>1 DEF AfterKey, At
    <3>. QED
      BY <1>7, <3>1 DEF Type
  <2> HIDE DEF t
  <2>4. Adds({t})
    BY <1>1, <1>3, <1>4, <2>2, <2>3, TypedAdds
  <2>5. UNCHANGED <<cache, lock, asking, clean>> /\ alone' = (alone /\ probing = None)
    BY <1>7 DEF Type, KeysSent, DisturbsProbe
  <2>6. call'[d] = IF d \in Bang THEN "rest" ELSE "enter"
    BY <1>2, <2>3, Turns
  <2>7. d \in Bang => Absent(d)'
    <3>1. d # "!"
      BY <1>3, <1>4
    <3>. QED
      BY <2>1, <2>2, <2>4, <3>1, TextStays
  <2>8. d \in clean' => TurnOK(d)'
    <3>1. Append(<<>>, t) = <<t>>
      BY Shorts
    <3>2. submitted' = submitted /\ \A l \in submitted : ~Contains(l, d)
      BY <2>1, <2>3 DEF Typed, Absent
    <3>3. /\ d \in clean => ui = "input" /\ vim # "normal" /\ line = <<>>
      BY <2>1 DEF TurnOK
    <3>4. d \in clean => ui' = "input" /\ vim' # "normal" /\ line' = <<t>>
      BY <2>3, <3>1, <3>3 DEF Typed
    <3>. QED
      BY <2>2, <2>5, <2>6, <3>2, <3>4 DEF TurnOK, Pieces
  <2>9. TextOK(d)'
    BY <1>2, <2>6, <2>7, <2>8 DEF TextOK
  <2>10. /\ {t} \cap Call \subseteq {d} /\ "1" # t /\ "/status" # t
         /\ ui' \in {"trust", "input"} \/ ui' = ui
    BY <1>3, <1>4, <2>2, <2>3, PaneAssumption DEF Typed
  <2>. QED
    BY <1>1, <1>2, <2>1, <2>3, <2>4, <2>5, <2>9, <2>10, SendKeeps
<1>8. CASE Rest(d)
  <2>1. call[d] = "rest" /\ lock = d /\ Absent(d) /\ (d \in clean => TurnOK(d))
    BY <1>2, <1>8, Turns DEF Rest, At
  <2>2. Typed(d) /\ Goes(d, "enter")
    <3>1. AfterKey(d) = "enter"
      BY <2>1 DEF AfterKey, At
    <3>. QED
      BY <1>8, <3>1, TextPieces DEF Rest
  <2>3. Adds({d})
    BY <1>1, <1>3, <2>2, TypedAdds
  <2>4. UNCHANGED <<cache, lock, asking, clean>> /\ alone' = (alone /\ probing = None)
    BY <1>8 DEF Rest, KeysSent, DisturbsProbe
  <2>5. call'[d] = "enter"
    BY <1>2, <2>2, Turns
  <2>6. d \in clean' => TurnOK(d)'
    <3>1. d \in Bang => Pieces(d) = Append(<<"!">>, d)
      BY TextPieces
    <3>2. submitted' = submitted /\ \A l \in submitted : ~Contains(l, d)
      BY <2>1, <2>2 DEF Typed, Absent
    <3>3. d \in clean => ui = "input" /\ vim # "normal" /\ line = <<"!">> /\ d \in Bang
      BY <2>1 DEF TurnOK
    <3>4. d \in clean => ui' = "input" /\ vim' # "normal" /\ line' = Pieces(d)
      BY <2>2, <3>1, <3>3 DEF Typed
    <3>. QED
      BY <2>4, <2>5, <3>2, <3>4 DEF TurnOK, Pieces
  <2>7. TextOK(d)'
    BY <1>2, <2>5, <2>6 DEF TextOK
  <2>8. /\ {d} \cap Call \subseteq {d} /\ "1" # d /\ "/status" # d
        /\ ui' \in {"trust", "input"} \/ ui' = ui
    BY <1>3, <1>4, <2>2 DEF Typed
  <2>. QED
    BY <1>1, <1>2, <2>1, <2>2, <2>3, <2>4, <2>7, <2>8, SendKeeps
<1>9. CASE Enter(d)
  <2>1. call[d] = "enter" /\ lock = d /\ (d \in clean => TurnOK(d))
    BY <1>2, <1>9, Turns DEF Enter, At
  <2>2. /\ EnterPressed /\ Goes(d, "sent") /\ lock' = None /\ Adds({})
    <3>1. AfterKey(d) = "sent"
      BY <2>1 DEF AfterKey, At
    <3>. QED
      BY <1>1, <1>9, <3>1, PressedAdds DEF Enter
  <2>3. UNCHANGED <<cache, asking, clean>> /\ alone' = (alone /\ probing = None)
    BY <1>9 DEF Enter, DisturbsProbe
  <2>4. call'[d] = "sent" /\ "sent" \notin Turn
    BY <1>1, <2>2 DEF Goes, TypeOK, Turn
  <2>5. d \in clean => Arrived(d)'
    <3> SUFFICES ASSUME d \in clean
                 PROVE  Arrived(d)'
      OBVIOUS
    <3>1. ui = "input" /\ line = Pieces(d) /\ \A l \in submitted : ~Contains(l, d)
      BY <2>1 DEF TurnOK
    <3>2. line \notin {<<>>, <<"/status">>}
      <4>1. Contains(Pieces(d), d)
        <5>1. d \in Bang => Pieces(d) = Append(<<"!">>, d)
          BY TextPieces
        <5>2. d \notin Bang => Pieces(d) = <<d>>
          BY TextPieces
        <5>3. <<"!">> \in Seq(Tokens)
          BY <1>3, <1>4, Shorts
        <5>4. \A x : Contains(Append(<<"!">>, d), x) <=> Contains(<<"!">>, x) \/ x = d
          BY <1>3, <5>3, Lines
        <5>5. Contains(<<d>>, d)
          BY Shorts
        <5>. QED
          BY <5>1, <5>2, <5>4, <5>5
      <4>2. d # "/status"
        BY <1>3, <1>4
      <4>. QED
        BY <3>1, <4>1, <4>2, Shorts
    <3>3. line' = <<>> /\ submitted' = submitted \cup {Pieces(d)}
      BY <2>2, <3>1, <3>2 DEF EnterPressed
    <3>4. ~Contains(<<>>, d)
      BY Shorts
    <3>. QED
      BY <3>1, <3>3, <3>4 DEF Arrived, Pieces
  <2>6. TextOK(d)'
    BY <2>3, <2>4, <2>5 DEF TextOK
  <2>7. ui' \in {"trust", "input"} \/ ui' = ui \/ line = <<"/status">>
    BY <2>2 DEF EnterPressed
  <2>. QED
    BY <1>1, <2>1, <2>2, <2>3, <2>4, <2>6, <2>7, SendKeeps
<1>. QED
  BY <1>5, <1>6, <1>7, <1>8, <1>9

\* Every step of sending a text keeps the invariant.
LEMMA SendsKeep ==
  ASSUME IInv, NEW d \in Call, Send(d)
  PROVE  IInv'
<1>1. CASE NotFound(d)
  <2>1. /\ call[d] = "idle" /\ Goes(d, "failed")
        /\ UNCHANGED <<screen, cache, lock, asking, history>>
    BY <1>1 DEF NotFound, At
  <2>2. UNCHANGED <<ui, vim, line, submitted, probing, probe, found, known, clean, alone>>
    BY <2>1 DEF screen, asking, history
  <2>3. TypeOK /\ (\A c \in Call : TextOK(c)) /\ AloneOK /\ d \notin clean
    BY <2>1, Turns DEF IInv
  <2>4. /\ call' \in [Call -> Turn \cup {"idle", "sent", "failed"}] /\ call'[d] = "failed"
        /\ \A c \in Call \ {d} : call'[c] = call[c]
    BY <2>1, <2>3 DEF TypeOK, Goes
  <2>5. TypeOK'
    BY <2>1, <2>2, <2>3, <2>4 DEF TypeOK, Turn
  <2>6. ASSUME NEW c \in Call
        PROVE  TextOK(c)'
    <3>1. CASE c = d
      BY <2>2, <2>3, <2>4, <3>1 DEF TextOK, Turn
    <3>2. CASE c # d
      <4>1. Absent(c)' = Absent(c) /\ Arrived(c)' = Arrived(c) /\ call'[c] = call[c]
        BY <2>2, <2>4, <3>2 DEF Absent, Arrived, Pieces
      <4>2. TurnOK(c)' = TurnOK(c)
        BY <2>2, <4>1 DEF TurnOK, Pieces
      <4>. QED
        BY <2>2, <2>3, <4>1, <4>2 DEF TextOK
    <3>. QED
      BY <3>1, <3>2
  <2>7. AloneOK'
    BY <2>2, <2>3 DEF AloneOK, StageOK
  <2>. QED
    BY <2>3, <2>5, <2>6, <2>7 DEF IInv
<1>. QED
  BY <1>1, LooksKeep, FailuresKeep, SentKeysKeep DEF Send

-----------------------------------------------------------------------------
(* The steps of a probe, and of others.                                    *)

\* The other parts of the type.
RestOK ==
  /\ probe \in [Prober -> Asking \cup {"idle", "over"}]
  /\ probing \in Prober \cup {None}
  /\ \A p \in Prober : probe[p] \in Asking <=> probing = p
  /\ found \in [Prober -> Id \cup {None}] /\ known \in Id \cup {None}

\* A step of anything but texts.
LEMMA PastTheLock ==
  ASSUME IInv, UNCHANGED sending, NEW ts, Adds(ts), ts \cap Call = {},
         clean' = clean \ {lock} \/ (UNCHANGED screen /\ clean' = clean),
         alone' \in BOOLEAN, RestOK', AloneOK'
  PROVE  IInv'
<1>1. UNCHANGED <<cache, lock, call>>
  BY DEF sending
<1>2. \A c \in Call : TextOK(c)'
  BY <1>1, OthersKeepTexts
<1>3. TypeOK /\ line' \in Seq(Call \cup Key) /\ ui' \in {"trust", "input", "status"}
      /\ vim' \in {"off", "insert", "normal"}
  BY DEF IInv, Adds, Tokens
<1>4. clean' \subseteq Call
  BY <1>3 DEF TypeOK
<1>5. TypeOK'
  BY <1>1, <1>3, <1>4 DEF TypeOK, RestOK
<1>. QED
  BY <1>2, <1>5 DEF IInv

\* The process goes on to another step of the probe, or is over.
LEMMA Proceeding ==
  ASSUME TypeOK, NEW p \in Prober, NEW pc \in Asking \cup {"over"}, Proceeds(p, pc),
         found' \in [Prober -> Id \cup {None}], known' \in Id \cup {None},
         probing \in {p, None}, probing' = IF pc \in Asking THEN p ELSE None
  PROVE  RestOK' /\ probe'[p] = pc /\ \A q \in Prober : probing' = q => q = p
<1>1. /\ probe' \in [Prober -> Asking \cup {"idle", "over"}] /\ probe'[p] = pc
      /\ \A q \in Prober \ {p} : probe'[q] = probe[q]
  BY DEF TypeOK, Proceeds
<1>2. \A q \in Prober : probe'[q] \in Asking <=> probing' = q
  <2>1. \A q \in Prober \ {p} : probe[q] \notin Asking
    BY PaneAssumption DEF TypeOK
  <2>. QED
    BY <1>1, <2>1, PaneAssumption DEF Asking
<1>. QED
  BY <1>1, <1>2, PaneAssumption DEF RestOK

\* A step that changes nothing but what is known or found.
LEMMA Noticing ==
  ASSUME IInv, UNCHANGED <<screen, sending, probing, probe, history>>,
         found' \in [Prober -> Id \cup {None}], known' \in Id \cup {None}
  PROVE  IInv'
<1>1. TypeOK /\ AloneOK
  BY DEF IInv
<1>2. Adds({}) /\ UNCHANGED <<ui, line, submitted, alone, clean>>
  BY <1>1, PressedAdds DEF screen, history
<1>3. RestOK'
  BY <1>1 DEF TypeOK, RestOK
<1>4. AloneOK'
  BY <1>1, <1>2, KeysKeepAlone
<1>5. alone' \in BOOLEAN
  BY <1>1, <1>2 DEF TypeOK
<1>. QED
  BY <1>2, <1>3, <1>4, <1>5, PastTheLock

\* The steps of a probe.
LEMMA ProbesKeep ==
  ASSUME IInv, NEW p \in Prober, Detect(p)
  PROVE  IInv'
<1>1. TypeOK /\ AloneOK
  BY DEF IInv
<1>2. /\ probe[p] \in Asking <=> probing = p
      /\ found \in [Prober -> Id \cup {None}] /\ known \in Id \cup {None}
      /\ alone \in BOOLEAN /\ vim \in {"off", "insert", "normal"}
  BY <1>1 DEF TypeOK
<1>3. alone /\ probing = p => StageOK(p) /\ \A l \in submitted : Traceless(l)
  BY <1>1 DEF AloneOK
<1>4. {"1", "/status"} \subseteq Tokens /\ {"1", "/status"} \cap Call = {}
  BY PaneAssumption DEF Tokens, Key
<1>5. ASSUME NEW pc \in Asking \cup {"over"}, Proceeds(p, pc), probing \in {p, None},
             probing' = IF pc \in Asking THEN p ELSE None,
             found' \in [Prober -> Id \cup {None}], known' \in Id \cup {None},
             UNCHANGED sending, NEW ts, Adds(ts), ts \cap Call = {},
             clean' = clean \ {lock} \/ (UNCHANGED screen /\ clean' = clean),
             alone' \in BOOLEAN,
             alone' => \A l \in submitted' : Traceless(l),
             alone' /\ pc \in Asking => StageOK(p)',
             alone' /\ pc = "over" => ui' \in {"trust", "input"} /\ Traceless(line')
      PROVE  IInv'
  <2>1. RestOK' /\ probe'[p] = pc /\ \A q \in Prober : probing' = q => q = p
    BY <1>1, <1>5, Proceeding
  <2>2. pc = "over" => probing' = None
    BY <1>5 DEF Asking
  <2>3. AloneOK'
    BY <1>5, <2>1, <2>2, PaneAssumption DEF AloneOK, Traceless
  <2>. QED
    BY <1>5, <2>1, <2>3, PastTheLock
<1>6. ASSUME NEW pc \in Asking \cup {"over"}, Proceeds(p, pc), probing = p,
             probing' = IF pc \in Asking THEN p ELSE None,
             found' \in [Prober -> Id \cup {None}], known' \in Id \cup {None},
             UNCHANGED <<screen, sending, history>>,
             alone /\ pc \in Asking => StageOK(p)',
             alone /\ pc = "over" => ui \in {"trust", "input"} /\ Traceless(line)
      PROVE  IInv'
  <2>1. Adds({}) /\ UNCHANGED <<ui, line, submitted, alone, clean>>
    BY <1>1, <1>6, PressedAdds DEF screen, history
  <2>. QED
    BY <1>2, <1>3, <1>5, <1>6, <2>1
<1>7. ASSUME NEW pc \in Asking, Proceeds(p, pc), probing = p, ProbeKeys,
             NEW ts, Adds(ts), ts \cap Call = {}, alone' \in BOOLEAN, alone' => alone,
             alone' => submitted' = submitted /\ StageOK(p)'
      PROVE  IInv'
  <2>1. /\ clean' = clean \ {lock} /\ UNCHANGED <<sending, probing, found, known>>
    BY <1>7 DEF ProbeKeys, DisturbsText
  <2>2. pc # "over"
    BY <1>7 DEF Asking
  <2>. QED
    BY <1>2, <1>3, <1>5, <1>7, <2>1, <2>2
<1>8. /\ Asking = {"wait", "accept", "settle", "clear", "ask", "open", "read",
                   "escape", "escape2", "clear2", "store"}
      /\ \A pc \in Asking \cup {"over"} : Proceeds(p, pc) => probe'[p] = pc
  BY <1>1 DEF Asking, TypeOK, Proceeds
<1>9. \A l : l = <<>> => Traceless(l)
  BY Shorts DEF Traceless
<1>10. CASE StartProbe(p)
  <2>1. /\ probing = None /\ alone' = (alone /\ line = <<>>)
        /\ UNCHANGED <<screen, sending, known, clean, found>>
        /\ \/ Proceeds(p, "over") /\ UNCHANGED probing
           \/ Proceeds(p, "wait") /\ probing' = p
    BY <1>10 DEF StartProbe, ProbeOrKnown
  <2>2. Adds({}) /\ UNCHANGED <<ui, line, submitted>>
    BY <1>1, <2>1, PressedAdds DEF screen
  <2>3. /\ alone => (\A l \in submitted : Traceless(l)) /\ ui \in {"trust", "input"}
        /\ alone' \in BOOLEAN
    BY <1>1, <2>1 DEF AloneOK
  <2>4. CASE Proceeds(p, "over") /\ UNCHANGED probing
    BY <1>2, <1>5, <1>8, <1>9, <2>1, <2>2, <2>3, <2>4
  <2>5. CASE Proceeds(p, "wait") /\ probing' = p
    <3>1. alone' => StageOK(p)'
      BY <1>8, <2>1, <2>2, <2>3, <2>5 DEF StageOK
    <3>. QED
      BY <1>2, <1>5, <1>8, <2>1, <2>2, <2>3, <2>5, <3>1
  <2>. QED
    BY <2>1, <2>4, <2>5
<1>11. CASE WaitForAgent(p)
  <2> SUFFICES ASSUME NEW pc, pc = IF ShowsTrust THEN "accept"
                                   ELSE IF Asks(p, "wait") THEN "settle" ELSE "clear"
               PROVE  IInv'
    OBVIOUS
  <2>1. /\ probe[p] \in {"wait", "settle"} /\ Proceeds(p, pc)
        /\ UNCHANGED <<screen, sending, probing, found, known, history>>
    BY <1>11 DEF WaitForAgent, ProbeReads
  <2>2. pc \in Asking /\ probe'[p] = pc /\ probing = p
    BY <1>2, <1>8, <2>1
  <2>3. alone => StageOK(p)'
    BY <1>3, <2>1, <2>2 DEF StageOK, ShowsTrust, screen
  <2>. QED
    BY <1>2, <1>6, <1>8, <2>1, <2>2, <2>3
<1>12. CASE GiveUp(p)
  <2>1. /\ probe[p] \in {"wait", "ask"} /\ Proceeds(p, "over") /\ probing' = None
        /\ UNCHANGED <<sending, found, known>>
        /\ \/ UNCHANGED <<screen, history>>
           \/ Typed("/status") /\ clean' = clean \ {lock} /\ alone' = FALSE
    BY <1>12 DEF GiveUp, Over, DisturbsText
  <2>2. probing = p
    BY <1>2, <1>8, <2>1
  <2>3. CASE UNCHANGED <<screen, history>>
    <3>1. alone => ui \in {"trust", "input"} /\ Traceless(line)
      BY <1>3, <1>9, <2>1, <2>2 DEF StageOK
    <3>. QED
      BY <1>2, <1>6, <1>8, <2>1, <2>2, <2>3, <3>1
  <2>4. CASE Typed("/status") /\ clean' = clean \ {lock} /\ alone' = FALSE
    <3>1. Adds({"/status"}) /\ {"/status"} \cap Call = {}
      BY <1>1, <1>4, <2>4, TypedAdds
    <3>2. "over" \in Asking \cup {"over"} /\ "over" \notin Asking
      BY <1>8
    <3>. QED
      BY <1>2, <1>5, <2>1, <2>2, <2>4, <3>1, <3>2
  <2>. QED
    BY <2>1, <2>3, <2>4
<1>13. CASE AcceptTrust(p)
  <2>1. /\ probe[p] = "accept" /\ Proceeds(p, "wait") /\ ProbeKeys /\ UNCHANGED alone
        /\ AnswersTrust \/ UNCHANGED screen \/ Typed("1") \/ EnterPressed
    BY <1>13 DEF AcceptTrust, Asks
  <2>2. probing = p /\ probe'[p] = "wait"
    BY <1>2, <1>8, <2>1
  <2>3. Adds({"1"})
    BY <1>1, <2>1, TrustAdds
  <2>4. alone => submitted' = submitted /\ StageOK(p)'
    BY <1>3, <2>1, <2>2 DEF StageOK, AnswersTrust, Typed, EnterPressed, screen
  <2>. QED
    BY <1>2, <1>4, <1>7, <1>8, <2>1, <2>2, <2>3, <2>4
<1>14. CASE ClearLine(p)
  <2>1. /\ \/ probe[p] = "clear" /\ Proceeds(p, "ask")
           \/ probe[p] = "clear2" /\ Proceeds(p, "store")
        /\ LineCleared \/ UNCHANGED screen
        /\ UNCHANGED alone /\ ProbeKeys
    BY <1>14 DEF ClearLine, Asks, KeySent, HarmlessLoss, KeyLost
  <2>2. PICK pc \in {"ask", "store"} : Proceeds(p, pc)
    BY <2>1
  <2>3. probing = p /\ probe'[p] = pc /\ Adds({})
    BY <1>1, <1>2, <1>8, <2>1, <2>2, PressedAdds
  <2>4. alone => submitted' = submitted /\ StageOK(p)'
    BY <1>3, <2>1, <2>2, <2>3 DEF StageOK, LineCleared, screen
  <2>. QED
    BY <1>2, <1>7, <1>8, <2>1, <2>2, <2>3, <2>4
<1>15. CASE AskStatus(p)
  <2>1. /\ probe[p] = "ask" /\ Proceeds(p, "open") /\ UNCHANGED alone /\ ProbeKeys
        /\ Typed("/status") \/ UNCHANGED screen
    BY <1>15 DEF AskStatus, Asks, KeySent, HarmlessLoss, KeyLost
  <2>2. probing = p /\ probe'[p] = "open"
    BY <1>2, <1>8, <2>1
  <2>3. Adds({"/status"})
    <3>1. CASE Typed("/status")
      BY <1>1, <1>4, <3>1, TypedAdds
    <3>2. CASE UNCHANGED screen
      <4>1. Adds({})
        BY <1>1, <3>2, PressedAdds
      <4>. QED
        BY <4>1 DEF Adds
    <3>. QED
      BY <2>1, <3>1, <3>2
  <2>4. alone => submitted' = submitted /\ StageOK(p)'
    <3>1. Append(<<>>, "/status") = <<"/status">>
      BY Shorts
    <3>. QED
      BY <1>3, <2>1, <2>2, <3>1 DEF StageOK, Typed, screen
  <2>. QED
    BY <1>2, <1>4, <1>7, <1>8, <2>1, <2>2, <2>3, <2>4
<1>16. CASE OpenStatus(p)
  <2>1. /\ probe[p] = "open" /\ Proceeds(p, "read") /\ ProbeKeys
        /\ \/ EnterPressed /\ UNCHANGED alone
           \/ UNCHANGED screen /\ alone' = (alone /\ line = <<>>)
    BY <1>16 DEF OpenStatus, Asks, KeySent, KeyLost
  <2>2. probing = p /\ probe'[p] = "read" /\ Adds({})
    BY <1>1, <1>2, <1>8, <2>1, PressedAdds
  <2>3. alone' \in BOOLEAN /\ (alone' => alone)
    <3>1. CASE alone' = alone
      BY <1>2, <3>1
    <3>2. ASSUME NEW b, alone' = (alone /\ b)
          PROVE  alone' \in BOOLEAN /\ (alone' => alone)
      BY <3>2, Zenon
    <3>. QED
      BY <2>1, <3>1, <3>2
  <2>4. alone' => submitted' = submitted /\ StageOK(p)'
    BY <1>3, <2>1, <2>2 DEF StageOK, EnterPressed, screen
  <2>. QED
    BY <1>7, <1>8, <2>1, <2>2, <2>3, <2>4
<1>17. CASE ReadStatus(p)
  <2>1. /\ probe[p] = "read" /\ Proceeds(p, "escape")
        /\ \E id \in Id \cup {None} : found' = [found EXCEPT ![p] = id]
        /\ UNCHANGED <<screen, sending, probing, known, history>>
    BY <1>17 DEF ReadStatus, ProbeReads, Asks
  <2>2. /\ probing = p /\ probe'[p] = "escape"
        /\ found' \in [Prober -> Id \cup {None}]
    BY <1>2, <1>8, <2>1
  <2>3. alone => StageOK(p)'
    BY <1>3, <2>1, <2>2 DEF StageOK, screen
  <2>. QED
    BY <1>2, <1>6, <1>8, <2>1, <2>2, <2>3
<1>18. CASE Dismiss(p)
  <2>1. /\ \/ probe[p] = "escape" /\ Proceeds(p, "escape2")
           \/ probe[p] = "escape2" /\ Proceeds(p, "clear2")
        /\ ProbeKeys
        /\ \/ EscapePressed /\ UNCHANGED alone
           \/ /\ UNCHANGED screen
              /\ alone' = (alone /\ (probe[p] = "escape" \/ ui # "status"))
    BY <1>18 DEF Dismiss, Asks, KeySent, KeyLost
  <2>2. PICK pc \in {"escape2", "clear2"} :
          Proceeds(p, pc) /\ probe[p] = IF pc = "escape2" THEN "escape" ELSE "escape2"
    BY <2>1
  <2>3. probing = p /\ probe'[p] = pc /\ Adds({})
    BY <1>1, <1>2, <1>8, <2>1, <2>2, PressedAdds
  <2>4. alone' \in BOOLEAN /\ (alone' => alone)
    <3>1. CASE alone' = alone
      BY <1>2, <3>1
    <3>2. ASSUME NEW b, alone' = (alone /\ b)
          PROVE  alone' \in BOOLEAN /\ (alone' => alone)
      BY <3>2, Zenon
    <3>. QED
      BY <2>1, <3>1, <3>2
  <2>5. alone' => submitted' = submitted /\ StageOK(p)'
    BY <1>3, <2>1, <2>2, <2>3, <2>4 DEF StageOK, EscapePressed, screen
  <2>. QED
    BY <1>7, <1>8, <2>1, <2>2, <2>3, <2>4, <2>5
<1>19. CASE StoreId(p)
  <2>1. /\ probe[p] = "store" /\ Proceeds(p, "over") /\ probing' = None
        /\ known' = (IF known = None THEN found[p] ELSE known)
        /\ found' = (IF p \in Monitor THEN found ELSE [found EXCEPT ![p] = None])
        /\ UNCHANGED <<screen, sending, history>>
    BY <1>19 DEF StoreId, Over, ProbeReads, Asks
  <2>2. probing = p
    BY <1>2, <1>8, <2>1
  <2>3. alone => ui \in {"trust", "input"} /\ Traceless(line)
    BY <1>3, <1>9, <2>1, <2>2 DEF StageOK
  <2>4. known' \in Id \cup {None} /\ found' \in [Prober -> Id \cup {None}]
    BY <1>2, <2>1
  <2>. QED
    BY <1>2, <1>6, <1>8, <2>1, <2>2, <2>3, <2>4
<1>20. CASE MonitorStores(p)
  <2>1. /\ known' = found[p] /\ found' = [found EXCEPT ![p] = None]
        /\ UNCHANGED <<screen, sending, probing, probe, history>>
    BY <1>20 DEF MonitorStores, ProbeReads
  <2>2. known' \in Id \cup {None} /\ found' \in [Prober -> Id \cup {None}]
    BY <1>2, <2>1
  <2>. QED
    BY <2>1, <2>2, Noticing
<1>. QED
  BY <1>10, <1>11, <1>12, <1>13, <1>14, <1>15, <1>16, <1>17, <1>18, <1>19, <1>20 DEF Detect

\* Raw texts, single keys, the person at the terminal, and the agent's hook.
LEMMA OthersKeep ==
  ASSUME IInv, TypeRaw \/ PressKey \/ ChangeVim \/ HookTells
  PROVE  IInv'
<1>1. TypeOK /\ AloneOK
  BY DEF IInv
<1>2. /\ found \in [Prober -> Id \cup {None}] /\ known \in Id \cup {None}
      /\ "raw" \in Tokens /\ "raw" \notin Call /\ "agents" \in Id
  BY <1>1, PaneAssumption DEF TypeOK, Tokens, Key, Id
<1>3. ASSUME Other, UNCHANGED known, NEW ts \in {{}, {"raw"}}, Adds(ts),
             ui' \in {"trust", "input"} \/ ui' = ui \/ line = <<"/status">>
      PROVE  IInv'
  <2>1. /\ UNCHANGED <<sending, probing, probe, found, known>>
        /\ clean' = clean \ {lock} /\ alone' = (alone /\ probing = None)
    BY <1>3 DEF Other, DisturbsText, DisturbsProbe
  <2>2. ts \cap Call = {} /\ "1" \notin ts /\ "/status" \notin ts
    BY <1>2, <1>3
  <2>3. AloneOK'
    BY <1>1, <1>3, <2>1, <2>2, KeysKeepAlone
  <2>4. RestOK' /\ alone' \in BOOLEAN
    BY <1>1, <2>1 DEF TypeOK, RestOK
  <2>. QED
    BY <1>3, <2>1, <2>2, <2>3, <2>4, PastTheLock
<1>4. CASE TypeRaw
  <2>1. Other /\ Typed("raw") /\ UNCHANGED known
    BY <1>4 DEF TypeRaw
  <2>2. Adds({"raw"}) /\ (ui' \in {"trust", "input"} \/ ui' = ui)
    BY <1>1, <1>2, <2>1, TypedAdds DEF Typed
  <2>. QED
    BY <1>3, <2>1, <2>2
<1>5. CASE PressKey
  <2>1. Other /\ UNCHANGED known /\ (EnterPressed \/ EscapePressed \/ LineCleared)
    BY <1>5 DEF PressKey
  <2>2. ui' \in {"trust", "input"} \/ ui' = ui \/ line = <<"/status">>
    BY <2>1 DEF EnterPressed, EscapePressed, LineCleared
  <2>3. Adds({})
    BY <1>1, <2>1, PressedAdds
  <2>. QED
    BY <1>3, <2>1, <2>2, <2>3
<1>6. CASE ChangeVim
  <2>1. /\ Other /\ UNCHANGED known /\ vim' \in {"off", "insert", "normal"}
        /\ UNCHANGED <<ui, line, submitted>>
    BY <1>6 DEF ChangeVim
  <2>2. Adds({})
    BY <1>1, <2>1 DEF Adds, TypeOK, Tokens
  <2>. QED
    BY <1>3, <2>1, <2>2
<1>7. CASE HookTells
  BY <1>2, <1>7, Noticing DEF HookTells
<1>. QED
  BY <1>4, <1>5, <1>6, <1>7

-----------------------------------------------------------------------------
(* The theorems.                                                           *)

\* Initially nothing was typed.
LEMMA InitIInv == Init => IInv
<1> SUFFICES ASSUME Init
             PROVE  IInv
  OBVIOUS
<1>1. /\ ui \in {"trust", "input"} /\ vim \in {"off", "insert", "normal"}
      /\ line = <<>> /\ submitted = {} /\ cache = "unknown" /\ lock = None
      /\ call = [c \in Call |-> "idle"] /\ probing = None
      /\ probe = [p \in Prober |-> "idle"] /\ found = [p \in Prober |-> None]
      /\ known = None /\ clean = {} /\ alone = TRUE
  BY DEF Init
<1>2. line \in Seq(Call \cup Key) /\ \A x : ~Contains(line, x)
  BY <1>1, Shorts DEF Tokens
<1>3. TypeOK
  BY <1>1, <1>2, PaneAssumption DEF TypeOK, Turn, Asking
<1>4. \A c \in Call : TextOK(c)
  BY <1>1, <1>2 DEF TextOK, Absent
<1>5. AloneOK
  BY <1>1, <1>2, PaneAssumption DEF AloneOK, Traceless
<1>. QED
  BY <1>3, <1>4, <1>5 DEF IInv

\* Every step keeps the invariant.
LEMMA NextIInv == IInv /\ [Next]_vars => IInv'
<1> SUFFICES ASSUME IInv, [Next]_vars
             PROVE  IInv'
  OBVIOUS
<1>1. CASE UNCHANGED vars
  <2>1. /\ UNCHANGED <<screen, sending, probing, probe, history, found, known>>
        /\ found \in [Prober -> Id \cup {None}] /\ known \in Id \cup {None}
    BY <1>1 DEF vars, asking, IInv, TypeOK
  <2>. QED
    BY <2>1, Noticing
<1>. QED
  BY <1>1, SendsKeep, ProbesKeep, OthersKeep DEF Next

\* In every run the invariant holds.
THEOREM Invariant == Spec => []IInv
BY InitIInv, NextIInv, PTL DEF Spec

\* The state is always of its type: at most one text has the window's lock, at most
\* one probe the probe lock, and each has it exactly while it is under way.
THEOREM TypesHold == Spec => []TypeOK
<1>1. IInv => TypeOK
  BY DEF IInv
<1>. QED
  BY <1>1, Invariant, PTL

\* send_keys and detect_session_id: an undisturbed text, none of whose keys it needs
\* was lost, is submitted exactly as it is, whatever mode vim is in; and an undisturbed
\* probe leaves nothing behind, whichever of its keys are lost but the Enter after
\* "/status" and both Escapes.
THEOREM KeysWhole == Spec => []KeysArriveWhole
<1>1. IInv => KeysArriveWhole
  <2> SUFFICES ASSUME IInv
               PROVE  KeysArriveWhole
    OBVIOUS
  <2>1. TypeOK /\ (\A c \in Call : TextOK(c)) /\ AloneOK
    BY DEF IInv
  <2>2. ASSUME NEW c \in clean
        PROVE  /\ call[c] = "sent" => Pieces(c) \in submitted
               /\ \A l \in submitted : Contains(l, c) => l = Pieces(c)
    <3>1. c \in Call /\ TextOK(c)
      BY <2>1 DEF TypeOK
    <3>2. CASE call[c] \in Turn
      BY <3>1, <3>2 DEF TextOK, TurnOK, Absent, Turn
    <3>3. CASE call[c] \notin Turn
      BY <3>1, <3>3 DEF TextOK, Arrived
    <3>. QED
      BY <3>2, <3>3
  <2>3. ProbesLeaveNoTrace
    <3>1. ASSUME alone, NEW p \in Prober, probe[p] = "store"
          PROVE  ui = "input" /\ line = <<>>
      <4>1. probing = p
        BY <2>1, <3>1 DEF TypeOK, Asking
      <4>. QED
        BY <2>1, <3>1, <4>1 DEF AloneOK, StageOK
    <3>. QED
      BY <2>1, <3>1 DEF ProbesLeaveNoTrace, AloneOK, Traceless, Asks
  <2>. QED
    BY <2>2, <2>3 DEF KeysArriveWhole, TextsArriveWhole, At
<1>. QED
  BY <1>1, Invariant, PTL
=============================================================================
