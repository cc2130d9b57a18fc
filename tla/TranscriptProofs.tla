------------------------- MODULE TranscriptProofs -------------------------
(***************************************************************************)
(* Proofs about TranscriptReader, for any number of lines, lives of the    *)
(* file and lines of any kind, and writes that end anywhere, and about     *)
(* TranscriptContent, for transcripts of any length read in any batches.   *)
(* The two are the halves of reading a transcript and share no state.      *)
(***************************************************************************)
EXTENDS TranscriptReader, TranscriptContent, FiniteSetTheorems,
        WellFoundedInduction, TLAPS

-----------------------------------------------------------------------------
(* THE READER.  The inductive invariant.                                   *)

\* Before the session is tracked nothing was read.
NotTrackedYet == ~tracked => read = <<>>

\* What was read is of this life of the file or of earlier ones; when of this one, the
\* offset is within the file and all lines from it up to the one read were handed
\* over by a read that broke off.
ReadBehind ==
  \A i \in DOMAIN read :
    /\ read[i] < life * Lines + Lines
    /\ \/ read[i] < life * Lines
       \/ /\ byteOffset <= size
          /\ \A k \in Nat : byteOffset <= 4 * k /\ life * Lines + k <= read[i] =>
               life * Lines + k \in again

\* Line k is JSON.
IsObject(k) == k \notin Blank \cup Garbled \cup Foreign

\* In a file never truncated, an offset at a newline is one that met the end of the
\* file, and every object from the start of tracking that the offset has so much as
\* entered was read or comes after such an offset.
Followed ==
  tracked /\ life = 0 =>
    /\ byteOffset <= size
    /\ byteOffset % 4 = 3 => byteOffset \in cuts
    /\ \A k \in 0..(Lines - 1) :
         4 * k >= first /\ 4 * k + 1 <= byteOffset /\ IsObject(k) =>
           4 * k - 1 \in cuts \/ \E i \in DOMAIN read : read[i] = k

ReaderInv == ReaderTypeOK /\ NotTrackedYet /\ ReadBehind /\ ReadInOrder /\ Followed

-----------------------------------------------------------------------------
(* Offsets and lines.                                                      *)

Below == {pair \in Nat \X Nat : pair[1] < pair[2]}

\* A set of numbers that is not empty has a least one.
LEMMA LeastOf ==
  ASSUME NEW S \in SUBSET Nat, S # {}
  PROVE  \E m \in S : \A j \in S : m <= j
<1>1. IsWellFoundedOn(Below, Nat)
  BY NatLessThanWellFounded, Zenon DEF OpToRel, Below
<1>2. PICK m \in S : \A j \in S : <<j, m>> \notin Below
  BY <1>1, WFMin
<1>3. ASSUME NEW j \in S, j < m
      PROVE  FALSE
  <2>1. <<j, m>> \in Below
    BY <1>3 DEF Below
  <2>. QED
    BY <1>2, <2>1
<1>. QED
  BY <1>3

\* An offset is in one line, at one of its four places.
LEMMA Fourths ==
  ASSUME NEW p \in Nat
  PROVE  p \div 4 \in Nat /\ p % 4 \in 0..3 /\ p = 4 * (p \div 4) + (p % 4)
OBVIOUS

\* Multiples of four are the starts of lines.
LEMMA Starts ==
  ASSUME NEW k \in Nat
  PROVE  (4 * k) \div 4 = k /\ (4 * k) % 4 = 0
OBVIOUS

\* The offset before a line is that of a newline.
LEMMA Newlines ==
  ASSUME NEW k \in Nat, k # 0
  PROVE  4 * k - 1 \in Nat /\ (4 * k - 1) % 4 = 3
<1>1. 4 * k - 1 = 4 * (k - 1) + 3 /\ k - 1 \in Nat
  OBVIOUS
<1>. QED
  BY <1>1

\* The line at which the loop stops.
StopLine == CHOOSE m \in Stops(Aligned) : \A j \in Stops(Aligned) : m <= j

\* Where the reader goes on: the offset, or 0 in a truncated file; or, when that is
\* at another character than a brace, the end of the line in which the next one is.
LEMMA AlignedAt ==
  ASSUME ReaderTypeOK
  PROVE  /\ Resumed \in 0..size /\ Aligned \in 0..size
         /\ byteOffset <= size => Resumed = byteOffset
         /\ Aligned >= Resumed
         /\ \/ Aligned = Resumed
            \/ /\ ~IsBrace(Resumed)
               /\ \E k \in Nat : /\ 4 * k <= Resumed + 1 /\ Resumed + 1 <= 4 * k + 3
                                 /\ \/ Aligned = size /\ size <= 4 * k + 4
                                    \/ Aligned = 4 * k + 4
<1>1. size \in Nat /\ byteOffset \in Nat
  BY ReaderAssumption DEF ReaderTypeOK, End
<1>2. Resumed \in 0..size /\ (byteOffset <= size => Resumed = byteOffset)
  BY <1>1 DEF Resumed
<1>3. CASE ~(Resumed \in 1..(size - 1) /\ ~IsBrace(Resumed))
  <2>1. Aligned = Resumed
    BY <1>3 DEF Aligned
  <2>. QED
    BY <1>1, <1>2, <2>1
<1>4. CASE Resumed \in 1..(size - 1) /\ ~IsBrace(Resumed)
  <2> DEFINE k == (Resumed + 1) \div 4
  <2>1. Aligned = LineEnd(Resumed + 1)
    BY <1>4 DEF Aligned
  <2>2. k \in Nat /\ 4 * k <= Resumed + 1 /\ Resumed + 1 <= 4 * k + 3
    BY <1>2
  <2>3. Aligned = IF size < 4 * k + 4 THEN size ELSE 4 * k + 4
    BY <2>1 DEF LineEnd, Least
  <2> HIDE DEF k
  <2>4. \/ Aligned = size /\ size <= 4 * k + 4
        \/ Aligned = 4 * k + 4 /\ 4 * k + 4 <= size
    BY <1>1, <2>2, <2>3
  <2>. QED
    BY <1>1, <1>2, <1>4, <2>1, <2>2, <2>4
<1>. QED
  BY <1>3, <1>4

\* An object that begins at the offset or later and before the place where the reader
\* goes on is the one whose newline in front of it stands at the offset.
LEMMA SkippedLine ==
  ASSUME ReaderTypeOK, NEW k \in Nat, 4 * k >= Resumed, 4 * k < Aligned,
         Entry(k) \notin Blank \cup Foreign
  PROVE  4 * k - 1 = Resumed
<1>1. Resumed \in Nat /\ Aligned \in Nat /\ Aligned # Resumed
  BY AlignedAt, ReaderAssumption DEF ReaderTypeOK, End
<1>2. /\ ~IsBrace(Resumed)
      /\ \E j \in Nat : /\ 4 * j <= Resumed + 1 /\ Resumed + 1 <= 4 * j + 3
                        /\ Aligned <= 4 * j + 4
  BY <1>1, AlignedAt
<1>3. PICK j \in Nat : /\ 4 * j <= Resumed + 1 /\ Resumed + 1 <= 4 * j + 3
                       /\ Aligned <= 4 * j + 4
  BY <1>2
<1>4. k = j
  BY <1>1, <1>3
<1>5. Resumed # 4 * k
  BY <1>2, Starts DEF IsBrace
<1>. QED
  BY <1>1, <1>3, <1>4, <1>5

\* The loop stops somewhere, at the end of the file at the latest, and takes every
\* line before.
LEMMA StopsAt ==
  ASSUME ReaderTypeOK
  PROVE  /\ StopLine \in 0..Lines /\ Aligned <= 4 * StopLine
         /\ \A j \in Stops(Aligned) : StopLine <= j
         /\ StopLine \in Stops(Aligned)
         /\ \A k \in Nat : Aligned <= 4 * k /\ k < StopLine => 4 * k < size
<1>1. Lines \in Nat /\ size \in Nat /\ size <= 4 * Lines /\ Aligned \in 0..size
  BY AlignedAt, ReaderAssumption DEF ReaderTypeOK, End
<1>2. Lines \in Stops(Aligned)
  BY <1>1 DEF Stops, Takes
<1>3. Stops(Aligned) \subseteq Nat
  BY <1>1 DEF Stops
<1>4. \E m \in Stops(Aligned) : \A j \in Stops(Aligned) : m <= j
  BY <1>2, <1>3, LeastOf
<1>5. StopLine \in Stops(Aligned) /\ \A j \in Stops(Aligned) : StopLine <= j
  BY <1>4 DEF StopLine
<1>6. StopLine \in 0..Lines /\ Aligned <= 4 * StopLine
  BY <1>1, <1>5 DEF Stops
<1>7. ASSUME NEW k \in Nat, Aligned <= 4 * k, k < StopLine
      PROVE  4 * k < size
  <2>1. k \in 0..Lines /\ k \notin Stops(Aligned)
    BY <1>1, <1>3, <1>5, <1>6, <1>7
  <2>2. Takes(k)
    BY <1>1, <1>7, <2>1 DEF Stops
  <2>. QED
    BY <1>1, <2>2 DEF Takes
<1>. QED
  BY <1>5, <1>6, <1>7

\* How many lines a poll takes, and where it leaves the offset: from the start of a
\* line all lines before the one at which it stops, else none.
LEMMA PollEnds ==
  ASSUME ReaderTypeOK
  PROVE  /\ Cardinality(ParsedLines) \in Nat
         /\ \/ Cardinality(ParsedLines) = 0 /\ SafeOffset = Aligned
            \/ /\ Aligned = 4 * (Aligned \div 4)
               /\ Cardinality(ParsedLines) = StopLine - Aligned \div 4
               /\ Aligned \div 4 < StopLine
               /\ SafeOffset = Least(size, 4 * StopLine)
<1> DEFINE a == Aligned \div 4
<1>1. /\ Lines \in Nat /\ size \in Nat /\ StopLine \in 0..Lines /\ Aligned <= 4 * StopLine
      /\ \A j \in Stops(Aligned) : StopLine <= j
      /\ StopLine \in Stops(Aligned)
  BY StopsAt, ReaderAssumption DEF ReaderTypeOK, End
<1>2. Aligned \in Nat /\ Aligned <= size
  BY <1>1, AlignedAt
<1>3. a \in Nat /\ Aligned % 4 \in 0..3 /\ Aligned = 4 * a + (Aligned % 4)
  BY <1>2, Fourths
<1>4. CASE ParsedLines = {}
  BY <1>4, FS_EmptySet DEF SafeOffset
<1>5. CASE ParsedLines # {}
  <2>0. Aligned % 4 = 0
    BY <1>5 DEF ParsedLines
  <2>1. Aligned = 4 * a /\ a <= StopLine
    BY <1>1, <1>2, <1>3, <2>0
  <2>2. ParsedLines = a..(StopLine - 1)
    <3>1. ParsedLines = {k \in 0..(Lines - 1) :
                           4 * k >= Aligned /\ \A j \in Stops(Aligned) : k < j}
      BY <2>0 DEF ParsedLines
    <3>2. Stops(Aligned) \subseteq Nat
      BY <1>1 DEF Stops
    <3>3. \A k \in 0..(Lines - 1) : (\A j \in Stops(Aligned) : k < j) <=> k < StopLine
      BY <1>1, <3>2
    <3>4. \A k \in 0..(Lines - 1) : 4 * k >= Aligned <=> k >= a
      BY <1>3, <2>1
    <3>5. a..(StopLine - 1) \subseteq 0..(Lines - 1)
      BY <1>1, <1>3
    <3>. QED
      BY <1>1, <1>3, <3>1, <3>3, <3>4, <3>5
  <2>3. a < StopLine
    BY <1>1, <1>3, <1>5, <2>2
  <2>4. Cardinality(ParsedLines) = StopLine - a
    <3>1. a \in Int /\ StopLine - 1 \in Int
      BY <1>1, <1>3
    <3>2. Cardinality(a..(StopLine - 1))
            = IF a > StopLine - 1 THEN 0 ELSE StopLine - 1 - a + 1
      BY <3>1, FS_Interval
    <3>. QED
      BY <1>1, <1>3, <2>2, <2>3, <3>2
  <2>5. (CHOOSE k \in ParsedLines : \A j \in ParsedLines : j <= k) = StopLine - 1
    <3>1. StopLine - 1 \in ParsedLines /\ \A j \in ParsedLines : j <= StopLine - 1
      BY <1>1, <1>3, <2>2, <2>3
    <3>2. \A k \in ParsedLines : (\A j \in ParsedLines : j <= k) => k = StopLine - 1
      BY <1>1, <1>3, <2>2, <3>1
    <3>. QED
      BY <3>1, <3>2
  <2>6. SafeOffset = LineEnd(4 * (StopLine - 1))
    BY <1>5, <2>5 DEF SafeOffset
  <2>7. (4 * (StopLine - 1)) \div 4 = StopLine - 1
    BY <1>1, <1>3, <2>3, Starts
  <2>8. SafeOffset = Least(size, 4 * StopLine)
    <3>1. 4 * (StopLine - 1) + 4 = 4 * StopLine
      BY <1>1
    <3>. QED
      BY <2>6, <2>7, <3>1 DEF LineEnd
  <2>. QED
    BY <1>1, <1>3, <2>1, <2>3, <2>4, <2>8
<1>. QED
  BY <1>4, <1>5

\* The numbers of the lines of this life of the file.
LEMMA LifeEntries ==
  ASSUME ReaderTypeOK
  PROVE  /\ life * Lines \in Nat /\ (life + 1) * Lines = life * Lines + Lines
         /\ life * Lines + Lines <= Files * Lines
         /\ life = 0 => life * Lines = 0
<1>1. Lines \in Nat /\ Files \in Nat /\ life \in Nat /\ life + 1 <= Files
  BY ReaderAssumption DEF ReaderTypeOK
<1>2. life * Lines \in Nat /\ (life + 1) * Lines = life * Lines + Lines
  BY <1>1
<1>3. \A m, n, l \in Nat : m <= n => m * l <= n * l
  OBVIOUS
<1>4. (life + 1) * Lines <= Files * Lines
  BY <1>1, <1>3
<1>. QED
  BY <1>1, <1>2, <1>4

\* What a reading of the first n lines does to what was read.
LEMMA TakenStep ==
  ASSUME ReaderTypeOK, NEW n \in 0..Cardinality(ParsedLines),
         read' = read \o [i \in 1..n |-> Entry(Aligned \div 4 + i - 1)]
  PROVE  /\ DOMAIN read \subseteq DOMAIN read' /\ \A i \in DOMAIN read : read'[i] = read[i]
         /\ \A i \in DOMAIN read' \ DOMAIN read : \E k \in 0..(Lines - 1) :
              /\ read'[i] = life * Lines + k
              /\ 4 * k >= Aligned /\ 4 * k < size /\ k < Aligned \div 4 + n /\ k < StopLine
         /\ \A i, j \in DOMAIN read' \ DOMAIN read : i < j => read'[i] < read'[j]
         /\ \A i \in DOMAIN read, j \in DOMAIN read' \ DOMAIN read : i < j
         /\ \A k \in Nat : 4 * k >= Aligned /\ k < Aligned \div 4 + n =>
              \E i \in DOMAIN read' : read'[i] = life * Lines + k
         /\ read' \in Seq(Entries)
         /\ n > 0 => Aligned = 4 * (Aligned \div 4)
         /\ n = 0 => read' = read
<1> DEFINE a == Aligned \div 4
           base == life * Lines
           new == [i \in 1..n |-> Entry(a + i - 1)]
<1>1. /\ Lines \in Nat /\ size \in Nat /\ Aligned \in 0..size /\ a \in Nat
      /\ Aligned = 4 * a + (Aligned % 4) /\ Aligned % 4 \in 0..3
      /\ base \in Nat /\ base + Lines <= Files * Lines
  <2>1. Lines \in Nat /\ size \in Nat /\ Aligned \in 0..size
    BY AlignedAt, ReaderAssumption DEF ReaderTypeOK, End
  <2>2. base \in Nat /\ base + Lines <= Files * Lines
    BY LifeEntries
  <2>3. Aligned \in Nat
    BY <2>1
  <2>4. a \in Nat /\ Aligned % 4 \in 0..3 /\ Aligned = 4 * a + (Aligned % 4)
    BY <2>3, Fourths
  <2>. QED
    BY <2>1, <2>2, <2>4
<1>2. /\ StopLine \in 0..Lines
      /\ \A k \in Nat : Aligned <= 4 * k /\ k < StopLine => 4 * k < size
  BY StopsAt
<1>3. read \in Seq(Entries) /\ n \in Nat
  BY PollEnds DEF ReaderTypeOK
<1>4. n > 0 => Aligned = 4 * a /\ a + n <= StopLine
  BY <1>1, <1>2, <1>3, PollEnds
<1>5. new = [i \in 1..n |-> base + (a + i - 1)]
  BY DEF Entry
<1> HIDE DEF a, base, new
<1>6. \A i \in 1..n : base + (a + i - 1) \in Entries
  <2>1. Files * Lines \in Nat
    BY ReaderAssumption
  <2> DEFINE total == Files * Lines
  <2> HIDE DEF total
  <2>2. total \in Nat /\ base + Lines <= total /\ Entries = 0..(total - 1)
    BY <1>1, <2>1 DEF total, Entries
  <2>. QED
    BY <1>1, <1>2, <1>3, <1>4, <2>2
<1>7. new \in Seq(Entries) /\ Len(new) = n
  BY <1>3, <1>5, <1>6
<1>8. /\ read' \in Seq(Entries) /\ Len(read) \in Nat
      /\ Len(read') = Len(read) + n
      /\ DOMAIN read = 1..Len(read) /\ DOMAIN read' = 1..(Len(read) + n)
      /\ \A i \in DOMAIN read : read'[i] = read[i]
      /\ \A i \in 1..n : read'[Len(read) + i] = new[i]
  <2>1. read' = read \o new
    BY DEF new, a
  <2>2. read \o new \in Seq(Entries) /\ Len(read \o new) = Len(read) + Len(new)
    <3>1. \A s, t \in Seq(Entries) : s \o t \in Seq(Entries) /\ Len(s \o t) = Len(s) + Len(t)
      OBVIOUS
    <3>. QED
      BY <1>3, <1>7, <3>1
  <2>3. read' \in Seq(Entries) /\ Len(read) \in Nat /\ Len(read') = Len(read) + n
    BY <1>3, <1>7, <2>1, <2>2
  <2>4. DOMAIN read = 1..Len(read) /\ DOMAIN read' = 1..(Len(read) + n)
    BY <1>3, <2>3
  <2>5. \A i \in DOMAIN read : read'[i] = read[i]
    BY <1>3, <1>7, <2>1, <2>4
  <2>6. \A i \in 1..n : read'[Len(read) + i] = new[i]
    BY <1>3, <1>7, <2>1, <2>3
  <2>. QED
    BY <2>3, <2>4, <2>5, <2>6
<1>9. \A i \in DOMAIN read' \ DOMAIN read :
        /\ i - Len(read) \in 1..n
        /\ read'[i] = base + (a + (i - Len(read)) - 1)
  <2> TAKE i \in DOMAIN read' \ DOMAIN read
  <2>1. i - Len(read) \in 1..n /\ i = Len(read) + (i - Len(read))
    BY <1>3, <1>8
  <2>2. read'[i] = new[i - Len(read)]
    BY <1>8, <2>1
  <2>. QED
    BY <1>5, <2>1, <2>2
<1>10. ASSUME NEW i \in DOMAIN read' \ DOMAIN read
       PROVE  \E k \in 0..(Lines - 1) :
                /\ read'[i] = base + k
                /\ 4 * k >= Aligned /\ 4 * k < size /\ k < a + n /\ k < StopLine
  <2> DEFINE d == i - Len(read)
             k == a + d - 1
  <2>0. d \in 1..n /\ n > 0
    BY <1>3, <1>9
  <2>1. k \in Nat /\ k >= a /\ k < a + n /\ k < StopLine
    BY <1>1, <1>2, <1>3, <1>4, <2>0
  <2>2. read'[i] = base + k
    BY <1>9
  <2> HIDE DEF k
  <2>3. k \in 0..(Lines - 1) /\ 4 * k >= Aligned /\ 4 * k < size
    BY <1>1, <1>2, <1>3, <1>4, <2>0, <2>1
  <2>. QED
    BY <2>1, <2>2, <2>3
<1>11. ASSUME NEW k \in Nat, 4 * k >= Aligned, k < a + n
       PROVE  \E i \in DOMAIN read' : read'[i] = base + k
  <2>1. k - a + 1 \in 1..n
    BY <1>1, <1>3, <1>11
  <2>2. new[k - a + 1] = base + k
    BY <1>1, <1>5, <2>1
  <2>3. /\ Len(read) + (k - a + 1) \in DOMAIN read'
        /\ read'[Len(read) + (k - a + 1)] = base + k
    BY <1>1, <1>3, <1>8, <2>1, <2>2
  <2>. QED
    BY <2>3
<1>12. \A i, j \in DOMAIN read' \ DOMAIN read : i < j => read'[i] < read'[j]
  <2> TAKE i, j \in DOMAIN read' \ DOMAIN read
  <2>1. i \in Int /\ j \in Int /\ Len(read) \in Nat
    BY <1>3, <1>8
  <2>2. /\ read'[i] = base + (a + (i - Len(read)) - 1)
        /\ read'[j] = base + (a + (j - Len(read)) - 1)
    BY <1>9
  <2>. QED
    BY <1>1, <2>1, <2>2
<1>13. DOMAIN read \subseteq DOMAIN read' /\
       \A i \in DOMAIN read, j \in DOMAIN read' \ DOMAIN read : i < j
  BY <1>3, <1>8
<1>14. n = 0 => read' = read
  <2>1. read' = read \o new
    BY DEF new, a
  <2>2. n = 0 => new = <<>>
    BY <1>7
  <2>. QED
    BY <1>3, <2>1, <2>2
<1>. QED
  BY <1>3, <1>4, <1>8, <1>10, <1>11, <1>12, <1>13, <1>14 DEF base, a

-----------------------------------------------------------------------------
(* The invariant is kept.                                                  *)

\* A reading of the first n lines keeps it, if the offset follows them or they are
\* marked as handed over without it.
LEMMA ReadingKeeps ==
  ASSUME ReaderInv, tracked, NEW n \in 0..Cardinality(ParsedLines),
         read' = read \o [i \in 1..n |-> Entry(Aligned \div 4 + i - 1)],
         again \subseteq again', again' \subseteq Entries,
         \/ n = Cardinality(ParsedLines) /\ byteOffset' = SafeOffset
         \/ /\ byteOffset' \in {byteOffset, Resumed, Aligned}
            /\ n > 0 => byteOffset' = Aligned
            /\ \A k \in Nat : Aligned <= 4 * k /\ k < Aligned \div 4 + n =>
                 life * Lines + k \in again',
         MeetsEnd, UNCHANGED <<size, life, tracked, first>>
  PROVE  ReaderInv'
<1> DEFINE base == life * Lines
           a == Aligned \div 4
<1>1. /\ ReaderTypeOK /\ tracked /\ NotTrackedYet /\ ReadBehind /\ ReadInOrder /\ Followed
      /\ base \in Nat /\ Lines \in Nat /\ size \in 0..End /\ byteOffset \in Nat
      /\ Resumed \in 0..size /\ Aligned \in 0..size /\ Aligned >= Resumed
      /\ byteOffset <= size => Resumed = byteOffset
      /\ a \in Nat /\ n \in Nat /\ End \in Nat
      /\ StopLine \in 0..Lines
  <2>1. /\ ReaderTypeOK /\ tracked /\ NotTrackedYet /\ ReadBehind /\ ReadInOrder /\ Followed
        /\ Lines \in Nat /\ size \in 0..End /\ byteOffset \in Nat /\ End \in Nat
    BY ReaderAssumption DEF ReaderInv, ReaderTypeOK, End
  <2>2. base \in Nat /\ StopLine \in 0..Lines
    BY <2>1, LifeEntries, StopsAt
  <2>3. /\ Resumed \in 0..size /\ Aligned \in 0..size /\ Aligned >= Resumed
        /\ byteOffset <= size => Resumed = byteOffset
    BY <2>1, AlignedAt
  <2>4. Aligned \in Nat
    BY <2>1, <2>3
  <2>5. a \in Nat
    BY <2>4, Fourths
  <2>6. n \in Nat
    BY <2>1, PollEnds
  <2>. QED
    BY <2>1, <2>2, <2>3, <2>5, <2>6
<1>2. cuts' = IF size % 4 = 3 THEN cuts \cup {size} ELSE cuts
  BY DEF MeetsEnd
<1>3. /\ DOMAIN read \subseteq DOMAIN read' /\ \A i \in DOMAIN read : read'[i] = read[i]
      /\ \A i \in DOMAIN read' \ DOMAIN read : \E k \in 0..(Lines - 1) :
           /\ read'[i] = base + k /\ 4 * k >= Aligned /\ 4 * k < size
           /\ k < a + n /\ k < StopLine
      /\ \A i, j \in DOMAIN read' \ DOMAIN read : i < j => read'[i] < read'[j]
      /\ \A i \in DOMAIN read, j \in DOMAIN read' \ DOMAIN read : i < j
      /\ \A k \in Nat : 4 * k >= Aligned /\ k < a + n =>
           \E i \in DOMAIN read' : read'[i] = base + k
      /\ read' \in Seq(Entries)
      /\ n > 0 => Aligned = 4 * a
      /\ n = 0 => read' = read
  BY <1>1, TakenStep
<1>4. \A i \in DOMAIN read : read[i] \in Nat
  <2>1. read \in Seq(Entries)
    BY <1>1 DEF ReaderTypeOK
  <2>2. \A i \in DOMAIN read : read[i] \in Entries
    BY <2>1
  <2>. QED
    BY <2>2 DEF Entries
\* The offset: within the file, at or behind the lines read, or before marked ones.
<1>5. /\ byteOffset' \in Nat
      /\ byteOffset <= size => byteOffset' <= size /\ byteOffset <= byteOffset'
      /\ n > 0 => byteOffset' <= size /\ byteOffset' >= Aligned
      /\ byteOffset' <= End
  <2>1. SafeOffset \in Aligned..size
    BY <1>1, PollEnds, StopsAt DEF Least
  <2>2. CASE byteOffset' = SafeOffset
    BY <1>1, <2>1, <2>2
  <2>3. CASE byteOffset' \in {byteOffset, Resumed, Aligned} /\ (n > 0 => byteOffset' = Aligned)
    <3>1. byteOffset <= End
      BY <1>1 DEF ReaderTypeOK
    <3>. QED
      BY <1>1, <2>3, <3>1
  <2>. QED
    BY <2>2, <2>3
<1>6. byteOffset' % 4 = 3 => byteOffset' \in {byteOffset, Resumed, size}
  <2>1. Aligned % 4 = 3 => Aligned \in {Resumed, size}
    <3>1. ASSUME NEW k \in Nat, Aligned = 4 * k + 4
          PROVE  Aligned % 4 = 0
      <4>1. Aligned = 4 * (k + 1)
        BY <3>1
      <4>. QED
        BY <4>1, Starts
    <3>. QED
      BY <1>1, <3>1, AlignedAt
  <2>2. SafeOffset \in {Aligned, size, 4 * StopLine}
    BY <1>1, PollEnds DEF Least
  <2>3. (4 * StopLine) % 4 = 0
    BY <1>1, Starts
  <2>. QED
    BY <2>1, <2>2, <2>3
<1>7. \A k \in Nat : 4 * k >= Aligned /\ k < a + n =>
        4 * k + 1 <= byteOffset' \/ base + k \in again'
  <2>1. CASE n = Cardinality(ParsedLines) /\ byteOffset' = SafeOffset
    <3> SUFFICES ASSUME NEW k \in Nat, 4 * k >= Aligned, k < a + n
                 PROVE  4 * k + 1 <= byteOffset'
      OBVIOUS
    <3>1. CASE n = 0
      <4>1. Aligned = 4 * a + (Aligned % 4) /\ Aligned % 4 \in 0..3
        BY <1>1, Fourths
      <4>. QED
        BY <1>1, <3>1, <4>1
    <3>2. CASE n > 0
      <4>1. n = StopLine - a /\ byteOffset' = Least(size, 4 * StopLine)
        BY <1>1, <2>1, <3>2, PollEnds
      <4>2. 4 * k < size
        BY <1>1, <4>1, StopsAt
      <4>. QED
        BY <1>1, <4>1, <4>2 DEF Least
    <3>. QED
      BY <1>1, <3>1, <3>2
  <2>. QED
    BY <2>1 DEF base, a
<1>8. ReaderTypeOK'
  <2>1. cuts' \subseteq 0..End
    BY <1>1, <1>2 DEF ReaderTypeOK
  <2>. QED
    BY <1>1, <1>3, <1>5, <2>1 DEF ReaderTypeOK, End
<1> HIDE DEF base, a
<1>9. ReadBehind'
  <2>1. ASSUME NEW i \in DOMAIN read
        PROVE  /\ read'[i] < base + Lines
               /\ \/ read'[i] < base
                  \/ /\ byteOffset' <= size
                     /\ \A k \in Nat : byteOffset' <= 4 * k /\ base + k <= read'[i] =>
                          base + k \in again'
    <3>1. /\ read'[i] = read[i] /\ read[i] < base + Lines
          /\ \/ read[i] < base
             \/ /\ byteOffset <= size
                /\ \A k \in Nat : byteOffset <= 4 * k /\ base + k <= read[i] =>
                     base + k \in again
      BY <1>1, <1>3 DEF ReadBehind, base
    <3>2. CASE read[i] < base
      BY <3>1, <3>2
    <3>3. CASE /\ byteOffset <= size
               /\ \A k \in Nat : byteOffset <= 4 * k /\ base + k <= read[i] =>
                    base + k \in again
      <4>1. byteOffset' <= size /\ byteOffset <= byteOffset'
        BY <1>5, <3>3
      <4>2. ASSUME NEW k \in Nat, byteOffset' <= 4 * k, base + k <= read'[i]
            PROVE  base + k \in again'
        <5>1. byteOffset <= 4 * k
          BY <1>1, <1>5, <4>1, <4>2
        <5>. QED
          BY <3>1, <3>3, <4>2, <5>1
      <4>. QED
        BY <3>1, <4>1, <4>2
    <3>. QED
      BY <3>1, <3>2, <3>3
  <2>2. ASSUME NEW i \in DOMAIN read' \ DOMAIN read
        PROVE  /\ read'[i] < base + Lines
               /\ byteOffset' <= size
               /\ \A k \in Nat : byteOffset' <= 4 * k /\ base + k <= read'[i] =>
                    base + k \in again'
    <3>1. PICK m \in 0..(Lines - 1) : read'[i] = base + m /\ m < a + n
      BY <1>3
    <3>2. n > 0
      BY <1>1, <1>3
    <3>3. byteOffset' <= size /\ byteOffset' >= Aligned
      BY <1>5, <3>2
    <3>4. /\ base \in Nat /\ a \in Nat /\ n \in Nat /\ Aligned \in Nat /\ Lines \in Nat
          /\ byteOffset' \in Nat /\ m \in Nat /\ m < Lines
      BY <1>1, <1>5
    <3>5. ASSUME NEW k \in Nat, byteOffset' <= 4 * k, base + k <= read'[i]
          PROVE  base + k \in again'
      <4>1. k <= m
        BY <3>1, <3>4, <3>5
      <4>2. k < a + n
        BY <3>1, <3>4, <4>1
      <4>3. Aligned <= 4 * k
        BY <3>3, <3>4, <3>5
      <4>4. ~(4 * k + 1 <= byteOffset')
        BY <3>4, <3>5
      <4>. QED
        BY <1>7, <4>2, <4>3, <4>4
    <3>6. read'[i] < base + Lines
      BY <3>1, <3>4
    <3>. QED
      BY <3>3, <3>5, <3>6
  <2>. QED
    BY <1>3, <2>1, <2>2 DEF ReadBehind, base
<1>10. ReadInOrder'
  <2>1. ASSUME NEW i \in DOMAIN read, NEW j \in DOMAIN read' \ DOMAIN read
        PROVE  read'[i] < read'[j] \/ read'[j] \in again'
    <3>1. PICK k \in 0..(Lines - 1) : read'[j] = base + k /\ 4 * k >= Aligned
      BY <1>3
    <3>2. /\ read'[i] = read[i]
          /\ \/ read[i] < base
             \/ /\ byteOffset <= size
                /\ \A m \in Nat : byteOffset <= 4 * m /\ base + m <= read[i] =>
                     base + m \in again
      BY <1>1, <1>3 DEF ReadBehind, base
    <3>3. CASE read[i] < base
      BY <1>1, <1>4, <3>1, <3>2, <3>3
    <3>4. CASE /\ byteOffset <= size
               /\ \A m \in Nat : byteOffset <= 4 * m /\ base + m <= read[i] =>
                    base + m \in again
      <4>1. k \in Nat /\ byteOffset <= 4 * k
        BY <1>1, <3>1, <3>4
      <4>2. base + k <= read[i] => base + k \in again'
        BY <3>4, <4>1
      <4>. QED
        BY <1>1, <1>4, <3>1, <3>2, <4>1, <4>2
    <3>. QED
      BY <3>2, <3>3, <3>4
  <2>2. \A i \in DOMAIN read, j \in DOMAIN read' \ DOMAIN read : ~(j < i)
    <3>1. DOMAIN read' \subseteq Nat
      BY <1>3
    <3>. QED
      BY <1>3, <3>1
  <2>3. \A i, j \in DOMAIN read : i < j => read'[i] < read'[j] \/ read'[j] \in again'
    BY <1>1, <1>3 DEF ReadInOrder
  <2>. QED
    BY <1>3, <2>1, <2>2, <2>3 DEF ReadInOrder
<1>11. Followed'
  <2> SUFFICES ASSUME life = 0
               PROVE  /\ byteOffset' <= size
                      /\ byteOffset' % 4 = 3 => byteOffset' \in cuts'
                      /\ \A k \in 0..(Lines - 1) :
                           4 * k >= first /\ 4 * k + 1 <= byteOffset' /\ IsObject(k) =>
                             4 * k - 1 \in cuts' \/ \E i \in DOMAIN read' : read'[i] = k
    BY DEF Followed
  <2>1. /\ byteOffset <= size /\ Resumed = byteOffset
        /\ byteOffset % 4 = 3 => byteOffset \in cuts
        /\ \A k \in 0..(Lines - 1) :
             4 * k >= first /\ 4 * k + 1 <= byteOffset /\ IsObject(k) =>
               4 * k - 1 \in cuts \/ \E i \in DOMAIN read : read[i] = k
    BY <1>1 DEF Followed
  <2>2. cuts \subseteq cuts' /\ (size % 4 = 3 => size \in cuts')
    BY <1>2
  <2>3. byteOffset' % 4 = 3 => byteOffset' \in cuts'
    BY <1>6, <2>1, <2>2
  <2>4. base = 0
    BY <1>1, LifeEntries DEF base
  <2>5. ASSUME NEW k \in 0..(Lines - 1), 4 * k >= Aligned, 4 * k + 1 <= byteOffset'
        PROVE  k < a + n
    <3>1. Aligned = 4 * a + (Aligned % 4) /\ Aligned % 4 \in 0..3
      BY <1>1, Fourths DEF a
    <3>2. CASE byteOffset' \in {byteOffset, Resumed, Aligned}
      BY <1>1, <2>1, <2>5, <3>2
    <3>3. CASE byteOffset' = SafeOffset /\ n = Cardinality(ParsedLines)
      <4>1. CASE SafeOffset = Aligned
        BY <1>1, <2>5, <3>3, <4>1
      <4>2. CASE n = StopLine - a /\ SafeOffset = Least(size, 4 * StopLine)
        BY <1>1, <2>5, <3>3, <4>2 DEF Least
      <4>. QED
        BY <3>3, <4>1, <4>2, PollEnds, <1>1 DEF a
    <3>. QED
      BY <3>2, <3>3
  <2>6. ASSUME NEW k \in 0..(Lines - 1), 4 * k >= first, 4 * k + 1 <= byteOffset',
               IsObject(k)
        PROVE  4 * k - 1 \in cuts' \/ \E i \in DOMAIN read' : read'[i] = k
    <3>1. CASE 4 * k + 1 <= byteOffset
      BY <1>3, <2>1, <2>2, <2>6, <3>1
    <3>2. CASE 4 * k >= Aligned
      <4>1. k < a + n /\ k \in Nat /\ base + k = k
        BY <2>4, <2>5, <2>6, <3>2
      <4>. QED
        BY <1>3, <3>2, <4>1
    <3>3. CASE 4 * k >= byteOffset /\ 4 * k < Aligned
      <4>0. Entry(k) = k
        BY <2>4 DEF Entry, base
      <4>1. 4 * k - 1 = byteOffset /\ k \in Nat
        BY <1>1, <2>1, <2>6, <3>3, <4>0, SkippedLine DEF IsObject
      <4>2. k # 0
        BY <1>1, <4>1
      <4>3. byteOffset % 4 = 3
        BY <4>1, <4>2, Newlines
      <4>. QED
        BY <2>1, <2>2, <4>1, <4>3
    <3>. QED
      BY <1>1, <3>1, <3>2, <3>3
  <2>. QED
    BY <1>5, <2>1, <2>3, <2>6
<1>. QED
  BY <1>1, <1>8, <1>9, <1>10, <1>11 DEF ReaderInv, NotTrackedYet

\* So does every visit to the file: one that reads all, that meets bytes that cannot
\* be decoded, or that breaks off.
LEMMA VisitKeeps ==
  ASSUME ReaderInv,
         \/ ReadNewLines
         \/ ReadRaises
         \/ \E n \in 0..Cardinality(ParsedLines) : ReadBreaksOff(n)
  PROVE  ReaderInv'
<1> DEFINE taken(n) == [i \in 1..n |-> Entry(Aligned \div 4 + i - 1)]
           all == Cardinality(ParsedLines)
<1>1. /\ ReaderTypeOK /\ all \in Nat /\ again \subseteq Entries
      /\ read \in Seq(Entries) /\ NewEntries = taken(all)
      /\ Aligned \in Nat /\ Aligned \div 4 \in Nat
      /\ Reached \in {Resumed, Aligned}
      /\ Aligned = 4 * (Aligned \div 4) + (Aligned % 4) /\ Aligned % 4 \in 0..3
  <2>1. ReaderTypeOK /\ again \subseteq Entries /\ read \in Seq(Entries)
    BY DEF ReaderInv, ReaderTypeOK
  <2>2. all \in Nat /\ NewEntries = taken(all)
    BY <2>1, PollEnds DEF NewEntries
  <2>3. size \in Nat /\ Aligned \in 0..size
    BY <2>1, AlignedAt, ReaderAssumption DEF ReaderTypeOK, End
  <2>4. Aligned \in Nat
    BY <2>3
  <2>5. Reached \in {Resumed, Aligned}
    BY DEF Reached
  <2>. QED
    BY <2>1, <2>2, <2>4, <2>5, Fourths
<1>2. CASE ReadNewLines
  <2>1. /\ tracked /\ read' = read \o taken(all) /\ byteOffset' = SafeOffset /\ MeetsEnd
        /\ UNCHANGED <<size, life, tracked, again, first>>
    BY <1>1, <1>2 DEF ReadNewLines
  <2>2. all \in 0..all
    BY <1>1
  <2> HIDE DEF all
  <2>. QED
    BY <1>1, <2>1, <2>2, ReadingKeeps DEF all
<1>3. CASE ReadRaises
  <2>1. /\ tracked /\ byteOffset' = Reached /\ MeetsEnd
        /\ UNCHANGED <<size, life, tracked, read, again, first>>
    BY <1>3 DEF ReadRaises
  <2>2. taken(0) = <<>> /\ read \o <<>> = read
    BY <1>1
  <2>3. \A k \in Nat : Aligned <= 4 * k /\ k < Aligned \div 4 + 0 =>
          life * Lines + k \in again'
    BY <1>1
  <2>4. 0 \in 0..all /\ ~(0 > 0) /\ read' = read \o taken(0)
    BY <1>1, <2>1, <2>2
  <2> HIDE DEF all
  <2>. QED
    BY <1>1, <2>1, <2>3, <2>4, ReadingKeeps DEF all
<1>4. ASSUME NEW n \in 0..all, ReadBreaksOff(n)
      PROVE  ReaderInv'
  <2>1. /\ tracked /\ read' = read \o SubSeq(NewEntries, 1, n)
        /\ again' = again \cup {NewEntries[i] : i \in 1..n}
        /\ byteOffset' \in {byteOffset, Resumed, Reached}
        /\ n > 0 => byteOffset' = Aligned
        /\ MeetsEnd /\ UNCHANGED <<size, life, tracked, first>>
    BY <1>4 DEF ReadBreaksOff
  <2>2. \A i \in 1..n : i \in 1..all /\ NewEntries[i] = Entry(Aligned \div 4 + i - 1)
    BY <1>1
  <2>3. SubSeq(NewEntries, 1, n) = taken(n)
    <3>1. SubSeq(NewEntries, 1, n) = [i \in 1..n |-> NewEntries[i]]
      BY <1>1
    <3>. QED
      BY <2>2, <3>1
  <2>4. \A k \in Nat : Aligned <= 4 * k /\ k < Aligned \div 4 + n =>
          life * Lines + k \in again'
    <3> SUFFICES ASSUME NEW k \in Nat, Aligned <= 4 * k, k < Aligned \div 4 + n
                 PROVE  life * Lines + k \in again'
      OBVIOUS
    <3> DEFINE d == k - Aligned \div 4 + 1
    <3>1. d \in 1..n /\ Aligned \div 4 + d - 1 = k
      BY <1>1
    <3>2. NewEntries[d] = life * Lines + k
      BY <2>2, <3>1 DEF Entry
    <3>. QED
      BY <2>1, <3>1, <3>2
  <2>5. again' \subseteq Entries
    <3>1. taken(n) \in Seq(Entries) /\ \A i \in 1..n : taken(n)[i] \in Entries
      <4>1. /\ life * Lines \in Nat /\ life * Lines + Lines <= Files * Lines
            /\ StopLine \in 0..Lines /\ Lines \in Nat
        BY <1>1, LifeEntries, StopsAt, ReaderAssumption
      <4>2. n > 0 => Aligned \div 4 + n <= StopLine
        BY <1>1, <4>1, PollEnds
      <4> DEFINE total == Files * Lines
                 base == life * Lines
                 a == Aligned \div 4
      <4>3. Entries = 0..(total - 1) /\ total \in Nat /\ \A k : Entry(k) = base + k
        BY ReaderAssumption DEF Entries, Entry
      <4>4. base \in Nat /\ base + Lines <= total /\ a \in Nat
        BY <1>1, <4>1
      <4> HIDE DEF total, base
      <4>5. ASSUME NEW i \in 1..n
            PROVE  Entry(a + i - 1) \in Entries
        <5> DEFINE k == a + i - 1
        <5>1. k \in Nat /\ k < Lines
          BY <1>1, <4>1, <4>2, <4>4
        <5> HIDE DEF k
        <5>2. Entry(k) \in Entries
          BY <4>1, <4>3, <4>4, <5>1
        <5>. QED
          BY <5>2 DEF k
      <4>. QED
        BY <4>5
    <3>. QED
      BY <1>1, <2>1, <2>2, <3>1
  <2>6. again \subseteq again' /\ byteOffset' \in {byteOffset, Resumed, Aligned}
    BY <1>1, <2>1
  <2> HIDE DEF all
  <2>. QED
    BY <1>1, <2>1, <2>3, <2>4, <2>5, <2>6, ReadingKeeps DEF all
<1>. QED
  BY <1>2, <1>3, <1>4

\* So do the writes of the agent, a truncation and the start of tracking.
LEMMA NextReaderInv == ReaderInv /\ [ReaderNext]_readerVars => ReaderInv'
<1> SUFFICES ASSUME ReaderInv, [ReaderNext]_readerVars
             PROVE  ReaderInv'
  OBVIOUS
<1>1. /\ ReaderTypeOK /\ NotTrackedYet /\ ReadBehind /\ ReadInOrder /\ Followed
      /\ Lines \in Nat /\ Files \in Nat /\ life * Lines \in Nat
      /\ (life + 1) * Lines = life * Lines + Lines
      /\ \A i \in DOMAIN read : read[i] \in Nat
  BY LifeEntries, ReaderAssumption DEF ReaderInv, ReaderTypeOK, Entries
<1>2. ASSUME NEW n \in 1..4, Write(n)
      PROVE  ReaderInv'
  <2>1. /\ size' \in 0..End /\ size <= size'
        /\ UNCHANGED <<life, tracked, byteOffset, read, again, first, cuts>>
    BY <1>1, <1>2 DEF Write, ReaderTypeOK, End
  <2>2. ReaderTypeOK'
    BY <1>1, <2>1 DEF ReaderTypeOK
  <2>3. byteOffset <= size => byteOffset' <= size'
    BY <1>1, <2>1 DEF ReaderTypeOK, End
  <2>4. ReadBehind'
    BY <1>1, <2>1, <2>3 DEF ReadBehind
  <2>5. Followed'
    BY <1>1, <2>1, <2>3 DEF Followed
  <2>. QED
    BY <1>1, <2>1, <2>2, <2>4, <2>5 DEF ReaderInv, NotTrackedYet, ReadInOrder
<1>3. CASE Truncate
  <2>1. /\ life' = life + 1 /\ life' \in 0..(Files - 1) /\ size' = 0 /\ cuts' = {}
        /\ UNCHANGED <<tracked, byteOffset, read, again, first>>
    BY <1>1, <1>3 DEF Truncate, ReaderTypeOK
  <2>2. ReaderTypeOK'
    BY <1>1, <2>1 DEF ReaderTypeOK, End
  <2>3. ReadBehind'
    <3>1. life' * Lines = life * Lines + Lines
      BY <1>1, <2>1
    <3>2. \A i \in DOMAIN read : read[i] < life * Lines + Lines
      BY <1>1 DEF ReadBehind
    <3> DEFINE base == life' * Lines
    <3> HIDE DEF base
    <3>3. base \in Nat /\ \A i \in DOMAIN read : read[i] < base + Lines /\ read[i] < base
      BY <1>1, <3>1, <3>2 DEF base
    <3>. QED
      BY <2>1, <3>3 DEF ReadBehind, base
  <2>4. life' # 0
    BY <1>1, <2>1 DEF ReaderTypeOK
  <2>. QED
    BY <1>1, <2>1, <2>2, <2>3, <2>4 DEF ReaderInv, NotTrackedYet, ReadInOrder, Followed
<1>4. CASE StartReading
  <2>1. /\ ~tracked /\ read = <<>> /\ tracked' = TRUE /\ byteOffset' = size /\ first' = size
        /\ cuts' = IF size % 4 = 3 THEN cuts \cup {size} ELSE cuts
        /\ UNCHANGED <<size, life, read, again>>
    BY <1>1, <1>4 DEF StartReading, NotTrackedYet, MeetsEnd
  <2>2. ReaderTypeOK'
    BY <1>1, <2>1 DEF ReaderTypeOK, End
  <2>3. DOMAIN read' = {}
    BY <2>1
  <2>4. Followed'
    BY <1>1, <2>1 DEF Followed, ReaderTypeOK, End
  <2>. QED
    BY <2>1, <2>2, <2>3, <2>4 DEF ReaderInv, NotTrackedYet, ReadInOrder, ReadBehind
<1>5. CASE \/ ReadNewLines
           \/ ReadRaises
           \/ \E n \in 0..Cardinality(ParsedLines) : ReadBreaksOff(n)
  BY <1>5, VisitKeeps
<1>6. CASE UNCHANGED readerVars
  BY <1>1, <1>6 DEF readerVars, ReaderInv, ReaderTypeOK, NotTrackedYet, ReadBehind, ReadInOrder, Followed
<1>. QED
  BY <1>2, <1>3, <1>4, <1>5, <1>6 DEF ReaderNext

-----------------------------------------------------------------------------
(* The theorems.                                                           *)

\* It holds before the session is tracked, of a file of any length.
LEMMA InitReaderInv == ReaderInit => ReaderInv
<1> SUFFICES ASSUME ReaderInit
             PROVE  ReaderInv
  OBVIOUS
<1>1. <<>> \in Seq(Entries) /\ DOMAIN <<>> = {}
  OBVIOUS
<1>2. 0 \in 0..End /\ 0 \in 0..(Files - 1)
  BY ReaderAssumption DEF End
<1>3. ReaderTypeOK
  BY <1>1, <1>2 DEF ReaderInit, ReaderTypeOK
<1>. QED
  BY <1>1, <1>3 DEF ReaderInit, ReaderInv, NotTrackedYet, ReadBehind, ReadInOrder, Followed

\* The invariant of a session's reader.
THEOREM ReaderInvariant == ReaderSpec => []ReaderInv
BY InitReaderInv, NextReaderInv, PTL DEF ReaderSpec

\* Every variable keeps its type: no offset leaves the file's longest life.
THEOREM ReaderTypesHold == ReaderSpec => []ReaderTypeOK
BY ReaderInvariant, PTL DEF ReaderInv

\* No line is taken twice or after a later one, wherever a write ended, tracking
\* began, a truncation fell or reading failed, but for those a read handed over before
\* it broke off.
THEOREM EntriesInOrder == ReaderSpec => []ReadInOrder
BY ReaderInvariant, PTL DEF ReaderInv

\* An object of a file never truncated is lost only behind a newline that a poll, or
\* the start of tracking, met as the end of the file still to come.
THEOREM OnlySplitLinesLose == ReaderSpec => []LossNeedsSplitLine
<1>1. ASSUME ReaderInv
      PROVE  LossNeedsSplitLine
  <2> SUFFICES ASSUME NEW k \in Lost
               PROVE  4 * k - 1 \in cuts
    BY DEF LossNeedsSplitLine
  <2>1. /\ k \in 0..(Lines - 1) /\ tracked /\ life = 0 /\ 4 * k >= first
        /\ Entry(k) \notin Blank \cup Garbled \cup Foreign
        /\ 4 * k + 4 <= byteOffset /\ \A i \in DOMAIN read : read[i] # Entry(k)
    BY DEF Lost
  <2>2. Lines \in Nat /\ byteOffset \in Nat /\ life * Lines = 0
    BY <1>1, <2>1, LifeEntries, ReaderAssumption DEF ReaderInv, ReaderTypeOK, End
  <2>3. Entry(k) = k /\ 4 * k + 1 <= byteOffset /\ IsObject(k)
    BY <2>1, <2>2 DEF Entry, IsObject
  <2>. QED
    BY <1>1, <2>1, <2>3 DEF ReaderInv, Followed
<1>. QED
  BY <1>1, ReaderInvariant, PTL

-----------------------------------------------------------------------------
(* THE CONTENT.  Folds.                                                    *)

\* A set of natural numbers that has 0, and with each number the next, has all: what
\* the lemmas on folds use for induction on the length of a sequence.
LEMMA Induction ==
  ASSUME NEW T, 0 \in T, \A n \in Nat : n \in T => n + 1 \in T
  PROVE  \A n \in Nat : n \in T
<1> SUFFICES ASSUME Nat \ T # {}
             PROVE  FALSE
  OBVIOUS
<1>1. IsWellFoundedOn(Below, Nat)
  BY NatLessThanWellFounded, Zenon DEF OpToRel, Below
<1>2. PICK m \in Nat \ T : \A k \in Nat \ T : <<k, m>> \notin Below
  BY <1>1, WFMin
<1>3. m # 0 /\ m - 1 \in Nat /\ m - 1 \notin T
  <2>1. m # 0
    BY <1>2
  <2>2. m - 1 \in Nat /\ (m - 1) + 1 = m
    BY <2>1
  <2>. QED
    BY <1>2, <2>1, <2>2
<1>4. <<m - 1, m>> \in Below
  BY <1>3 DEF Below
<1>. QED
  BY <1>2, <1>3, <1>4

\* The functions that fold elements of L into values in S.
Folds(S, L) == [S -> [L -> S]]

\* The steps of a fold of F over a sequence, and where it ends.
IsRun(F, base, seq, run) ==
  run[0] = base /\ \A i \in 1..Len(seq) : run[i] = F[run[i - 1]][seq[i]]

Folded(F, base, seq) ==
  CHOOSE value : \E run : IsRun(F, base, seq, run) /\ value = run[Len(seq)]

\* The greatest number of a set with an upper bound.
LEMMA MaxOf ==
  ASSUME NEW n \in Nat, NEW s \in SUBSET (1..n), s # {}
  PROVE  Max(s) \in s /\ \A k \in s : k <= Max(s)
<1> DEFINE T == {k \in Nat : s \cap (1..k) # {} =>
                   \E m \in s : m <= k /\ \A j \in s \cap (1..k) : j <= m}
<1>1. 0 \in T
  OBVIOUS
<1>2. ASSUME NEW k \in Nat, k \in T
      PROVE  k + 1 \in T
  <2>1. CASE k + 1 \in s
    BY <2>1
  <2>2. CASE k + 1 \notin s
    <3>1. s \cap (1..(k + 1)) = s \cap (1..k)
      BY <2>2
    <3>. QED
      BY <1>2, <3>1
  <2>. QED
    BY <2>1, <2>2
<1>3. \A k \in Nat : k \in T
  <2> HIDE DEF T
  <2>. QED
    BY <1>1, <1>2, Induction
<1>4. n \in T
  BY <1>3
<1>5. \E m \in s : \A j \in s : j <= m
  BY <1>4
<1>6. \E m \in s : \A j \in s : m >= j
  BY <1>5
<1>7. Max(s) \in s /\ \A j \in s : Max(s) >= j
  BY <1>6 DEF Max
<1>. QED
  BY <1>7

\* f is on all sets of places up to n what F makes of the rest and the last: the
\* recursive function of FoldLeft.
IsFold(F, base, seq, n, f) ==
  \A s \in SUBSET (1..n) :
    f[s] = IF s = {} THEN base ELSE F[f[s \ {Max(s)}]][seq[Max(s)]]

\* It exists, for one place more ...
LEMMA FoldExtends ==
  ASSUME NEW S, NEW L, NEW F \in Folds(S, L), NEW base, NEW n \in Nat, NEW k \in Nat,
         k + 1 <= n, NEW seq \in [1..n -> L],
         NEW f \in [SUBSET (1..k) -> S], IsFold(F, base, seq, k, f)
  PROVE  \E g \in [SUBSET (1..(k + 1)) -> S] : IsFold(F, base, seq, k + 1, g)
<1> DEFINE g == [s \in SUBSET (1..(k + 1)) |->
                   IF k + 1 \in s THEN F[f[s \ {k + 1}]][seq[k + 1]] ELSE f[s]]
<1>1. ASSUME NEW s \in SUBSET (1..(k + 1))
      PROVE  /\ g[s] \in S
             /\ g[s] = IF s = {} THEN base ELSE F[g[s \ {Max(s)}]][seq[Max(s)]]
  <2>1. CASE k + 1 \in s
    <3>1. Max(s) = k + 1
      <4>1. k + 1 \in Nat /\ s # {}
        BY <2>1
      <4>2. Max(s) \in s /\ k + 1 <= Max(s)
        BY <2>1, <4>1, MaxOf
      <4>3. Max(s) \in 1..(k + 1)
        BY <4>2
      <4>. QED
        BY <4>2, <4>3
    <3>2. s \ {k + 1} \in SUBSET (1..k) /\ s \ {k + 1} \in SUBSET (1..(k + 1))
      <4>1. \A x \in 1..(k + 1) : x # k + 1 => x \in 1..k
        OBVIOUS
      <4>. QED
        BY <4>1
    <3>3. g[s \ {k + 1}] = f[s \ {k + 1}] /\ f[s \ {k + 1}] \in S
      BY <3>2
    <3>4. k + 1 \in 1..n
      OBVIOUS
    <3>5. g[s] = F[f[s \ {k + 1}]][seq[k + 1]] /\ g[s] \in S
      BY <2>1, <3>3, <3>4 DEF Folds
    <3> HIDE DEF g
    <3>. QED
      BY <2>1, <3>1, <3>3, <3>5
  <2>2. CASE k + 1 \notin s
    <3>1. s \in SUBSET (1..k)
      <4>1. \A x \in 1..(k + 1) : x # k + 1 => x \in 1..k
        OBVIOUS
      <4>. QED
        BY <2>2, <4>1
    <3>2. \A x : /\ s \ {x} \in SUBSET (1..k) /\ s \ {x} \in SUBSET (1..(k + 1))
                 /\ k + 1 \notin s \ {x}
      BY <2>2, <3>1
    <3>3. g[s] = f[s] /\ f[s] \in S /\ \A x : g[s \ {x}] = f[s \ {x}]
      BY <2>2, <3>1, <3>2
    <3> HIDE DEF g
    <3>. QED
      BY <3>1, <3>3 DEF IsFold
  <2>. QED
    BY <2>1, <2>2
<1>2. g \in [SUBSET (1..(k + 1)) -> S]
  BY <1>1
<1> HIDE DEF g
<1>3. IsFold(F, base, seq, k + 1, g)
  BY <1>1 DEF IsFold
<1>. QED
  BY <1>2, <1>3

\* ... and so for all places of a sequence.
LEMMA FoldExists ==
  ASSUME NEW S, NEW L, NEW F \in Folds(S, L), NEW base \in S, NEW n \in Nat,
         NEW seq \in [1..n -> L]
  PROVE  \E f \in [SUBSET (1..n) -> S] : IsFold(F, base, seq, n, f)
<1> DEFINE T == {k \in Nat : k <= n =>
                   \E f \in [SUBSET (1..k) -> S] : IsFold(F, base, seq, k, f)}
<1>1. 0 \in T
  <2>1. 1..0 = {}
    OBVIOUS
  <2>2. [s \in SUBSET (1..0) |-> base] \in [SUBSET (1..0) -> S]
    OBVIOUS
  <2>3. IsFold(F, base, seq, 0, [s \in SUBSET (1..0) |-> base])
    BY <2>1 DEF IsFold
  <2>. QED
    BY <2>2, <2>3
<1>2. ASSUME NEW k \in Nat, k \in T
      PROVE  k + 1 \in T
  <2> SUFFICES ASSUME k + 1 <= n
               PROVE  \E f \in [SUBSET (1..(k + 1)) -> S] : IsFold(F, base, seq, k + 1, f)
    <3>1. k + 1 \in Nat
      OBVIOUS
    <3>. QED
      BY <3>1
  <2>1. k <= n
    OBVIOUS
  <2>2. PICK f \in [SUBSET (1..k) -> S] : IsFold(F, base, seq, k, f)
    BY <1>2, <2>1
  <2> HIDE DEF T
  <2>. QED
    BY <2>2, FoldExtends
<1>3. n \in T
  <2> HIDE DEF T
  <2>. QED
    BY <1>1, <1>2, Induction
<1>4. n <= n
  OBVIOUS
<1>. QED
  BY <1>3, <1>4

\* A fold has one run and one value.
LEMMA OneRun ==
  ASSUME NEW F, NEW base, NEW seq, Len(seq) \in Nat, NEW q, NEW r,
         IsRun(F, base, seq, q), IsRun(F, base, seq, r)
  PROVE  \A i \in 0..Len(seq) : q[i] = r[i]
<1> DEFINE T == {i \in Nat : i <= Len(seq) => q[i] = r[i]}
<1>1. 0 \in T
  BY DEF IsRun
<1>2. ASSUME NEW i \in Nat, i \in T, i + 1 <= Len(seq)
      PROVE  q[i + 1] = r[i + 1]
  <2>1. i + 1 \in 1..Len(seq) /\ (i + 1) - 1 = i /\ q[i] = r[i]
    BY <1>2
  <2>. QED
    BY <2>1 DEF IsRun
<1>3. \A i \in Nat : i \in T => i + 1 \in T
  BY <1>2
<1>4. \A i \in Nat : i \in T
  <2> HIDE DEF T
  <2>. QED
    BY <1>1, <1>3, Induction
<1>. QED
  BY <1>4

\* As above.
LEMMA FoldedIs ==
  ASSUME NEW F, NEW base, NEW seq, Len(seq) \in Nat, NEW r, IsRun(F, base, seq, r)
  PROVE  Folded(F, base, seq) = r[Len(seq)]
<1>1. \E value : \E run : IsRun(F, base, seq, run) /\ value = run[Len(seq)]
  OBVIOUS
<1>2. \E run : IsRun(F, base, seq, run) /\ Folded(F, base, seq) = run[Len(seq)]
  BY <1>1 DEF Folded
<1>. QED
  BY <1>2, OneRun

\* A fold has a run.
LEMMA RunExists ==
  ASSUME NEW S, NEW L, NEW F \in Folds(S, L), NEW base \in S, NEW seq \in Seq(L)
  PROVE  \E r \in [0..Len(seq) -> S] : IsRun(F, base, seq, r)
<1>1. Len(seq) \in Nat /\ seq \in [1..Len(seq) -> L]
  OBVIOUS
<1> DEFINE n == Len(seq)
<1> HIDE DEF n
<1>2. PICK f \in [SUBSET (1..n) -> S] : IsFold(F, base, seq, n, f)
  BY <1>1, FoldExists DEF n
<1>3. \A i \in 0..n : 1..i \in SUBSET (1..n)
  BY <1>1 DEF n
<1>4. f[1..0] = base
  <2>1. 1..0 = {}
    OBVIOUS
  <2>2. {} \in SUBSET (1..n)
    OBVIOUS
  <2>3. f[{}] = base
    BY <1>2, <2>2 DEF IsFold
  <2>. QED
    BY <2>1, <2>3
<1>5. ASSUME NEW i \in 1..n
      PROVE  f[1..i] = F[f[1..(i - 1)]][seq[i]]
  <2>1. i \in Nat /\ i \in 1..i
    OBVIOUS
  <2>2. Max(1..i) = i
    <3>1. Max(1..i) \in 1..i /\ i <= Max(1..i)
      BY <2>1, MaxOf
    <3>. QED
      BY <3>1
  <2>3. (1..i) \ {i} = 1..(i - 1)
    OBVIOUS
  <2>4. i \in 0..n /\ 1..i # {}
    <3>1. n \in Nat
      BY <1>1 DEF n
    <3>2. 1..i # {}
      BY <2>1
    <3>. QED
      BY <3>1, <3>2
  <2>5. f[1..i] = F[f[(1..i) \ {Max(1..i)}]][seq[Max(1..i)]]
    BY <1>2, <1>3, <2>4 DEF IsFold
  <2>. QED
    BY <2>2, <2>3, <2>5
<1> DEFINE r == [i \in 0..n |-> f[1..i]]
<1>6. r \in [0..n -> S]
  BY <1>3
<1>7. IsRun(F, base, seq, r)
  <2>1. 0 \in 0..n /\ \A i \in 1..n : i \in 0..n /\ i - 1 \in 0..n
    BY <1>1 DEF n
  <2>. QED
    BY <1>4, <1>5, <2>1 DEF IsRun, n
<1>. QED
  BY <1>6, <1>7 DEF n

\* The value of a fold over nothing, over one element more, and over two sequences in
\* turn; and its type.
LEMMA FoldedEmpty ==
  ASSUME NEW F, NEW base
  PROVE  Folded(F, base, <<>>) = base
<1>1. IsRun(F, base, <<>>, [i \in {0} |-> base])
  BY DEF IsRun
<1>. QED
  BY <1>1, FoldedIs

\* As above.
LEMMA FoldedType ==
  ASSUME NEW S, NEW L, NEW F \in Folds(S, L), NEW base \in S, NEW seq \in Seq(L)
  PROVE  Folded(F, base, seq) \in S
<1>1. PICK r \in [0..Len(seq) -> S] : IsRun(F, base, seq, r)
  BY RunExists
<1>. QED
  BY <1>1, FoldedIs

\* As above.
LEMMA FoldedConcat ==
  ASSUME NEW S, NEW L, NEW F \in Folds(S, L), NEW base \in S,
         NEW s \in Seq(L), NEW t \in Seq(L)
  PROVE  Folded(F, base, s \o t) = Folded(F, Folded(F, base, s), t)
<1> DEFINE m == Len(s)
           n == Len(t)
           v == Folded(F, base, s)
<1>1. /\ m \in Nat /\ n \in Nat /\ Len(s \o t) = m + n
      /\ \A i \in 1..m : (s \o t)[i] = s[i]
      /\ \A i \in 1..n : (s \o t)[m + i] = t[i]
  OBVIOUS
<1>2. v \in S
  BY FoldedType
<1> HIDE DEF m, n, v
<1>3. PICK q \in [0..m -> S] : IsRun(F, base, s, q)
  BY RunExists DEF m
<1>4. PICK r \in [0..n -> S] : IsRun(F, v, t, r)
  BY <1>2, RunExists DEF n
<1>5. q[m] = v /\ r[0] = v
  <2>1. v = q[Len(s)]
    BY <1>1, <1>3, FoldedIs DEF v, m
  <2>. QED
    BY <1>4, <2>1 DEF IsRun, m
<1> DEFINE z == [i \in 0..(m + n) |-> IF i <= m THEN q[i] ELSE r[i - m]]
<1>6. z[0] = base /\ z[m + n] = r[n]
  BY <1>1, <1>3, <1>5 DEF IsRun
<1>7. ASSUME NEW i \in 1..(m + n)
      PROVE  z[i] = F[z[i - 1]][(s \o t)[i]]
  <2>1. CASE i \in 1..m
    <3>1. z[i] = q[i] /\ z[i - 1] = q[i - 1] /\ (s \o t)[i] = s[i]
      BY <1>1, <2>1
    <3>2. q[i] = F[q[i - 1]][s[i]]
      BY <1>3, <2>1 DEF IsRun, m
    <3>. QED
      BY <3>1, <3>2
  <2>2. CASE i > m
    <3> DEFINE j == i - m
    <3>1. j \in 1..n /\ i = m + j /\ j - 1 = (i - 1) - m
      BY <1>1, <2>2
    <3>2. (s \o t)[i] = t[j]
      BY <1>1, <3>1
    <3>3. z[i] = r[j] /\ z[i - 1] = r[j - 1]
      <4>1. z[i] = r[j] /\ z[i - 1] = IF i - 1 <= m THEN q[i - 1] ELSE r[(i - 1) - m]
        BY <1>1, <2>2
      <4>2. CASE i - 1 <= m
        <5>1. i - 1 = m /\ j - 1 = 0
          BY <1>1, <2>2, <4>2
        <5>2. z[i - 1] = q[m]
          BY <4>1, <5>1
        <5> HIDE DEF z
        <5>. QED
          BY <1>5, <4>1, <5>1, <5>2
      <4>3. CASE ~(i - 1 <= m)
        BY <3>1, <4>1, <4>3
      <4>. QED
        BY <4>2, <4>3
    <3>4. r[j] = F[r[j - 1]][t[j]]
      BY <1>4, <3>1 DEF IsRun, n
    <3> HIDE DEF z, j
    <3>. QED
      BY <3>2, <3>3, <3>4
  <2>3. i \in 1..m \/ i > m
    BY <1>1
  <2> HIDE DEF z
  <2>. QED
    BY <2>1, <2>2, <2>3
<1> HIDE DEF z
<1>8. IsRun(F, base, s \o t, z)
  BY <1>1, <1>6, <1>7 DEF IsRun
<1>9. Folded(F, base, s \o t) = z[m + n]
  <2>1. Folded(F, base, s \o t) = z[Len(s \o t)]
    <3>1. Len(s \o t) \in Nat
      BY <1>1
    <3>. QED
      BY <1>8, <3>1, FoldedIs
  <2>. QED
    BY <1>1, <2>1
<1>10. Folded(F, v, t) = r[n]
  BY <1>1, <1>4, FoldedIs DEF n
<1>. QED
  BY <1>6, <1>9, <1>10 DEF v

\* As above.
LEMMA FoldedAppend ==
  ASSUME NEW S, NEW L, NEW F \in Folds(S, L), NEW base \in S,
         NEW s \in Seq(L), NEW x \in L
  PROVE  Folded(F, base, Append(s, x)) = F[Folded(F, base, s)][x]
<1>1. Append(s, x) = s \o <<x>> /\ <<x>> \in Seq(L) /\ Len(<<x>>) = 1 /\ <<x>>[1] = x
  OBVIOUS
<1> DEFINE v == Folded(F, base, s)
<1> HIDE DEF v
<1> DEFINE r == [i \in 0..1 |-> IF i = 0 THEN v ELSE F[v][x]]
<1>2. r[0] = v /\ r[1] = F[v][x] /\ 1 - 1 = 0 /\ 1..1 = {1}
  OBVIOUS
<1> HIDE DEF r
<1>3. IsRun(F, v, <<x>>, r)
  BY <1>1, <1>2 DEF IsRun
<1>4. Folded(F, v, <<x>>) = r[1]
  BY <1>1, <1>3, FoldedIs
<1>5. Folded(F, base, s \o <<x>>) = Folded(F, v, <<x>>)
  <2>1. \A t \in Seq(L) : Folded(F, base, s \o t) = Folded(F, v, t)
    BY FoldedConcat DEF v
  <2>. QED
    BY <1>1, <2>1
<1>. QED
  BY <1>1, <1>2, <1>4, <1>5 DEF v

\* What c makes of the places of a sequence is the fold, if it is base of none and F of
\* what came before and the last.
LEMMA FoldedByPlaces ==
  ASSUME NEW S, NEW L, NEW F \in Folds(S, L), NEW base \in S, NEW seq \in Seq(L),
         NEW c, c[{}] = base,
         \A i \in 1..Len(seq) :
           c[1..(i - 1)] \in S => c[1..i] = F[c[1..(i - 1)]][seq[i]]
  PROVE  c[1..Len(seq)] = Folded(F, base, seq)
<1> DEFINE n == Len(seq)
<1>1. n \in Nat
  OBVIOUS
<1>2. PICK q \in [0..n -> S] : IsRun(F, base, seq, q)
  BY RunExists
<1> DEFINE T == {i \in Nat : i <= n => c[1..i] = q[i]}
<1> HIDE DEF n
<1>3. 0 \in T
  <2>1. 1..0 = {}
    OBVIOUS
  <2>. QED
    BY <1>2, <2>1 DEF IsRun
<1>4. ASSUME NEW i \in Nat, i \in T
      PROVE  i + 1 \in T
  <2> SUFFICES ASSUME i + 1 <= n
               PROVE  c[1..(i + 1)] = q[i + 1]
    <3>1. i + 1 \in Nat
      OBVIOUS
    <3>. QED
      BY <3>1
  <2>1. i + 1 \in 1..n /\ (i + 1) - 1 = i /\ i \in 0..n /\ i <= n
    BY <1>1
  <2>2. c[1..i] = q[i] /\ q[i] \in S
    BY <1>4, <2>1
  <2> HIDE DEF T
  <2>3. c[1..(i + 1)] = F[c[1..i]][seq[i + 1]]
    <3>1. c[1..((i + 1) - 1)] \in S =>
            c[1..(i + 1)] = F[c[1..((i + 1) - 1)]][seq[i + 1]]
      BY <2>1 DEF n
    <3>. QED
      BY <2>1, <2>2, <3>1
  <2>4. q[i + 1] = F[q[i]][seq[i + 1]]
    BY <1>2, <2>1 DEF IsRun, n
  <2>. QED
    BY <2>2, <2>3, <2>4
<1>5. n \in T
  <2> HIDE DEF T
  <2>. QED
    BY <1>1, <1>3, <1>4, Induction
<1>6. c[1..n] = q[n]
  <2>1. n <= n
    BY <1>1
  <2>. QED
    BY <1>5, <2>1
<1>7. Folded(F, base, seq) = q[n]
  BY <1>1, <1>2, FoldedIs DEF n
<1>. QED
  BY <1>6, <1>7 DEF n

\* 1..i without its greatest.
LEMMA WithoutMax ==
  ASSUME NEW i \in Nat, i # 0
  PROVE  1..i # {} /\ Max(1..i) = i /\ (1..i) \ {i} = 1..(i - 1)
<1>1. 1..i # {} /\ i \in 1..i
  OBVIOUS
<1>2. Max(1..i) \in 1..i /\ i <= Max(1..i)
  BY <1>1, MaxOf
<1>3. Max(1..i) = i
  BY <1>2
<1>4. (1..i) \ {i} = 1..(i - 1)
  OBVIOUS
<1>. QED
  BY <1>1, <1>3, <1>4

-----------------------------------------------------------------------------
(* The messages.                                                           *)

\* Claude's own list of tasks, as lines carry it: the place is the id.
Todo == [id : Id, status : AgentStatus]
TaskList == {l \in Seq(Todo) : \A i \in DOMAIN l : l[i].id = i}

ClaudeLine ==
  [kind : {"create", "list", "other", "result"}, call : Call]
    \cup [kind : {"created"}, call : Call, id : Id]
    \cup [kind : {"tasks", "todos"}, call : Call, tasks : TaskList, full : BOOLEAN]
    \cup [kind : {"update"}, call : Call, id : Id, status : AgentStatus]
    \cup [kind : {"command", "output", "text"}]

CodexLines ==
  [kind : {"call", "output"}, call : Call, text : Text]
    \cup [kind : {"said"}, text : Text, final : BOOLEAN]

ClaudeMessage ==
  [type : {"use"}, call : Call]
    \cup [type : {"result"}, call : Call, named : BOOLEAN]
    \cup [type : {"command"}, named : BOOLEAN]
    \cup [type : {"text"}]

CodexMessage ==
  [type : {"use", "result"}, text : Text, call : Call, final : BOOLEAN, named : BOOLEAN]
    \cup [type : {"text"}, text : Text, call : {0}, final : BOOLEAN, named : BOOLEAN]

\* What a parse has come to, of either agent.
ClaudeParse == [out : Seq(ClaudeMessage), carry : SUBSET Call, command : BOOLEAN]
CodexParse == [out : Seq(CodexMessage), carry : SUBSET Call]

\* The operators folded, as functions.
ParseSteps == [p \in ClaudeParse |-> [line \in ClaudeLine |-> ParseLine(p, line)]]
CodexSteps == [p \in CodexParse |-> [line \in CodexLines |-> CodexStep(p, line)]]
UniqueSteps ==
  [out \in Seq(CodexMessage) |-> [m \in CodexMessage |-> AppendUnique(out, m)]]

\* What each line of Claude's leaves of a parse is a parse.
LEMMA ParseLineType ==
  ASSUME NEW p \in ClaudeParse, NEW line \in ClaudeLine
  PROVE  ParseLine(p, line) \in ClaudeParse
<1>0. /\ p.out \in Seq(ClaudeMessage) /\ p.carry \in SUBSET Call /\ p.command \in BOOLEAN
      /\ \A m \in ClaudeMessage : Append(p.out, m) \in Seq(ClaudeMessage)
      /\ \A o \in Seq(ClaudeMessage), c \in SUBSET Call, b \in BOOLEAN :
           [out |-> o, carry |-> c, command |-> b] \in ClaudeParse
      /\ p = [out |-> p.out, carry |-> p.carry, command |-> p.command]
  BY DEF ClaudeParse
<1>1. CASE line.kind \in Calls
  <2>1. line.call \in Call
    BY <1>1 DEF ClaudeLine, Calls
  <2>2. [type |-> "use", call |-> line.call] \in ClaudeMessage
    BY <2>1 DEF ClaudeMessage
  <2>3. ParseCall(p, line) \in ClaudeParse
    BY <1>0, <2>1, <2>2 DEF ParseCall
  <2>. QED
    BY <1>1, <2>3 DEF ParseLine, Calls, Results
<1>2. CASE line.kind \in Results
  <2>1. line.call \in Call
    BY <1>2 DEF ClaudeLine, Results
  <2>2. [type |-> "result", call |-> line.call, named |-> line.call \in p.carry]
          \in ClaudeMessage
    BY <2>1 DEF ClaudeMessage
  <2>3. ParseResult(p, line) \in ClaudeParse
    BY <1>0, <2>1, <2>2 DEF ParseResult
  <2>4. line.kind \notin Calls
    BY <1>2 DEF Calls, Results
  <2>. QED
    BY <1>2, <2>3, <2>4 DEF ParseLine, Calls, Results
<1>3. CASE line.kind = "command"
  BY <1>3 DEF ParseLine, ParseCommand, ClaudeParse, Calls, Results
<1>4. CASE line.kind = "output"
  <2>1. [type |-> "command", named |-> p.command] \in ClaudeMessage
    BY <1>0 DEF ClaudeMessage
  <2>2. ParseOutput(p) \in ClaudeParse
    BY <1>0, <2>1 DEF ParseOutput
  <2>3. ParseLine(p, line) = ParseOutput(p)
    BY <1>4 DEF ParseLine, Calls, Results
  <2>. QED
    BY <2>2, <2>3
<1>5. CASE line.kind \notin Calls \cup Results \cup {"command", "output"}
  <2>1. [type |-> "text"] \in ClaudeMessage
    BY DEF ClaudeMessage
  <2>2. ParseText(p) \in ClaudeParse
    BY <1>0, <2>1 DEF ParseText
  <2>3. ParseLine(p, line) = ParseText(p)
    BY <1>5 DEF ParseLine
  <2>. QED
    BY <2>2, <2>3
<1>. QED
  BY <1>1, <1>2, <1>3, <1>4, <1>5

\* A message more keeps the messages codex's.
LEMMA UniqueType ==
  ASSUME NEW out \in Seq(CodexMessage), NEW m \in CodexMessage
  PROVE  AppendUnique(out, m) \in Seq(CodexMessage)
<1>1. Append(out, m) \in Seq(CodexMessage)
  OBVIOUS
<1>2. ASSUME out # <<>>
      PROVE  Append(Front(out), m) \in Seq(CodexMessage)
  <2>1. Front(out) \in Seq(CodexMessage)
    BY <1>2 DEF Front
  <2>. QED
    BY <2>1
<1>. QED
  BY <1>1, <1>2 DEF AppendUnique

\* What each line of codex's leaves of a parse is a parse.
LEMMA CodexStepType ==
  ASSUME NEW p \in CodexParse, NEW line \in CodexLines
  PROVE  /\ CodexLine(p.carry, line).message \in CodexMessage
         /\ CodexStep(p, line) \in CodexParse
<1>1. /\ CodexLine(p.carry, line).message \in CodexMessage
      /\ CodexLine(p.carry, line).pending \in SUBSET Call
  <2>1. CASE line.kind = "call"
    BY <2>1 DEF CodexLine, CodexCall, CodexLines, CodexMessage, CodexParse
  <2>2. CASE line.kind = "output"
    <3>1. line.call \in Call /\ line.text \in Text /\ p.carry \in SUBSET Call
      BY <2>2 DEF CodexLines, CodexParse
    <3>2. CodexLine(p.carry, line) = CodexOutput(p.carry, line)
      BY <2>2 DEF CodexLine
    <3>3. (line.call \in p.carry) \in BOOLEAN
      OBVIOUS
    <3>. QED
      BY <3>1, <3>2, <3>3 DEF CodexOutput, CodexMessage
  <2>3. CASE line.kind = "said"
    BY <2>3 DEF CodexLine, CodexText, CodexLines, CodexMessage, CodexParse
  <2>. QED
    BY <2>1, <2>2, <2>3 DEF CodexLines
<1>2. p.out \in Seq(CodexMessage)
  BY DEF CodexParse
<1>. QED
  BY <1>1, <1>2, UniqueType DEF CodexStep, CodexParse

\* FoldLeft of each operator is the fold of its function.
LEMMA ParseFolds ==
  ASSUME NEW p \in ClaudeParse, NEW lines \in Seq(ClaudeLine)
  PROVE  /\ FoldLeft(ParseLine, p, lines) = Folded(ParseSteps, p, lines)
         /\ ParseSteps \in Folds(ClaudeParse, ClaudeLine)
<1> DEFINE n == Len(lines)
<1>0. n \in Nat /\ lines \in [1..n -> ClaudeLine] /\ DOMAIN lines = 1..n
  OBVIOUS
<1>1. /\ ParseSteps \in Folds(ClaudeParse, ClaudeLine)
      /\ \A q \in ClaudeParse, line \in ClaudeLine :
           ParseSteps[q][line] = ParseLine(q, line)
  BY ParseLineType DEF ParseSteps, Folds
<1> HIDE DEF n
<1>2. PICK f \in [SUBSET (1..n) -> ClaudeParse] : IsFold(ParseSteps, p, lines, n, f)
  BY <1>0, <1>1, FoldExists
<1>3. f = [s \in SUBSET (DOMAIN lines) |->
             IF s = {} THEN p
             ELSE LET x == Max(s) IN ParseLine(f[s \ {x}], lines[x])]
  <2>1. ASSUME NEW s \in SUBSET (1..n), s # {}
        PROVE  f[s] = ParseLine(f[s \ {Max(s)}], lines[Max(s)])
    <3>1. Max(s) \in 1..n
      BY <1>0, <2>1, MaxOf
    <3>2. f[s \ {Max(s)}] \in ClaudeParse /\ lines[Max(s)] \in ClaudeLine
      BY <1>0, <3>1
    <3>. QED
      BY <1>1, <1>2, <2>1, <3>2 DEF IsFold
  <2>2. f[{}] = p
    BY <1>2 DEF IsFold
  <2>. QED
    BY <1>0, <2>1, <2>2
<1> DEFINE c == CHOOSE iter : iter = [s \in SUBSET (DOMAIN lines) |->
                  IF s = {} THEN p
                  ELSE LET x == Max(s) IN ParseLine(iter[s \ {x}], lines[x])]
<1>4. FoldLeft(ParseLine, p, lines) = c[DOMAIN lines]
  BY Zenon DEF FoldLeft, MapThenFoldSet
<1>5. c = [s \in SUBSET (DOMAIN lines) |->
             IF s = {} THEN p
             ELSE LET x == Max(s) IN ParseLine(c[s \ {x}], lines[x])]
  BY <1>3
<1> HIDE DEF c
<1>6. c[{}] = p
  BY <1>5
<1>7. ASSUME NEW i \in 1..n, c[1..(i - 1)] \in ClaudeParse
      PROVE  c[1..i] = ParseSteps[c[1..(i - 1)]][lines[i]]
  <2>1. 1..i # {} /\ Max(1..i) = i /\ (1..i) \ {i} = 1..(i - 1)
    BY WithoutMax
  <2>2. 1..i \in SUBSET (DOMAIN lines) /\ lines[i] \in ClaudeLine
    BY <1>0
  <2>3. c[1..i] = ParseLine(c[(1..i) \ {Max(1..i)}], lines[Max(1..i)])
    BY <1>5, <2>1, <2>2
  <2>4. c[1..i] = ParseLine(c[1..(i - 1)], lines[i])
    BY <2>1, <2>3
  <2>. QED
    BY <1>1, <1>7, <2>2, <2>4
<1>8. c[1..n] = Folded(ParseSteps, p, lines)
  BY <1>1, <1>6, <1>7, FoldedByPlaces DEF n
<1>. QED
  BY <1>0, <1>1, <1>4, <1>8

\* As above.
LEMMA CodexFolds ==
  ASSUME NEW p \in CodexParse, NEW lines \in Seq(CodexLines)
  PROVE  /\ FoldLeft(CodexStep, p, lines) = Folded(CodexSteps, p, lines)
         /\ CodexSteps \in Folds(CodexParse, CodexLines)
<1> DEFINE n == Len(lines)
<1>0. n \in Nat /\ lines \in [1..n -> CodexLines] /\ DOMAIN lines = 1..n
  OBVIOUS
<1>1. /\ CodexSteps \in Folds(CodexParse, CodexLines)
      /\ \A q \in CodexParse, line \in CodexLines :
           CodexSteps[q][line] = CodexStep(q, line)
  BY CodexStepType DEF CodexSteps, Folds
<1> HIDE DEF n
<1>2. PICK f \in [SUBSET (1..n) -> CodexParse] : IsFold(CodexSteps, p, lines, n, f)
  BY <1>0, <1>1, FoldExists
<1>3. f = [s \in SUBSET (DOMAIN lines) |->
             IF s = {} THEN p
             ELSE LET x == Max(s) IN CodexStep(f[s \ {x}], lines[x])]
  <2>1. ASSUME NEW s \in SUBSET (1..n), s # {}
        PROVE  f[s] = CodexStep(f[s \ {Max(s)}], lines[Max(s)])
    <3>1. Max(s) \in 1..n
      BY <1>0, <2>1, MaxOf
    <3>2. f[s \ {Max(s)}] \in CodexParse /\ lines[Max(s)] \in CodexLines
      BY <1>0, <3>1
    <3>. QED
      BY <1>1, <1>2, <2>1, <3>2 DEF IsFold
  <2>2. f[{}] = p
    BY <1>2 DEF IsFold
  <2>. QED
    BY <1>0, <2>1, <2>2
<1> DEFINE c == CHOOSE iter : iter = [s \in SUBSET (DOMAIN lines) |->
                  IF s = {} THEN p
                  ELSE LET x == Max(s) IN CodexStep(iter[s \ {x}], lines[x])]
<1>4. FoldLeft(CodexStep, p, lines) = c[DOMAIN lines]
  BY Zenon DEF FoldLeft, MapThenFoldSet
<1>5. c = [s \in SUBSET (DOMAIN lines) |->
             IF s = {} THEN p
             ELSE LET x == Max(s) IN CodexStep(c[s \ {x}], lines[x])]
  BY <1>3
<1> HIDE DEF c
<1>6. c[{}] = p
  BY <1>5
<1>7. ASSUME NEW i \in 1..n, c[1..(i - 1)] \in CodexParse
      PROVE  c[1..i] = CodexSteps[c[1..(i - 1)]][lines[i]]
  <2>1. 1..i # {} /\ Max(1..i) = i /\ (1..i) \ {i} = 1..(i - 1)
    BY WithoutMax
  <2>2. 1..i \in SUBSET (DOMAIN lines) /\ lines[i] \in CodexLines
    BY <1>0
  <2>3. c[1..i] = CodexStep(c[(1..i) \ {Max(1..i)}], lines[Max(1..i)])
    BY <1>5, <2>1, <2>2
  <2>4. c[1..i] = CodexStep(c[1..(i - 1)], lines[i])
    BY <2>1, <2>3
  <2>. QED
    BY <1>1, <1>7, <2>2, <2>4
<1>8. c[1..n] = Folded(CodexSteps, p, lines)
  BY <1>1, <1>6, <1>7, FoldedByPlaces DEF n
<1>. QED
  BY <1>0, <1>1, <1>4, <1>8

\* As above.
LEMMA UniqueFolds ==
  ASSUME NEW out \in Seq(CodexMessage), NEW ms \in Seq(CodexMessage)
  PROVE  /\ FoldLeft(AppendUnique, out, ms) = Folded(UniqueSteps, out, ms)
         /\ UniqueSteps \in Folds(Seq(CodexMessage), CodexMessage)
<1> DEFINE n == Len(ms)
<1>0. n \in Nat /\ ms \in [1..n -> CodexMessage] /\ DOMAIN ms = 1..n
  OBVIOUS
<1>1. /\ UniqueSteps \in Folds(Seq(CodexMessage), CodexMessage)
      /\ \A q \in Seq(CodexMessage), line \in CodexMessage :
           UniqueSteps[q][line] = AppendUnique(q, line)
  BY UniqueType DEF UniqueSteps, Folds
<1> HIDE DEF n
<1>2. PICK f \in [SUBSET (1..n) -> Seq(CodexMessage)] : IsFold(UniqueSteps, out, ms, n, f)
  BY <1>0, <1>1, FoldExists
<1>3. f = [s \in SUBSET (DOMAIN ms) |->
             IF s = {} THEN out
             ELSE LET x == Max(s) IN AppendUnique(f[s \ {x}], ms[x])]
  <2>1. ASSUME NEW s \in SUBSET (1..n), s # {}
        PROVE  f[s] = AppendUnique(f[s \ {Max(s)}], ms[Max(s)])
    <3>1. Max(s) \in 1..n
      BY <1>0, <2>1, MaxOf
    <3>2. f[s \ {Max(s)}] \in Seq(CodexMessage) /\ ms[Max(s)] \in CodexMessage
      BY <1>0, <3>1
    <3>. QED
      BY <1>1, <1>2, <2>1, <3>2 DEF IsFold
  <2>2. f[{}] = out
    BY <1>2 DEF IsFold
  <2>. QED
    BY <1>0, <2>1, <2>2
<1> DEFINE c == CHOOSE iter : iter = [s \in SUBSET (DOMAIN ms) |->
                  IF s = {} THEN out
                  ELSE LET x == Max(s) IN AppendUnique(iter[s \ {x}], ms[x])]
<1>4. FoldLeft(AppendUnique, out, ms) = c[DOMAIN ms]
  BY Zenon DEF FoldLeft, MapThenFoldSet
<1>5. c = [s \in SUBSET (DOMAIN ms) |->
             IF s = {} THEN out
             ELSE LET x == Max(s) IN AppendUnique(c[s \ {x}], ms[x])]
  BY <1>3
<1> HIDE DEF c
<1>6. c[{}] = out
  BY <1>5
<1>7. ASSUME NEW i \in 1..n, c[1..(i - 1)] \in Seq(CodexMessage)
      PROVE  c[1..i] = UniqueSteps[c[1..(i - 1)]][ms[i]]
  <2>1. 1..i # {} /\ Max(1..i) = i /\ (1..i) \ {i} = 1..(i - 1)
    BY WithoutMax
  <2>2. 1..i \in SUBSET (DOMAIN ms) /\ ms[i] \in CodexMessage
    BY <1>0
  <2>3. c[1..i] = AppendUnique(c[(1..i) \ {Max(1..i)}], ms[Max(1..i)])
    BY <1>5, <2>1, <2>2
  <2>4. c[1..i] = AppendUnique(c[1..(i - 1)], ms[i])
    BY <2>1, <2>3
  <2>. QED
    BY <1>1, <1>7, <2>2, <2>4
<1>8. c[1..n] = Folded(UniqueSteps, out, ms)
  BY <1>1, <1>6, <1>7, FoldedByPlaces DEF n
<1>. QED
  BY <1>0, <1>1, <1>4, <1>8

-----------------------------------------------------------------------------
(* Sequences.                                                              *)

\* A sequence that is not empty is its front and its last.
LEMMA SplitLast ==
  ASSUME NEW L, NEW seq \in Seq(L), seq # <<>>
  PROVE  /\ Front(seq) \in Seq(L) /\ Last(seq) \in L
         /\ seq = Append(Front(seq), Last(seq))
         /\ Len(seq) \in Nat \ {0} /\ Len(Front(seq)) = Len(seq) - 1
<1> DEFINE n == Len(seq)
           s == SubSeq(seq, 1, n - 1)
<1>1. n \in Nat /\ n # 0 /\ \A i \in 1..n : seq[i] \in L
  OBVIOUS
<1>2. s \in Seq(L) /\ Len(s) = n - 1 /\ \A i \in 1..(n - 1) : s[i] = seq[i]
  <2>1. n - 1 \in Nat /\ n - 1 <= n
    BY <1>1
  <2>2. \A k \in Nat : k <= n => SubSeq(seq, 1, k) \in Seq(L)
    OBVIOUS
  <2>3. \A k \in Nat : k <= n => Len(SubSeq(seq, 1, k)) = k
    OBVIOUS
  <2>4. \A k \in Nat : k <= n => \A i \in 1..k : SubSeq(seq, 1, k)[i] = seq[i]
    OBVIOUS
  <2>. QED
    BY <2>1, <2>2, <2>3, <2>4
<1>3. seq = Append(s, seq[n])
  BY <1>1, <1>2
<1>. QED
  BY <1>1, <1>2, <1>3 DEF Front, Last

\* The front and the last of a sequence with one element more.
LEMMA FrontLastOfAppend ==
  ASSUME NEW L, NEW seq \in Seq(L), NEW x \in L
  PROVE  Front(Append(seq, x)) = seq /\ Last(Append(seq, x)) = x /\ Append(seq, x) # <<>>
<1> DEFINE n == Len(seq)
           t == Append(seq, x)
<1>1. n \in Nat /\ t \in Seq(L) /\ Len(t) = n + 1 /\ t[n + 1] = x
      /\ \A i \in 1..n : t[i] = seq[i]
  OBVIOUS
<1> HIDE DEF n, t
<1>2. Last(t) = x /\ t # <<>>
  BY <1>1 DEF Last
<1>3. SubSeq(t, 1, n) = seq
  BY <1>1 DEF n
<1>4. Front(t) = SubSeq(t, 1, n)
  <2>1. Len(t) - 1 = n
    BY <1>1
  <2>. QED
    BY <2>1 DEF Front
<1>. QED
  BY <1>2, <1>3, <1>4 DEF t

\* An element may be appended before or after something is put in front.
LEMMA ConcatAppend ==
  ASSUME NEW L, NEW s \in Seq(L), NEW t \in Seq(L), NEW x \in L
  PROVE  s \o Append(t, x) = Append(s \o t, x)
OBVIOUS

\* The lines from one offset to another, and on from there.
LEMMA SubSeqConcat ==
  ASSUME NEW L, NEW seq \in Seq(L), NEW i \in Nat, NEW j \in Nat, NEW k \in Nat,
         i <= j, j <= k, k <= Len(seq)
  PROVE  /\ SubSeq(seq, i + 1, j) \in Seq(L) /\ SubSeq(seq, j + 1, k) \in Seq(L)
         /\ SubSeq(seq, i + 1, k) = SubSeq(seq, i + 1, j) \o SubSeq(seq, j + 1, k)
OBVIOUS

\* What is appended does not change the lines before.
LEMMA SubSeqAppend ==
  ASSUME NEW L, NEW seq \in Seq(L), NEW i \in Nat, NEW j \in Nat, j <= Len(seq), NEW x
  PROVE  SubSeq(Append(seq, x), i + 1, j) = SubSeq(seq, i + 1, j)
OBVIOUS

-----------------------------------------------------------------------------
(* One parse or several.                                                   *)

\* A parse that had messages before gives them and then the others.
Prefixed(before, p) ==
  [out |-> before \o p.out, carry |-> p.carry, command |-> p.command]

\* One line is parsed the same behind other messages.
LEMMA ParseLinePrefixed ==
  ASSUME NEW before \in Seq(ClaudeMessage), NEW p \in ClaudeParse, NEW line \in ClaudeLine
  PROVE  ParseLine(Prefixed(before, p), line) = Prefixed(before, ParseLine(p, line))
<1> DEFINE q == Prefixed(before, p)
<1>0. /\ p.out \in Seq(ClaudeMessage)
      /\ q.out = before \o p.out /\ q.carry = p.carry /\ q.command = p.command
      /\ \A m \in ClaudeMessage : before \o Append(p.out, m) = Append(q.out, m)
  BY ConcatAppend DEF ClaudeParse, Prefixed
<1> HIDE DEF q
<1>1. CASE line.kind \in Calls
  <2>1. [type |-> "use", call |-> line.call] \in ClaudeMessage
    BY <1>1 DEF ClaudeMessage, ClaudeLine, Calls
  <2>2. ParseCall(q, line) = Prefixed(before, ParseCall(p, line))
    BY <1>0, <2>1 DEF ParseCall, Prefixed
  <2>. QED
    BY <1>1, <2>2 DEF ParseLine, Calls, Results, q
<1>2. CASE line.kind \in Results
  <2>1. [type |-> "result", call |-> line.call, named |-> line.call \in p.carry]
          \in ClaudeMessage
    BY <1>2 DEF ClaudeMessage, ClaudeLine, Results
  <2>2. ParseResult(q, line) = Prefixed(before, ParseResult(p, line))
    BY <1>0, <2>1 DEF ParseResult, Prefixed
  <2>. QED
    BY <1>2, <2>2 DEF ParseLine, Calls, Results, q
<1>3. CASE line.kind = "command"
  <2>1. ParseCommand(q) = Prefixed(before, ParseCommand(p))
    BY <1>0 DEF ParseCommand, Prefixed
  <2>. QED
    BY <1>3, <2>1 DEF ParseLine, Calls, Results, q
<1>4. CASE line.kind = "output"
  <2>1. [type |-> "command", named |-> p.command] \in ClaudeMessage
    BY DEF ClaudeMessage, ClaudeParse
  <2>2. ParseOutput(q) = Prefixed(before, ParseOutput(p))
    BY <1>0, <2>1 DEF ParseOutput, Prefixed
  <2>. QED
    BY <1>4, <2>2 DEF ParseLine, Calls, Results, q
<1>5. CASE line.kind \notin Calls \cup Results \cup {"command", "output"}
  <2>1. [type |-> "text"] \in ClaudeMessage
    BY DEF ClaudeMessage
  <2>2. ParseText(q) = Prefixed(before, ParseText(p))
    BY <1>0, <2>1 DEF ParseText, Prefixed
  <2>. QED
    BY <1>5, <2>2 DEF ParseLine, q
<1>. QED
  BY <1>1, <1>2, <1>3, <1>4, <1>5

\* So is a batch of lines.
LEMMA ParsePrefixed ==
  ASSUME NEW before \in Seq(ClaudeMessage), NEW p \in ClaudeParse,
         NEW lines \in Seq(ClaudeLine)
  PROVE  /\ Prefixed(before, p) \in ClaudeParse
         /\ Folded(ParseSteps, Prefixed(before, p), lines)
              = Prefixed(before, Folded(ParseSteps, p, lines))
<1> DEFINE q == Prefixed(before, p)
           T == {n \in Nat : \A s \in Seq(ClaudeLine) : Len(s) = n =>
                   Folded(ParseSteps, q, s) = Prefixed(before, Folded(ParseSteps, p, s))}
<1>0. q \in ClaudeParse /\ ParseSteps \in Folds(ClaudeParse, ClaudeLine)
  <2>1. before \o p.out \in Seq(ClaudeMessage)
    BY DEF ClaudeParse
  <2>2. q \in ClaudeParse
    BY <2>1 DEF Prefixed, ClaudeParse
  <2>. QED
    BY <2>2, ParseFolds
<1> HIDE DEF q
<1>1. 0 \in T
  <2>1. \A s \in Seq(ClaudeLine) : Len(s) = 0 => s = <<>>
    OBVIOUS
  <2>2. Folded(ParseSteps, q, <<>>) = Prefixed(before, Folded(ParseSteps, p, <<>>))
    BY FoldedEmpty DEF q
  <2>. QED
    BY <2>1, <2>2
<1>2. ASSUME NEW n \in Nat, n \in T
      PROVE  n + 1 \in T
  <2> SUFFICES ASSUME NEW s \in Seq(ClaudeLine), Len(s) = n + 1
               PROVE  Folded(ParseSteps, q, s)
                        = Prefixed(before, Folded(ParseSteps, p, s))
    <3>1. n + 1 \in Nat
      OBVIOUS
    <3>. QED
      BY <3>1
  <2> DEFINE f == Front(s)
             x == Last(s)
  <2>1. f \in Seq(ClaudeLine) /\ x \in ClaudeLine /\ s = Append(f, x) /\ Len(f) = n
    <3>1. s # <<>> /\ (n + 1) - 1 = n
      OBVIOUS
    <3>2. f \in Seq(ClaudeLine) /\ x \in ClaudeLine /\ s = Append(f, x)
          /\ Len(f) = Len(s) - 1
      BY <3>1, SplitLast
    <3>. QED
      BY <3>1, <3>2
  <2>2. Folded(ParseSteps, q, f) = Prefixed(before, Folded(ParseSteps, p, f))
    BY <1>2, <2>1
  <2> HIDE DEF T, f, x
  <2>3. /\ Folded(ParseSteps, p, f) \in ClaudeParse
        /\ Folded(ParseSteps, q, f) \in ClaudeParse
    BY <1>0, <2>1, FoldedType
  <2>4. /\ Folded(ParseSteps, q, s) = ParseLine(Folded(ParseSteps, q, f), x)
        /\ Folded(ParseSteps, p, s) = ParseLine(Folded(ParseSteps, p, f), x)
    <3>1. /\ Folded(ParseSteps, q, s) = ParseSteps[Folded(ParseSteps, q, f)][x]
          /\ Folded(ParseSteps, p, s) = ParseSteps[Folded(ParseSteps, p, f)][x]
      BY <1>0, <2>1, FoldedAppend
    <3>. QED
      BY <2>1, <2>3, <3>1 DEF ParseSteps
  <2>. QED
    BY <2>1, <2>2, <2>3, <2>4, ParseLinePrefixed
<1>3. Len(lines) \in Nat /\ Len(lines) \in T
  <2>1. Len(lines) \in Nat
    OBVIOUS
  <2> HIDE DEF T
  <2>. QED
    BY <1>1, <1>2, <2>1, Induction
<1>. QED
  BY <1>0, <1>3 DEF q

\* A batch that ends with another line than a command awaits no output.
LEMMA AwaitsNoOutput ==
  ASSUME NEW p \in ClaudeParse, NEW lines \in Seq(ClaudeLine), lines # <<>>,
         Last(lines).kind # "command"
  PROVE  Folded(ParseSteps, p, lines).command = FALSE
<1> DEFINE f == Front(lines)
           x == Last(lines)
           v == Folded(ParseSteps, p, f)
<1>1. /\ f \in Seq(ClaudeLine) /\ x \in ClaudeLine /\ lines = Append(f, x)
      /\ ParseSteps \in Folds(ClaudeParse, ClaudeLine)
  BY SplitLast, ParseFolds
<1> HIDE DEF f, x
<1>2. v \in ClaudeParse
  BY <1>1, FoldedType
<1> HIDE DEF v
<1>3. Folded(ParseSteps, p, lines) = ParseSteps[v][x]
  BY <1>1, FoldedAppend DEF v
<1>4. ParseSteps[v][x] = ParseLine(v, x)
  BY <1>1, <1>2 DEF ParseSteps
<1>5. ParseLine(v, x).command = FALSE
  <2>1. x.kind # "command"
    BY DEF x
  <2>. QED
    BY <1>1, <2>1
       DEF ParseLine, ParseCall, ParseResult, ParseOutput, ParseText, Calls, Results
<1>. QED
  BY <1>3, <1>4, <1>5

-----------------------------------------------------------------------------
(* codex: what adjacent copies leave.                                      *)

\* The copy that is dropped would have been dropped behind anything else too.
LEMMA PoorCopy ==
  ASSUME NEW out \in Seq(CodexMessage), NEW l \in CodexMessage, NEW m \in CodexMessage,
         Signature(l) = Signature(m), ~Richer(l, m)
  PROVE  AppendUnique(AppendUnique(out, l), m) = AppendUnique(out, l)
<1> DEFINE C == AppendUnique(out, l)
<1>1. C # <<>> /\ Signature(Last(C)) = Signature(m) /\ ~Richer(Last(C), m)
  <2>1. CASE C = Append(out, l)
    BY <2>1, FrontLastOfAppend
  <2>2. CASE out # <<>> /\ C = Append(Front(out), l)
    <3>1. Front(out) \in Seq(CodexMessage)
      BY <2>2, SplitLast
    <3>. QED
      BY <2>2, <3>1, FrontLastOfAppend
  <2>3. CASE /\ out # <<>> /\ C = out /\ Signature(Last(out)) = Signature(l)
             /\ ~Richer(Last(out), l)
    <3>1. Last(out) \in CodexMessage
      BY <2>3, SplitLast
    <3>2. Last(out).final \in BOOLEAN /\ l.final \in BOOLEAN /\ m.final \in BOOLEAN
      BY <3>1 DEF CodexMessage
    <3>. QED
      BY <2>3, <3>2 DEF Richer
  <2>. QED
    BY <2>1, <2>2, <2>3 DEF AppendUnique
<1> HIDE DEF C
<1>2. AppendUnique(C, m) = C
  BY <1>1 DEF AppendUnique
<1>. QED
  BY <1>2 DEF C

\* The copy that is kept in place of the last would have been kept in place of
\* whatever that left.
LEMMA RichCopy ==
  ASSUME NEW out \in Seq(CodexMessage), NEW l \in CodexMessage, NEW m \in CodexMessage,
         Signature(l) = Signature(m), Richer(l, m)
  PROVE  AppendUnique(AppendUnique(out, l), m) = AppendUnique(out, m)
<1>1. /\ l.final \in BOOLEAN /\ m.final \in BOOLEAN /\ ~l.final /\ m.final
  BY DEF CodexMessage, Richer
<1>2. CASE out = <<>> \/ Signature(Last(out)) # Signature(l)
  <2>1. AppendUnique(out, l) = Append(out, l) /\ AppendUnique(out, m) = Append(out, m)
    BY <1>2 DEF AppendUnique
  <2>2. /\ Append(out, l) # <<>> /\ Last(Append(out, l)) = l
        /\ Front(Append(out, l)) = out
    BY FrontLastOfAppend
  <2>3. AppendUnique(Append(out, l), m) = Append(out, m)
    BY <2>2 DEF AppendUnique
  <2>. QED
    BY <2>1, <2>3
<1>3. CASE out # <<>> /\ Signature(Last(out)) = Signature(l)
  <2>1. ~Richer(Last(out), l)
    BY <1>1 DEF Richer
  <2>2. AppendUnique(out, l) = out
    BY <1>3, <2>1 DEF AppendUnique
  <2>. QED
    BY <2>2
<1>. QED
  BY <1>2, <1>3

\* So one message more may be joined to what it follows before that is joined to
\* what came earlier, or after.
LEMMA UniqueOfUnique ==
  ASSUME NEW out \in Seq(CodexMessage), NEW ms \in Seq(CodexMessage),
         NEW m \in CodexMessage
  PROVE  Folded(UniqueSteps, out, AppendUnique(ms, m))
           = AppendUnique(Folded(UniqueSteps, out, ms), m)
<1> DEFINE Join(seq) == Folded(UniqueSteps, out, seq)
<1>1. /\ UniqueSteps \in Folds(Seq(CodexMessage), CodexMessage)
      /\ \A o \in Seq(CodexMessage), x \in CodexMessage :
           UniqueSteps[o][x] = AppendUnique(o, x)
  BY UniqueFolds DEF UniqueSteps
<1>2. \A seq \in Seq(CodexMessage), x \in CodexMessage :
        /\ Join(seq) \in Seq(CodexMessage)
        /\ Join(Append(seq, x)) = AppendUnique(Join(seq), x)
  <2> TAKE seq \in Seq(CodexMessage), x \in CodexMessage
  <2>1. Join(seq) \in Seq(CodexMessage)
    BY <1>1, FoldedType
  <2>2. Join(Append(seq, x)) = UniqueSteps[Join(seq)][x]
    BY <1>1, FoldedAppend
  <2>. QED
    BY <1>1, <2>1, <2>2
<1> HIDE DEF Join
<1>3. CASE AppendUnique(ms, m) = Append(ms, m)
  BY <1>2, <1>3 DEF Join
<1>4. CASE ms # <<>> /\ Signature(Last(ms)) = Signature(m)
  <2> DEFINE f == Front(ms)
             l == Last(ms)
  <2>1. f \in Seq(CodexMessage) /\ l \in CodexMessage /\ ms = Append(f, l)
    BY <1>4, SplitLast
  <2>2. Join(ms) = AppendUnique(Join(f), l) /\ Join(f) \in Seq(CodexMessage)
    BY <1>2, <2>1
  <2>3. CASE Richer(l, m)
    <3>1. AppendUnique(ms, m) = Append(f, m)
      BY <1>4, <2>3 DEF AppendUnique
    <3>2. Join(AppendUnique(ms, m)) = AppendUnique(Join(f), m)
      BY <1>2, <2>1, <3>1
    <3>3. AppendUnique(Join(ms), m) = AppendUnique(Join(f), m)
      BY <1>4, <2>1, <2>2, <2>3, RichCopy
    <3>. QED
      BY <3>2, <3>3 DEF Join
  <2>4. CASE ~Richer(l, m)
    <3>1. AppendUnique(ms, m) = ms
      BY <1>4, <2>4 DEF AppendUnique
    <3>2. AppendUnique(Join(ms), m) = Join(ms)
      BY <1>4, <2>1, <2>2, <2>4, PoorCopy
    <3>. QED
      BY <3>1, <3>2 DEF Join
  <2>. QED
    BY <2>3, <2>4
<1>. QED
  BY <1>3, <1>4 DEF AppendUnique

\* A batch parsed by itself and joined to earlier messages is the batch parsed behind
\* them.
LEMMA CodexJoined ==
  ASSUME NEW out \in Seq(CodexMessage), NEW pending \in SUBSET Call,
         NEW lines \in Seq(CodexLines)
  PROVE  LET alone  == Folded(CodexSteps, [out |-> <<>>, carry |-> pending], lines)
             joined == Folded(CodexSteps, [out |-> out, carry |-> pending], lines)
         IN  /\ joined.carry = alone.carry
             /\ joined.out = Folded(UniqueSteps, out, alone.out)
<1> DEFINE p == [out |-> <<>>, carry |-> pending]
           q == [out |-> out, carry |-> pending]
           Alone(s) == Folded(CodexSteps, p, s)
           Joined(s) == Folded(CodexSteps, q, s)
           T == {n \in Nat : \A s \in Seq(CodexLines) : Len(s) = n =>
                   /\ Joined(s).carry = Alone(s).carry
                   /\ Joined(s).out = Folded(UniqueSteps, out, Alone(s).out)}
<1>0. p \in CodexParse /\ q \in CodexParse /\ CodexSteps \in Folds(CodexParse, CodexLines)
  <2>1. p \in CodexParse /\ q \in CodexParse
    BY DEF CodexParse
  <2>. QED
    BY <2>1, CodexFolds
<1>1. p.out = <<>> /\ p.carry = pending /\ q.out = out /\ q.carry = pending
  OBVIOUS
<1> HIDE DEF p, q
<1>2. 0 \in T
  <2>1. \A s \in Seq(CodexLines) : Len(s) = 0 => s = <<>>
    OBVIOUS
  <2>2. Alone(<<>>) = p /\ Joined(<<>>) = q /\ Folded(UniqueSteps, out, <<>>) = out
    BY FoldedEmpty
  <2> HIDE DEF Alone, Joined
  <2>. QED
    BY <1>1, <2>1, <2>2
<1>3. ASSUME NEW n \in Nat, n \in T
      PROVE  n + 1 \in T
  <2> SUFFICES ASSUME NEW s \in Seq(CodexLines), Len(s) = n + 1
               PROVE  /\ Joined(s).carry = Alone(s).carry
                      /\ Joined(s).out = Folded(UniqueSteps, out, Alone(s).out)
    <3>1. n + 1 \in Nat
      OBVIOUS
    <3>. QED
      BY <3>1
  <2> DEFINE f == Front(s)
             x == Last(s)
  <2>1. f \in Seq(CodexLines) /\ x \in CodexLines /\ s = Append(f, x) /\ Len(f) = n
    <3>1. s # <<>> /\ (n + 1) - 1 = n
      OBVIOUS
    <3>2. f \in Seq(CodexLines) /\ x \in CodexLines /\ s = Append(f, x)
          /\ Len(f) = Len(s) - 1
      BY <3>1, SplitLast
    <3>. QED
      BY <3>1, <3>2
  <2>2. /\ Joined(f).carry = Alone(f).carry
        /\ Joined(f).out = Folded(UniqueSteps, out, Alone(f).out)
    BY <1>3, <2>1
  <2> HIDE DEF T, f, x
  <2>3. Alone(f) \in CodexParse /\ Joined(f) \in CodexParse
    BY <1>0, <2>1, FoldedType
  <2>4. Alone(s) = CodexStep(Alone(f), x) /\ Joined(s) = CodexStep(Joined(f), x)
    <3>1. Alone(s) = CodexSteps[Alone(f)][x] /\ Joined(s) = CodexSteps[Joined(f)][x]
      BY <1>0, <2>1, FoldedAppend
    <3> HIDE DEF Alone, Joined
    <3>. QED
      BY <2>1, <2>3, <3>1 DEF CodexSteps
  <2> HIDE DEF Alone, Joined
  <2> DEFINE parsed == CodexLine(Alone(f).carry, x)
  <2>5. parsed.message \in CodexMessage /\ Alone(f).out \in Seq(CodexMessage)
    BY <2>1, <2>3, CodexStepType DEF CodexParse
  <2>6. /\ Alone(s).carry = parsed.pending /\ Joined(s).carry = parsed.pending
        /\ Alone(s).out = AppendUnique(Alone(f).out, parsed.message)
        /\ Joined(s).out = AppendUnique(Joined(f).out, parsed.message)
    BY <2>2, <2>4 DEF CodexStep
  <2> HIDE DEF parsed
  <2>. QED
    BY <2>2, <2>5, <2>6, UniqueOfUnique
<1>4. Len(lines) \in Nat /\ Len(lines) \in T
  <2>1. Len(lines) \in Nat
    OBVIOUS
  <2> HIDE DEF T
  <2>. QED
    BY <1>2, <1>3, <2>1, Induction
<1>. QED
  BY <1>4 DEF p, q

-----------------------------------------------------------------------------
(* The task list.                                                          *)

Task == [status : Status, order : Nat, full : BOOLEAN]

\* The task lists a window may have, once it has one.
Stores ==
  {st \in [tasks : PartialFunctions(Id, Task), pending : PartialFunctions(Call, Nat),
           next : Nat \ {0}] :
     /\ \A id \in DOMAIN st.tasks : st.tasks[id].order \in 1..(st.next - 1)
     /\ \A call \in DOMAIN st.pending : st.pending[call] \in 1..(st.next - 1)}

\* A dictionary by its keys and values, and after one more or fewer.
LEMMA DictionaryOf ==
  ASSUME NEW S, NEW T, NEW f
  PROVE  f \in PartialFunctions(S, T) <=> f \in [DOMAIN f -> T] /\ DOMAIN f \subseteq S
BY DEF PartialFunctions

\* As above.
LEMMA DictionaryWithout ==
  ASSUME NEW S, NEW T, NEW f \in PartialFunctions(S, T), NEW X
  PROVE  Without(f, X) \in PartialFunctions(S, T)
<1>1. f \in [DOMAIN f -> T] /\ DOMAIN f \subseteq S
  BY DictionaryOf
<1>2. Without(f, X) \in [DOMAIN f \ X -> T] /\ DOMAIN Without(f, X) = DOMAIN f \ X
  BY <1>1 DEF Without
<1>. QED
  BY <1>1, <1>2, DictionaryOf

\* As above.
LEMMA DictionaryPut ==
  ASSUME NEW S, NEW T, NEW f \in PartialFunctions(S, T), NEW x \in S, NEW v \in T
  PROVE  Put(f, x, v) \in PartialFunctions(S, T)
<1>1. f \in [DOMAIN f -> T] /\ DOMAIN f \subseteq S
  BY DictionaryOf
<1>2. /\ Put(f, x, v) \in [DOMAIN f \cup {x} -> T]
      /\ DOMAIN Put(f, x, v) = DOMAIN f \cup {x}
  BY <1>1 DEF Put
<1>. QED
  BY <1>1, <1>2, DictionaryOf

\* A window's first list is empty.
LEMMA NoTasksType == NoTasks \in Stores
<1>1. <<>> \in PartialFunctions(Id, Task) /\ <<>> \in PartialFunctions(Call, Nat)
  <2>1. /\ <<>> \in [{} -> Task] /\ <<>> \in [{} -> Nat] /\ DOMAIN <<>> = {}
        /\ {} \in SUBSET Id /\ {} \in SUBSET Call
    OBVIOUS
  <2>. QED
    BY <2>1, DictionaryOf
<1>. QED
  BY <1>1 DEF NoTasks, Stores

\* Any word is taken for a status, and those that are one for themselves.
LEMMA NormalizedType ==
  ASSUME NEW status
  PROVE  /\ Normalized(status) \in Status
         /\ Normalized("pending") = "pending" /\ Normalized("completed") = "completed"
BY DEF Normalized, Status

\* A status may be set in any list.
LEMMA SetStatusType ==
  ASSUME NEW st \in Stores, NEW id, NEW status \in Status
  PROVE  SetStatus(st, id, status) \in Stores
<1>1. /\ st.tasks \in [DOMAIN st.tasks -> Task] /\ DOMAIN st.tasks \subseteq Id
      /\ st = [tasks |-> st.tasks, pending |-> st.pending, next |-> st.next]
  BY DictionaryOf DEF Stores
<1>2. CASE id \in DOMAIN st.tasks
  <2> DEFINE tasks == [st.tasks EXCEPT ![id].status = status]
  <2>1. st.tasks[id] \in Task
    BY <1>1, <1>2
  <2>2. /\ tasks \in [DOMAIN st.tasks -> Task] /\ DOMAIN tasks = DOMAIN st.tasks
        /\ \A x \in DOMAIN st.tasks : tasks[x].order = st.tasks[x].order
    BY <1>1, <2>1 DEF Task
  <2>3. SetStatus(st, id, status)
          = [tasks |-> tasks, pending |-> st.pending, next |-> st.next]
    BY <1>1, <1>2 DEF SetStatus
  <2> HIDE DEF tasks
  <2>4. tasks \in PartialFunctions(Id, Task)
    BY <1>1, <2>2, DictionaryOf
  <2>. QED
    BY <2>2, <2>3, <2>4 DEF Stores
<1>3. CASE id \notin DOMAIN st.tasks
  BY <1>3 DEF SetStatus
<1>. QED
  BY <1>2, <1>3

\* So is what each line leaves of one.
LEMMA ApplyLineType ==
  ASSUME NEW st \in Stores, NEW line \in ClaudeLine
  PROVE  ApplyLine(st, line) \in Stores
<1>0. /\ st.tasks \in PartialFunctions(Id, Task)
      /\ st.pending \in PartialFunctions(Call, Nat)
      /\ st.next \in Nat \ {0}
      /\ \A id \in DOMAIN st.tasks : st.tasks[id].order \in 1..(st.next - 1)
      /\ \A call \in DOMAIN st.pending : st.pending[call] \in 1..(st.next - 1)
  BY DEF Stores
<1>a. st = [tasks |-> st.tasks, pending |-> st.pending, next |-> st.next]
  BY DEF Stores
<1>1. CASE line.kind = "create"
  <2> DEFINE pending == Put(st.pending, line.call, st.next)
  <2>1. line.call \in Call /\ st.next \in Nat
    BY <1>0, <1>1 DEF ClaudeLine
  <2>2. /\ pending \in PartialFunctions(Call, Nat)
        /\ DOMAIN pending = DOMAIN st.pending \cup {line.call}
        /\ \A y \in DOMAIN st.pending \cup {line.call} :
             pending[y] = IF y = line.call THEN st.next ELSE st.pending[y]
    <3>1. pending \in PartialFunctions(Call, Nat)
      BY <1>0, <2>1, DictionaryPut
    <3>. QED
      BY <3>1 DEF Put
  <2>3. ApplyCreate(st, line)
          = [tasks |-> st.tasks, pending |-> pending, next |-> st.next + 1]
    <3> DEFINE next == st.next + 1
               applied == [st EXCEPT !.pending = pending, !.next = next]
    <3>1. ApplyCreate(st, line) = applied
      BY DEF ApplyCreate
    <3> HIDE DEF pending, next
    <3>2. DOMAIN st = {"tasks", "pending", "next"}
      BY DEF Stores
    <3>3. /\ DOMAIN applied = {"tasks", "pending", "next"}
          /\ applied = [field \in DOMAIN applied |-> applied[field]]
          /\ applied.tasks = st.tasks /\ applied.pending = pending /\ applied.next = next
      BY <3>2
    <3> HIDE DEF applied
    <3>4. applied = [tasks |-> st.tasks, pending |-> pending, next |-> next]
      BY <3>3
    <3>. QED
      BY <3>1, <3>4 DEF next
  <2> HIDE DEF pending
  <2>4. ApplyCreate(st, line) \in Stores
    <3>1. \A x \in 1..(st.next - 1) : x \in 1..((st.next + 1) - 1)
      BY <1>0
    <3>2. st.next + 1 \in Nat \ {0} /\ st.next \in 1..((st.next + 1) - 1)
      BY <1>0
    <3>3. \A call \in DOMAIN pending : pending[call] \in 1..((st.next + 1) - 1)
      BY <1>0, <2>2, <3>1, <3>2
    <3>. QED
      BY <1>0, <2>2, <2>3, <3>1, <3>2, <3>3 DEF Stores
  <2>. QED
    BY <1>1, <2>4 DEF ApplyLine
<1>2. CASE line.kind = "created"
  <2>1. line.call \in Call /\ line.id \in Id
    BY <1>2 DEF ClaudeLine
  <2>2. FinalizeCreate(st, line) \in Stores
    <3>1. CASE line.call \in DOMAIN st.pending
      <4> DEFINE task == [status |-> "pending", order |-> st.pending[line.call],
                          full |-> TRUE]
                 tasks == Put(st.tasks, line.id, task)
                 pending == Without(st.pending, {line.call})
      <4>1. task \in Task /\ task.order \in 1..(st.next - 1)
        BY <1>0, <3>1 DEF Task, Status
      <4>2. FinalizeCreate(st, line)
              = [tasks |-> tasks, pending |-> pending, next |-> st.next]
        BY <1>a, <3>1 DEF FinalizeCreate
      <4> HIDE DEF task
      <4>3. /\ tasks \in PartialFunctions(Id, Task)
            /\ DOMAIN tasks = DOMAIN st.tasks \cup {line.id}
            /\ \A y \in DOMAIN st.tasks \cup {line.id} :
                 tasks[y] = IF y = line.id THEN task ELSE st.tasks[y]
        <5>1. tasks \in PartialFunctions(Id, Task)
          BY <1>0, <2>1, <4>1, DictionaryPut
        <5>. QED
          BY <5>1 DEF Put
      <4>4. /\ pending \in PartialFunctions(Call, Nat)
            /\ DOMAIN pending = DOMAIN st.pending \ {line.call}
            /\ \A y \in DOMAIN st.pending \ {line.call} : pending[y] = st.pending[y]
        <5>1. pending \in PartialFunctions(Call, Nat)
          BY <1>0, DictionaryWithout
        <5>. QED
          BY <5>1 DEF Without
      <4> HIDE DEF tasks, pending
      <4>5. \A id \in DOMAIN tasks : tasks[id].order \in 1..(st.next - 1)
        BY <1>0, <4>1, <4>3
      <4>. QED
        BY <1>0, <4>2, <4>3, <4>4, <4>5 DEF Stores
    <3>2. CASE line.call \notin DOMAIN st.pending
      BY <3>2 DEF FinalizeCreate
    <3>. QED
      BY <3>1, <3>2
  <2>. QED
    BY <1>2, <2>2 DEF ApplyLine
<1>3. CASE line.kind = "update"
  <2>1. Normalized(line.status) \in Status
    BY NormalizedType
  <2>2. SetStatus(st, line.id, Normalized(line.status)) \in Stores
    BY <2>1, SetStatusType
  <2>. QED
    BY <1>3, <2>2 DEF ApplyLine
<1>4. CASE line.kind \in {"tasks", "todos"}
  <2> DEFINE ids == {line.tasks[i].id : i \in DOMAIN line.tasks}
             Place(id) == CHOOSE i \in DOMAIN line.tasks : line.tasks[i].id = id
             tasks == [id \in ids |-> [status |-> Normalized(line.tasks[Place(id)].status),
                                       order |-> Place(id), full |-> line.full]]
  <2>1. /\ line.tasks \in Seq(Todo) /\ line.full \in BOOLEAN
        /\ DOMAIN line.tasks = 1..Len(line.tasks) /\ Len(line.tasks) \in Nat
    BY <1>4 DEF ClaudeLine, TaskList
  <2>2. ASSUME NEW id \in ids
        PROVE  /\ Place(id) \in 1..Len(line.tasks) /\ id \in Id
               /\ Normalized(line.tasks[Place(id)].status) \in Status
    <3>1. PICK i \in DOMAIN line.tasks : line.tasks[i].id = id
      OBVIOUS
    <3>2. Place(id) \in DOMAIN line.tasks
      BY <3>1
    <3>3. \A j \in 1..Len(line.tasks) : line.tasks[j] \in Todo
      <4>1. \A l \in Seq(Todo) : \A j \in 1..Len(l) :
              l[j] \in Todo
        OBVIOUS
      <4>. QED
        BY <2>1, <4>1
    <3>. QED
      BY <2>1, <3>1, <3>2, <3>3, NormalizedType DEF Todo
  <2>3. ReplaceFromList(st, line)
          = IF st.tasks = tasks THEN st
            ELSE [tasks |-> tasks, pending |-> <<>>, next |-> Len(line.tasks) + 1]
    BY Zenon DEF ReplaceFromList
  <2> HIDE DEF ids, Place
  <2>4. /\ tasks \in [ids -> Task] /\ DOMAIN tasks = ids
        /\ \A id \in ids : tasks[id].order = Place(id)
    BY <2>1, <2>2 DEF Task
  <2> HIDE DEF tasks
  <2>5. tasks \in PartialFunctions(Id, Task)
    BY <2>2, <2>4, DictionaryOf
  <2>6. <<>> \in PartialFunctions(Call, Nat) /\ DOMAIN <<>> = {}
    BY NoTasksType DEF NoTasks, Stores
  <2>7. ReplaceFromList(st, line) \in Stores
    <3>1. [tasks |-> tasks, pending |-> <<>>, next |-> Len(line.tasks) + 1] \in Stores
      BY <2>1, <2>2, <2>4, <2>5, <2>6 DEF Stores
    <3>. QED
      BY <2>3, <3>1
  <2>. QED
    BY <1>4, <2>7 DEF ApplyLine, ReplaceFromTodos
<1>5. CASE line.kind \notin {"create", "created", "update", "tasks", "todos"}
  BY <1>5 DEF ApplyLine
<1>. QED
  BY <1>1, <1>2, <1>3, <1>4, <1>5

\* The operator as a function.
ApplySteps == [st \in Stores |-> [line \in ClaudeLine |-> ApplyLine(st, line)]]

\* As above.
LEMMA ApplyFolds ==
  ASSUME NEW base \in Stores, NEW lines \in Seq(ClaudeLine)
  PROVE  /\ FoldLeft(ApplyLine, base, lines) = Folded(ApplySteps, base, lines)
         /\ ApplySteps \in Folds(Stores, ClaudeLine)
<1> DEFINE n == Len(lines)
<1>0. n \in Nat /\ lines \in [1..n -> ClaudeLine] /\ DOMAIN lines = 1..n
  OBVIOUS
<1>1. /\ ApplySteps \in Folds(Stores, ClaudeLine)
      /\ \A q \in Stores, line \in ClaudeLine :
           ApplySteps[q][line] = ApplyLine(q, line)
  BY ApplyLineType DEF ApplySteps, Folds
<1> HIDE DEF n
<1>2. PICK f \in [SUBSET (1..n) -> Stores] : IsFold(ApplySteps, base, lines, n, f)
  BY <1>0, <1>1, FoldExists
<1>3. f = [s \in SUBSET (DOMAIN lines) |->
             IF s = {} THEN base
             ELSE LET x == Max(s) IN ApplyLine(f[s \ {x}], lines[x])]
  <2>1. ASSUME NEW s \in SUBSET (1..n), s # {}
        PROVE  f[s] = ApplyLine(f[s \ {Max(s)}], lines[Max(s)])
    <3>1. Max(s) \in 1..n
      BY <1>0, <2>1, MaxOf
    <3>2. f[s \ {Max(s)}] \in Stores /\ lines[Max(s)] \in ClaudeLine
      BY <1>0, <3>1
    <3>. QED
      BY <1>1, <1>2, <2>1, <3>2 DEF IsFold
  <2>2. f[{}] = base
    BY <1>2 DEF IsFold
  <2>. QED
    BY <1>0, <2>1, <2>2
<1> DEFINE c == CHOOSE iter : iter = [s \in SUBSET (DOMAIN lines) |->
                  IF s = {} THEN base
                  ELSE LET x == Max(s) IN ApplyLine(iter[s \ {x}], lines[x])]
<1>4. FoldLeft(ApplyLine, base, lines) = c[DOMAIN lines]
  BY Zenon DEF FoldLeft, MapThenFoldSet
<1>5. c = [s \in SUBSET (DOMAIN lines) |->
             IF s = {} THEN base
             ELSE LET x == Max(s) IN ApplyLine(c[s \ {x}], lines[x])]
  BY <1>3
<1> HIDE DEF c
<1>6. c[{}] = base
  BY <1>5
<1>7. ASSUME NEW i \in 1..n, c[1..(i - 1)] \in Stores
      PROVE  c[1..i] = ApplySteps[c[1..(i - 1)]][lines[i]]
  <2>1. 1..i # {} /\ Max(1..i) = i /\ (1..i) \ {i} = 1..(i - 1)
    BY WithoutMax
  <2>2. 1..i \in SUBSET (DOMAIN lines) /\ lines[i] \in ClaudeLine
    BY <1>0
  <2>3. c[1..i] = ApplyLine(c[(1..i) \ {Max(1..i)}], lines[Max(1..i)])
    BY <1>5, <2>1, <2>2
  <2>4. c[1..i] = ApplyLine(c[1..(i - 1)], lines[i])
    BY <2>1, <2>3
  <2>. QED
    BY <1>1, <1>7, <2>2, <2>4
<1>8. c[1..n] = Folded(ApplySteps, base, lines)
  BY <1>1, <1>6, <1>7, FoldedByPlaces DEF n
<1>. QED
  BY <1>0, <1>1, <1>4, <1>8

\* What is read leaves a list, whatever there was before.
LEMMA AppliedType ==
  ASSUME NEW st \in Stores \cup {Untold},
         NEW lines, provider # "codex" => lines \in Seq(ClaudeLine)
  PROVE  Applied(st, lines) \in Stores \cup {Untold}
<1>1. CASE provider = "codex"
  BY <1>1 DEF Applied
<1>2. CASE provider # "codex"
  <2> DEFINE base == IF st = Untold THEN NoTasks ELSE st
  <2>1. base \in Stores
    BY NoTasksType
  <2>2. Applied(st, lines) = FoldLeft(ApplyLine, base, lines)
    BY <1>2 DEF Applied
  <2> HIDE DEF base
  <2>. QED
    BY <1>2, <2>1, <2>2, ApplyFolds, FoldedType
<1>. QED
  BY <1>1, <1>2

-----------------------------------------------------------------------------
(* The invariant.                                                          *)

Running == [call : Call, kind : CallKind]

\* Lines of the agent's own kind only; Claude's list has no more tasks than lines,
\* and an event is of a task in it.
AgentOK ==
  /\ provider \in {"claude", "codex"}
  /\ provider = "claude" => log \in Seq(ClaudeLine)
  /\ provider = "codex" => log \in Seq(CodexLines) /\ todo = <<>>
  /\ Len(log) <= MaxLines
  /\ running \in Seq(Running)
  /\ todo \in TaskList /\ Len(todo) <= Len(log)
  /\ hooks \subseteq 1..Len(todo)

\* Tracking began before what is read, and what is read or saved was written; before
\* that nothing is shown.
OffsetsOK ==
  /\ offset \in 0..Len(log) \cup {None} /\ saved \in 0..Len(log) \cup {None}
  /\ begun \in 0..Len(log) \cup {None}
  /\ offset = None <=> begun = None
  /\ offset # None => begun <= offset
  /\ offset = None => shown = <<>> /\ carry = {}
  /\ seeding \in BOOLEAN /\ split \in BOOLEAN

\* What is shown and awaited is that of one parse, however the lines fell into batches:
\* Claude's exactly (unless a batch ended with a command), codex's but for what was
\* shown again at the end of a batch.
ParsedOK ==
  /\ carry \subseteq Call
  /\ provider = "claude" => shown \in Seq(ClaudeMessage)
  /\ provider = "codex" => shown \in Seq(CodexMessage)
  /\ offset # None =>
       LET parse == Parsed(SubSeq(log, begun + 1, offset), {})
       IN  /\ provider = "claude" /\ ~split =>
                parse = [out |-> shown, carry |-> carry, command |-> FALSE]
           /\ provider = "codex" =>
                parse = [out |-> Unrepeated(shown), carry |-> carry]

ContentInv == AgentOK /\ OffsetsOK /\ store \in Stores \cup {Untold} /\ ParsedOK

\* What writes a line of the agent's kind, keeps the log.
LEMMA LogGrows ==
  ASSUME AgentOK, NEW line, Len(log) < MaxLines, log' = Append(log, line),
         provider' = provider,
         provider = "claude" => line \in ClaudeLine,
         provider = "codex" => line \in CodexLines
  PROVE  /\ provider' = "claude" => log' \in Seq(ClaudeLine)
         /\ provider' = "codex" => log' \in Seq(CodexLines)
         /\ Len(log') = Len(log) + 1 /\ Len(log') <= MaxLines
<1>1. CASE provider = "claude"
  <2>1. log \in Seq(ClaudeLine) /\ line \in ClaudeLine
    BY <1>1 DEF AgentOK
  <2>2. log' \in Seq(ClaudeLine) /\ Len(log') = Len(log) + 1 /\ Len(log) \in Nat
    BY <2>1
  <2>. QED
    BY <1>1, <2>2, ContentAssumption
<1>2. CASE provider = "codex"
  <2>1. log \in Seq(CodexLines) /\ line \in CodexLines
    BY <1>2 DEF AgentOK
  <2>2. log' \in Seq(CodexLines) /\ Len(log') = Len(log) + 1 /\ Len(log) \in Nat
    BY <2>1
  <2>. QED
    BY <1>2, <2>2, ContentAssumption
<1>. QED
  BY <1>1, <1>2 DEF AgentOK

\* The next line has a number that a call may have.
LEMMA NextLine ==
  ASSUME AgentOK, Len(log) < MaxLines
  PROVE  Len(log) \in Nat /\ Len(log) + 1 \in Call /\ Len(todo) \in Nat
         /\ Len(todo) + 1 \in Id /\ Len(todo) + 1 <= Len(log) + 1
<1>1. \A l \in Seq(ClaudeLine) : Len(l) \in Nat
  OBVIOUS
<1>2. \A l \in Seq(CodexLines) : Len(l) \in Nat
  OBVIOUS
<1>3. Len(log) \in Nat
  BY <1>1, <1>2 DEF AgentOK
<1>4. todo \in Seq(Todo)
  BY DEF AgentOK, TaskList
<1>5. Len(todo) \in Nat
  BY <1>4
<1>. QED
  BY <1>3, <1>5, ContentAssumption DEF AgentOK, Call, Id

\* The oldest call without a result, and the others.
LEMMA Oldest ==
  ASSUME AgentOK, running # <<>>
  PROVE  Head(running).call \in Call /\ Tail(running) \in Seq(Running)
<1>1. running \in Seq(Running)
  BY DEF AgentOK
<1>2. Head(running) \in Running /\ Tail(running) \in Seq(Running)
  BY <1>1
<1>. QED
  BY <1>2 DEF Running

\* The agent's list after a task more.
LEMMA TodoAppend ==
  ASSUME NEW list \in TaskList, NEW status \in AgentStatus, Len(list) + 1 \in Id
  PROVE  /\ Append(list, [id |-> Len(list) + 1, status |-> status]) \in TaskList
         /\ Len(Append(list, [id |-> Len(list) + 1, status |-> status])) = Len(list) + 1
<1> DEFINE task == [id |-> Len(list) + 1, status |-> status]
           longer == Append(list, task)
<1>1. list \in Seq(Todo) /\ Len(list) \in Nat /\ \A i \in 1..Len(list) : list[i].id = i
  <2>1. list \in Seq(Todo) /\ \A i \in DOMAIN list : list[i].id = i
    BY DEF TaskList
  <2>. QED
    BY <2>1
<1>2. task \in Todo /\ task.id = Len(list) + 1
  BY DEF Todo
<1> HIDE DEF task
<1>3. /\ longer \in Seq(Todo) /\ Len(longer) = Len(list) + 1
      /\ DOMAIN longer = 1..(Len(list) + 1)
      /\ longer[Len(list) + 1] = task /\ \A i \in 1..Len(list) : longer[i] = list[i]
  BY <1>1, <1>2
<1> HIDE DEF longer
<1>4. \A i \in DOMAIN longer : longer[i].id = i
  BY <1>1, <1>2, <1>3
<1>5. longer \in TaskList
  BY <1>3, <1>4 DEF TaskList
<1>. QED
  BY <1>3, <1>5 DEF longer, task

\* The agent's list with other status.
LEMMA TodoEdited ==
  ASSUME NEW list \in TaskList, NEW edited, DOMAIN edited = DOMAIN list,
         edited = [i \in DOMAIN list |-> edited[i]],
         \A i \in DOMAIN list : edited[i] \in Todo /\ edited[i].id = i
  PROVE  edited \in TaskList /\ Len(edited) = Len(list)
<1>1. list \in Seq(Todo)
  BY DEF TaskList
<1>2. DOMAIN list = 1..Len(list) /\ Len(list) \in Nat
  BY <1>1
<1>3. edited \in [1..Len(list) -> Todo]
  BY <1>2
<1>4. edited \in Seq(Todo) /\ Len(edited) = Len(list)
  BY <1>2, <1>3
<1>. QED
  BY <1>4 DEF TaskList

\* What the agent does: a line of its kind or none, whatever becomes of its list and
\* its calls.  One lemma for each action.
AgentStep ==
  /\ AgentOK' /\ provider' = provider
  /\ log' = log \/ \E line : log' = Append(log, line)

\* Any line of Claude's.
LEMMA ClaudeWrites ==
  ASSUME AgentOK, CanWrite, NEW line \in ClaudeLine, log' = Append(log, line),
         UNCHANGED provider, running' \in Seq(Running),
         todo' \in TaskList, Len(todo') <= Len(log) + 1, hooks' \subseteq 1..Len(todo')
  PROVE  AgentStep
<1>1. provider = "claude" /\ Len(log) < MaxLines
  BY DEF CanWrite
<1>2. log' \in Seq(ClaudeLine) /\ Len(log') = Len(log) + 1 /\ Len(log') <= MaxLines
  <2>1. provider # "codex" /\ provider' = "claude"
    BY <1>1
  <2>. QED
    BY <1>1, <2>1, LogGrows
<1>. QED
  BY <1>1, <1>2 DEF AgentOK, AgentStep

\* A call.
LEMMA MakeCallKeeps ==
  ASSUME AgentOK, NEW kind \in {"create", "list", "other"}, MakeCall(kind)
  PROVE  AgentStep
<1> DEFINE line == [kind |-> kind, call |-> Len(log) + 1]
           made == [call |-> Len(log) + 1, kind |-> kind]
<1>1. /\ CanWrite /\ log' = Append(log, line) /\ running' = Append(running, made)
      /\ UNCHANGED <<provider, todo, hooks>>
  BY DEF MakeCall
<1>2. /\ Len(log) \in Nat /\ Len(log) + 1 \in Call
      /\ Len(todo) \in Nat /\ Len(todo) <= Len(log) + 1
  BY <1>1, NextLine DEF CanWrite, AgentOK
<1>3. line \in ClaudeLine /\ made \in Running
  BY <1>2 DEF ClaudeLine, Running, CallKind
<1> HIDE DEF line, made
<1>4. running' \in Seq(Running)
  BY <1>1, <1>3 DEF AgentOK
<1>5. todo' \in TaskList /\ Len(todo') <= Len(log) + 1 /\ hooks' \subseteq 1..Len(todo')
  BY <1>1, <1>2 DEF AgentOK
<1>. QED
  BY <1>1, <1>3, <1>4, <1>5, ClaudeWrites

\* The result of TaskCreate: a task more, with a line more.
LEMMA CreateTaskKeeps ==
  ASSUME AgentOK, CreateTask
  PROVE  AgentStep
<1> DEFINE id == Len(todo) + 1
           line == [kind |-> "created", call |-> Head(running).call, id |-> id]
           task == [id |-> id, status |-> "pending"]
<1>1. /\ CanWrite /\ running # <<>>
      /\ log' = Append(log, line) /\ running' = Tail(running)
      /\ todo' = Append(todo, task) /\ UNCHANGED <<provider, hooks>>
  BY DEF CreateTask, Answer
<1>2. /\ Len(log) \in Nat /\ Len(todo) \in Nat /\ id \in Id /\ id <= Len(log) + 1
  BY <1>1, NextLine DEF CanWrite
<1>3. Head(running).call \in Call /\ running' \in Seq(Running)
  BY <1>1, Oldest
<1>4. line \in ClaudeLine
  BY <1>2, <1>3 DEF ClaudeLine
<1>5. todo' \in TaskList /\ Len(todo') = id
  <2>1. todo \in TaskList /\ "pending" \in AgentStatus
    BY DEF AgentOK, AgentStatus, Status
  <2>. QED
    BY <1>1, <1>2, <2>1, TodoAppend
<1>6. hooks' \subseteq 1..Len(todo')
  BY <1>1, <1>2, <1>5 DEF AgentOK
<1> HIDE DEF line, task
<1>. QED
  BY <1>1, <1>2, <1>3, <1>4, <1>5, <1>6, ClaudeWrites

\* An answer that changes nothing else.
LEMMA AnswerKeeps ==
  ASSUME AgentOK, NEW kind, NEW line, Answer(kind, line),
         Head(running).call \in Call => line \in ClaudeLine,
         UNCHANGED <<provider, todo, hooks>>
  PROVE  AgentStep
<1>1. CanWrite /\ running # <<>> /\ log' = Append(log, line) /\ running' = Tail(running)
  BY DEF Answer
<1>2. Len(log) \in Nat /\ Len(todo) \in Nat /\ Len(todo) <= Len(log) + 1
  BY <1>1, NextLine DEF CanWrite, AgentOK
<1>3. line \in ClaudeLine /\ running' \in Seq(Running)
  BY <1>1, Oldest
<1>4. todo' \in TaskList /\ Len(todo') <= Len(log) + 1 /\ hooks' \subseteq 1..Len(todo')
  BY <1>2 DEF AgentOK
<1>. QED
  BY <1>1, <1>3, <1>4, ClaudeWrites

\* A plain result.
LEMMA ReturnKeeps ==
  ASSUME AgentOK, NEW kind, Return(kind)
  PROVE  AgentStep
<1> DEFINE line == [kind |-> "result", call |-> Head(running).call]
<1>1. Answer(kind, line) /\ UNCHANGED <<provider, todo, hooks>>
  BY DEF Return
<1>2. Head(running).call \in Call => line \in ClaudeLine
  BY DEF ClaudeLine
<1> HIDE DEF line
<1>. QED
  BY <1>1, <1>2, AnswerKeeps

\* The result of TaskList: the whole list, as it is.
LEMMA ListTasksKeeps ==
  ASSUME AgentOK, NEW full \in BOOLEAN, ListTasks(full)
  PROVE  AgentStep
<1> DEFINE line == [kind |-> "tasks", call |-> Head(running).call, tasks |-> todo,
                    full |-> full]
<1>1. Answer("list", line) /\ UNCHANGED <<provider, todo, hooks>>
  BY DEF ListTasks
<1>2. Head(running).call \in Call => line \in ClaudeLine
  BY DEF ClaudeLine, AgentOK
<1> HIDE DEF line
<1>. QED
  BY <1>1, <1>2, AnswerKeeps

\* TodoWrite: a task more, the others as they were or completed.
LEMMA WriteTodosKeeps ==
  ASSUME AgentOK, NEW status \in AgentStatus, WriteTodos(status)
  PROVE  AgentStep
<1> DEFINE rest == [i \in DOMAIN todo |->
                      IF status = "pending" THEN todo[i]
                      ELSE [todo[i] EXCEPT !.status = "completed"]]
           line == [kind |-> "todos", call |-> Len(log) + 1, tasks |-> todo',
                    full |-> FALSE]
           made == [call |-> Len(log) + 1, kind |-> "todos"]
<1>1. /\ CanWrite /\ todo' = Append(rest, [id |-> Len(todo) + 1, status |-> status])
      /\ log' = Append(log, line) /\ running' = Append(running, made)
      /\ UNCHANGED <<provider, hooks>>
  BY Zenon DEF WriteTodos
<1>2. /\ Len(log) \in Nat /\ Len(log) + 1 \in Call /\ Len(todo) \in Nat
      /\ Len(todo) + 1 \in Id /\ Len(todo) + 1 <= Len(log) + 1
  BY <1>1, NextLine DEF CanWrite
<1>3. rest \in TaskList /\ Len(rest) = Len(todo)
  <2>1. \A i \in DOMAIN todo : todo[i] \in Todo /\ todo[i].id = i
    <3>1. todo \in Seq(Todo) /\ \A i \in DOMAIN todo : todo[i].id = i
      BY DEF AgentOK, TaskList
    <3>. QED
      BY <3>1
  <2>2. \A i \in DOMAIN todo : rest[i] \in Todo /\ rest[i].id = i
    BY <2>1 DEF Todo, AgentStatus, Status
  <2>3. DOMAIN rest = DOMAIN todo /\ rest = [i \in DOMAIN todo |-> rest[i]]
    OBVIOUS
  <2> HIDE DEF rest
  <2>. QED
    BY <2>2, <2>3, TodoEdited DEF AgentOK
<1> HIDE DEF rest
<1>4. todo' \in TaskList /\ Len(todo') = Len(todo) + 1
  BY <1>1, <1>2, <1>3, TodoAppend
<1>5. line \in ClaudeLine /\ made \in Running
  BY <1>2, <1>4 DEF ClaudeLine, Running, CallKind
<1> HIDE DEF line, made
<1>6. running' \in Seq(Running)
  BY <1>1, <1>5 DEF AgentOK
<1>7. Len(todo') <= Len(log) + 1 /\ hooks' \subseteq 1..Len(todo')
  BY <1>1, <1>2, <1>4 DEF AgentOK
<1>. QED
  BY <1>1, <1>4, <1>5, <1>6, <1>7, ClaudeWrites

\* TaskUpdate: of a task in the list, and maybe an event.
LEMMA UpdateTaskKeeps ==
  ASSUME AgentOK, NEW id \in Id, NEW status \in AgentStatus, UpdateTask(id, status)
  PROVE  AgentStep
<1> DEFINE line == [kind |-> "update", call |-> Len(log) + 1, id |-> id,
                    status |-> status]
           made == [call |-> Len(log) + 1, kind |-> "update"]
<1>1. /\ CanWrite /\ id <= Len(todo)
      /\ log' = Append(log, line) /\ running' = Append(running, made)
      /\ todo' = [todo EXCEPT ![id].status = status]
      /\ hooks' = IF status = "completed" THEN hooks \cup {id} ELSE hooks
      /\ UNCHANGED provider
  BY DEF UpdateTask
<1>2. /\ Len(log) \in Nat /\ Len(log) + 1 \in Call /\ Len(todo) \in Nat
      /\ Len(todo) <= Len(log) + 1 /\ id \in 1..Len(todo)
  BY <1>1, NextLine DEF CanWrite, AgentOK, Id
<1>3. todo' \in TaskList /\ Len(todo') = Len(todo)
  <2>1. \A i \in DOMAIN todo : todo[i] \in Todo /\ todo[i].id = i
    <3>1. todo \in Seq(Todo) /\ \A i \in DOMAIN todo : todo[i].id = i
      BY DEF AgentOK, TaskList
    <3>. QED
      BY <3>1
  <2>2. DOMAIN todo' = DOMAIN todo /\ todo' = [i \in DOMAIN todo |-> todo'[i]]
    BY <1>1
  <2>3. \A i \in DOMAIN todo : todo'[i] \in Todo /\ todo'[i].id = i
    BY <1>1, <2>1 DEF Todo
  <2>. QED
    BY <2>2, <2>3, TodoEdited DEF AgentOK
<1>4. line \in ClaudeLine /\ made \in Running
  BY <1>2 DEF ClaudeLine, Running, CallKind
<1> HIDE DEF line, made
<1>5. running' \in Seq(Running)
  BY <1>1, <1>4 DEF AgentOK
<1>6. Len(todo') <= Len(log) + 1 /\ hooks' \subseteq 1..Len(todo')
  BY <1>1, <1>2, <1>3 DEF AgentOK
<1>. QED
  BY <1>1, <1>3, <1>4, <1>5, <1>6, ClaudeWrites

\* A command, its output or text.
LEMMA SayKeeps ==
  ASSUME AgentOK, NEW kind \in {"command", "output", "text"}, Say(kind)
  PROVE  AgentStep
<1>1. /\ CanWrite /\ log' = Append(log, [kind |-> kind])
      /\ UNCHANGED <<provider, running, todo, hooks>>
  BY DEF Say
<1>2. /\ Len(log) \in Nat /\ Len(todo) \in Nat /\ Len(todo) <= Len(log) + 1
  BY <1>1, NextLine DEF CanWrite, AgentOK
<1>3. [kind |-> kind] \in ClaudeLine
  BY DEF ClaudeLine
<1>4. running' \in Seq(Running) /\ todo' \in TaskList /\ Len(todo') <= Len(log) + 1
      /\ hooks' \subseteq 1..Len(todo')
  BY <1>1, <1>2 DEF AgentOK
<1>. QED
  BY <1>1, <1>3, <1>4, ClaudeWrites

\* Any line of codex's.
LEMMA CodexKeeps ==
  ASSUME AgentOK, NEW line \in CodexLines, CodexWrites(line), running' \in Seq(Running)
  PROVE  AgentStep
<1>1. /\ provider = "codex" /\ Len(log) < MaxLines /\ log' = Append(log, line)
      /\ UNCHANGED <<provider, todo, hooks>>
  BY DEF CodexWrites
<1>2. log' \in Seq(CodexLines) /\ Len(log') = Len(log) + 1 /\ Len(log') <= MaxLines
  <2>1. provider # "claude" /\ provider' = "codex"
    BY <1>1
  <2>. QED
    BY <1>1, <2>1, LogGrows
<1>3. Len(log) \in Nat /\ Len(todo) \in Nat
  BY <1>1, NextLine
<1>4. Len(todo') <= Len(log')
  BY <1>1, <1>2, <1>3 DEF AgentOK
<1>. QED
  BY <1>1, <1>2, <1>4 DEF AgentOK, AgentStep

\* A call, an output or a text of codex's.
LEMMA CodexActionsKeep ==
  ASSUME AgentOK, NEW text \in Text,
         \/ CodexCalls(text) \/ CodexReturns(text)
         \/ \E final \in BOOLEAN : CodexSays(text, final)
  PROVE  AgentStep
<1>0. Len(log) < MaxLines
  BY DEF CodexCalls, CodexReturns, CodexSays, CodexWrites
<1>1. CASE CodexCalls(text)
  <2> DEFINE line == [kind |-> "call", call |-> Len(log) + 1, text |-> text]
             made == [call |-> Len(log) + 1, kind |-> "other"]
  <2>1. CodexWrites(line) /\ running' = Append(running, made)
    BY <1>1 DEF CodexCalls
  <2>2. Len(log) + 1 \in Call
    BY <1>0, NextLine
  <2>3. line \in CodexLines /\ made \in Running
    BY <2>2 DEF CodexLines, Running, CallKind
  <2> HIDE DEF line, made
  <2>4. running' \in Seq(Running)
    BY <2>1, <2>3 DEF AgentOK
  <2>. QED
    BY <2>1, <2>3, <2>4, CodexKeeps
<1>2. CASE CodexReturns(text)
  <2> DEFINE line == [kind |-> "output", call |-> Head(running).call, text |-> text]
  <2>1. CodexWrites(line) /\ running # <<>> /\ running' = Tail(running)
    BY <1>2 DEF CodexReturns
  <2>2. Head(running).call \in Call /\ running' \in Seq(Running)
    BY <2>1, Oldest
  <2>3. line \in CodexLines
    BY <2>2 DEF CodexLines
  <2> HIDE DEF line
  <2>. QED
    BY <2>1, <2>2, <2>3, CodexKeeps
<1>3. ASSUME NEW final \in BOOLEAN, CodexSays(text, final)
      PROVE  AgentStep
  <2> DEFINE line == [kind |-> "said", text |-> text, final |-> final]
  <2>1. CodexWrites(line) /\ running' = running
    BY <1>3 DEF CodexSays
  <2>2. line \in CodexLines
    BY DEF CodexLines
  <2> HIDE DEF line
  <2>. QED
    BY <2>1, <2>2, CodexKeeps DEF AgentOK
<1>. QED
  BY <1>1, <1>2, <1>3

-----------------------------------------------------------------------------
(* What is read.                                                           *)

\* A log has a length, less than what stands for no offset.
LEMMA LogLength ==
  ASSUME AgentOK
  PROVE  Len(log) \in Nat /\ None \in Nat /\ Len(log) < None
<1>1. \A l \in Seq(ClaudeLine) : Len(l) \in Nat
  OBVIOUS
<1>2. \A l \in Seq(CodexLines) : Len(l) \in Nat
  OBVIOUS
<1>. QED
  BY <1>1, <1>2, ContentAssumption DEF AgentOK, None

\* A parse of Claude's lines, and of codex's, as folds.
LEMMA ParsedIs ==
  ASSUME NEW lines, NEW pending \in SUBSET Call
  PROVE  /\ provider = "claude" /\ lines \in Seq(ClaudeLine) =>
              /\ Parsed(lines, pending) = Folded(ParseSteps, Nothing(pending), lines)
              /\ Parsed(lines, pending) \in ClaudeParse
         /\ provider = "codex" /\ lines \in Seq(CodexLines) =>
              /\ Parsed(lines, pending)
                   = Folded(CodexSteps, [out |-> <<>>, carry |-> pending], lines)
              /\ Parsed(lines, pending) \in CodexParse
<1>1. ASSUME provider = "claude", lines \in Seq(ClaudeLine)
      PROVE  /\ Parsed(lines, pending) = Folded(ParseSteps, Nothing(pending), lines)
             /\ Parsed(lines, pending) \in ClaudeParse
  <2>1. Nothing(pending) \in ClaudeParse
    BY DEF Nothing, ClaudeParse
  <2>2. Parsed(lines, pending) = FoldLeft(ParseLine, Nothing(pending), lines)
    BY <1>1 DEF Parsed
  <2>. QED
    BY <1>1, <2>1, <2>2, ParseFolds, FoldedType
<1>2. ASSUME provider = "codex", lines \in Seq(CodexLines)
      PROVE  /\ Parsed(lines, pending)
                  = Folded(CodexSteps, [out |-> <<>>, carry |-> pending], lines)
             /\ Parsed(lines, pending) \in CodexParse
  <2> DEFINE base == [out |-> <<>>, carry |-> pending]
  <2>1. base \in CodexParse
    BY DEF CodexParse
  <2>2. Parsed(lines, pending) = FoldLeft(CodexStep, base, lines)
    BY <1>2 DEF Parsed, CodexParsed
  <2> HIDE DEF base
  <2>3. /\ Parsed(lines, pending) = Folded(CodexSteps, base, lines)
        /\ Parsed(lines, pending) \in CodexParse
    BY <1>2, <2>1, <2>2, CodexFolds, FoldedType
  <2>. QED
    BY <2>3 DEF base
<1>. QED
  BY <1>1, <1>2

\* Of messages joined to others, only one of adjacent copies is left.
LEMMA UnrepeatedConcat ==
  ASSUME NEW out \in Seq(CodexMessage), NEW ms \in Seq(CodexMessage)
  PROVE  /\ Unrepeated(out) \in Seq(CodexMessage)
         /\ Unrepeated(out \o ms) = Folded(UniqueSteps, Unrepeated(out), ms)
<1>1. /\ <<>> \in Seq(CodexMessage) /\ out \o ms \in Seq(CodexMessage)
      /\ UniqueSteps \in Folds(Seq(CodexMessage), CodexMessage)
  BY UniqueFolds
<1>2. /\ Unrepeated(out) = Folded(UniqueSteps, <<>>, out)
      /\ Unrepeated(out \o ms) = Folded(UniqueSteps, <<>>, out \o ms)
  BY <1>1, UniqueFolds DEF Unrepeated
<1>3. Folded(UniqueSteps, <<>>, out \o ms)
        = Folded(UniqueSteps, Folded(UniqueSteps, <<>>, out), ms)
  <2> DEFINE none == <<>>
             Outs == Seq(CodexMessage)
  <2>1. none \in Outs /\ UniqueSteps \in Folds(Outs, CodexMessage)
    BY <1>1
  <2> HIDE DEF none, Outs
  <2>2. Folded(UniqueSteps, none, out \o ms)
          = Folded(UniqueSteps, Folded(UniqueSteps, none, out), ms)
    BY <2>1, FoldedConcat
  <2>. QED
    BY <2>2 DEF none
<1>4. Folded(UniqueSteps, <<>>, out) \in Seq(CodexMessage)
  BY <1>1, FoldedType
<1>. QED
  BY <1>2, <1>3, <1>4

\* Claude's messages and pending calls after a batch are those of one parse.
LEMMA ClaudeBatch ==
  ASSUME provider = "claude", NEW before \in Seq(ClaudeLine),
         NEW lines \in Seq(ClaudeLine),
         lines # <<>>, Last(lines).kind # "command",
         shown \in Seq(ClaudeMessage), carry \in SUBSET Call,
         Parsed(before, {}) = [out |-> shown, carry |-> carry, command |-> FALSE]
  PROVE  Parsed(before \o lines, {})
           = [out |-> shown \o Parsed(lines, carry).out,
              carry |-> Parsed(lines, carry).carry, command |-> FALSE]
<1> DEFINE p == Nothing(carry)
<1>1. /\ p \in ClaudeParse /\ Nothing({}) \in ClaudeParse
      /\ before \o lines \in Seq(ClaudeLine)
      /\ ParseSteps \in Folds(ClaudeParse, ClaudeLine)
  <2>1. p \in ClaudeParse /\ Nothing({}) \in ClaudeParse
    BY DEF Nothing, ClaudeParse
  <2>. QED
    BY <2>1, ParseFolds
<1>2. /\ Parsed(before \o lines, {}) = Folded(ParseSteps, Nothing({}), before \o lines)
      /\ Parsed(before, {}) = Folded(ParseSteps, Nothing({}), before)
      /\ Parsed(lines, carry) = Folded(ParseSteps, p, lines)
  <2>1. {} \in SUBSET Call
    OBVIOUS
  <2>. QED
    BY <1>1, <2>1, ParsedIs
<1>3. Folded(ParseSteps, Nothing({}), before \o lines)
        = Folded(ParseSteps, Folded(ParseSteps, Nothing({}), before), lines)
  BY <1>1, FoldedConcat
<1>4. [out |-> shown, carry |-> carry, command |-> FALSE] = Prefixed(shown, p)
  <2>1. shown \o <<>> = shown
    OBVIOUS
  <2>. QED
    BY <2>1 DEF Prefixed, Nothing
<1>5. Folded(ParseSteps, Prefixed(shown, p), lines)
        = Prefixed(shown, Folded(ParseSteps, p, lines))
  BY <1>1, ParsePrefixed
<1>6. Folded(ParseSteps, p, lines).command = FALSE
  BY <1>1, AwaitsNoOutput
<1> HIDE DEF p
<1>7. Parsed(before \o lines, {}) = Prefixed(shown, Parsed(lines, carry))
  BY <1>2, <1>3, <1>4, <1>5
<1>. QED
  BY <1>2, <1>6, <1>7 DEF Prefixed

\* So are codex's, but for copies at the ends of batches.
LEMMA CodexBatch ==
  ASSUME provider = "codex", NEW before \in Seq(CodexLines),
         NEW lines \in Seq(CodexLines),
         shown \in Seq(CodexMessage), carry \in SUBSET Call,
         Parsed(before, {}) = [out |-> Unrepeated(shown), carry |-> carry]
  PROVE  Parsed(before \o lines, {})
           = [out |-> Unrepeated(shown \o Parsed(lines, carry).out),
              carry |-> Parsed(lines, carry).carry]
<1> DEFINE base == [out |-> <<>>, carry |-> {}]
           behind == [out |-> Unrepeated(shown), carry |-> carry]
           alone == Parsed(lines, carry)
           joined == Folded(CodexSteps, behind, lines)
<1>1. /\ base \in CodexParse /\ before \o lines \in Seq(CodexLines)
      /\ CodexSteps \in Folds(CodexParse, CodexLines)
  <2>1. base \in CodexParse
    BY DEF CodexParse
  <2>. QED
    BY <2>1, CodexFolds
<1>2. /\ Parsed(before \o lines, {}) = Folded(CodexSteps, base, before \o lines)
      /\ Parsed(before, {}) = Folded(CodexSteps, base, before)
      /\ alone = Folded(CodexSteps, [out |-> <<>>, carry |-> carry], lines)
      /\ alone \in CodexParse
  <2>1. {} \in SUBSET Call
    OBVIOUS
  <2>. QED
    BY <1>1, <2>1, ParsedIs
<1>3. Unrepeated(shown) \in Seq(CodexMessage) /\ alone.out \in Seq(CodexMessage)
      /\ Unrepeated(shown \o alone.out)
           = Folded(UniqueSteps, Unrepeated(shown), alone.out)
  <2>1. alone.out \in Seq(CodexMessage)
    BY <1>2 DEF CodexParse
  <2> HIDE DEF alone
  <2>. QED
    BY <2>1, UnrepeatedConcat
<1>4. behind \in CodexParse
  BY <1>3 DEF CodexParse
<1>5. Folded(CodexSteps, base, before \o lines)
        = Folded(CodexSteps, Folded(CodexSteps, base, before), lines)
  <2> HIDE DEF base
  <2>. QED
    BY <1>1, FoldedConcat
<1>6. /\ joined.carry = alone.carry
      /\ joined.out = Folded(UniqueSteps, Unrepeated(shown), alone.out)
  <2> HIDE DEF alone
  <2>. QED
    BY <1>2, <1>3, CodexJoined
<1>7. joined = [out |-> joined.out, carry |-> joined.carry]
  <2>1. joined \in CodexParse
    <3> HIDE DEF behind
    <3>. QED
      BY <1>1, <1>4, FoldedType
  <2> HIDE DEF joined
  <2>. QED
    BY <2>1 DEF CodexParse
<1> HIDE DEF joined, alone, base
<1>8. Parsed(before \o lines, {}) = joined
  BY <1>2, <1>5 DEF joined
<1>. QED
  BY <1>3, <1>6, <1>7, <1>8 DEF alone

-----------------------------------------------------------------------------
(* One lemma for each action of the gateway, and the theorems.             *)

\* The lines of the log from one place to another are of its kind.
LEMMA LinesOf ==
  ASSUME AgentOK, NEW i \in Nat, NEW j \in Nat, i <= j, j <= Len(log)
  PROVE  /\ provider = "claude" => SubSeq(log, i + 1, j) \in Seq(ClaudeLine)
         /\ provider = "codex" => SubSeq(log, i + 1, j) \in Seq(CodexLines)
<1>1. \A l \in Seq(ClaudeLine) : j <= Len(l) => SubSeq(l, i + 1, j) \in Seq(ClaudeLine)
  OBVIOUS
<1>2. \A l \in Seq(CodexLines) : j <= Len(l) => SubSeq(l, i + 1, j) \in Seq(CodexLines)
  OBVIOUS
<1>. QED
  BY <1>1, <1>2 DEF AgentOK

\* What the agent writes is read by nobody yet.
LEMMA WritingKeeps ==
  ASSUME ContentInv, AgentStep, UNCHANGED <<monitor, happened>>
  PROVE  ContentInv'
<1>1. AgentOK /\ AgentOK' /\ provider' = provider /\ provider \in {"claude", "codex"}
      /\ UNCHANGED <<offset, saved, seeding, store, carry, shown, begun, split>>
  BY DEF ContentInv, AgentStep, AgentOK, monitor, happened
<1>2. Len(log) \in Nat /\ Len(log') \in Nat /\ Len(log) <= Len(log')
  <2>1. Len(log) \in Nat
    BY <1>1, LogLength
  <2>2. CASE log' = log
    BY <2>1, <2>2
  <2>3. ASSUME NEW line, log' = Append(log, line)
        PROVE  Len(log') = Len(log) + 1
    <3>1. CASE provider = "claude"
      <4>1. log \in Seq(ClaudeLine)
        BY <1>1, <3>1 DEF AgentOK
      <4>. QED
        BY <2>3, <4>1
    <3>2. CASE provider = "codex"
      <4>1. log \in Seq(CodexLines)
        BY <1>1, <3>2 DEF AgentOK
      <4>. QED
        BY <2>3, <4>1
    <3>. QED
      BY <1>1, <3>1, <3>2
  <2>. QED
    BY <2>1, <2>2, <2>3 DEF AgentStep
<1>3. OffsetsOK'
  BY <1>1, <1>2 DEF ContentInv, OffsetsOK
<1>4. offset # None => SubSeq(log', begun + 1, offset) = SubSeq(log, begun + 1, offset)
  <2> SUFFICES ASSUME offset # None
               PROVE  SubSeq(log', begun + 1, offset) = SubSeq(log, begun + 1, offset)
    OBVIOUS
  <2>1. offset \in Nat /\ begun \in Nat /\ offset <= Len(log)
    BY <1>2 DEF ContentInv, OffsetsOK
  <2>2. CASE log' = log
    BY <2>2
  <2>3. ASSUME NEW line, log' = Append(log, line)
        PROVE  SubSeq(log', begun + 1, offset) = SubSeq(log, begun + 1, offset)
    <3>1. CASE provider = "claude"
      <4>1. log \in Seq(ClaudeLine)
        BY <1>1, <3>1 DEF AgentOK
      <4>. QED
        BY <2>1, <2>3, <4>1, SubSeqAppend
    <3>2. CASE provider = "codex"
      <4>1. log \in Seq(CodexLines)
        BY <1>1, <3>2 DEF AgentOK
      <4>. QED
        BY <2>1, <2>3, <4>1, SubSeqAppend
    <3>. QED
      BY <1>1, <3>1, <3>2
  <2>. QED
    BY <2>2, <2>3 DEF AgentStep
<1>5. ParsedOK'
  BY <1>1, <1>4 DEF ContentInv, ParsedOK, Parsed
<1>. QED
  BY <1>1, <1>3, <1>5 DEF ContentInv

\* Tracking begins, or goes on from a saved offset, with nothing read.
LEMMA NothingRead ==
  ASSUME AgentOK, NEW n \in Nat
  PROVE  LET parse == Parsed(SubSeq(log, n + 1, n), {})
         IN  /\ provider = "claude" =>
                  parse = [out |-> <<>>, carry |-> {}, command |-> FALSE]
             /\ provider = "codex" => parse = [out |-> Unrepeated(<<>>), carry |-> {}]
<1>1. SubSeq(log, n + 1, n) = <<>> /\ {} \in SUBSET Call
  <2>1. \A l \in Seq(ClaudeLine) : SubSeq(l, n + 1, n) = <<>>
    OBVIOUS
  <2>2. \A l \in Seq(CodexLines) : SubSeq(l, n + 1, n) = <<>>
    OBVIOUS
  <2>. QED
    BY <2>1, <2>2 DEF AgentOK
<1>2. <<>> \in Seq(ClaudeLine) /\ <<>> \in Seq(CodexLines) /\ <<>> \in Seq(CodexMessage)
  OBVIOUS
<1>3. Unrepeated(<<>>) = <<>>
  BY <1>2, UniqueFolds, FoldedEmpty DEF Unrepeated
<1>4. provider = "claude" => Parsed(<<>>, {}) = Nothing({})
  BY <1>1, <1>2, ParsedIs, FoldedEmpty
<1>5. provider = "codex" => Parsed(<<>>, {}) = [out |-> <<>>, carry |-> {}]
  BY <1>1, <1>2, ParsedIs, FoldedEmpty
<1>. QED
  BY <1>1, <1>3, <1>4, <1>5 DEF Nothing

\* So it does when the gateway starts again.
LEMMA StartKeeps ==
  ASSUME ContentInv, StartTracking \/ Restart
  PROVE  ContentInv'
<1>1. /\ AgentOK /\ AgentOK' /\ provider' = provider /\ log' = log
      /\ Len(log) \in Nat /\ Len(log) < None /\ None \in Nat
  BY LogLength DEF ContentInv, AgentOK, StartTracking, Restart, agent
<1>2. /\ offset' = begun' /\ offset' \in 0..Len(log) \cup {None}
      /\ saved' = saved /\ seeding' \in BOOLEAN /\ split' \in BOOLEAN
      /\ shown' = <<>> /\ carry' = {} /\ store' \in Stores \cup {Untold}
  <2>1. CASE StartTracking
    BY <1>1, <2>1 DEF ContentInv, OffsetsOK, StartTracking
  <2>2. CASE Restart
    BY <1>1, <2>2 DEF ContentInv, OffsetsOK, Restart
  <2>. QED
    BY <2>1, <2>2
<1>3. OffsetsOK'
  BY <1>1, <1>2 DEF ContentInv, OffsetsOK
<1>4. ParsedOK'
  <2>1. <<>> \in Seq(ClaudeMessage) /\ <<>> \in Seq(CodexMessage)
    OBVIOUS
  <2>2. ASSUME offset' # None
        PROVE  LET parse == Parsed(SubSeq(log, begun' + 1, offset'), {})
               IN  /\ provider = "claude" =>
                        parse = [out |-> <<>>, carry |-> {}, command |-> FALSE]
                   /\ provider = "codex" =>
                        parse = [out |-> Unrepeated(<<>>), carry |-> {}]
    <3>1. offset' \in Nat
      BY <1>1, <1>2, <2>2
    <3>. QED
      BY <1>1, <1>2, <3>1, NothingRead
  <2>. QED
    BY <1>1, <1>2, <2>1, <2>2 DEF ParsedOK, Parsed
<1>. QED
  BY <1>1, <1>2, <1>3, <1>4 DEF ContentInv

\* A list is read, marked or the offset saved: the messages stay.
LEMMA AsideKeeps ==
  ASSUME ContentInv, Seed \/ SaveOffset \/ \E id \in Id : TaskCompleted(id)
  PROVE  ContentInv'
<1>1. /\ UNCHANGED <<provider, log, running, todo, offset, carry, shown, begun, split>>
      /\ hooks' \subseteq hooks /\ seeding' \in BOOLEAN
  BY DEF ContentInv, OffsetsOK, Seed, SaveOffset, TaskCompleted, agent, happened
<1>2. AgentOK /\ AgentOK'
  BY <1>1 DEF ContentInv, AgentOK
<1>3. saved' \in 0..Len(log) \cup {None}
  BY DEF ContentInv, OffsetsOK, Seed, SaveOffset, TaskCompleted
<1>4. OffsetsOK'
  BY <1>1, <1>3 DEF ContentInv, OffsetsOK
<1>5. ParsedOK'
  BY <1>1 DEF ContentInv, ParsedOK, Parsed
<1>6. store' \in Stores \cup {Untold}
  <2>1. CASE Seed
    <3> DEFINE base == IF provider = "codex" THEN store ELSE NoTasks
    <3>1. base \in Stores \cup {Untold}
      BY NoTasksType DEF ContentInv
    <3>2. store' = Applied(base, log)
      BY <2>1 DEF Seed
    <3>3. provider # "codex" => log \in Seq(ClaudeLine)
      BY <1>2 DEF AgentOK
    <3> HIDE DEF base
    <3>. QED
      BY <3>1, <3>2, <3>3, AppliedType
  <2>2. CASE SaveOffset
    BY <2>2 DEF SaveOffset, ContentInv
  <2>3. ASSUME NEW id \in Id, TaskCompleted(id)
        PROVE  store' \in Stores \cup {Untold}
    <3>1. store' = SetStatus(store, id, "completed") /\ "completed" \in Status
      BY <2>3 DEF TaskCompleted, MarkCompleted, Status
    <3>2. CASE store \in Stores
      BY <3>1, <3>2, SetStatusType
    <3>3. CASE store = Untold
      <4>1. Untold.tasks = <<>> /\ DOMAIN <<>> = {}
        BY DEF Untold, NoTasks
      <4>. QED
        BY <3>1, <3>3, <4>1 DEF SetStatus
    <3>. QED
      BY <3>2, <3>3 DEF ContentInv
  <2>. QED
    BY <2>1, <2>2, <2>3
<1>. QED
  BY <1>1, <1>2, <1>4, <1>5, <1>6 DEF ContentInv

\* A batch more is as if it had been parsed with all before.
LEMMA BatchKeeps ==
  ASSUME ContentInv, Poll
  PROVE  ContentInv'
<1> DEFINE before == SubSeq(log, begun + 1, offset)
           lines == SubSeq(log, offset + 1, Len(log))
           all == SubSeq(log, begun + 1, Len(log))
           parsed == Parsed(lines, carry)
<1>1. /\ AgentOK
      /\ UNCHANGED <<provider, log, running, todo, hooks, saved, seeding, begun>>
      /\ offset # None /\ offset < Len(log) /\ offset' = Len(log)
      /\ store' = Applied(store, lines)
      /\ shown' = shown \o parsed.out /\ carry' = parsed.carry
      /\ split' = (split \/ Last(log).kind = "command")
  BY DEF ContentInv, Poll, agent
<1>2. /\ Len(log) \in Nat /\ Len(log) < None /\ None \in Nat
      /\ offset \in Nat /\ begun \in Nat /\ begun <= offset
  BY <1>1, LogLength DEF ContentInv, OffsetsOK
<1>3. AgentOK'
  BY <1>1 DEF AgentOK
<1>4. OffsetsOK'
  BY <1>1, <1>2 DEF ContentInv, OffsetsOK
<1>5. /\ provider = "claude" =>
           /\ before \in Seq(ClaudeLine) /\ lines \in Seq(ClaudeLine)
           /\ all = before \o lines /\ lines # <<>> /\ Last(lines) = Last(log)
      /\ provider = "codex" =>
           /\ before \in Seq(CodexLines) /\ lines \in Seq(CodexLines)
           /\ all = before \o lines
  <2>1. \A l \in Seq(ClaudeLine) : \A i \in Nat : i < Len(l) =>
          /\ SubSeq(l, i + 1, Len(l)) # <<>>
          /\ Last(SubSeq(l, i + 1, Len(l))) = Last(l)
    <3> TAKE l \in Seq(ClaudeLine), i \in Nat
    <3> HAVE i < Len(l)
    <3> DEFINE n == Len(l) - i
               rest == SubSeq(l, i + 1, Len(l))
    <3>1. Len(rest) = n /\ n \in Nat \ {0} /\ rest[n] = l[Len(l)]
      OBVIOUS
    <3> HIDE DEF rest
    <3>2. rest # <<>> /\ Last(rest) = Last(l)
      BY <3>1 DEF Last
    <3>. QED
      BY <3>2 DEF rest
  <2>2. provider = "claude" => log \in Seq(ClaudeLine)
    BY <1>1 DEF AgentOK
  <2>3. provider = "codex" => log \in Seq(CodexLines)
    BY <1>1 DEF AgentOK
  <2>4. provider = "claude" => lines # <<>> /\ Last(lines) = Last(log)
    BY <1>1, <1>2, <2>1, <2>2
  <2>5. offset <= Len(log) /\ Len(log) <= Len(log)
    BY <1>1, <1>2
  <2>6. provider = "claude" => /\ before \in Seq(ClaudeLine) /\ lines \in Seq(ClaudeLine)
                               /\ all = before \o lines
    <3> SUFFICES ASSUME provider = "claude"
                 PROVE  /\ before \in Seq(ClaudeLine) /\ lines \in Seq(ClaudeLine)
                        /\ all = before \o lines
      OBVIOUS
    <3> DEFINE end == Len(log)
    <3>1. log \in Seq(ClaudeLine) /\ end \in Nat /\ offset <= end /\ end <= Len(log)
      BY <1>2, <2>2, <2>5
    <3> HIDE DEF end
    <3>2. /\ SubSeq(log, begun + 1, offset) \in Seq(ClaudeLine)
          /\ SubSeq(log, offset + 1, end) \in Seq(ClaudeLine)
          /\ SubSeq(log, begun + 1, end)
               = SubSeq(log, begun + 1, offset) \o SubSeq(log, offset + 1, end)
      BY <1>2, <3>1, SubSeqConcat
    <3>. QED
      BY <3>2 DEF end
  <2>7. provider = "codex" => /\ before \in Seq(CodexLines) /\ lines \in Seq(CodexLines)
                              /\ all = before \o lines
    <3> SUFFICES ASSUME provider = "codex"
                 PROVE  /\ before \in Seq(CodexLines) /\ lines \in Seq(CodexLines)
                        /\ all = before \o lines
      OBVIOUS
    <3> DEFINE end == Len(log)
    <3>1. log \in Seq(CodexLines) /\ end \in Nat /\ offset <= end /\ end <= Len(log)
      BY <1>2, <2>3, <2>5
    <3> HIDE DEF end
    <3>2. /\ SubSeq(log, begun + 1, offset) \in Seq(CodexLines)
          /\ SubSeq(log, offset + 1, end) \in Seq(CodexLines)
          /\ SubSeq(log, begun + 1, end)
               = SubSeq(log, begun + 1, offset) \o SubSeq(log, offset + 1, end)
      BY <1>2, <3>1, SubSeqConcat
    <3>. QED
      BY <3>2 DEF end
  <2>. QED
    BY <2>4, <2>6, <2>7
<1>6. store' \in Stores \cup {Untold}
  <2>1. provider # "codex" => lines \in Seq(ClaudeLine)
    BY <1>1, <1>5 DEF AgentOK
  <2> HIDE DEF lines
  <2>. QED
    BY <1>1, <2>1, AppliedType DEF ContentInv
<1>7. /\ offset # None /\ carry \in SUBSET Call
      /\ provider = "claude" => shown \in Seq(ClaudeMessage)
      /\ provider = "codex" => shown \in Seq(CodexMessage)
      /\ provider = "claude" /\ ~split =>
           Parsed(before, {}) = [out |-> shown, carry |-> carry, command |-> FALSE]
      /\ provider = "codex" =>
           Parsed(before, {}) = [out |-> Unrepeated(shown), carry |-> carry]
  BY <1>1 DEF ContentInv, ParsedOK
<1> HIDE DEF before, lines, all, parsed
<1>8. /\ provider = "claude" => parsed \in ClaudeParse
      /\ provider = "codex" => parsed \in CodexParse
  BY <1>5, <1>7, ParsedIs DEF parsed
<1>9. /\ carry' \subseteq Call
      /\ provider = "claude" => shown' \in Seq(ClaudeMessage)
      /\ provider = "codex" => shown' \in Seq(CodexMessage)
  <2>1. provider = "claude" =>
          parsed.out \in Seq(ClaudeMessage) /\ parsed.carry \subseteq Call
    BY <1>8 DEF ClaudeParse
  <2>2. provider = "codex" =>
          parsed.out \in Seq(CodexMessage) /\ parsed.carry \subseteq Call
    BY <1>8 DEF CodexParse
  <2>3. provider \in {"claude", "codex"}
    BY <1>1 DEF AgentOK
  <2>4. \A s, t \in Seq(ClaudeMessage) : s \o t \in Seq(ClaudeMessage)
    OBVIOUS
  <2>5. \A s, t \in Seq(CodexMessage) : s \o t \in Seq(CodexMessage)
    OBVIOUS
  <2>. QED
    BY <1>1, <1>7, <2>1, <2>2, <2>3, <2>4, <2>5
<1>10. provider = "claude" /\ ~split' =>
         Parsed(all, {}) = [out |-> shown', carry |-> carry', command |-> FALSE]
  <2> SUFFICES ASSUME provider = "claude", ~split'
               PROVE  Parsed(all, {})
                        = [out |-> shown', carry |-> carry', command |-> FALSE]
    OBVIOUS
  <2>1. ~split /\ Last(lines).kind # "command"
    BY <1>1, <1>5
  <2>2. Parsed(before \o lines, {})
          = [out |-> shown \o Parsed(lines, carry).out,
             carry |-> Parsed(lines, carry).carry, command |-> FALSE]
    BY <1>5, <1>7, <2>1, ClaudeBatch
  <2>. QED
    BY <1>1, <1>5, <2>2 DEF parsed
<1>11. provider = "codex" =>
         Parsed(all, {}) = [out |-> Unrepeated(shown'), carry |-> carry']
  <2> SUFFICES ASSUME provider = "codex"
               PROVE  Parsed(all, {}) = [out |-> Unrepeated(shown'), carry |-> carry']
    OBVIOUS
  <2>1. Parsed(before \o lines, {})
          = [out |-> Unrepeated(shown \o Parsed(lines, carry).out),
             carry |-> Parsed(lines, carry).carry]
    BY <1>5, <1>7, CodexBatch
  <2>. QED
    BY <1>1, <1>5, <2>1 DEF parsed
<1>12. ParsedOK'
  <2>1. SubSeq(log', begun' + 1, offset') = all
    BY <1>1 DEF all
  <2>. QED
    BY <1>1, <1>9, <1>10, <1>11, <2>1 DEF ParsedOK, Parsed
<1>. QED
  BY <1>3, <1>4, <1>6, <1>12 DEF ContentInv

\* It holds of either agent before anything is written.
LEMMA InitContentInv == Init => ContentInv
<1> SUFFICES ASSUME Init
             PROVE  ContentInv
  OBVIOUS
<1>1. /\ <<>> \in Seq(ClaudeLine) /\ <<>> \in Seq(CodexLines) /\ <<>> \in Seq(Running)
      /\ <<>> \in Seq(ClaudeMessage) /\ <<>> \in Seq(CodexMessage)
      /\ Len(<<>>) = 0
  OBVIOUS
<1>2. <<>> \in TaskList
  BY DEF TaskList
<1>3. AgentOK
  BY <1>1, <1>2, ContentAssumption DEF Init, AgentOK
<1>4. OffsetsOK
  BY <1>1 DEF Init, OffsetsOK
<1>5. ParsedOK
  BY <1>1 DEF Init, ParsedOK
<1>. QED
  BY <1>3, <1>4, <1>5 DEF Init, ContentInv

\* Every action keeps it.
LEMMA NextContentInv == ContentInv /\ [Next]_vars => ContentInv'
<1> SUFFICES ASSUME ContentInv, [Next]_vars
             PROVE  ContentInv'
  OBVIOUS
<1>0. AgentOK
  BY DEF ContentInv
<1>1. ASSUME NEW kind \in {"create", "list", "other"}, MakeCall(kind)
      PROVE  ContentInv'
  BY <1>0, <1>1, MakeCallKeeps, WritingKeeps DEF MakeCall
<1>2. ASSUME NEW kind \in {"other", "update", "create", "todos"}, Return(kind)
      PROVE  ContentInv'
  BY <1>0, <1>2, ReturnKeeps, WritingKeeps DEF Return
<1>3. CASE CreateTask
  BY <1>0, <1>3, CreateTaskKeeps, WritingKeeps DEF CreateTask
<1>4. ASSUME NEW full \in BOOLEAN, ListTasks(full)
      PROVE  ContentInv'
  BY <1>0, <1>4, ListTasksKeeps, WritingKeeps DEF ListTasks
<1>5. ASSUME NEW status \in AgentStatus, WriteTodos(status)
      PROVE  ContentInv'
  BY <1>0, <1>5, WriteTodosKeeps, WritingKeeps DEF WriteTodos
<1>6. ASSUME NEW id \in Id, NEW status \in AgentStatus, UpdateTask(id, status)
      PROVE  ContentInv'
  BY <1>0, <1>6, UpdateTaskKeeps, WritingKeeps DEF UpdateTask
<1>7. ASSUME NEW kind \in {"command", "output", "text"}, Say(kind)
      PROVE  ContentInv'
  BY <1>0, <1>7, SayKeeps, WritingKeeps DEF Say
<1>8. ASSUME NEW text \in Text, CodexCalls(text) \/ CodexReturns(text)
      PROVE  ContentInv'
  <2>1. UNCHANGED <<monitor, happened>>
    BY <1>8 DEF CodexCalls, CodexReturns, CodexWrites
  <2>. QED
    BY <1>0, <1>8, <2>1, CodexActionsKeep, WritingKeeps
<1>9. ASSUME NEW text \in Text, NEW final \in BOOLEAN, CodexSays(text, final)
      PROVE  ContentInv'
  <2>1. UNCHANGED <<monitor, happened>>
    BY <1>9 DEF CodexSays, CodexWrites
  <2>. QED
    BY <1>0, <1>9, <2>1, CodexActionsKeep, WritingKeeps
<1>10. CASE StartTracking \/ Restart
  BY <1>10, StartKeeps
<1>11. CASE Poll
  BY <1>11, BatchKeeps
<1>12. CASE Seed \/ SaveOffset \/ \E id \in Id : TaskCompleted(id)
  BY <1>12, AsideKeeps
<1>13. CASE UNCHANGED vars
  <2>1. UNCHANGED <<provider, log, running, todo, hooks, monitor, happened>>
    BY <1>13 DEF vars, agent
  <2>2. AgentStep
    BY <1>0, <2>1 DEF AgentStep, AgentOK
  <2>. QED
    BY <2>1, <2>2, WritingKeeps
<1>. QED
  BY <1>1, <1>2, <1>3, <1>4, <1>5, <1>6, <1>7, <1>8, <1>9, <1>10, <1>11, <1>12, <1>13
     DEF Next

\* The invariant of what is made of a transcript, of any length, by either agent.
THEOREM ContentInvariant == Spec => []ContentInv
BY InitContentInv, NextContentInv, PTL DEF Spec

\* Every variable keeps its type: no task or message is of a call the transcript does
\* not have, and every task has a place below the next.
THEOREM ContentTypesHold == Spec => []TypeOK
<1>1. ASSUME ContentInv
      PROVE  TypeOK
  <2>1. \A i \in DOMAIN running :
          running[i].call \in Call /\ running[i].kind \in CallKind
    <3>1. \A r \in Seq(Running) : \A i \in DOMAIN r : r[i] \in Running
      OBVIOUS
    <3>2. \A r \in Running : r.call \in Call /\ r.kind \in CallKind
      BY DEF Running
    <3>. QED
      BY <1>1, <3>1, <3>2 DEF ContentInv, AgentOK
  <2>2. /\ \A i \in DOMAIN todo : todo[i].id = i /\ todo[i].status \in AgentStatus
        /\ DOMAIN todo = 1..Len(todo)
    <3>1. todo \in Seq(Todo) /\ \A i \in DOMAIN todo : todo[i].id = i
      BY <1>1 DEF ContentInv, AgentOK, TaskList
    <3>2. \A i \in DOMAIN todo : todo[i] \in Todo
      BY <3>1
    <3>. QED
      BY <3>1, <3>2 DEF Todo
  <2>3. store = Untold \/ IsStore(store)
    <3> SUFFICES ASSUME store \in Stores
                 PROVE  IsStore(store)
      BY <1>1 DEF ContentInv
    <3>1. /\ store.tasks \in [DOMAIN store.tasks -> Task]
          /\ DOMAIN store.tasks \subseteq Id
          /\ DOMAIN store.pending \subseteq Call
          /\ \A id \in DOMAIN store.tasks : store.tasks[id].order \in 1..(store.next - 1)
          /\ \A call \in DOMAIN store.pending :
               store.pending[call] \in 1..(store.next - 1)
      BY DictionaryOf DEF Stores
    <3>2. \A id \in DOMAIN store.tasks : store.tasks[id].status \in Status
      BY <3>1 DEF Task
    <3>. QED
      BY <3>1, <3>2 DEF IsStore, Values
  <2>4. \A i \in DOMAIN shown : IsMessage(shown[i])
    <3>1. \A m \in ClaudeMessage : IsMessage(m)
      BY DEF ClaudeMessage, IsMessage
    <3>2. \A m \in CodexMessage : IsMessage(m)
      BY DEF CodexMessage, IsMessage
    <3>3. \A s \in Seq(ClaudeMessage) : \A i \in DOMAIN s : s[i] \in ClaudeMessage
      OBVIOUS
    <3>4. \A s \in Seq(CodexMessage) : \A i \in DOMAIN s : s[i] \in CodexMessage
      OBVIOUS
    <3>. QED
      BY <1>1, <3>1, <3>2, <3>3, <3>4 DEF ContentInv, AgentOK, ParsedOK
  <2>. QED
    BY <1>1, <2>1, <2>2, <2>3, <2>4 DEF ContentInv, AgentOK, OffsetsOK, ParsedOK, TypeOK
<1>. QED
  BY <1>1, ContentInvariant, PTL

\* However the lines fell into batches, what is shown is what one parse of all lines
\* since tracking began gives (the pending calls carried over, transcript_parser.py:461),
\* but for a command parted from its output and for codex's copies in two batches.
THEOREM ShownOnce == Spec => []ShownAsOneParse
<1>1. ASSUME ContentInv
      PROVE  ShownAsOneParse
  <2>1. provider \in {"claude", "codex"}
    BY <1>1 DEF ContentInv, AgentOK
  <2>2. CASE provider = "claude"
    BY <1>1, <2>2 DEF ContentInv, ParsedOK, ShownAsOneParse
  <2>3. CASE provider = "codex"
    BY <1>1, <2>3 DEF ContentInv, ParsedOK, ShownAsOneParse
  <2>. QED
    BY <2>1, <2>2, <2>3
<1>. QED
  BY <1>1, ContentInvariant, PTL

-----------------------------------------------------------------------------
(* THE TASK LIST.  What the lines say.                                     *)

Written == 1..Len(log)
Created(j) == log[j].kind = "created"
Listed(j) == log[j].kind \in {"tasks", "todos"}
InProgress == 1..Len(running)

\* Calls bear the number of their line, and results name an earlier call of their kind.
CallsMatch ==
  /\ \A j \in Written :
       /\ log[j].kind = "create" => log[j].call = j
       /\ Created(j) => log[j].call \in 1..(j - 1) /\ log[log[j].call].kind = "create"
       /\ log[j].kind = "tasks" =>
            log[j].call \in 1..(j - 1) /\ log[log[j].call].kind = "list"
  /\ \A i \in InProgress :
       running[i].call \in Written /\ log[running[i].call].kind = running[i].kind

\* Results come in the order of the calls.
InTurn ==
  /\ \A i, j \in Written : i < j /\ Created(i) /\ Created(j) =>
       log[i].call < log[j].call /\ log[i].id < log[j].id
  /\ \A i, j \in InProgress : i < j => running[i].call < running[j].call
  /\ \A j \in Written, i \in InProgress : Created(j) => log[j].call < running[i].call

\* Written are about tasks of the list; each task is told of; a list has all that were.
Told ==
  /\ \A j \in Written :
       /\ log[j].kind \in {"created", "update"} => log[j].id \in 1..Len(todo)
       /\ Listed(j) => Len(log[j].tasks) <= Len(todo)
       /\ log[j].kind = "todos" => \A id \in 1..Len(todo) :
            \/ id <= Len(log[j].tasks)
            \/ \E m \in Written : m > j /\ log[m].kind = "todos" /\ id <= Len(log[m].tasks)
  /\ \A i, j \in Written : i < j /\ Created(i) /\ log[j].kind = "tasks" =>
       log[i].id <= Len(log[j].tasks)
  /\ \A id \in 1..Len(todo) : \E j \in Written :
       \/ Created(j) /\ log[j].id = id
       \/ log[j].kind = "todos" /\ id <= Len(log[j].tasks)

\* Either the task tools are used or TodoWrite.
OneKind ==
  (\E j \in Written : log[j].kind = "todos") =>
    /\ \A j \in Written : log[j].kind \notin {"create", "created", "update", "list", "tasks"}
    /\ \A i \in InProgress : running[i].kind \notin {"create", "list"}

\* After line k the status of a task is set again.
Later(id, k) ==
  \E m \in Written :
    /\ m > k
    /\ \/ log[m].kind = "update" /\ log[m].id = id
       \/ log[m].kind = "todos"

\* A status that a line gives is the task's, or set again later.
StatusTold ==
  \A j \in Written :
    /\ Created(j) => todo[log[j].id].status = "pending" \/ Later(log[j].id, j)
    /\ log[j].kind = "update" =>
         todo[log[j].id].status = log[j].status \/ Later(log[j].id, j)
    /\ Listed(j) => \A id \in 1..Len(log[j].tasks) :
         todo[id].status = log[j].tasks[id].status \/ Later(id, j)

AgentFacts == CallsMatch /\ InTurn /\ Told /\ OneKind /\ StatusTold

-----------------------------------------------------------------------------
(* A list after line k, that may have been built from more lines before.   *)

\* A call of TaskCreate whose task is still to come after line k.
Open(call, k) ==
  \/ \E j \in Written : j > k /\ Created(j) /\ log[j].call = call
  \/ \E i \in InProgress : running[i].kind = "create" /\ running[i].call = call

\* After line k the task gets a place once more, from a call that is or will be pending.
Renewed(st, k, id) ==
  \E j \in Written :
    /\ j > k /\ Created(j) /\ log[j].id = id
    /\ log[j].call > k \/ log[j].call \in DOMAIN st.pending

ListComes(k, id) == \E j \in Written : j > k /\ Listed(j) /\ id <= Len(log[j].tasks)

StatusFollows(st, k) ==
  \A id \in DOMAIN st.tasks :
    st.tasks[id].status = Normalized(todo[id].status) \/ id \in reopened \/ Later(id, k)

\* No task is missed but those cut off.
TasksFollow(st, k) ==
  /\ DOMAIN st.tasks \subseteq 1..Len(todo)
  /\ \A id \in 1..Len(todo) \ CutOff :
       id \in DOMAIN st.tasks \/ ListComes(k, id) \/ Renewed(st, k, id)

\* Only calls of TaskCreate are pending.  One that was read is until its result, or a
\* list has come since; of two the later is not forgotten first.
PendingFollow(st, k) ==
  /\ \A c \in DOMAIN st.pending : c \in Written /\ log[c].kind = "create"
  /\ \A i \in InProgress : running[i].kind = "create" /\ running[i].call <= k =>
       \/ running[i].call \in DOMAIN st.pending
       \/ \E m \in Written : m >= running[i].call /\ log[m].kind = "tasks"
  /\ \A c, d \in 1..k :
       c < d /\ c \in DOMAIN st.pending /\ Open(c, k) /\ Open(d, k) => d \in DOMAIN st.pending
  /\ \A j \in Written : Created(j) /\ log[j].call \in DOMAIN st.pending => j > k

\* The places are those of the calls: pending ones behind all tasks.
PlacesFollow(st, k) ==
  /\ \A c, d \in DOMAIN st.pending : c < d /\ d <= k => st.pending[c] < st.pending[d]
  /\ \A c \in DOMAIN st.pending, id \in DOMAIN st.tasks :
       c <= k /\ Open(c, k) => st.tasks[id].order < st.pending[c]
  /\ \A a, b \in DOMAIN st.tasks :
       a < b => st.tasks[a].order < st.tasks[b].order \/ Renewed(st, k, b)

Follows(st, k) ==
  StatusFollows(st, k) /\ TasksFollow(st, k) /\ PendingFollow(st, k) /\ PlacesFollow(st, k)

TasksInv ==
  /\ provider = "claude" => AgentFacts
  /\ seeding => offset # None
  /\ seeded =>
       /\ provider = "claude" /\ ~seeding /\ offset # None /\ store \in Stores
       /\ Follows(store, offset)

-----------------------------------------------------------------------------
(* What a line more makes of it.                                           *)

\* The call that a line makes is running after it, that a line answers was the oldest.
CallsStep(line) ==
  \/ /\ line.kind \in {"command", "output", "text"}
     /\ running' = running
  \/ /\ line.kind \in {"create", "list", "other", "update", "todos"}
     /\ line.call = Len(log) + 1
     /\ running' = Append(running, [call |-> Len(log) + 1, kind |-> line.kind])
  \/ /\ running # <<>> /\ line.call = Head(running).call
     /\ \/ line.kind = "created" /\ Head(running).kind = "create"
        \/ line.kind = "tasks" /\ Head(running).kind = "list"
        \/ line.kind = "result"
     /\ running' = Tail(running)

\* What a line makes of Claude's list.
TodoStep(line) ==
  /\ line.kind = "created" =>
       /\ line.id = Len(todo) + 1
       /\ todo' = Append(todo, [id |-> Len(todo) + 1, status |-> "pending"])
  /\ line.kind = "update" =>
       /\ line.id \in 1..Len(todo)
       /\ todo' = [todo EXCEPT ![line.id].status = line.status]
  /\ line.kind = "todos" => todo' = line.tasks /\ Len(todo') = Len(todo) + 1
  /\ line.kind = "tasks" => line.tasks = todo
  /\ line.kind \notin {"created", "update", "todos"} => todo' = todo

\* The task tools and TodoWrite are not used together.
KindStep(line) ==
  /\ line.kind \in {"create", "list", "update"} =>
       \A j \in Written : log[j].kind # "todos"
  /\ line.kind = "todos" => \A j \in Written : log[j].kind \notin {"create", "list"}

\* A line of Claude's more.
LineStep(line) ==
  /\ AgentOK /\ AgentFacts /\ AgentOK'
  /\ provider = "claude" /\ provider' = "claude" /\ line \in ClaudeLine
  /\ log' = Append(log, line)
  /\ CallsStep(line) /\ TodoStep(line) /\ KindStep(line)

\* The lines after one more: those there were, and that.
LEMMA LinesAfter ==
  ASSUME NEW line, LineStep(line)
  PROVE  /\ Len(log) \in Nat /\ Len(log') = Len(log) + 1 /\ log'[Len(log) + 1] = line
         /\ Written' = Written \cup {Len(log) + 1} /\ Len(log) + 1 \notin Written
         /\ \A j \in Written : j \in Nat \ {0} /\ j < Len(log) + 1 /\ log'[j] = log[j]
<1>1. log \in Seq(ClaudeLine) /\ log' = Append(log, line)
  BY DEF LineStep, AgentOK
<1>. QED
  BY <1>1 DEF Written

\* The running calls likewise, or those after the first.
LEMMA CallsAfter ==
  ASSUME NEW line, LineStep(line)
  PROVE  /\ Len(running) \in Nat
         /\ \/ line.kind \in {"command", "output", "text"} /\ running' = running
            \/ /\ line.kind \in {"create", "list", "other", "update", "todos"}
               /\ line.call = Len(log) + 1 /\ Len(running') = Len(running) + 1
               /\ running'[Len(running) + 1] = [call |-> Len(log) + 1, kind |-> line.kind]
               /\ \A i \in 1..Len(running) : running'[i] = running[i]
            \/ /\ Len(running) # 0 /\ line.call = running[1].call
               /\ \/ line.kind = "created" /\ running[1].kind = "create"
                  \/ line.kind = "tasks" /\ running[1].kind = "list"
                  \/ line.kind = "result"
               /\ Len(running') = Len(running) - 1
               /\ \A i \in 1..(Len(running) - 1) : running'[i] = running[i + 1]
<1>1. running \in Seq(Running) /\ CallsStep(line) /\ Len(log) \in Nat
  BY LinesAfter DEF LineStep, AgentOK
<1>2. Len(running) \in Nat
  BY <1>1
<1>3. ASSUME NEW call
      PROVE  /\ Len(Append(running, call)) = Len(running) + 1
             /\ Append(running, call)[Len(running) + 1] = call
             /\ \A i \in 1..Len(running) : Append(running, call)[i] = running[i]
  BY <1>1
<1>4. ASSUME running # <<>>
      PROVE  /\ Len(running) # 0 /\ Head(running) = running[1]
             /\ Len(Tail(running)) = Len(running) - 1
             /\ \A i \in 1..(Len(running) - 1) : Tail(running)[i] = running[i + 1]
  BY <1>1, <1>4
<1>. QED
  BY <1>1, <1>2, <1>3, <1>4 DEF CallsStep

\* Claude's list after a line: as long or longer, and its status where the line says no
\* other.
LEMMA TodoAfter ==
  ASSUME NEW line, LineStep(line)
  PROVE  /\ Len(todo) \in Nat /\ Len(todo') \in Nat /\ Len(todo) <= Len(todo')
         /\ line.kind \in {"created", "todos"} => Len(todo') = Len(todo) + 1
         /\ line.kind \notin {"created", "todos"} => Len(todo') = Len(todo)
         /\ line.kind = "created" =>
              line.id = Len(todo) + 1 /\ todo'[Len(todo) + 1].status = "pending"
         /\ line.kind = "update" =>
              line.id \in 1..Len(todo) /\ todo'[line.id].status = line.status
         /\ line.kind = "todos" => line.tasks = todo'
         /\ line.kind = "tasks" => line.tasks = todo'
         /\ \A id \in 1..Len(todo) :
              \/ todo'[id].status = todo[id].status
              \/ line.kind = "update" /\ line.id = id
              \/ line.kind = "todos"
<1>1. todo \in Seq(Todo) /\ TodoStep(line) /\ Len(todo) \in Nat
  <2>1. todo \in Seq(Todo) /\ TodoStep(line)
    BY DEF LineStep, AgentOK, TaskList
  <2>. QED
    BY <2>1
<1>2. CASE line.kind = "created"
  <2> DEFINE task == [id |-> Len(todo) + 1, status |-> "pending"]
  <2>1. todo' = Append(todo, task) /\ line.id = Len(todo) + 1
    BY <1>1, <1>2 DEF TodoStep
  <2>2. task.status = "pending"
    OBVIOUS
  <2> HIDE DEF task
  <2>3. /\ Len(todo') = Len(todo) + 1 /\ todo'[Len(todo) + 1] = task
        /\ \A id \in 1..Len(todo) : todo'[id] = todo[id]
    BY <1>1, <2>1
  <2>. QED
    BY <1>1, <1>2, <2>1, <2>2, <2>3
<1>3. CASE line.kind = "update"
  <2>1. line.id \in 1..Len(todo) /\ todo' = [todo EXCEPT ![line.id].status = line.status]
    BY <1>1, <1>3 DEF TodoStep
  <2>2. \A i \in 1..Len(todo) : todo[i] \in Todo
    BY <1>1
  <2>3. /\ DOMAIN todo' = DOMAIN todo /\ DOMAIN todo = 1..Len(todo)
        /\ \A i \in 1..Len(todo) : i # line.id => todo'[i] = todo[i]
        /\ todo'[line.id] = [todo[line.id] EXCEPT !.status = line.status]
    BY <1>1, <2>1
  <2>4. todo'[line.id].status = line.status
    BY <2>1, <2>2, <2>3 DEF Todo
  <2>5. todo' \in Seq(Todo)
    BY DEF LineStep, AgentOK, TaskList
  <2>6. Len(todo') = Len(todo)
    <3>1. DOMAIN todo' = 1..Len(todo') /\ Len(todo') \in Nat
      BY <2>5
    <3>. QED
      BY <1>1, <2>3, <3>1
  <2>. QED
    BY <1>1, <1>3, <2>1, <2>3, <2>4, <2>6
<1>4. CASE line.kind = "todos"
  BY <1>1, <1>4 DEF TodoStep
<1>5. CASE line.kind \notin {"created", "update", "todos"}
  BY <1>1, <1>5 DEF TodoStep
<1>. QED
  BY <1>2, <1>3, <1>4, <1>5

\* One lemma for each fact about the lines.
LEMMA CallsMatchKept ==
  ASSUME NEW line, LineStep(line)
  PROVE  CallsMatch'
<1> DEFINE n == Len(log)
           r == Len(running)
<1>1. /\ n \in Nat /\ log'[n + 1] = line /\ Written' = Written \cup {n + 1} /\ Written = 1..n
      /\ \A j \in Written : j \in Nat \ {0} /\ j < n + 1 /\ log'[j] = log[j]
  BY LinesAfter DEF Written
<1>2. CallsMatch /\ r \in Nat /\ InProgress = 1..r /\ InProgress' = 1..Len(running')
  BY CallsAfter DEF LineStep, AgentFacts, InProgress
<1> HIDE DEF n, r
<1>3. ASSUME NEW j \in Written'
      PROVE  /\ log'[j].kind = "create" => log'[j].call = j
             /\ Created(j)' => log'[j].call \in 1..(j - 1) /\ log'[log'[j].call].kind = "create"
             /\ log'[j].kind = "tasks" =>
                  log'[j].call \in 1..(j - 1) /\ log'[log'[j].call].kind = "list"
  <2>1. CASE j \in Written
    <3>1. \A c \in 1..(j - 1) : c \in Written
      BY <1>1, <2>1
    <3>2. /\ log'[j] = log[j]
          /\ log[j].kind = "create" => log[j].call = j
          /\ log[j].kind = "created" =>
               log[j].call \in 1..(j - 1) /\ log[log[j].call].kind = "create"
          /\ log[j].kind = "tasks" =>
               log[j].call \in 1..(j - 1) /\ log[log[j].call].kind = "list"
      BY <1>1, <1>2, <2>1 DEF CallsMatch, Created
    <3>3. log[j].call \in 1..(j - 1) => log'[log[j].call] = log[log[j].call]
      BY <1>1, <3>1
    <3>. QED
      BY <3>2, <3>3 DEF Created
  <2>2. CASE j = n + 1
    <3>1. line.kind = "create" => line.call = n + 1
      BY CallsAfter DEF n
    <3>2. line.kind = "created" => r # 0 /\ line.call = running[1].call
                                   /\ running[1].kind = "create"
      BY CallsAfter DEF r
    <3>3. line.kind = "tasks" => r # 0 /\ line.call = running[1].call
                                 /\ running[1].kind = "list"
      BY CallsAfter DEF r
    <3>4. r # 0 => running[1].call \in Written /\ log[running[1].call].kind = running[1].kind
      BY <1>2 DEF CallsMatch
    <3>5. \A c \in Written : c \in 1..((n + 1) - 1)
      BY <1>1
    <3>. QED
      BY <1>1, <2>2, <3>1, <3>2, <3>3, <3>4, <3>5 DEF Created
  <2>. QED
    BY <1>1, <2>1, <2>2
<1>4. ASSUME NEW i \in InProgress'
      PROVE  running'[i].call \in Written' /\ log'[running'[i].call].kind = running'[i].kind
  <2>1. \A k \in 1..r : running[k].call \in Written
                         /\ log[running[k].call].kind = running[k].kind
    BY <1>2 DEF CallsMatch
  <2>2. CASE running' = running
    BY <1>1, <1>2, <2>1, <2>2 DEF r
  <2>3. CASE /\ Len(running') = r + 1
             /\ running'[r + 1] = [call |-> n + 1, kind |-> line.kind]
             /\ \A k \in 1..r : running'[k] = running[k]
    <3>1. i \in 1..r \/ i = r + 1
      BY <1>2, <2>3
    <3>. QED
      BY <1>1, <2>1, <2>3, <3>1
  <2>4. CASE Len(running') = r - 1 /\ \A k \in 1..(r - 1) : running'[k] = running[k + 1]
    <3>1. i \in 1..(r - 1) /\ i + 1 \in 1..r
      BY <1>2, <2>4
    <3>2. running'[i] = running[i + 1]
      BY <2>4, <3>1
    <3>. QED
      BY <1>1, <2>1, <3>1, <3>2
  <2>. QED
    BY <2>2, <2>3, <2>4, CallsAfter DEF n, r
<1>. QED
  BY <1>3, <1>4 DEF CallsMatch, Created

\* As above.
LEMMA InTurnKept ==
  ASSUME NEW line, LineStep(line)
  PROVE  InTurn'
<1> DEFINE n == Len(log)
           r == Len(running)
<1>1. /\ n \in Nat /\ log'[n + 1] = line /\ Written' = Written \cup {n + 1} /\ Written = 1..n
      /\ \A j \in Written : j \in Nat \ {0} /\ j < n + 1 /\ log'[j] = log[j]
  BY LinesAfter DEF Written
<1>2. /\ InTurn /\ CallsMatch /\ Told
      /\ r \in Nat /\ InProgress = 1..r /\ InProgress' = 1..Len(running')
  BY CallsAfter DEF LineStep, AgentFacts, InProgress
<1>3. /\ \/ line.kind \in {"command", "output", "text"} /\ running' = running
         \/ /\ line.kind \in {"create", "list", "other", "update", "todos"}
            /\ line.call = n + 1 /\ Len(running') = r + 1
            /\ running'[r + 1] = [call |-> n + 1, kind |-> line.kind]
            /\ \A i \in 1..r : running'[i] = running[i]
         \/ /\ r # 0 /\ line.call = running[1].call
            /\ line.kind \in {"created", "tasks", "result"}
            /\ Len(running') = r - 1 /\ \A i \in 1..(r - 1) : running'[i] = running[i + 1]
      /\ line.kind = "created" => line.id = Len(todo) + 1 /\ Len(todo) \in Nat
  BY CallsAfter, TodoAfter DEF n, r
<1> HIDE DEF n, r
<1>4. \A i \in 1..r : running[i].call \in Written
  BY <1>2 DEF CallsMatch
<1>5. ASSUME NEW i \in Written', NEW j \in Written', i < j, Created(i)', Created(j)'
      PROVE  log'[i].call < log'[j].call /\ log'[i].id < log'[j].id
  <2>1. i \in Written
    BY <1>1, <1>5
  <2>2. CASE j \in Written
    BY <1>1, <1>2, <1>5, <2>1, <2>2 DEF InTurn, Created
  <2>3. CASE j = n + 1
    <3>1. line.kind = "created"
      BY <1>1, <1>5, <2>3 DEF Created
    <3>2. r # 0 /\ line.call = running[1].call /\ line.id = Len(todo) + 1 /\ Len(todo) \in Nat
      BY <1>3, <3>1
    <3>3. log[i].call < running[1].call /\ log[i].id \in 1..Len(todo)
      BY <1>1, <1>2, <1>5, <2>1, <3>2 DEF InTurn, Told, Created
    <3>. QED
      BY <1>1, <2>1, <2>3, <3>2, <3>3
  <2>. QED
    BY <1>1, <2>2, <2>3
<1>6. ASSUME NEW i \in InProgress', NEW j \in InProgress', i < j
      PROVE  running'[i].call < running'[j].call
  <2>1. CASE running' = running
    BY <1>2, <1>6, <2>1 DEF InTurn, InProgress
  <2>2. CASE /\ Len(running') = r + 1
             /\ running'[r + 1] = [call |-> n + 1, kind |-> line.kind]
             /\ \A k \in 1..r : running'[k] = running[k]
    <3>1. i \in 1..r /\ (j \in 1..r \/ j = r + 1)
      BY <1>2, <1>6, <2>2
    <3>2. CASE j \in 1..r
      BY <1>2, <1>6, <2>2, <3>1, <3>2 DEF InTurn
    <3>3. CASE j = r + 1
      <4>1. running[i].call \in Written /\ running'[i] = running[i]
        BY <1>4, <2>2, <3>1
      <4>2. running'[j].call = n + 1
        BY <2>2, <3>3
      <4>. QED
        BY <1>1, <4>1, <4>2
    <3>. QED
      BY <3>1, <3>2, <3>3
  <2>3. CASE Len(running') = r - 1 /\ \A k \in 1..(r - 1) : running'[k] = running[k + 1]
    <3>1. i \in 1..(r - 1) /\ j \in 1..(r - 1) /\ i + 1 \in 1..r /\ j + 1 \in 1..r
          /\ i + 1 < j + 1
      BY <1>2, <1>6, <2>3
    <3>2. running[i + 1].call < running[j + 1].call
      BY <1>2, <3>1 DEF InTurn
    <3>. QED
      BY <2>3, <3>1, <3>2
  <2>. QED
    BY <1>3, <2>1, <2>2, <2>3
<1>7. ASSUME NEW j \in Written', NEW i \in InProgress', Created(j)'
      PROVE  log'[j].call < running'[i].call
  <2>1. \A c \in Written : log[c].kind = "created" => \A k \in 1..r : log[c].call < running[k].call
    BY <1>2 DEF InTurn, Created
  <2>2. CASE j \in Written
    <3>1. log'[j] = log[j] /\ log[j].kind = "created"
      BY <1>1, <1>7, <2>2 DEF Created
    <3>2. CASE running' = running
      BY <1>2, <2>1, <2>2, <3>1, <3>2 DEF InProgress
    <3>3. CASE /\ Len(running') = r + 1
               /\ running'[r + 1] = [call |-> n + 1, kind |-> line.kind]
               /\ \A k \in 1..r : running'[k] = running[k]
      <4>1. i \in 1..r \/ i = r + 1
        BY <1>2, <3>3
      <4>2. log[j].call \in 1..(j - 1)
        BY <1>2, <2>2, <3>1 DEF CallsMatch, Created
      <4>3. log[j].call < n + 1
        BY <1>1, <2>2, <4>2
      <4>. QED
        BY <2>1, <2>2, <3>1, <3>3, <4>1, <4>3
    <3>4. CASE Len(running') = r - 1 /\ \A k \in 1..(r - 1) : running'[k] = running[k + 1]
      <4>1. i \in 1..(r - 1) /\ i + 1 \in 1..r
        BY <1>2, <3>4
      <4>2. running'[i] = running[i + 1]
        BY <3>4, <4>1
      <4>. QED
        BY <2>1, <2>2, <3>1, <4>1, <4>2
    <3>. QED
      BY <1>3, <3>2, <3>3, <3>4
  <2>3. CASE j = n + 1
    <3>1. /\ r # 0 /\ line.call = running[1].call /\ log'[j] = line
          /\ Len(running') = r - 1 /\ \A k \in 1..(r - 1) : running'[k] = running[k + 1]
      <4>1. line.kind = "created" /\ log'[j] = line
        BY <1>1, <1>7, <2>3 DEF Created
      <4>. QED
        BY <1>3, <4>1
    <3>2. i \in 1..(r - 1) /\ i + 1 \in 1..r /\ 1 \in 1..r /\ 1 < i + 1
      BY <1>2, <3>1
    <3>3. running'[i] = running[i + 1]
      BY <3>1, <3>2
    <3>4. running[1].call < running[i + 1].call
      BY <1>2, <3>2 DEF InTurn
    <3>. QED
      BY <3>1, <3>3, <3>4
  <2>. QED
    BY <1>1, <2>2, <2>3
<1>. QED
  BY <1>5, <1>6, <1>7 DEF InTurn, Created

\* The fields of a line of Claude's.
LEMMA LineFields ==
  ASSUME NEW line \in ClaudeLine
  PROVE  /\ line.kind \in {"created", "update"} => line.id \in Id
         /\ line.kind \in {"tasks", "todos"} =>
              line.tasks \in TaskList /\ Len(line.tasks) \in Nat /\ line.full \in BOOLEAN
         /\ line.kind \in {"create", "created", "tasks", "todos"} => line.call \in Call
         /\ line.kind = "update" => line.status \in AgentStatus
<1>1. ASSUME line.kind \in {"tasks", "todos"}
      PROVE  line.tasks \in TaskList /\ line.call \in Call /\ line.full \in BOOLEAN
  BY <1>1 DEF ClaudeLine
<1>2. ASSUME line.kind \in {"tasks", "todos"}
      PROVE  Len(line.tasks) \in Nat
  <2>1. line.tasks \in Seq(Todo)
    BY <1>1, <1>2 DEF TaskList
  <2>. QED
    BY <2>1
<1>3. ASSUME line.kind \in {"created", "update"}
      PROVE  line.id \in Id
  BY <1>3 DEF ClaudeLine
<1>4. ASSUME line.kind \in {"create", "created"}
      PROVE  line.call \in Call
  BY <1>4 DEF ClaudeLine
<1>5. ASSUME line.kind = "update"
      PROVE  line.status \in AgentStatus
  BY <1>5 DEF ClaudeLine
<1>. QED
  BY <1>1, <1>2, <1>3, <1>4, <1>5

\* The fields of the lines of the transcript.
LEMMA FieldsOf ==
  ASSUME NEW line, LineStep(line)
  PROVE  \A j \in Written :
           /\ log[j].kind \in {"created", "update"} => log[j].id \in Id
           /\ log[j].kind \in {"tasks", "todos"} =>
                log[j].tasks \in TaskList /\ Len(log[j].tasks) \in Nat
           /\ log[j].kind \in {"create", "created", "tasks", "todos"} => log[j].call \in Call
<1>1. \A j \in Written : log[j] \in ClaudeLine
  BY DEF LineStep, AgentOK, Written
<1>. QED
  BY <1>1, LineFields

\* As above.
LEMMA ToldKept ==
  ASSUME NEW line, LineStep(line)
  PROVE  Told'
<1> DEFINE n == Len(log)
           q == Len(todo)
           p == Len(todo')
<1>1. /\ n \in Nat /\ log'[n + 1] = line /\ Written' = Written \cup {n + 1}
      /\ \A j \in Written : j \in Nat \ {0} /\ j < n + 1 /\ log'[j] = log[j]
  BY LinesAfter
<1>2. /\ q \in Nat /\ p \in Nat /\ q <= p
      /\ line.kind \in {"created", "todos"} => p = q + 1
      /\ line.kind \notin {"created", "todos"} => p = q
      /\ line.kind = "created" => line.id = q + 1
      /\ line.kind = "update" => line.id \in 1..q
      /\ line.kind \in {"tasks", "todos"} => line.tasks = todo'
  BY TodoAfter
<1>3. Told /\ OneKind
  BY DEF LineStep, AgentFacts
<1>4. line.kind = "created" => \A j \in Written : log[j].kind # "todos"
  <2>1. line.kind = "created" => Len(running) \in Nat \ {0} /\ running[1].kind = "create"
    BY CallsAfter
  <2>. QED
    BY <1>3, <2>1 DEF OneKind, InProgress
<1> HIDE DEF n, p, q
<1>5. ASSUME NEW j \in Written'
      PROVE  /\ log'[j].kind \in {"created", "update"} => log'[j].id \in 1..p
             /\ Listed(j)' => Len(log'[j].tasks) <= p
             /\ log'[j].kind = "todos" => \A id \in 1..p :
                  \/ id <= Len(log'[j].tasks)
                  \/ \E m \in Written' : m > j /\ log'[m].kind = "todos"
                                         /\ id <= Len(log'[m].tasks)
  <2>1. CASE j = n + 1
    BY <1>1, <1>2, <2>1 DEF p, Listed
  <2>2. CASE j \in Written
    <3>1. /\ log[j].kind \in {"created", "update"} => log[j].id \in 1..q
          /\ log[j].kind \in {"tasks", "todos"} =>
               Len(log[j].tasks) <= q /\ Len(log[j].tasks) \in Nat
          /\ log'[j] = log[j] /\ j < n + 1
      BY <1>1, <1>3, <2>2, FieldsOf DEF Told, Listed, q
    <3>2. ASSUME log[j].kind = "todos", NEW id \in 1..p
          PROVE  \/ id <= Len(log'[j].tasks)
                 \/ \E m \in Written' : m > j /\ log'[m].kind = "todos"
                                        /\ id <= Len(log'[m].tasks)
      <4>1. CASE id \in 1..q
        <5>1. \/ id <= Len(log[j].tasks)
              \/ \E m \in Written : m > j /\ log[m].kind = "todos"
                                    /\ id <= Len(log[m].tasks)
          BY <1>3, <2>2, <3>2, <4>1 DEF Told, q
        <5>. QED
          BY <1>1, <3>1, <5>1
      <4>2. CASE id \notin 1..q
        <5>1. line.kind = "todos"
          BY <1>2, <1>4, <2>2, <3>2, <4>2
        <5>2. Len(log'[n + 1].tasks) = p
          BY <1>1, <1>2, <5>1 DEF p
        <5>. QED
          BY <1>1, <1>2, <3>1, <3>2, <5>1, <5>2
      <4>. QED
        BY <4>1, <4>2
    <3>. QED
      BY <1>2, <3>1, <3>2 DEF Listed
  <2>. QED
    BY <1>1, <2>1, <2>2
<1>6. ASSUME NEW i \in Written', NEW j \in Written', i < j, Created(i)',
             log'[j].kind = "tasks"
      PROVE  log'[i].id <= Len(log'[j].tasks)
  <2>1. i \in Written
    BY <1>1, <1>6
  <2>2. log'[i] = log[i] /\ log[i].kind = "created" /\ log[i].id \in 1..q
    BY <1>1, <1>3, <1>6, <2>1 DEF Told, Created, q
  <2>3. CASE j \in Written
    BY <1>1, <1>3, <1>6, <2>1, <2>2, <2>3 DEF Told, Created
  <2>4. CASE j = n + 1
    <3>1. Len(log'[j].tasks) = p
      BY <1>1, <1>2, <1>6, <2>4 DEF p
    <3>. QED
      BY <1>2, <2>2, <3>1
  <2>. QED
    BY <1>1, <2>3, <2>4
<1>7. ASSUME NEW id \in 1..p
      PROVE  \E j \in Written' : \/ Created(j)' /\ log'[j].id = id
                                 \/ log'[j].kind = "todos" /\ id <= Len(log'[j].tasks)
  <2>1. CASE id \in 1..q
    <3>1. PICK j \in Written : \/ Created(j) /\ log[j].id = id
                               \/ log[j].kind = "todos" /\ id <= Len(log[j].tasks)
      BY <1>3, <2>1 DEF Told, q
    <3>2. j \in Written' /\ log'[j] = log[j]
      BY <1>1
    <3>. QED
      BY <3>1, <3>2 DEF Created
  <2>2. CASE id \notin 1..q
    <3>1. id = q + 1 /\ id = p /\ line.kind \in {"created", "todos"}
      BY <1>2, <2>2
    <3>2. line.kind = "todos" => Len(log'[n + 1].tasks) = p
      BY <1>1, <1>2 DEF p
    <3>. QED
      BY <1>1, <1>2, <3>1, <3>2 DEF Created
  <2>. QED
    BY <2>1, <2>2
<1>. QED
  BY <1>5, <1>6, <1>7 DEF Told, Created, p

\* As above.
LEMMA OneKindKept ==
  ASSUME NEW line, LineStep(line)
  PROVE  OneKind'
<1> DEFINE n == Len(log)
           r == Len(running)
           ToolKinds == {"create", "created", "update", "list", "tasks"}
<1>1. /\ n \in Nat /\ log'[n + 1] = line /\ Written' = Written \cup {n + 1}
      /\ \A j \in Written : j \in Nat \ {0} /\ j < n + 1 /\ log'[j] = log[j]
  BY LinesAfter
<1>2. /\ r \in Nat /\ InProgress = 1..r /\ InProgress' = 1..Len(running')
      /\ \/ line.kind \in {"command", "output", "text"} /\ running' = running
         \/ /\ line.kind \in {"create", "list", "other", "update", "todos"}
            /\ Len(running') = r + 1 /\ running'[r + 1].kind = line.kind
            /\ \A i \in 1..r : running'[i] = running[i]
         \/ /\ r # 0
            /\ line.kind = "created" => running[1].kind = "create"
            /\ line.kind = "tasks" => running[1].kind = "list"
            /\ line.kind \in {"created", "tasks", "result"}
            /\ Len(running') = r - 1 /\ \A i \in 1..(r - 1) : running'[i] = running[i + 1]
  <2>1. [call |-> Len(log) + 1, kind |-> line.kind].kind = line.kind
    OBVIOUS
  <2>. QED
    BY <2>1, CallsAfter DEF InProgress
<1>3. CallsMatch /\ Told /\ OneKind /\ KindStep(line)
  BY DEF LineStep, AgentFacts
<1> HIDE DEF n, r
<1>4. SUFFICES ASSUME \E j \in Written' : log'[j].kind = "todos"
               PROVE  /\ \A j \in Written' : log'[j].kind \notin ToolKinds
                      /\ \A i \in InProgress' : running'[i].kind \notin {"create", "list"}
  BY DEF OneKind
<1>5. /\ \A j \in Written : log[j].kind \notin ToolKinds
      /\ \A i \in 1..r : running[i].kind \notin {"create", "list"}
  <2>1. CASE \E j \in Written : log[j].kind = "todos"
    BY <1>2, <1>3, <2>1 DEF OneKind
  <2>2. CASE \A j \in Written : log[j].kind # "todos"
    <3>1. line.kind = "todos"
      BY <1>1, <1>4, <2>2
    <3>2. \A j \in Written : log[j].kind \notin {"create", "list"}
      BY <1>3, <3>1 DEF KindStep
    <3>3. ASSUME NEW j \in Written
          PROVE  log[j].kind \notin {"created", "tasks"}
      <4>1. \A c \in 1..(j - 1) : c \in Written
        BY <1>1 DEF Written, n
      <4>. QED
        BY <1>3, <3>2, <4>1 DEF CallsMatch, Created
    <3>4. ASSUME NEW j \in Written, log[j].kind = "update"
          PROVE  FALSE
      <4>1. \E m \in Written : Created(m) \/ log[m].kind = "todos"
        BY <1>3, <3>4 DEF Told
      <4>. QED
        BY <2>2, <3>3, <4>1 DEF Created
    <3>5. \A i \in 1..r : running[i].kind \notin {"create", "list"}
      BY <1>2, <1>3, <3>2 DEF CallsMatch
    <3>. QED
      BY <3>2, <3>3, <3>4, <3>5
  <2>. QED
    BY <2>1, <2>2
<1>6. line.kind \notin ToolKinds
  <2>1. line.kind \in {"create", "list", "update"} => \A j \in Written : log[j].kind # "todos"
    BY <1>3 DEF KindStep
  <2>2. line.kind \notin {"create", "list", "update"}
    BY <1>1, <1>4, <2>1
  <2>3. r # 0 => running[1].kind \notin {"create", "list"}
    BY <1>2, <1>5
  <2>. QED
    BY <1>2, <2>2, <2>3
<1>7. ASSUME NEW i \in InProgress'
      PROVE  running'[i].kind \notin {"create", "list"}
  <2>1. CASE running' = running
    BY <1>2, <1>5, <2>1 DEF InProgress, r
  <2>2. CASE /\ Len(running') = r + 1 /\ running'[r + 1].kind = line.kind
             /\ \A k \in 1..r : running'[k] = running[k]
    <3>1. i \in 1..r \/ i = r + 1
      BY <1>2, <2>2
    <3>. QED
      BY <1>5, <1>6, <2>2, <3>1
  <2>3. CASE Len(running') = r - 1 /\ \A k \in 1..(r - 1) : running'[k] = running[k + 1]
    <3>1. i \in 1..(r - 1) /\ i + 1 \in 1..r
      BY <1>2, <2>3
    <3>2. running'[i] = running[i + 1]
      BY <2>3, <3>1
    <3>. QED
      BY <1>5, <3>1, <3>2
  <2>. QED
    BY <1>2, <2>1, <2>2, <2>3
<1>. QED
  BY <1>1, <1>5, <1>6, <1>7

\* A status set again later still is, and one that the line changes is set by it.
LEMMA LaterKept ==
  ASSUME NEW line, LineStep(line), NEW k \in Nat, k <= Len(log), NEW id \in 1..Len(todo)
  PROVE  /\ Later(id, k) => Later(id, k)'
         /\ todo'[id].status = todo[id].status \/ Later(id, k)'
<1>1. /\ Len(log) \in Nat /\ log'[Len(log) + 1] = line
      /\ Written' = Written \cup {Len(log) + 1}
      /\ \A j \in Written : j \in Nat \ {0} /\ log'[j] = log[j]
  BY LinesAfter
<1>2. Later(id, k) => Later(id, k)'
  BY <1>1 DEF Later
<1>3. \/ todo'[id].status = todo[id].status
      \/ line.kind = "update" /\ line.id = id
      \/ line.kind = "todos"
  BY TodoAfter
<1>4. Len(log) + 1 > k /\ Len(log) + 1 \in Written'
  BY <1>1
<1>. QED
  BY <1>1, <1>2, <1>3, <1>4 DEF Later

\* As above.
LEMMA StatusToldKept ==
  ASSUME NEW line, LineStep(line)
  PROVE  StatusTold'
<1> DEFINE n == Len(log)
<1>1. /\ n \in Nat /\ log'[n + 1] = line /\ Written' = Written \cup {n + 1}
      /\ \A j \in Written : j \in Nat \ {0} /\ j < n + 1 /\ log'[j] = log[j]
  BY LinesAfter
<1>2. Told /\ StatusTold /\ Len(todo) \in Nat
  BY TodoAfter DEF LineStep, AgentFacts
<1>3. ASSUME NEW j \in Written, NEW id \in 1..Len(todo)
      PROVE  /\ Later(id, j) => Later(id, j)'
             /\ todo'[id].status = todo[id].status \/ Later(id, j)'
  <2>1. j \in Nat /\ j <= Len(log)
    BY <1>1
  <2>. QED
    BY <2>1, LaterKept
<1>4. /\ line.kind = "created" => todo'[line.id].status = "pending"
      /\ line.kind = "update" => todo'[line.id].status = line.status
      /\ line.kind \in {"tasks", "todos"} => line.tasks = todo'
  BY TodoAfter
<1> HIDE DEF n
<1>5. ASSUME NEW j \in Written', Created(j)'
      PROVE  todo'[log'[j].id].status = "pending" \/ Later(log[j].id, j)'
  <2>1. CASE j = n + 1
    BY <1>1, <1>4, <1>5, <2>1 DEF Created
  <2>2. CASE j \in Written
    <3>1. /\ log'[j] = log[j] /\ log[j].id \in 1..Len(todo)
          /\ todo[log[j].id].status = "pending" \/ Later(log[j].id, j)
      BY <1>1, <1>2, <1>5, <2>2 DEF Told, StatusTold, Created
    <3>2. \A id \in 1..Len(todo) : id = log[j].id =>
            todo'[id].status = "pending" \/ Later(id, j)'
      BY <1>3, <2>2, <3>1
    <3>. QED
      BY <3>1, <3>2 DEF Later
  <2>. QED
    BY <1>1, <2>1, <2>2
<1>6. ASSUME NEW j \in Written', log'[j].kind = "update"
      PROVE  todo'[log'[j].id].status = log'[j].status \/ Later(log[j].id, j)'
  <2>1. CASE j = n + 1
    BY <1>1, <1>4, <1>6, <2>1
  <2>2. CASE j \in Written
    <3>1. /\ log'[j] = log[j] /\ log[j].id \in 1..Len(todo)
          /\ todo[log[j].id].status = log[j].status \/ Later(log[j].id, j)
      BY <1>1, <1>2, <1>6, <2>2 DEF Told, StatusTold
    <3>2. \A id \in 1..Len(todo) : id = log[j].id =>
            todo'[id].status = log[j].status \/ Later(id, j)'
      BY <1>3, <2>2, <3>1
    <3>. QED
      BY <3>1, <3>2 DEF Later
  <2>. QED
    BY <1>1, <2>1, <2>2
<1>7. ASSUME NEW j \in Written', Listed(j)', NEW id \in 1..Len(log'[j].tasks)
      PROVE  todo'[id].status = log'[j].tasks[id].status \/ Later(id, j)'
  <2>1. CASE j = n + 1
    BY <1>1, <1>4, <1>7, <2>1 DEF Listed
  <2>2. CASE j \in Written
    <3>1. log'[j] = log[j] /\ Listed(j)
      BY <1>1, <1>7, <2>2 DEF Listed
    <3>2. id \in 1..Len(todo)
      <4>1. Len(log[j].tasks) <= Len(todo) /\ Len(log[j].tasks) \in Nat
        BY <1>2, <2>2, <3>1, FieldsOf DEF Told, Listed
      <4>. QED
        BY <1>2, <1>7, <3>1, <4>1
    <3>3. todo[id].status = log[j].tasks[id].status \/ Later(id, j)
      BY <1>2, <1>7, <2>2, <3>1 DEF StatusTold
    <3>. QED
      BY <1>3, <2>2, <3>1, <3>2, <3>3
  <2>. QED
    BY <1>1, <2>1, <2>2
<1>. QED
  BY <1>5, <1>6, <1>7 DEF StatusTold, Created, Listed

\* A line that follows the rules is of Claude's kind.
LEMMA IsLineStep ==
  ASSUME AgentOK, AgentFacts, AgentStep, provider = "claude", NEW line,
         log' = Append(log, line), CallsStep(line), TodoStep(line), KindStep(line)
  PROVE  LineStep(line)
<1>1. log \in Seq(ClaudeLine) /\ log' \in Seq(ClaudeLine) /\ provider' = "claude"
  BY DEF AgentStep, AgentOK
<1>2. Len(log) \in Nat /\ Len(log') = Len(log) + 1 /\ log'[Len(log) + 1] = line
  BY <1>1
<1>3. \A j \in 1..Len(log') : log'[j] \in ClaudeLine
  BY <1>1
<1>4. line \in ClaudeLine
  BY <1>2, <1>3
<1>. QED
  BY <1>1, <1>4 DEF LineStep, AgentStep

\* No line of these kinds.
LEMMA NotUsed ==
  ASSUME AgentOK, provider = "claude", NEW kinds, ~Used(kinds)
  PROVE  \A j \in Written : log[j].kind \notin kinds
<1>1. log \in Seq(ClaudeLine)
  BY DEF AgentOK
<1>2. DOMAIN log = 1..Len(log)
  BY <1>1
<1>. QED
  BY <1>2 DEF Used, Written

\* What Claude does is a line more that follows the rules.
LEMMA MakeCallLine ==
  ASSUME AgentOK, AgentFacts, NEW kind \in {"create", "list", "other"}, MakeCall(kind)
  PROVE  \E line : LineStep(line)
<1> DEFINE line == [kind |-> kind, call |-> Len(log) + 1]
<1>1. /\ provider = "claude" /\ log' = Append(log, line) /\ todo' = todo
      /\ running' = Append(running, [call |-> Len(log) + 1, kind |-> kind])
      /\ kind # "other" => ~Used({"todos"})
  BY DEF MakeCall, CanWrite
<1>2. AgentStep
  BY MakeCallKeeps
<1>3. line.kind = kind /\ line.call = Len(log) + 1
  OBVIOUS
<1> HIDE DEF line
<1>4. CallsStep(line) /\ TodoStep(line)
  BY <1>1, <1>3 DEF CallsStep, TodoStep
<1>5. KindStep(line)
  BY <1>1, <1>3, NotUsed DEF KindStep
<1>. QED
  BY <1>1, <1>2, <1>4, <1>5, IsLineStep

\* As above.
LEMMA CreateTaskLine ==
  ASSUME AgentOK, AgentFacts, CreateTask
  PROVE  \E line : LineStep(line)
<1> DEFINE line == [kind |-> "created", call |-> Head(running).call, id |-> Len(todo) + 1]
<1>1. /\ provider = "claude" /\ log' = Append(log, line)
      /\ running # <<>> /\ Head(running).kind = "create" /\ running' = Tail(running)
      /\ todo' = Append(todo, [id |-> Len(todo) + 1, status |-> "pending"])
  BY DEF CreateTask, Answer, CanWrite
<1>2. AgentStep
  BY CreateTaskKeeps
<1>3. line.kind = "created" /\ line.call = Head(running).call /\ line.id = Len(todo) + 1
  OBVIOUS
<1> HIDE DEF line
<1>4. CallsStep(line) /\ TodoStep(line) /\ KindStep(line)
  BY <1>1, <1>3 DEF CallsStep, TodoStep, KindStep
<1>. QED
  BY <1>1, <1>2, <1>4, IsLineStep

\* As above.
LEMMA ReturnLine ==
  ASSUME AgentOK, AgentFacts, NEW kind, Return(kind)
  PROVE  \E line : LineStep(line)
<1> DEFINE line == [kind |-> "result", call |-> Head(running).call]
<1>1. /\ provider = "claude" /\ log' = Append(log, line)
      /\ running # <<>> /\ running' = Tail(running) /\ todo' = todo
  BY DEF Return, Answer, CanWrite
<1>2. AgentStep
  BY ReturnKeeps
<1>3. line.kind = "result" /\ line.call = Head(running).call
  OBVIOUS
<1> HIDE DEF line
<1>4. CallsStep(line) /\ TodoStep(line) /\ KindStep(line)
  BY <1>1, <1>3 DEF CallsStep, TodoStep, KindStep
<1>. QED
  BY <1>1, <1>2, <1>4, IsLineStep

\* As above.
LEMMA ListTasksLine ==
  ASSUME AgentOK, AgentFacts, NEW full \in BOOLEAN, ListTasks(full)
  PROVE  \E line : LineStep(line)
<1> DEFINE line == [kind |-> "tasks", call |-> Head(running).call, tasks |-> todo,
                    full |-> full]
<1>1. /\ provider = "claude" /\ log' = Append(log, line)
      /\ running # <<>> /\ Head(running).kind = "list" /\ running' = Tail(running)
      /\ todo' = todo
  BY DEF ListTasks, Answer, CanWrite
<1>2. AgentStep
  BY ListTasksKeeps
<1>3. line.kind = "tasks" /\ line.call = Head(running).call /\ line.tasks = todo
  OBVIOUS
<1> HIDE DEF line
<1>4. CallsStep(line) /\ TodoStep(line) /\ KindStep(line)
  BY <1>1, <1>3 DEF CallsStep, TodoStep, KindStep
<1>. QED
  BY <1>1, <1>2, <1>4, IsLineStep

\* As above.
LEMMA WriteTodosLine ==
  ASSUME AgentOK, AgentFacts, NEW status \in AgentStatus, WriteTodos(status)
  PROVE  \E line : LineStep(line)
<1> DEFINE rest == [i \in DOMAIN todo |->
                      IF status = "pending" THEN todo[i]
                      ELSE [todo[i] EXCEPT !.status = "completed"]]
           line == [kind |-> "todos", call |-> Len(log) + 1, tasks |-> todo',
                    full |-> FALSE]
           task == [id |-> Len(todo) + 1, status |-> status]
<1>1. /\ provider = "claude" /\ log' = Append(log, line)
      /\ running' = Append(running, [call |-> Len(log) + 1, kind |-> "todos"])
      /\ todo' = Append(rest, task)
      /\ ~Used({"create", "list"})
  BY Zenon DEF WriteTodos, CanWrite
<1>2. AgentStep
  BY WriteTodosKeeps
<1>3. line.kind = "todos" /\ line.call = Len(log) + 1 /\ line.tasks = todo'
  OBVIOUS
<1>4. Len(todo') = Len(todo) + 1
  <2>1. todo \in Seq(Todo)
    BY DEF AgentOK, TaskList
  <2>2. DOMAIN rest = 1..Len(todo) /\ rest \in Seq({rest[i] : i \in DOMAIN todo})
        /\ Len(todo) \in Nat
    BY <2>1
  <2>3. Len(rest) = Len(todo)
    BY <2>2
  <2> HIDE DEF rest, task
  <2>. QED
    BY <1>1, <2>2, <2>3
<1> HIDE DEF line, rest, task
<1>5. CallsStep(line) /\ TodoStep(line)
  BY <1>1, <1>3, <1>4 DEF CallsStep, TodoStep
<1>6. KindStep(line)
  BY <1>1, <1>3, NotUsed DEF KindStep
<1>. QED
  BY <1>1, <1>2, <1>5, <1>6, IsLineStep

\* As above.
LEMMA UpdateTaskLine ==
  ASSUME AgentOK, AgentFacts, NEW id \in Id, NEW status \in AgentStatus, UpdateTask(id, status)
  PROVE  \E line : LineStep(line)
<1> DEFINE line == [kind |-> "update", call |-> Len(log) + 1, id |-> id,
                    status |-> status]
<1>1. /\ provider = "claude" /\ log' = Append(log, line)
      /\ running' = Append(running, [call |-> Len(log) + 1, kind |-> "update"])
      /\ id <= Len(todo) /\ todo' = [todo EXCEPT ![id].status = status]
      /\ ~Used({"todos"})
  BY DEF UpdateTask, CanWrite
<1>2. AgentStep
  BY UpdateTaskKeeps
<1>3. /\ line.kind = "update" /\ line.call = Len(log) + 1
      /\ line.id = id /\ line.status = status
  OBVIOUS
<1> HIDE DEF line
<1>4. id \in 1..Len(todo)
  <2>1. todo \in Seq(Todo)
    BY DEF AgentOK, TaskList
  <2>2. Len(todo) \in Nat
    BY <2>1
  <2>. QED
    BY <1>1, <2>2 DEF Id
<1>5. CallsStep(line) /\ TodoStep(line)
  BY <1>1, <1>3, <1>4 DEF CallsStep, TodoStep
<1>6. KindStep(line)
  BY <1>1, <1>3, NotUsed DEF KindStep
<1>. QED
  BY <1>1, <1>2, <1>5, <1>6, IsLineStep

\* As above.
LEMMA SayLine ==
  ASSUME AgentOK, AgentFacts, NEW kind \in {"command", "output", "text"}, Say(kind)
  PROVE  \E line : LineStep(line)
<1> DEFINE line == [kind |-> kind]
<1>1. /\ provider = "claude" /\ log' = Append(log, line)
      /\ running' = running /\ todo' = todo
  BY DEF Say, CanWrite
<1>2. AgentStep
  BY SayKeeps
<1>3. line.kind = kind
  OBVIOUS
<1> HIDE DEF line
<1>4. CallsStep(line) /\ TodoStep(line) /\ KindStep(line)
  BY <1>1, <1>3 DEF CallsStep, TodoStep, KindStep
<1>. QED
  BY <1>1, <1>2, <1>4, IsLineStep

\* The facts about the lines hold after each.
LEMMA FactsKept ==
  ASSUME NEW line, LineStep(line)
  PROVE  AgentFacts'
BY CallsMatchKept, InTurnKept, ToldKept, OneKindKept, StatusToldKept DEF AgentFacts

-----------------------------------------------------------------------------
(* A line more, which is read by nobody yet.                               *)

\* The task of line j was cut off.
CutLine(j) ==
  /\ j \in Written /\ Created(j)
  /\ \E k \in log[j].call..j : log[k].kind = "tasks"
  /\ \A k \in j..Len(log) : log[k].kind # "tasks"

\* The tasks cut off, line by line.
LEMMA CutOffLines ==
  ASSUME AgentOK, provider = "claude"
  PROVE  \A id : id \in CutOff <=> \E j : CutLine(j) /\ log[j].id = id
<1>1. log \in Seq(ClaudeLine)
  BY DEF AgentOK
<1>2. DOMAIN log = Written
  BY <1>1 DEF Written
<1>. QED
  BY <1>2 DEF CutOff, CutLine, Created

\* They stay so until a list comes.
LEMMA CutKept ==
  ASSUME NEW line, LineStep(line), line.kind # "tasks", NEW id, id \in CutOff
  PROVE  id \in CutOff'
<1> DEFINE n == Len(log)
<1>1. /\ n \in Nat /\ Len(log') = n + 1 /\ log'[n + 1] = line
      /\ Written' = Written \cup {n + 1} /\ Written = 1..n
      /\ \A j \in Written : j \in Nat \ {0} /\ j < n + 1 /\ log'[j] = log[j]
  BY LinesAfter DEF Written
<1>2. PICK j : CutLine(j) /\ log[j].id = id
  BY CutOffLines DEF LineStep
<1>3. /\ j \in Written /\ log'[j] = log[j] /\ log[j].kind = "created"
      /\ log[j].call \in 1..(j - 1)
  BY <1>1, <1>2 DEF LineStep, AgentFacts, CallsMatch, CutLine, Created
<1> HIDE DEF n
<1>4. \E k \in log'[j].call..j : log'[k].kind = "tasks"
  <2>1. PICK k \in log[j].call..j : log[k].kind = "tasks"
    BY <1>2 DEF CutLine
  <2>2. k \in Written
    BY <1>1, <1>3, <2>1
  <2>. QED
    BY <1>1, <1>3, <2>1, <2>2
<1>5. ASSUME NEW k \in j..Len(log')
      PROVE  log'[k].kind # "tasks"
  <2>1. CASE k = n + 1
    BY <1>1, <2>1
  <2>2. CASE k # n + 1
    <3>1. k \in j..Len(log) /\ k \in Written
      BY <1>1, <1>3, <2>2 DEF n
    <3>. QED
      BY <1>1, <1>2, <3>1 DEF CutLine
  <2>. QED
    BY <2>1, <2>2
<1>6. CutLine(j)'
  BY <1>1, <1>3, <1>4, <1>5 DEF CutLine, Created
<1>7. DOMAIN log' = Written'
  <2>1. log' \in Seq(ClaudeLine)
    BY DEF LineStep, AgentOK
  <2>. QED
    BY <2>1 DEF Written
<1>. QED
  BY <1>2, <1>3, <1>6, <1>7 DEF CutLine, CutOff, Created

\* A task created while no list had come since its call is not.
LEMMA CreatedKept ==
  ASSUME NEW line, LineStep(line), line.kind = "created", line.id \notin CutOff'
  PROVE  \A m \in Written : log[m].kind = "tasks" => m < line.call
<1> DEFINE n == Len(log)
<1>1. /\ n \in Nat /\ Len(log') = n + 1 /\ log'[n + 1] = line
      /\ Written' = Written \cup {n + 1} /\ Written = 1..n
      /\ \A j \in Written : j \in Nat \ {0} /\ j < n + 1 /\ log'[j] = log[j]
  BY LinesAfter DEF Written
<1>2. SUFFICES ASSUME NEW m \in Written, log[m].kind = "tasks", ~(m < line.call)
               PROVE  FALSE
  OBVIOUS
<1>3. line.call \in Nat
  BY LineFields DEF LineStep, Call
<1>4. m \in line.call..(n + 1) /\ log'[m].kind = "tasks"
  BY <1>1, <1>2, <1>3
<1>5. \A k \in (n + 1)..Len(log') : log'[k].kind # "tasks"
  BY <1>1
<1>6. DOMAIN log' = Written'
  <2>1. log' \in Seq(ClaudeLine)
    BY DEF LineStep, AgentOK
  <2>. QED
    BY <2>1 DEF Written
<1>7. n + 1 \in Written' /\ log'[n + 1].kind = "created" /\ log'[n + 1].id = line.id
      /\ log'[n + 1].call = line.call
  BY <1>1
<1> HIDE DEF n
<1>. QED
  BY <1>4, <1>5, <1>6, <1>7 DEF CutOff

\* What was still to come after line k, does or has come.
LEMMA OpenBefore ==
  ASSUME NEW line, LineStep(line), NEW k \in Nat, k <= Len(log), NEW call \in 1..k,
         Open(call, k)'
  PROVE  Open(call, k)
<1> DEFINE n == Len(log)
           r == Len(running)
<1>1. /\ n \in Nat /\ log'[n + 1] = line /\ Written' = Written \cup {n + 1}
      /\ \A j \in Written : j \in Nat \ {0} /\ j < n + 1 /\ log'[j] = log[j]
      /\ call < n + 1
  BY LinesAfter
<1>2. /\ r \in Nat /\ InProgress = 1..r /\ InProgress' = 1..Len(running')
      /\ \/ running' = running /\ line.kind # "created"
         \/ /\ Len(running') = r + 1 /\ running'[r + 1].call = n + 1
            /\ line.kind # "created"
            /\ \A i \in 1..r : running'[i] = running[i]
         \/ /\ r # 0 /\ line.call = running[1].call
            /\ line.kind = "created" => running[1].kind = "create"
            /\ Len(running') = r - 1 /\ \A i \in 1..(r - 1) : running'[i] = running[i + 1]
  <2>1. [call |-> Len(log) + 1, kind |-> line.kind].call = Len(log) + 1
    OBVIOUS
  <2>. QED
    BY <2>1, CallsAfter DEF InProgress
<1> HIDE DEF n, r
<1>3. CASE \E j \in Written' : j > k /\ Created(j)' /\ log'[j].call = call
  <2>1. PICK j \in Written' : j > k /\ Created(j)' /\ log'[j].call = call
    BY <1>3
  <2>2. CASE j \in Written
    BY <1>1, <2>1, <2>2 DEF Open, Created
  <2>3. CASE j = n + 1
    <3>1. line.kind = "created" /\ line.call = call
      BY <1>1, <2>1, <2>3 DEF Created
    <3>2. 1 \in InProgress /\ running[1].kind = "create" /\ running[1].call = call
      BY <1>2, <3>1
    <3>. QED
      BY <3>2 DEF Open
  <2>. QED
    BY <1>1, <2>2, <2>3
<1>4. CASE \E i \in InProgress' : running'[i].kind = "create" /\ running'[i].call = call
  <2>1. PICK i \in InProgress' : running'[i].kind = "create" /\ running'[i].call = call
    BY <1>4
  <2>2. \E g \in 1..r : running'[i] = running[g]
    <3>1. CASE running' = running
      BY <1>2, <2>1, <3>1 DEF InProgress, r
    <3>2. CASE /\ Len(running') = r + 1 /\ running'[r + 1].call = n + 1
               /\ \A g \in 1..r : running'[g] = running[g]
      <4>1. i \in 1..r \/ i = r + 1
        BY <1>2, <3>2
      <4>2. i # r + 1
        BY <1>1, <2>1, <3>2
      <4>. QED
        BY <3>2, <4>1, <4>2
    <3>3. CASE Len(running') = r - 1 /\ \A g \in 1..(r - 1) : running'[g] = running[g + 1]
      <4>1. i \in 1..(r - 1) /\ i + 1 \in 1..r
        BY <1>2, <3>3
      <4>. QED
        BY <3>3, <4>1
    <3>. QED
      BY <1>2, <3>1, <3>2, <3>3
  <2>. QED
    BY <1>2, <2>1, <2>2 DEF Open
<1>. QED
  BY <1>3, <1>4 DEF Open

\* The list still follows the agent's.
LEMMA GrowthFollows ==
  ASSUME NEW line, LineStep(line), NEW k \in Nat, k <= Len(log),
         NEW st \in Stores, Follows(st, k), UNCHANGED reopened
  PROVE  Follows(st, k)'
<1> DEFINE n == Len(log)
           q == Len(todo)
           p == Len(todo')
           r == Len(running)
<1>1. /\ n \in Nat /\ log'[n + 1] = line /\ Written' = Written \cup {n + 1}
      /\ \A j \in Written : j \in Nat \ {0} /\ j < n + 1 /\ log'[j] = log[j]
      /\ n + 1 > k /\ n + 1 \in Written'
  BY LinesAfter
<1>2. /\ q \in Nat /\ p \in Nat /\ q <= p
      /\ line.kind \in {"created", "todos"} => p = q + 1
      /\ line.kind \notin {"created", "todos"} => p = q
      /\ line.kind = "created" => line.id = q + 1
      /\ line.kind \in {"tasks", "todos"} => line.tasks = todo'
  BY TodoAfter
<1>3. StatusFollows(st, k) /\ TasksFollow(st, k) /\ PendingFollow(st, k) /\ PlacesFollow(st, k)
  BY DEF Follows
<1>4. \A c \in DOMAIN st.pending : c \in Nat /\ c \in Written
  BY <1>1, <1>3 DEF PendingFollow
<1> HIDE DEF n, q, p, r
<1>5. \A id : Renewed(st, k, id) => Renewed(st, k, id)'
  BY <1>1 DEF Renewed, Created
<1>6. \A id : ListComes(k, id) => ListComes(k, id)'
  BY <1>1 DEF ListComes, Listed
<1>7. StatusFollows(st, k)'
  <2>1. \A id \in DOMAIN st.tasks : id \in 1..Len(todo)
    BY <1>3 DEF TasksFollow
  <2>2. \A id \in DOMAIN st.tasks :
          /\ Later(id, k) => Later(id, k)'
          /\ todo'[id].status = todo[id].status \/ Later(id, k)'
    BY <2>1, LaterKept
  <2>. QED
    BY <1>3, <2>2 DEF StatusFollows
<1>8. TasksFollow(st, k)'
  <2>1. DOMAIN st.tasks \subseteq 1..p
    BY <1>2, <1>3 DEF TasksFollow, q
  <2>2. ASSUME NEW id \in 1..p, id \notin CutOff'
        PROVE  id \in DOMAIN st.tasks \/ ListComes(k, id)' \/ Renewed(st, k, id)'
    <3>1. CASE line.kind \in {"tasks", "todos"}
      <4>1. log'[n + 1].kind \in {"tasks", "todos"} /\ id <= Len(log'[n + 1].tasks)
        BY <1>1, <1>2, <2>2, <3>1 DEF p
      <4>. QED
        BY <1>1, <4>1 DEF ListComes, Listed
    <3>2. CASE line.kind \notin {"tasks", "todos"} /\ id \in 1..q
      <4>1. id \notin CutOff
        BY <2>2, <3>2, CutKept
      <4>. QED
        BY <1>3, <1>5, <1>6, <3>2, <4>1 DEF TasksFollow, q
    <3>3. CASE line.kind \notin {"tasks", "todos"} /\ id \notin 1..q
      <4>1. line.kind = "created" /\ line.id = id
        BY <1>2, <2>2, <3>3
      <4>2. /\ Len(running) \in Nat \ {0} /\ running[1].kind = "create"
            /\ line.call = running[1].call
        BY <4>1, CallsAfter
      <4>3. line.call > k \/ line.call \in DOMAIN st.pending
        <5>1. \A m \in Written : log[m].kind = "tasks" => m < line.call
          BY <2>2, <4>1, CreatedKept
        <5>2. line.call \in Nat
          BY <4>1, LineFields DEF LineStep, Call
        <5>3. \/ ~(line.call <= k)
              \/ line.call \in DOMAIN st.pending
              \/ \E m \in Written : m >= line.call /\ log[m].kind = "tasks"
          BY <1>3, <4>2 DEF PendingFollow, InProgress
        <5>. QED
          BY <1>1, <5>1, <5>2, <5>3
      <4>. QED
        BY <1>1, <4>1, <4>3 DEF Renewed, Created
    <3>. QED
      BY <3>1, <3>2, <3>3
  <2>. QED
    BY <2>1, <2>2 DEF TasksFollow, p
<1>9. PendingFollow(st, k)'
  <2>1. \A c \in DOMAIN st.pending : c \in Written' /\ log'[c].kind = "create"
    BY <1>1, <1>3 DEF PendingFollow
  <2>2. ASSUME NEW i \in InProgress', running'[i].kind = "create", running'[i].call <= k
        PROVE  \/ running'[i].call \in DOMAIN st.pending
               \/ \E m \in Written' : m >= running'[i].call /\ log'[m].kind = "tasks"
    <3>1. /\ r \in Nat /\ InProgress = 1..r /\ InProgress' = 1..Len(running')
          /\ \/ running' = running
             \/ /\ Len(running') = r + 1 /\ running'[r + 1].call = n + 1
                /\ \A g \in 1..r : running'[g] = running[g]
             \/ /\ Len(running') = r - 1
                /\ \A g \in 1..(r - 1) : running'[g] = running[g + 1]
      <4>1. [call |-> Len(log) + 1, kind |-> line.kind].call = Len(log) + 1
        OBVIOUS
      <4>. QED
        BY <4>1, CallsAfter DEF InProgress, n, r
    <3>2. \E g \in 1..r : running'[i] = running[g]
      <4>1. CASE running' = running
        BY <2>2, <3>1, <4>1 DEF InProgress, r
      <4>2. CASE /\ Len(running') = r + 1 /\ running'[r + 1].call = n + 1
                 /\ \A g \in 1..r : running'[g] = running[g]
        <5>1. i \in 1..r \/ i = r + 1
          BY <3>1, <4>2
        <5>2. i # r + 1
          BY <1>1, <2>2, <4>2
        <5>. QED
          BY <4>2, <5>1, <5>2
      <4>3. CASE Len(running') = r - 1 /\ \A g \in 1..(r - 1) : running'[g] = running[g + 1]
        <5>1. i \in 1..(r - 1) /\ i + 1 \in 1..r
          BY <3>1, <4>3
        <5>. QED
          BY <4>3, <5>1
      <4>. QED
        BY <3>1, <4>1, <4>2, <4>3
    <3>3. PICK g \in InProgress : running'[i] = running[g]
      BY <3>1, <3>2
    <3>. QED
      BY <1>1, <1>3, <2>2, <3>3 DEF PendingFollow
  <2>3. ASSUME NEW c \in 1..k, NEW d \in 1..k, c < d, c \in DOMAIN st.pending,
               Open(c, k)', Open(d, k)'
        PROVE  d \in DOMAIN st.pending
    <3>1. Open(c, k) /\ Open(d, k)
      BY <2>3, OpenBefore
    <3>. QED
      BY <1>3, <2>3, <3>1 DEF PendingFollow
  <2>4. ASSUME NEW j \in Written', Created(j)', log'[j].call \in DOMAIN st.pending
        PROVE  j > k
    <3>1. CASE j \in Written
      BY <1>1, <1>3, <2>4, <3>1 DEF PendingFollow, Created
    <3>. QED
      BY <1>1, <3>1
  <2>. QED
    BY <2>1, <2>2, <2>3, <2>4 DEF PendingFollow
<1>10. PlacesFollow(st, k)'
  <2>1. ASSUME NEW c \in DOMAIN st.pending, NEW id \in DOMAIN st.tasks, c <= k, Open(c, k)'
        PROVE  st.tasks[id].order < st.pending[c]
    <3>1. c \in 1..k
      BY <1>1, <1>4, <2>1
    <3>2. Open(c, k)
      BY <2>1, <3>1, OpenBefore
    <3>. QED
      BY <1>3, <2>1, <3>2 DEF PlacesFollow
  <2>. QED
    BY <1>3, <1>5, <2>1 DEF PlacesFollow
<1>. QED
  BY <1>7, <1>8, <1>9, <1>10 DEF Follows

-----------------------------------------------------------------------------
(* A line read.  What it does to the list.                                 *)

\* TaskCreate: a place for the call, behind all others.
LEMMA CreateEffect ==
  ASSUME NEW st \in Stores, NEW line \in ClaudeLine, line.kind = "create", NEW st2,
         st2 = ApplyLine(st, line)
  PROVE  /\ st2.tasks = st.tasks
         /\ DOMAIN st2.pending = DOMAIN st.pending \cup {line.call}
         /\ \A c \in DOMAIN st.pending : c # line.call =>
              st2.pending[c] = st.pending[c] /\ st.pending[c] < st2.pending[line.call]
         /\ \A id \in DOMAIN st.tasks : st.tasks[id].order < st2.pending[line.call]
<1>1. /\ DOMAIN st = {"tasks", "pending", "next"} /\ st.next \in Nat \ {0}
      /\ \A id \in DOMAIN st.tasks : st.tasks[id].order \in 1..(st.next - 1)
      /\ \A call \in DOMAIN st.pending : st.pending[call] \in 1..(st.next - 1)
  BY DEF Stores
<1> DEFINE pending == Put(st.pending, line.call, st.next)
           next == st.next + 1
<1>2. st2 = [st EXCEPT !.pending = pending, !.next = next]
  BY DEF ApplyLine, ApplyCreate
<1>3. /\ DOMAIN pending = DOMAIN st.pending \cup {line.call}
      /\ pending[line.call] = st.next
      /\ \A c \in DOMAIN st.pending : c # line.call => pending[c] = st.pending[c]
  BY DEF Put
<1> HIDE DEF pending, next
<1>4. st2.tasks = st.tasks /\ st2.pending = pending
  BY <1>1, <1>2
<1>5. \A x \in 1..(st.next - 1) : x < st.next
  BY <1>1
<1>. QED
  BY <1>1, <1>3, <1>4, <1>5

\* Its result: the task, in the place of its call.
LEMMA CreatedEffect ==
  ASSUME NEW st \in Stores, NEW line \in ClaudeLine, line.kind = "created", NEW st2,
         st2 = ApplyLine(st, line)
  PROVE  /\ line.call \notin DOMAIN st.pending => st2 = st
         /\ line.call \in DOMAIN st.pending =>
              /\ DOMAIN st2.pending = DOMAIN st.pending \ {line.call}
              /\ \A c \in DOMAIN st2.pending : st2.pending[c] = st.pending[c]
              /\ DOMAIN st2.tasks = DOMAIN st.tasks \cup {line.id}
              /\ \A id \in DOMAIN st.tasks : id # line.id => st2.tasks[id] = st.tasks[id]
              /\ st2.tasks[line.id].status = "pending"
              /\ st2.tasks[line.id].order = st.pending[line.call]
<1>1. CASE line.call \notin DOMAIN st.pending
  BY <1>1 DEF ApplyLine, FinalizeCreate
<1>2. CASE line.call \in DOMAIN st.pending
  <2>1. DOMAIN st = {"tasks", "pending", "next"}
    BY DEF Stores
  <2> DEFINE task == [status |-> "pending", order |-> st.pending[line.call], full |-> TRUE]
             tasks == Put(st.tasks, line.id, task)
             pending == Without(st.pending, {line.call})
  <2>2. st2 = [st EXCEPT !.tasks = tasks, !.pending = pending]
    BY <1>2 DEF ApplyLine, FinalizeCreate
  <2>3. /\ DOMAIN pending = DOMAIN st.pending \ {line.call}
        /\ \A c \in DOMAIN pending : pending[c] = st.pending[c]
    BY DEF Without
  <2>4. task.status = "pending" /\ task.order = st.pending[line.call]
    OBVIOUS
  <2> HIDE DEF task
  <2>5. /\ DOMAIN tasks = DOMAIN st.tasks \cup {line.id}
        /\ \A id \in DOMAIN st.tasks : id # line.id => tasks[id] = st.tasks[id]
        /\ tasks[line.id] = task
    BY DEF Put
  <2> HIDE DEF tasks, pending
  <2>6. st2.tasks = tasks /\ st2.pending = pending
    BY <2>1, <2>2
  <2>. QED
    BY <1>2, <2>3, <2>4, <2>5, <2>6
<1>. QED
  BY <1>1, <1>2

\* A status set: of one task only, and of no other thing.
LEMMA SetStatusEffect ==
  ASSUME NEW st \in Stores, NEW id, NEW status, NEW st2, st2 = SetStatus(st, id, status)
  PROVE  /\ st2.pending = st.pending /\ DOMAIN st2.tasks = DOMAIN st.tasks
         /\ \A other \in DOMAIN st.tasks :
              /\ st2.tasks[other].order = st.tasks[other].order
              /\ other # id => st2.tasks[other].status = st.tasks[other].status
              /\ other = id => st2.tasks[other].status = status
<1>1. CASE id \notin DOMAIN st.tasks
  BY <1>1 DEF SetStatus
<1>2. CASE id \in DOMAIN st.tasks
  <2> DEFINE tasks == [st.tasks EXCEPT ![id].status = status]
  <2>1. DOMAIN st = {"tasks", "pending", "next"} /\ st.tasks \in [DOMAIN st.tasks -> Task]
    BY DictionaryOf DEF Stores
  <2>2. /\ DOMAIN tasks = DOMAIN st.tasks
        /\ tasks[id] = [st.tasks[id] EXCEPT !.status = status]
        /\ \A other \in DOMAIN st.tasks : other # id => tasks[other] = st.tasks[other]
    BY <1>2, <2>1
  <2>3. tasks[id].status = status /\ tasks[id].order = st.tasks[id].order
    BY <1>2, <2>1, <2>2 DEF Task
  <2>4. st2 = [st EXCEPT !.tasks = tasks]
    BY <1>2, <2>1 DEF SetStatus
  <2> HIDE DEF tasks
  <2>5. st2.tasks = tasks /\ st2.pending = st.pending
    BY <2>1, <2>4
  <2>. QED
    BY <2>2, <2>3, <2>5
<1>. QED
  BY <1>1, <1>2

\* A list: its tasks in its order; calls stay pending only if it says what is known.
LEMMA ListEffect ==
  ASSUME NEW st \in Stores, NEW line \in ClaudeLine, line.kind \in {"tasks", "todos"},
         NEW st2, st2 = ApplyLine(st, line)
  PROVE  /\ DOMAIN st2.tasks = 1..Len(line.tasks)
         /\ \A id \in 1..Len(line.tasks) :
              st2.tasks[id].status = Normalized(line.tasks[id].status) /\ st2.tasks[id].order = id
         /\ st2 = st \/ DOMAIN st2.pending = {}
<1> DEFINE ids == {line.tasks[i].id : i \in DOMAIN line.tasks}
           Place(id) == CHOOSE i \in DOMAIN line.tasks : line.tasks[i].id = id
           tasks == [id \in ids |-> [status |-> Normalized(line.tasks[Place(id)].status),
                                     order |-> Place(id), full |-> line.full]]
<1>1. /\ DOMAIN line.tasks = 1..Len(line.tasks)
      /\ \A i \in DOMAIN line.tasks : line.tasks[i].id = i
  <2>1. line.tasks \in Seq(Todo) /\ \A i \in DOMAIN line.tasks : line.tasks[i].id = i
    BY LineFields DEF TaskList
  <2>. QED
    BY <2>1
<1>2. st2 = IF st.tasks = tasks THEN st
            ELSE [tasks |-> tasks, pending |-> <<>>, next |-> Len(line.tasks) + 1]
  BY Zenon DEF ApplyLine, ReplaceFromTodos, ReplaceFromList
<1>3. ids = 1..Len(line.tasks)
  BY <1>1
<1>4. \A id \in 1..Len(line.tasks) : Place(id) = id
  BY <1>1
<1> HIDE DEF ids, Place
<1>5. /\ DOMAIN tasks = ids
      /\ \A id \in ids : tasks[id] = [status |-> Normalized(line.tasks[Place(id)].status),
                                      order |-> Place(id), full |-> line.full]
  OBVIOUS
<1>6. \A id \in ids : tasks[id].status = Normalized(line.tasks[Place(id)].status)
                      /\ tasks[id].order = Place(id)
  BY <1>5
<1> HIDE DEF tasks
<1>7. st2.tasks = tasks /\ (st2 = st \/ DOMAIN st2.pending = {})
  BY <1>2
<1>. QED
  BY <1>3, <1>4, <1>5, <1>6, <1>7

\* What no reading changes.
Reading == AgentOK /\ provider = "claude" /\ AgentFacts

\* Lines have places, and are of Claude's.
LEMMA WrittenLines ==
  ASSUME Reading
  PROVE  /\ Len(log) \in Nat /\ log \in Seq(ClaudeLine)
         /\ \A j \in Written : j \in Nat \ {0} /\ j <= Len(log) /\ log[j] \in ClaudeLine
         /\ \A j \in Written : Created(j) => log[j].call \in 1..(j - 1) /\ log[j].call \in Written
                                              /\ log[log[j].call].kind = "create"
<1>1. log \in Seq(ClaudeLine)
  BY DEF Reading, AgentOK
<1>2. Len(log) \in Nat /\ \A j \in Written : log[j] \in ClaudeLine
  BY <1>1 DEF Written
<1>3. \A j \in Written : \A c \in 1..(j - 1) : c \in Written
  BY <1>2 DEF Written
<1>4. \A j \in Written : Created(j) =>
        log[j].call \in 1..(j - 1) /\ log[log[j].call].kind = "create"
  BY DEF Reading, AgentFacts, CallsMatch, Created
<1>. QED
  BY <1>1, <1>2, <1>3, <1>4 DEF Written

\* What is still to come after the next line, is after this one too; what was to come
\* after this one either still is or has come with the next.
LEMMA Onward ==
  ASSUME Reading, NEW k \in Nat, k + 1 \in Written
  PROVE  /\ \A id : Later(id, k) => \/ Later(id, k + 1)
                                    \/ log[k + 1].kind = "update" /\ log[k + 1].id = id
                                    \/ log[k + 1].kind = "todos"
         /\ \A id : ListComes(k, id) => \/ ListComes(k + 1, id)
                                        \/ Listed(k + 1) /\ id <= Len(log[k + 1].tasks)
         /\ \A c : Open(c, k + 1) => Open(c, k)
         /\ \A c : Open(c, k) => c \in Written /\ log[c].kind = "create"
<1>1. \A j \in Written : j \in Nat
  BY WrittenLines
<1>2. \A j \in Written : j > k <=> j = k + 1 \/ j > k + 1
  BY <1>1
<1>3. \A j \in Written : Created(j) => log[j].call \in Written /\ log[log[j].call].kind = "create"
  BY WrittenLines
<1>4. \A i \in InProgress : running[i].call \in Written
                            /\ log[running[i].call].kind = running[i].kind
  BY DEF Reading, AgentFacts, CallsMatch
<1>5. \A id : Later(id, k) => \/ Later(id, k + 1)
                              \/ log[k + 1].kind = "update" /\ log[k + 1].id = id
                              \/ log[k + 1].kind = "todos"
  BY <1>2 DEF Later
<1>6. \A id : ListComes(k, id) => \/ ListComes(k + 1, id)
                                  \/ Listed(k + 1) /\ id <= Len(log[k + 1].tasks)
  BY <1>2 DEF ListComes
<1>7. \A c : Open(c, k + 1) => Open(c, k)
  BY <1>2 DEF Open
<1>8. \A c : Open(c, k) => c \in Written /\ log[c].kind = "create"
  BY <1>3, <1>4 DEF Open
<1>. QED
  BY <1>5, <1>6, <1>7, <1>8

\* A task that gets its place once more, does so after the next line too, unless that
\* line is its own.
LEMMA RenewedOnward ==
  ASSUME Reading, NEW k \in Nat, k + 1 \in Written, NEW st, NEW st2, NEW id,
         Renewed(st, k, id),
         log[k + 1].kind = "created" =>
           log[k + 1].id # id \/ log[k + 1].call \notin DOMAIN st.pending,
         log[k + 1].kind = "create" => k + 1 \in DOMAIN st2.pending,
         \A j \in Written : j > k + 1 /\ Created(j) /\ log[j].call \in DOMAIN st.pending =>
           log[j].call \in DOMAIN st2.pending
  PROVE  Renewed(st2, k + 1, id)
<1>1. PICK j \in Written : /\ j > k /\ Created(j) /\ log[j].id = id
                           /\ log[j].call > k \/ log[j].call \in DOMAIN st.pending
  BY DEF Renewed
<1>2. j \in Nat /\ log[j].call \in 1..(j - 1) /\ log[log[j].call].kind = "create"
  BY <1>1, WrittenLines
<1>3. j # k + 1
  <2> SUFFICES ASSUME j = k + 1
               PROVE  FALSE
    OBVIOUS
  <2>1. log[k + 1].call \notin DOMAIN st.pending
    BY <1>1 DEF Created
  <2>. QED
    BY <1>1, <1>2, <2>1
<1>4. j > k + 1
  BY <1>1, <1>2, <1>3
<1>5. log[j].call > k + 1 \/ log[j].call \in DOMAIN st2.pending
  BY <1>1, <1>2, <1>4
<1>. QED
  BY <1>1, <1>4, <1>5 DEF Renewed

-----------------------------------------------------------------------------
(* The list after a line read.                                             *)

ReadsNext(st, k) ==
  Reading /\ st \in Stores /\ k \in Nat /\ k + 1 \in Written /\ Follows(st, k)

\* What is pending has been called.
LEMMA PendingCalls ==
  ASSUME NEW st, NEW k, ReadsNext(st, k)
  PROVE  /\ \A c \in DOMAIN st.pending : c \in Nat /\ c \in Written /\ log[c].kind = "create"
         /\ \A i \in InProgress : running[i].kind = "create" =>
              /\ running[i].call \in Nat /\ running[i].call \in Written
              /\ log[running[i].call].kind = "create"
         /\ \A c : Open(c, k) => c \in Nat /\ c \in Written /\ log[c].kind = "create"
<1>1. Reading /\ PendingFollow(st, k) /\ k \in Nat /\ k + 1 \in Written
  BY DEF ReadsNext, Follows
<1>2. \A j \in Written : j \in Nat
  BY <1>1, WrittenLines
<1>3. \A c \in DOMAIN st.pending : c \in Written /\ log[c].kind = "create"
  BY <1>1 DEF PendingFollow
<1>4. \A i \in InProgress : running[i].call \in Written
                            /\ log[running[i].call].kind = running[i].kind
  BY <1>1 DEF Reading, AgentFacts, CallsMatch
<1>. QED
  BY <1>1, <1>2, <1>3, <1>4, Onward

\* A line that calls or creates nothing and is no list, or brings the result of a call
\* that is not pending: no task is missed.
LEMMA ReadAside ==
  ASSUME NEW st, NEW k, ReadsNext(st, k), NEW st2,
         st2.pending = st.pending, DOMAIN st2.tasks = DOMAIN st.tasks,
         \A id \in DOMAIN st.tasks : st2.tasks[id].order = st.tasks[id].order,
         log[k + 1].kind \notin {"create", "tasks", "todos"},
         log[k + 1].kind = "created" => log[k + 1].call \notin DOMAIN st.pending
  PROVE  TasksFollow(st2, k + 1) /\ PendingFollow(st2, k + 1) /\ PlacesFollow(st2, k + 1)
<1>1. /\ Reading /\ k \in Nat /\ k + 1 \in Written
      /\ TasksFollow(st, k) /\ PendingFollow(st, k) /\ PlacesFollow(st, k)
  BY DEF ReadsNext, Follows
<1>2. \A id : Renewed(st, k, id) => Renewed(st2, k + 1, id)
  BY <1>1, RenewedOnward
<1>3. \A id : ListComes(k, id) => ListComes(k + 1, id)
  BY <1>1, Onward DEF Listed
<1>4. \A c : Open(c, k + 1) => Open(c, k) /\ c # k + 1
  BY <1>1, Onward
<1>5. \A c : c \in Nat /\ c # k + 1 /\ c <= k + 1 => c <= k
  BY <1>1
<1>6. TasksFollow(st2, k + 1)
  BY <1>1, <1>2, <1>3 DEF TasksFollow
<1>7. PendingFollow(st2, k + 1)
  <2>1. ASSUME NEW i \in InProgress, running[i].kind = "create", running[i].call <= k + 1
        PROVE  \/ running[i].call \in DOMAIN st2.pending
               \/ \E m \in Written : m >= running[i].call /\ log[m].kind = "tasks"
    <3>1. running[i].call <= k
      BY <1>5, <2>1, PendingCalls
    <3>. QED
      BY <1>1, <2>1, <3>1 DEF PendingFollow
  <2>2. ASSUME NEW c \in 1..(k + 1), NEW d \in 1..(k + 1), c < d, c \in DOMAIN st2.pending,
               Open(c, k + 1), Open(d, k + 1)
        PROVE  d \in DOMAIN st2.pending
    <3>1. c \in 1..k /\ d \in 1..k
      BY <1>1, <1>4, <2>2
    <3>. QED
      BY <1>1, <1>4, <2>2, <3>1 DEF PendingFollow
  <2>3. ASSUME NEW j \in Written, Created(j), log[j].call \in DOMAIN st2.pending
        PROVE  j > k + 1
    <3>1. j > k /\ j \in Nat
      BY <1>1, <2>3, WrittenLines DEF PendingFollow
    <3>2. j # k + 1
      BY <2>3 DEF Created
    <3>. QED
      BY <1>1, <3>1, <3>2
  <2>. QED
    BY <1>1, <2>1, <2>2, <2>3 DEF PendingFollow
<1>8. PlacesFollow(st2, k + 1)
  <2>1. \A c \in DOMAIN st.pending : c \in Nat /\ c # k + 1
    BY PendingCalls
  <2>2. ASSUME NEW c \in DOMAIN st2.pending, NEW d \in DOMAIN st2.pending, c < d, d <= k + 1
        PROVE  st2.pending[c] < st2.pending[d]
    <3>1. d <= k
      BY <1>5, <2>1, <2>2
    <3>. QED
      BY <1>1, <2>2, <3>1 DEF PlacesFollow
  <2>3. ASSUME NEW c \in DOMAIN st2.pending, NEW id \in DOMAIN st2.tasks,
               c <= k + 1, Open(c, k + 1)
        PROVE  st2.tasks[id].order < st2.pending[c]
    <3>1. c <= k /\ Open(c, k)
      BY <1>4, <1>5, <2>1, <2>3
    <3>. QED
      BY <1>1, <2>3, <3>1 DEF PlacesFollow
  <2>4. ASSUME NEW a \in DOMAIN st2.tasks, NEW b \in DOMAIN st2.tasks, a < b
        PROVE  st2.tasks[a].order < st2.tasks[b].order \/ Renewed(st2, k + 1, b)
    BY <1>1, <1>2, <2>4 DEF PlacesFollow
  <2>. QED
    BY <2>2, <2>3, <2>4 DEF PlacesFollow
<1>. QED
  BY <1>6, <1>7, <1>8

\* A line that tells of nothing.
LEMMA ReadOther ==
  ASSUME NEW st, NEW k, ReadsNext(st, k),
         log[k + 1].kind \notin {"create", "created", "update", "tasks", "todos"}
  PROVE  Follows(ApplyLine(st, log[k + 1]), k + 1)
<1>1. ApplyLine(st, log[k + 1]) = st
  BY DEF ApplyLine
<1>2. Reading /\ k \in Nat /\ k + 1 \in Written /\ StatusFollows(st, k)
  BY DEF ReadsNext, Follows
<1>3. StatusFollows(st, k + 1)
  BY <1>2, Onward DEF StatusFollows
<1>. QED
  BY <1>1, <1>3, ReadAside DEF Follows

\* TaskUpdate: the status, if the task is known.
LEMMA ReadUpdate ==
  ASSUME NEW st, NEW k, ReadsNext(st, k), log[k + 1].kind = "update"
  PROVE  Follows(ApplyLine(st, log[k + 1]), k + 1)
<1> DEFINE line == log[k + 1]
           st2 == ApplyLine(st, line)
<1>1. /\ Reading /\ k \in Nat /\ k + 1 \in Written /\ StatusFollows(st, k)
      /\ st \in Stores
  BY DEF ReadsNext, Follows
<1>2. st2 = SetStatus(st, line.id, Normalized(line.status))
  BY DEF ApplyLine
<1> HIDE DEF st2
<1>3. /\ st2.pending = st.pending /\ DOMAIN st2.tasks = DOMAIN st.tasks
      /\ \A other \in DOMAIN st.tasks :
           /\ st2.tasks[other].order = st.tasks[other].order
           /\ other # line.id => st2.tasks[other].status = st.tasks[other].status
           /\ other = line.id => st2.tasks[other].status = Normalized(line.status)
  BY <1>1, <1>2, SetStatusEffect
<1>4. todo[line.id].status = line.status \/ Later(line.id, k + 1)
  BY <1>1 DEF Reading, AgentFacts, StatusTold
<1>5. StatusFollows(st2, k + 1)
  <2>1. ASSUME NEW id \in DOMAIN st.tasks, id # line.id
        PROVE  st2.tasks[id].status = Normalized(todo[id].status) \/ id \in reopened \/ Later(id, k + 1)
    <3>1. st.tasks[id].status = Normalized(todo[id].status) \/ id \in reopened \/ Later(id, k)
      BY <1>1 DEF StatusFollows
    <3>2. Later(id, k) => Later(id, k + 1)
      BY <1>1, <2>1, Onward
    <3>. QED
      BY <1>3, <2>1, <3>1, <3>2
  <2>. QED
    BY <1>3, <1>4, <2>1 DEF StatusFollows
<1>6. TasksFollow(st2, k + 1) /\ PendingFollow(st2, k + 1) /\ PlacesFollow(st2, k + 1)
  BY <1>3, ReadAside
<1>. QED
  BY <1>5, <1>6 DEF Follows, st2

\* TaskCreate: a place behind all others.
LEMMA ReadCreate ==
  ASSUME NEW st, NEW k, ReadsNext(st, k), log[k + 1].kind = "create"
  PROVE  Follows(ApplyLine(st, log[k + 1]), k + 1)
<1> DEFINE line == log[k + 1]
           st2 == ApplyLine(st, line)
<1>1. /\ Reading /\ k \in Nat /\ k + 1 \in Written /\ st \in Stores
      /\ StatusFollows(st, k) /\ TasksFollow(st, k) /\ PendingFollow(st, k)
      /\ PlacesFollow(st, k)
  BY DEF ReadsNext, Follows
<1>2. line \in ClaudeLine /\ line.call = k + 1
  BY <1>1, WrittenLines DEF Reading, AgentFacts, CallsMatch
<1>3. /\ st2.tasks = st.tasks
      /\ DOMAIN st2.pending = DOMAIN st.pending \cup {k + 1}
      /\ \A c \in DOMAIN st.pending : c # k + 1 =>
           st2.pending[c] = st.pending[c] /\ st.pending[c] < st2.pending[k + 1]
      /\ \A id \in DOMAIN st.tasks : st.tasks[id].order < st2.pending[k + 1]
  BY <1>1, <1>2, CreateEffect
<1> HIDE DEF st2
<1>4. \A id : Renewed(st, k, id) => Renewed(st2, k + 1, id)
  BY <1>1, <1>3, RenewedOnward
<1>5. \A id : ListComes(k, id) => ListComes(k + 1, id)
  BY <1>1, Onward DEF Listed
<1>6. \A c : Open(c, k + 1) => Open(c, k)
  BY <1>1, Onward
<1>7. \A c : c \in Nat /\ c # k + 1 /\ c <= k + 1 => c <= k
  BY <1>1
<1>8. StatusFollows(st2, k + 1)
  <2>1. \A id : Later(id, k) => Later(id, k + 1)
    BY <1>1, Onward
  <2>. QED
    BY <1>1, <1>3, <2>1 DEF StatusFollows
<1>9. TasksFollow(st2, k + 1)
  BY <1>1, <1>3, <1>4, <1>5 DEF TasksFollow
<1>10. PendingFollow(st2, k + 1)
  <2>0. \A c \in DOMAIN st2.pending : c \in Written /\ log[c].kind = "create"
    BY <1>1, <1>3 DEF PendingFollow
  <2>1. ASSUME NEW i \in InProgress, running[i].kind = "create", running[i].call <= k + 1
        PROVE  \/ running[i].call \in DOMAIN st2.pending
               \/ \E m \in Written : m >= running[i].call /\ log[m].kind = "tasks"
    <3>1. running[i].call <= k \/ running[i].call = k + 1
      BY <1>7, <2>1, PendingCalls
    <3>. QED
      BY <1>1, <1>3, <2>1, <3>1 DEF PendingFollow
  <2>2. ASSUME NEW c \in 1..(k + 1), NEW d \in 1..(k + 1), c < d, c \in DOMAIN st2.pending,
               Open(c, k + 1), Open(d, k + 1)
        PROVE  d \in DOMAIN st2.pending
    <3>1. CASE d = k + 1
      BY <1>3, <3>1
    <3>2. CASE d # k + 1
      <4>1. c \in 1..k /\ d \in 1..k /\ c # k + 1
        BY <1>1, <2>2, <3>2
      <4>. QED
        BY <1>1, <1>3, <1>6, <2>2, <4>1 DEF PendingFollow
    <3>. QED
      BY <3>1, <3>2
  <2>3. ASSUME NEW j \in Written, Created(j), log[j].call \in DOMAIN st2.pending
        PROVE  j > k + 1
    <3>1. j \in Nat /\ log[j].call \in 1..(j - 1)
      BY <1>1, <2>3, WrittenLines
    <3>2. CASE log[j].call = k + 1
      BY <1>1, <3>1, <3>2
    <3>3. CASE log[j].call \in DOMAIN st.pending
      <4>1. j > k /\ j # k + 1
        BY <1>1, <2>3, <3>3 DEF PendingFollow, Created
      <4>. QED
        BY <1>1, <3>1, <4>1
    <3>. QED
      BY <1>3, <2>3, <3>2, <3>3
  <2>. QED
    BY <2>0, <2>1, <2>2, <2>3 DEF PendingFollow
<1>11. PlacesFollow(st2, k + 1)
  <2>1. \A c \in DOMAIN st.pending : c \in Nat
    BY PendingCalls
  <2>2. ASSUME NEW c \in DOMAIN st2.pending, NEW d \in DOMAIN st2.pending, c < d, d <= k + 1
        PROVE  st2.pending[c] < st2.pending[d]
    <3>1. c \in DOMAIN st.pending /\ c # k + 1
      <4>1. c # k + 1
        BY <1>1, <1>3, <2>1, <2>2
      <4>. QED
        BY <1>3, <4>1
    <3>2. CASE d = k + 1
      BY <1>3, <3>1, <3>2
    <3>3. CASE d # k + 1
      <4>1. d \in DOMAIN st.pending /\ d <= k
        BY <1>3, <1>7, <2>1, <2>2, <3>3
      <4>2. st.pending[c] < st.pending[d]
        BY <1>1, <2>2, <3>1, <4>1 DEF PlacesFollow
      <4>. QED
        BY <1>3, <3>1, <3>3, <4>1, <4>2
    <3>. QED
      BY <3>2, <3>3
  <2>3. ASSUME NEW c \in DOMAIN st2.pending, NEW id \in DOMAIN st2.tasks,
               c <= k + 1, Open(c, k + 1)
        PROVE  st2.tasks[id].order < st2.pending[c]
    <3>1. CASE c = k + 1
      BY <1>3, <3>1
    <3>2. CASE c # k + 1
      <4>1. c \in DOMAIN st.pending /\ c <= k /\ Open(c, k)
        BY <1>3, <1>6, <1>7, <2>1, <2>3, <3>2
      <4>2. st.tasks[id].order < st.pending[c]
        BY <1>1, <1>3, <4>1 DEF PlacesFollow
      <4>. QED
        BY <1>3, <3>2, <4>1, <4>2
    <3>. QED
      BY <3>1, <3>2
  <2>4. ASSUME NEW a \in DOMAIN st2.tasks, NEW b \in DOMAIN st2.tasks, a < b
        PROVE  st2.tasks[a].order < st2.tasks[b].order \/ Renewed(st2, k + 1, b)
    BY <1>1, <1>3, <1>4, <2>4 DEF PlacesFollow
  <2>. QED
    BY <2>2, <2>3, <2>4 DEF PlacesFollow
<1>. QED
  BY <1>8, <1>9, <1>10, <1>11 DEF Follows, st2

\* The result of TaskCreate, of a call that is pending: the task in its place.
LEMMA ReadCreated ==
  ASSUME NEW st, NEW k, ReadsNext(st, k), log[k + 1].kind = "created",
         log[k + 1].call \in DOMAIN st.pending
  PROVE  Follows(ApplyLine(st, log[k + 1]), k + 1)
<1> DEFINE line == log[k + 1]
           st2 == ApplyLine(st, line)
           new == line.id
           old == line.call
<1>1. /\ Reading /\ k \in Nat /\ k + 1 \in Written /\ st \in Stores
      /\ StatusFollows(st, k) /\ TasksFollow(st, k) /\ PendingFollow(st, k)
      /\ PlacesFollow(st, k) /\ InTurn /\ Told /\ OneKind /\ StatusTold
  BY DEF ReadsNext, Follows, Reading, AgentFacts
<1>2. line \in ClaudeLine /\ Created(k + 1) /\ old \in 1..k /\ log[old].kind = "create"
      /\ old \in DOMAIN st.pending
  <2>1. old \in 1..((k + 1) - 1) /\ (k + 1) - 1 = k
    BY <1>1, WrittenLines DEF Created
  <2>. QED
    BY <1>1, <2>1, WrittenLines DEF Created
<1>3. /\ DOMAIN st2.pending = DOMAIN st.pending \ {old}
      /\ \A c \in DOMAIN st2.pending : st2.pending[c] = st.pending[c]
      /\ DOMAIN st2.tasks = DOMAIN st.tasks \cup {new}
      /\ \A id \in DOMAIN st.tasks : id # new => st2.tasks[id] = st.tasks[id]
      /\ st2.tasks[new].status = "pending"
      /\ st2.tasks[new].order = st.pending[old]
  BY <1>1, <1>2, CreatedEffect
<1>4. /\ \A j \in Written : j \in Nat
      /\ \A j \in Written : j > k + 1 /\ Created(j) => old < log[j].call /\ log[j].call \in Nat
                                                       /\ new < log[j].id
      /\ \A i \in InProgress : old < running[i].call
  <2>1. \A j \in Written : j \in Nat /\ (Created(j) => log[j].call \in 1..(j - 1))
    BY <1>1, WrittenLines
  <2>. QED
    BY <1>1, <1>2, <2>1 DEF InTurn
<1>5. new \in 1..Len(todo)
  BY <1>1 DEF Told
<1>6. todo[new].status = "pending" \/ Later(new, k + 1)
  BY <1>1, <1>2 DEF StatusTold
<1> HIDE DEF st2, new, old
<1>7. \A id : id # new /\ Renewed(st, k, id) => Renewed(st2, k + 1, id)
  <2>1. \A j \in Written : j > k + 1 /\ Created(j) /\ log[j].call \in DOMAIN st.pending =>
          log[j].call \in DOMAIN st2.pending
    BY <1>2, <1>3, <1>4
  <2>. QED
    BY <1>1, <2>1, RenewedOnward DEF new
<1>8. \A id : ListComes(k, id) => ListComes(k + 1, id)
  BY <1>1, Onward DEF Listed
<1>9. \A c : Open(c, k + 1) => Open(c, k) /\ c # k + 1 /\ old < c /\ c \in Nat
  <2>1. \A c : Open(c, k + 1) => Open(c, k) /\ c # k + 1 /\ c \in Nat
    BY <1>1, Onward, PendingCalls
  <2>2. \A c : Open(c, k + 1) => old < c
    BY <1>4 DEF Open
  <2>. QED
    BY <2>1, <2>2
<1>10. Open(old, k)
  BY <1>1, <1>2 DEF Open, old
<1>11. \A c : c \in Nat /\ c # k + 1 /\ c <= k + 1 => c <= k
  BY <1>1
<1>12. StatusFollows(st2, k + 1)
  <2>1. \A id : Later(id, k) => Later(id, k + 1)
    BY <1>1, Onward
  <2>2. \A id \in DOMAIN st.tasks : id # new =>
          st2.tasks[id].status = Normalized(todo[id].status) \/ id \in reopened \/ Later(id, k + 1)
    BY <1>1, <1>3, <2>1 DEF StatusFollows
  <2>3. Normalized(todo[new].status) = "pending" \/ Later(new, k + 1)
    BY <1>6, NormalizedType
  <2>. QED
    BY <1>3, <2>2, <2>3 DEF StatusFollows
<1>13. TasksFollow(st2, k + 1)
  <2>1. DOMAIN st2.tasks \subseteq 1..Len(todo)
    BY <1>1, <1>3, <1>5 DEF TasksFollow
  <2>. QED
    BY <1>1, <1>3, <1>7, <1>8, <2>1 DEF TasksFollow
<1>14. PendingFollow(st2, k + 1)
  <2>0. \A c \in DOMAIN st2.pending : c \in Written /\ log[c].kind = "create"
    BY <1>1, <1>3 DEF PendingFollow
  <2>1. ASSUME NEW i \in InProgress, running[i].kind = "create", running[i].call <= k + 1
        PROVE  \/ running[i].call \in DOMAIN st2.pending
               \/ \E m \in Written : m >= running[i].call /\ log[m].kind = "tasks"
    <3>1. running[i].call <= k /\ running[i].call \in Nat
      BY <1>2, <1>11, <2>1, PendingCalls DEF Created
    <3>2. running[i].call # old
      BY <1>2, <1>4, <3>1
    <3>. QED
      BY <1>1, <1>3, <2>1, <3>1, <3>2 DEF PendingFollow
  <2>2. ASSUME NEW c \in 1..(k + 1), NEW d \in 1..(k + 1), c < d, c \in DOMAIN st2.pending,
               Open(c, k + 1), Open(d, k + 1)
        PROVE  d \in DOMAIN st2.pending
    <3>1. c \in 1..k /\ d \in 1..k /\ Open(c, k) /\ Open(d, k) /\ d # old
      BY <1>1, <1>2, <1>9, <2>2
    <3>2. d \in DOMAIN st.pending
      BY <1>1, <1>3, <2>2, <3>1 DEF PendingFollow
    <3>. QED
      BY <1>3, <3>1, <3>2
  <2>3. ASSUME NEW j \in Written, Created(j), log[j].call \in DOMAIN st2.pending
        PROVE  j > k + 1
    <3>1. j > k /\ j \in Nat
      BY <1>1, <1>3, <1>4, <2>3 DEF PendingFollow
    <3>2. j # k + 1
      BY <1>3, <2>3 DEF old
    <3>. QED
      BY <1>1, <3>1, <3>2
  <2>. QED
    BY <2>0, <2>1, <2>2, <2>3 DEF PendingFollow
<1>15. PlacesFollow(st2, k + 1)
  <2>1. \A c \in DOMAIN st.pending : c \in Nat /\ c # k + 1
    BY <1>2, PendingCalls DEF Created
  <2>2. ASSUME NEW c \in DOMAIN st2.pending, NEW d \in DOMAIN st2.pending, c < d, d <= k + 1
        PROVE  st2.pending[c] < st2.pending[d]
    <3>1. d <= k /\ c \in DOMAIN st.pending /\ d \in DOMAIN st.pending
      BY <1>3, <1>11, <2>1, <2>2
    <3>. QED
      BY <1>1, <1>3, <2>2, <3>1 DEF PlacesFollow
  <2>3. ASSUME NEW c \in DOMAIN st2.pending, NEW id \in DOMAIN st2.tasks,
               c <= k + 1, Open(c, k + 1)
        PROVE  st2.tasks[id].order < st2.pending[c]
    <3>1. /\ c <= k /\ Open(c, k) /\ c \in DOMAIN st.pending /\ old < c
          /\ st2.pending[c] = st.pending[c]
      BY <1>3, <1>9, <1>11, <2>1, <2>3
    <3>2. CASE id = new
      BY <1>1, <1>2, <1>3, <3>1, <3>2 DEF PlacesFollow
    <3>3. CASE id # new
      BY <1>1, <1>3, <2>3, <3>1, <3>3 DEF PlacesFollow
    <3>. QED
      BY <3>2, <3>3
  <2>4. \A id \in DOMAIN st.tasks : st.tasks[id].order < st.pending[old]
    BY <1>1, <1>2, <1>10 DEF PlacesFollow
  <2>5. ASSUME NEW a \in DOMAIN st2.tasks, NEW b \in DOMAIN st2.tasks, a < b
        PROVE  st2.tasks[a].order < st2.tasks[b].order \/ Renewed(st2, k + 1, b)
    <3>1. CASE a # new /\ b # new
      BY <1>1, <1>3, <1>7, <2>5, <3>1 DEF PlacesFollow
    <3>2. CASE a # new /\ b = new
      BY <1>3, <2>4, <2>5, <3>2
    <3>3. CASE a = new
      <4>1. b # new /\ b \in DOMAIN st.tasks /\ b \in 1..Len(todo)
        BY <1>1, <1>3, <1>5, <2>5, <3>3 DEF TasksFollow
      <4>2. \A j \in Written : log[j].kind # "todos"
        BY <1>1, <1>2 DEF OneKind, Created
      <4>3. PICK j \in Written : Created(j) /\ log[j].id = b
        BY <1>1, <4>1, <4>2 DEF Told
      <4>4. j > k + 1
        <5>1. ~(j < k + 1)
          <6> SUFFICES ASSUME j < k + 1
                       PROVE  FALSE
            OBVIOUS
          <6>1. log[j].id < log[k + 1].id
            BY <1>1, <1>2, <4>3 DEF InTurn
          <6>. QED
            BY <1>5, <2>5, <3>3, <4>1, <4>3, <6>1 DEF new
        <5>2. j # k + 1
          BY <4>1, <4>3 DEF new
        <5>. QED
          BY <1>1, <1>4, <5>1, <5>2
      <4>5. old < log[j].call /\ log[j].call \in Nat /\ log[log[j].call].kind = "create"
        BY <1>1, <1>4, <4>3, <4>4, WrittenLines
      <4>6. log[j].call > k + 1 \/ log[j].call \in DOMAIN st2.pending
        <5> SUFFICES ASSUME ~(log[j].call > k + 1)
                     PROVE  log[j].call \in DOMAIN st2.pending
          OBVIOUS
        <5>1. log[j].call \in 1..k
          BY <1>1, <1>2, <4>5 DEF Created
        <5>2. Open(log[j].call, k)
          <6>1. j > k
            BY <1>1, <1>4, <4>4
          <6>. QED
            BY <4>3, <6>1 DEF Open
        <5>3. log[j].call \in DOMAIN st.pending
          BY <1>1, <1>2, <1>10, <4>5, <5>1, <5>2 DEF PendingFollow
        <5>. QED
          BY <1>2, <1>3, <4>5, <5>3
      <4>. QED
        BY <4>3, <4>4, <4>6 DEF Renewed
    <3>. QED
      BY <3>1, <3>2, <3>3
  <2>. QED
    BY <2>2, <2>3, <2>5 DEF PlacesFollow
<1>. QED
  BY <1>12, <1>13, <1>14, <1>15 DEF Follows, st2

\* Of one that is not: nothing.
LEMMA ReadForgotten ==
  ASSUME NEW st, NEW k, ReadsNext(st, k), log[k + 1].kind = "created",
         log[k + 1].call \notin DOMAIN st.pending
  PROVE  Follows(ApplyLine(st, log[k + 1]), k + 1)
<1>1. ApplyLine(st, log[k + 1]) = st
  BY DEF ApplyLine, FinalizeCreate
<1>2. Reading /\ k \in Nat /\ k + 1 \in Written /\ StatusFollows(st, k)
  BY DEF ReadsNext, Follows
<1>3. StatusFollows(st, k + 1)
  BY <1>2, Onward DEF StatusFollows
<1>. QED
  BY <1>1, <1>3, ReadAside DEF Follows

\* A list: all tasks, but those that are created after it.
LEMMA ReadList ==
  ASSUME NEW st, NEW k, ReadsNext(st, k), log[k + 1].kind \in {"tasks", "todos"}
  PROVE  Follows(ApplyLine(st, log[k + 1]), k + 1)
<1> DEFINE line == log[k + 1]
           st2 == ApplyLine(st, line)
           m == Len(line.tasks)
<1>1. /\ Reading /\ k \in Nat /\ k + 1 \in Written /\ st \in Stores
      /\ PendingFollow(st, k) /\ PlacesFollow(st, k) /\ Told /\ OneKind /\ StatusTold
      /\ Listed(k + 1)
  BY DEF ReadsNext, Follows, Reading, AgentFacts, Listed
<1>2. line \in ClaudeLine
  BY <1>1, WrittenLines
<1>3. m \in Nat /\ m <= Len(todo) /\ Len(todo) \in Nat
  <2>1. todo \in Seq(Todo)
    BY <1>1 DEF Reading, AgentOK, TaskList
  <2>2. Len(todo) \in Nat
    BY <2>1
  <2>3. m \in Nat
    BY <1>2, LineFields
  <2>. QED
    BY <1>1, <2>2, <2>3 DEF Told
<1>4. /\ DOMAIN st2.tasks = 1..m
      /\ \A id \in 1..m : st2.tasks[id].status = Normalized(line.tasks[id].status)
                          /\ st2.tasks[id].order = id
      /\ st2 = st \/ DOMAIN st2.pending = {}
  BY <1>1, <1>2, ListEffect
<1>5. \A id \in 1..m : todo[id].status = line.tasks[id].status \/ Later(id, k + 1)
  BY <1>1 DEF StatusTold
<1>6. /\ line.kind = "todos" => \A id \in 1..Len(todo) :
           id <= m \/ \E l \in Written : l > k + 1 /\ log[l].kind = "todos"
                                         /\ id <= Len(log[l].tasks)
      /\ line.kind = "tasks" =>
           \A i \in Written : i < k + 1 /\ Created(i) => log[i].id <= m
  BY <1>1 DEF Told
<1>7. \A c : Open(c, k + 1) => Open(c, k) /\ c # k + 1
  BY <1>1, Onward
<1>8. \A c : c \in Nat /\ c # k + 1 /\ c <= k + 1 => c <= k
  BY <1>1
<1> HIDE DEF st2, m
<1>9. StatusFollows(st2, k + 1)
  <2>1. \A id \in 1..m : \/ Normalized(line.tasks[id].status) = Normalized(todo[id].status)
                         \/ Later(id, k + 1)
    BY <1>5
  <2>. QED
    BY <1>4, <2>1 DEF StatusFollows
<1>10. TasksFollow(st2, k + 1)
  <2>1. DOMAIN st2.tasks \subseteq 1..Len(todo)
    BY <1>3, <1>4
  <2>2. ASSUME NEW id \in 1..Len(todo), id \notin CutOff
        PROVE  id \in DOMAIN st2.tasks \/ ListComes(k + 1, id) \/ Renewed(st2, k + 1, id)
    <3>1. CASE id <= m
      BY <1>3, <1>4, <3>1
    <3>2. CASE line.kind = "todos" /\ ~(id <= m)
      <4>1. \E l \in Written : l > k + 1 /\ log[l].kind = "todos" /\ id <= Len(log[l].tasks)
        BY <1>6, <3>2
      <4>. QED
        BY <4>1 DEF ListComes, Listed
    <3>3. CASE line.kind = "tasks" /\ ~(id <= m)
      <4>1. \A j \in Written : log[j].kind # "todos"
        BY <1>1, <3>3 DEF OneKind
      <4>2. PICK j \in Written : Created(j) /\ log[j].id = id
        BY <1>1, <4>1 DEF Told
      <4>3. /\ j \in Nat /\ j # k + 1 /\ j <= Len(log) /\ Len(log) \in Nat
            /\ log[j].call \in 1..(j - 1) /\ log[j].call # k + 1
        BY <1>1, <3>3, <4>2, WrittenLines DEF Created
      <4>4. ~(j < k + 1)
        BY <1>6, <3>3, <4>2
      <4>5. j > k + 1
        BY <1>1, <4>3, <4>4
      <4>6. CASE log[j].call > k + 1
        BY <4>2, <4>5, <4>6 DEF Renewed
      <4>7. CASE ~(log[j].call > k + 1)
        <5>1. k + 1 \in log[j].call..j /\ log[k + 1].kind = "tasks"
          BY <1>1, <3>3, <4>3, <4>5, <4>7
        <5>2. ~CutLine(j)
          BY <1>1, <2>2, <4>2, CutOffLines DEF Reading
        <5>3. PICK l \in j..Len(log) : log[l].kind = "tasks"
          BY <4>2, <5>1, <5>2 DEF CutLine
        <5>4. l \in Written /\ l > j
          <6>1. l # j
            BY <4>2, <5>3 DEF Created
          <6>. QED
            BY <4>3, <5>3, <6>1 DEF Written
        <5>5. id <= Len(log[l].tasks)
          BY <1>1, <4>2, <5>3, <5>4 DEF Told
        <5>6. l > k + 1
          BY <1>1, <4>3, <4>5, <5>3, <5>4
        <5>. QED
          BY <5>3, <5>4, <5>5, <5>6 DEF ListComes, Listed
      <4>. QED
        BY <4>6, <4>7
    <3>. QED
      BY <3>1, <3>2, <3>3
  <2>. QED
    BY <2>1, <2>2 DEF TasksFollow
<1>11. PendingFollow(st2, k + 1)
  <2>0. \A c \in DOMAIN st2.pending : c \in Written /\ log[c].kind = "create"
                                      /\ c \in DOMAIN st.pending
    BY <1>1, <1>4 DEF PendingFollow
  <2>1. ASSUME NEW i \in InProgress, running[i].kind = "create", running[i].call <= k + 1
        PROVE  \/ running[i].call \in DOMAIN st2.pending
               \/ \E l \in Written : l >= running[i].call /\ log[l].kind = "tasks"
    <3>1. log[k + 1].kind = "tasks"
      BY <1>1, <2>1 DEF OneKind
    <3>2. running[i].call \in Nat
      BY <2>1, PendingCalls
    <3>3. k + 1 >= running[i].call
      BY <1>1, <2>1, <3>2
    <3>. QED
      BY <1>1, <3>1, <3>3
  <2>2. ASSUME NEW c \in 1..(k + 1), NEW d \in 1..(k + 1), c < d, c \in DOMAIN st2.pending,
               Open(c, k + 1), Open(d, k + 1)
        PROVE  d \in DOMAIN st2.pending
    <3>1. c \in 1..k /\ d \in 1..k /\ Open(c, k) /\ Open(d, k) /\ st2 = st
      BY <1>1, <1>4, <1>7, <2>2
    <3>. QED
      BY <1>1, <2>2, <3>1 DEF PendingFollow
  <2>3. ASSUME NEW j \in Written, Created(j), log[j].call \in DOMAIN st2.pending
        PROVE  j > k + 1
    <3>1. j > k /\ j \in Nat
      BY <1>1, <2>0, <2>3, WrittenLines DEF PendingFollow
    <3>2. j # k + 1
      BY <2>3 DEF Created
    <3>. QED
      BY <1>1, <3>1, <3>2
  <2>. QED
    BY <2>0, <2>1, <2>2, <2>3 DEF PendingFollow
<1>12. PlacesFollow(st2, k + 1)
  <2>1. \A c \in DOMAIN st2.pending : c \in Nat /\ c # k + 1 /\ st2 = st
    BY <1>4, PendingCalls
  <2>2. ASSUME NEW c \in DOMAIN st2.pending, NEW d \in DOMAIN st2.pending, c < d, d <= k + 1
        PROVE  st2.pending[c] < st2.pending[d]
    <3>1. d <= k /\ st2 = st
      BY <1>8, <2>1, <2>2
    <3>. QED
      BY <1>1, <2>2, <3>1 DEF PlacesFollow
  <2>3. ASSUME NEW c \in DOMAIN st2.pending, NEW id \in DOMAIN st2.tasks,
               c <= k + 1, Open(c, k + 1)
        PROVE  st2.tasks[id].order < st2.pending[c]
    <3>1. c <= k /\ Open(c, k) /\ st2 = st
      BY <1>7, <1>8, <2>1, <2>3
    <3>. QED
      BY <1>1, <2>3, <3>1 DEF PlacesFollow
  <2>. QED
    BY <1>4, <2>2, <2>3 DEF PlacesFollow
<1>. QED
  BY <1>9, <1>10, <1>11, <1>12 DEF Follows, st2

\* Each line read keeps the list to the agent's.
LEMMA ReadFollows ==
  ASSUME NEW st, NEW k, ReadsNext(st, k)
  PROVE  /\ ApplyLine(st, log[k + 1]) \in Stores
         /\ Follows(ApplyLine(st, log[k + 1]), k + 1)
<1>1. ApplyLine(st, log[k + 1]) \in Stores
  <2>1. st \in Stores /\ log[k + 1] \in ClaudeLine
    BY WrittenLines DEF ReadsNext
  <2>. QED
    BY <2>1, ApplyLineType
<1> DEFINE Kept == Follows(ApplyLine(st, log[k + 1]), k + 1)
<1>2. log[k + 1].kind = "created" /\ log[k + 1].call \in DOMAIN st.pending => Kept
  BY ReadCreated
<1>3. log[k + 1].kind = "created" /\ log[k + 1].call \notin DOMAIN st.pending => Kept
  BY ReadForgotten
<1>4. log[k + 1].kind = "create" => Kept
  BY ReadCreate
<1>5. log[k + 1].kind = "update" => Kept
  BY ReadUpdate
<1>6. log[k + 1].kind \in {"tasks", "todos"} => Kept
  BY ReadList
<1>7. log[k + 1].kind \notin {"create", "created", "update", "tasks", "todos"} => Kept
  BY ReadOther
<1> HIDE DEF Kept
<1>8. Kept
  BY <1>2, <1>3, <1>4, <1>5, <1>6, <1>7
<1>. QED
  BY <1>1, <1>8 DEF Kept

\* The next of some lines.
LEMMA SubSeqNext ==
  ASSUME NEW L, NEW seq \in Seq(L), NEW i \in Nat, NEW j \in Nat, i <= j, j < Len(seq)
  PROVE  /\ SubSeq(seq, i + 1, i) = <<>>
         /\ SubSeq(seq, i + 1, j) \in Seq(L) /\ seq[j + 1] \in L
         /\ SubSeq(seq, i + 1, j + 1) = Append(SubSeq(seq, i + 1, j), seq[j + 1])
OBVIOUS

\* A list that follows the agent's after line k, and is given the lines after it, follows
\* it at the end.
LEMMA BatchFollows ==
  ASSUME Reading, NEW st \in Stores, NEW k \in Nat, k <= Len(log), Follows(st, k), NEW st2,
         st2 = FoldLeft(ApplyLine, st, SubSeq(log, k + 1, Len(log)))
  PROVE  st2 \in Stores /\ Follows(st2, Len(log))
<1> DEFINE n == Len(log)
           To(i) == SubSeq(log, k + 1, k + i)
           At(i) == Folded(ApplySteps, st, To(i))
           T == {i \in Nat : k + i <= n => At(i) \in Stores /\ Follows(At(i), k + i)}
<1>1. log \in Seq(ClaudeLine) /\ n \in Nat /\ k <= n /\ \A j \in 1..n : j \in Written
  BY WrittenLines DEF Written
<1>2. ApplySteps \in Folds(Stores, ClaudeLine)
  BY ApplyFolds, <1>1
<1>3. \A q \in Stores, line \in ClaudeLine : ApplySteps[q][line] = ApplyLine(q, line)
  BY DEF ApplySteps
<1>4. To(0) = <<>>
  <2>1. k + 0 = k
    OBVIOUS
  <2>2. SubSeq(log, k + 1, k) = <<>>
    BY <1>1
  <2>. QED
    BY <2>1, <2>2
<1>5. ASSUME NEW i \in Nat, k + (i + 1) <= n
      PROVE  /\ To(i) \in Seq(ClaudeLine) /\ log[(k + i) + 1] \in ClaudeLine
             /\ To(i + 1) = Append(To(i), log[(k + i) + 1])
             /\ k + i \in Nat /\ (k + i) + 1 \in Written /\ k + (i + 1) = (k + i) + 1
             /\ k + i <= n
  <2> DEFINE j == k + i
  <2>1. j \in Nat /\ k <= j /\ j < n /\ k + (i + 1) = j + 1 /\ j + 1 \in 1..n
    BY <1>1, <1>5
  <2> HIDE DEF j
  <2>2. /\ SubSeq(log, k + 1, j) \in Seq(ClaudeLine) /\ log[j + 1] \in ClaudeLine
        /\ SubSeq(log, k + 1, j + 1) = Append(SubSeq(log, k + 1, j), log[j + 1])
    BY <1>1, <2>1, SubSeqNext DEF n
  <2>3. j + 1 \in Written /\ j <= n
    BY <1>1, <2>1
  <2>. QED
    BY <2>1, <2>2, <2>3 DEF j
<1> HIDE DEF n, To
<1>6. 0 \in T
  <2>1. At(0) = st /\ k + 0 = k
    BY <1>4, FoldedEmpty
  <2> HIDE DEF At
  <2>. QED
    BY <2>1
<1>7. ASSUME NEW i \in Nat, i \in T
      PROVE  i + 1 \in T
  <2> SUFFICES ASSUME k + (i + 1) <= n
               PROVE  At(i + 1) \in Stores /\ Follows(At(i + 1), k + (i + 1))
    <3>1. i + 1 \in Nat
      OBVIOUS
    <3> HIDE DEF At
    <3>. QED
      BY <3>1
  <2>1. At(i) \in Stores /\ Follows(At(i), k + i)
    <3> HIDE DEF At
    <3>. QED
      BY <1>5, <1>7
  <2>2. At(i + 1) = ApplyLine(At(i), log[(k + i) + 1])
    <3>1. Folded(ApplySteps, st, Append(To(i), log[(k + i) + 1]))
            = ApplySteps[Folded(ApplySteps, st, To(i))][log[(k + i) + 1]]
      BY <1>2, <1>5, FoldedAppend
    <3>2. At(i + 1) = ApplySteps[At(i)][log[(k + i) + 1]]
      BY <1>5, <3>1
    <3> HIDE DEF At
    <3>. QED
      BY <1>3, <1>5, <2>1, <3>2
  <2> HIDE DEF At
  <2>3. ReadsNext(At(i), k + i)
    BY <1>5, <2>1 DEF ReadsNext
  <2>4. At(i + 1) \in Stores /\ Follows(At(i + 1), (k + i) + 1)
    BY <2>2, <2>3, ReadFollows
  <2>. QED
    BY <1>5, <2>4
<1> HIDE DEF T
<1>8. \A i \in Nat : i \in T
  BY <1>6, <1>7, Induction
<1>9. n - k \in Nat /\ k + (n - k) = n
  BY <1>1
<1>10. At(n - k) \in Stores /\ Follows(At(n - k), n)
  <2>1. n - k \in T
    BY <1>8, <1>9
  <2> HIDE DEF At
  <2>2. n <= n
    BY <1>1
  <2>. QED
    BY <1>9, <2>1, <2>2 DEF T
<1>11. At(n - k) = st2
  <2>1. To(n - k) = SubSeq(log, k + 1, n)
    BY <1>9 DEF To
  <2>2. SubSeq(log, k + 1, n) \in Seq(ClaudeLine)
    BY <1>1 DEF n
  <2>3. FoldLeft(ApplyLine, st, SubSeq(log, k + 1, n))
          = Folded(ApplySteps, st, SubSeq(log, k + 1, n))
    BY <2>2, ApplyFolds
  <2>. QED
    BY <2>1, <2>3 DEF n
<1>. QED
  BY <1>10, <1>11 DEF n

\* Before anything is read the list is empty, and all is still to come.
LEMMA StartFollows ==
  ASSUME Reading
  PROVE  NoTasks \in Stores /\ Follows(NoTasks, 0)
<1>1. NoTasks.tasks = <<>> /\ NoTasks.pending = <<>> /\ DOMAIN <<>> = {}
  BY DEF NoTasks
<1>2. Told /\ CallsMatch /\ \A j \in Written : j \in Nat \ {0}
  BY WrittenLines DEF Reading, AgentFacts
<1>3. TasksFollow(NoTasks, 0)
  <2>1. ASSUME NEW id \in 1..Len(todo)
        PROVE  ListComes(0, id) \/ Renewed(NoTasks, 0, id)
    <3>1. PICK j \in Written : \/ Created(j) /\ log[j].id = id
                               \/ log[j].kind = "todos" /\ id <= Len(log[j].tasks)
      BY <1>2 DEF Told
    <3>2. CASE log[j].kind = "todos" /\ id <= Len(log[j].tasks)
      BY <1>2, <3>2 DEF ListComes, Listed
    <3>3. CASE Created(j) /\ log[j].id = id
      <4>1. log[j].call > 0 /\ j > 0
        BY <1>2, <3>3, WrittenLines
      <4>. QED
        BY <3>3, <4>1 DEF Renewed
    <3>. QED
      BY <3>1, <3>2, <3>3
  <2>. QED
    BY <1>1, <2>1 DEF TasksFollow
<1>4. PendingFollow(NoTasks, 0)
  <2>1. \A i \in InProgress : ~(running[i].call <= 0)
    BY <1>2 DEF CallsMatch
  <2>. QED
    BY <1>1, <2>1 DEF PendingFollow
<1>5. StatusFollows(NoTasks, 0) /\ PlacesFollow(NoTasks, 0)
  BY <1>1 DEF StatusFollows, PlacesFollow
<1>. QED
  BY <1>3, <1>4, <1>5, NoTasksType DEF Follows

\* A list built from the whole transcript also follows it after an earlier line.
LEMMA RewindFollows ==
  ASSUME Reading, NEW st \in Stores, Follows(st, Len(log)), NEW k \in Nat, k <= Len(log)
  PROVE  Follows(st, k)
<1> DEFINE n == Len(log)
<1>1. /\ n \in Nat /\ k <= n /\ \A j \in Written : j \in Nat /\ ~(j > n)
      /\ \A j \in Written : Created(j) => log[j].call \in Nat
  <2>1. /\ n \in Nat /\ \A j \in Written : j \in Nat /\ j <= n
        /\ \A j \in Written : Created(j) => log[j].call \in 1..(j - 1)
    BY WrittenLines
  <2>2. \A j \in Written : Created(j) => log[j].call \in Nat
    BY <2>1
  <2>. QED
    BY <2>1, <2>2
<1>2. /\ StatusFollows(st, n) /\ TasksFollow(st, n) /\ PendingFollow(st, n)
      /\ PlacesFollow(st, n) /\ InTurn
  BY DEF Follows, Reading, AgentFacts
<1> HIDE DEF n
<1>3. \A id : ~Later(id, n) /\ ~ListComes(n, id) /\ ~Renewed(st, n, id)
  BY <1>1 DEF Later, ListComes, Renewed
<1>4. StatusFollows(st, k) /\ TasksFollow(st, k)
  BY <1>2, <1>3 DEF StatusFollows, TasksFollow
<1>5. \A j \in Written : Created(j) => log[j].call \notin DOMAIN st.pending
  BY <1>1, <1>2 DEF PendingFollow
<1>6. \A c \in DOMAIN st.pending : c \in Nat
  <2>1. \A c \in DOMAIN st.pending : c \in Written
    BY <1>2 DEF PendingFollow
  <2>. QED
    BY <1>1, <2>1
<1>7. ASSUME NEW c \in DOMAIN st.pending, Open(c, k)
      PROVE  /\ Open(c, n)
             /\ \A d : Open(d, k) /\ c < d => Open(d, n)
  <2>1. PICK i \in InProgress : running[i].kind = "create" /\ running[i].call = c
    BY <1>5, <1>7 DEF Open
  <2>2. \A j \in Written : Created(j) => log[j].call < c
    BY <1>2, <2>1 DEF InTurn
  <2>3. ASSUME NEW d, Open(d, k), c < d
        PROVE  Open(d, n)
    <3>1. CASE \E j \in Written : j > k /\ Created(j) /\ log[j].call = d
      BY <1>1, <1>6, <2>2, <2>3, <3>1
    <3>2. CASE \E g \in InProgress : running[g].kind = "create" /\ running[g].call = d
      BY <3>2 DEF Open
    <3>. QED
      BY <2>3, <3>1, <3>2 DEF Open
  <2>. QED
    BY <2>1, <2>3 DEF Open
<1>8. PendingFollow(st, k)
  <2>1. ASSUME NEW i \in InProgress, running[i].kind = "create", running[i].call <= k
        PROVE  \/ running[i].call \in DOMAIN st.pending
               \/ \E m \in Written : m >= running[i].call /\ log[m].kind = "tasks"
    <3>1. running[i].call \in Nat
      BY <1>1 DEF Reading, AgentFacts, CallsMatch
    <3>2. running[i].call <= n
      BY <1>1, <2>1, <3>1
    <3>. QED
      BY <1>2, <2>1, <3>2 DEF PendingFollow
  <2>2. ASSUME NEW c \in 1..k, NEW d \in 1..k, c < d, c \in DOMAIN st.pending,
               Open(c, k), Open(d, k)
        PROVE  d \in DOMAIN st.pending
    <3>1. c \in 1..n /\ d \in 1..n /\ Open(c, n) /\ Open(d, n)
      BY <1>1, <1>7, <2>2
    <3>. QED
      BY <1>2, <2>2, <3>1 DEF PendingFollow
  <2>. QED
    BY <1>2, <1>5, <2>1, <2>2 DEF PendingFollow
<1>9. PlacesFollow(st, k)
  <2>1. \A c : c \in Nat /\ c <= k => c <= n
    BY <1>1
  <2>. QED
    BY <1>2, <1>3, <1>6, <1>7, <2>1 DEF PlacesFollow
<1>. QED
  BY <1>4, <1>8, <1>9 DEF Follows

\* At the end of the transcript such a list is the agent's.
LEMMA FollowingIsCurrent ==
  ASSUME Reading, store \in Stores, Follows(store, Len(log))
  PROVE  ListIsCurrent(DOMAIN todo)
<1> DEFINE n == Len(log)
<1>1. n \in Nat /\ \A j \in Written : j \in Nat /\ ~(j > n)
  BY WrittenLines
<1> HIDE DEF n
<1>2. \A id : ~Later(id, n) /\ ~ListComes(n, id) /\ ~Renewed(store, n, id)
  BY <1>1 DEF Later, ListComes, Renewed
<1>3. DOMAIN todo = 1..Len(todo)
  <2>1. todo \in Seq(Todo)
    BY DEF Reading, AgentOK, TaskList
  <2>. QED
    BY <2>1
<1>4. /\ DOMAIN store.tasks \subseteq DOMAIN todo
      /\ DOMAIN todo \ CutOff \subseteq DOMAIN store.tasks
  BY <1>2, <1>3 DEF Follows, TasksFollow, n
<1>5. \A id \in DOMAIN store.tasks : store.tasks[id].status = Normalized(todo[id].status) \/ id \in reopened
  BY <1>2 DEF Follows, StatusFollows, n
<1>6. \A a, b \in DOMAIN store.tasks : a < b => store.tasks[a].order < store.tasks[b].order
  BY <1>2 DEF Follows, PlacesFollow, n
<1>. QED
  BY <1>4, <1>5, <1>6 DEF ListIsCurrent, ShownBefore

-----------------------------------------------------------------------------
(* The invariant of the task list.                                         *)

\* Nothing that matters to it changes.
LEMMA SameFollows ==
  ASSUME NEW st, NEW k, Follows(st, k), UNCHANGED <<log, running, todo, reopened>>
  PROVE  Follows(st, k)'
<1>1. /\ StatusFollows(st, k) /\ TasksFollow(st, k) /\ PendingFollow(st, k)
      /\ PlacesFollow(st, k)
  BY DEF Follows
<1>2. StatusFollows(st, k)'
  BY <1>1 DEF StatusFollows, Later, Written
<1>3. TasksFollow(st, k)'
  BY <1>1 DEF TasksFollow, ListComes, Renewed, Listed, Created, Written, CutOff
<1>4. PendingFollow(st, k)'
  BY <1>1 DEF PendingFollow, Open, Created, Written, InProgress
<1>5. PlacesFollow(st, k)'
  BY <1>1 DEF PlacesFollow, Open, Renewed, Created, Written, InProgress
<1>. QED
  BY <1>2, <1>3, <1>4, <1>5 DEF Follows

\* As above.
LEMMA SameFacts ==
  ASSUME AgentFacts, UNCHANGED <<log, running, todo>>
  PROVE  AgentFacts'
BY DEF AgentFacts, CallsMatch, InTurn, Told, OneKind, StatusTold, Later, Created, Listed,
       Written, InProgress

\* An event marks a task completed, which it is, or was before it was reopened.
LEMMA MarkFollows ==
  ASSUME NEW st \in Stores, NEW k, Follows(st, k), NEW id, NEW st2,
         st2 = SetStatus(st, id, "completed"), UNCHANGED <<log, running, todo>>,
         reopened' = IF todo[id].status = "completed" THEN reopened ELSE reopened \cup {id}
  PROVE  Follows(st2, k)'
<1>1. /\ StatusFollows(st, k) /\ TasksFollow(st, k) /\ PendingFollow(st, k)
      /\ PlacesFollow(st, k)
  BY DEF Follows
<1>2. /\ st2.pending = st.pending /\ DOMAIN st2.tasks = DOMAIN st.tasks
      /\ \A other \in DOMAIN st.tasks :
           /\ st2.tasks[other].order = st.tasks[other].order
           /\ other # id => st2.tasks[other].status = st.tasks[other].status
           /\ other = id => st2.tasks[other].status = "completed"
  BY SetStatusEffect
<1>3. StatusFollows(st2, k)'
  <2>1. \A other \in DOMAIN st2.tasks :
          \/ st2.tasks[other].status = Normalized(todo[other].status)
          \/ other \in reopened' \/ Later(other, k)
    BY <1>1, <1>2, NormalizedType DEF StatusFollows
  <2>. QED
    BY <2>1 DEF StatusFollows, Later, Written
<1>4. TasksFollow(st2, k)'
  BY <1>1, <1>2 DEF TasksFollow, ListComes, Renewed, Listed, Created, Written, CutOff
<1>5. PendingFollow(st2, k)'
  BY <1>1, <1>2 DEF PendingFollow, Open, Created, Written, InProgress
<1>6. PlacesFollow(st2, k)'
  BY <1>1, <1>2 DEF PlacesFollow, Open, Renewed, Created, Written, InProgress
<1>. QED
  BY <1>3, <1>4, <1>5, <1>6 DEF Follows

\* What Claude writes.
LEMMA LineKeepsTasks ==
  ASSUME ContentInv, TasksInv, NEW line, LineStep(line), UNCHANGED <<monitor, happened>>
  PROVE  TasksInv'
<1>1. AgentFacts'
  BY FactsKept
<1>2. UNCHANGED <<offset, seeding, store, seeded, reopened>> /\ provider' = "claude"
  BY DEF monitor, happened, LineStep
<1>3. ASSUME seeded
      PROVE  Follows(store, offset)'
  <2>1. /\ offset \in Nat /\ offset <= Len(log) /\ store \in Stores /\ Follows(store, offset)
    <3>1. Len(log) \in Nat
      BY LinesAfter
    <3>. QED
      BY <1>3, <3>1 DEF ContentInv, OffsetsOK, TasksInv
  <2>2. PICK k : k = offset
    OBVIOUS
  <2>3. PICK st : st = store
    OBVIOUS
  <2>4. Follows(st, k)'
    BY <1>2, <2>1, <2>2, <2>3, GrowthFollows
  <2>5. k = offset' /\ st = store'
    BY <1>2, <2>2, <2>3
  <2>. QED
    BY <2>4, <2>5
<1>. QED
  BY <1>1, <1>2, <1>3 DEF TasksInv

\* What the monitor reads and saves, and what else happens to the gateway.
LEMMA GatewayKeepsTasks ==
  ASSUME ContentInv, TasksInv,
         StartTracking \/ Seed \/ Poll \/ SaveOffset \/ Restart
           \/ \E id \in Id : TaskCompleted(id)
  PROVE  TasksInv'
<1>1. UNCHANGED <<provider, log, running, todo>>
  BY DEF StartTracking, Seed, Poll, SaveOffset, Restart, TaskCompleted, agent
<1>2. provider' = "claude" => AgentFacts'
  BY <1>1, SameFacts DEF TasksInv
<1>3. /\ AgentOK /\ provider = "claude" => Reading
      /\ offset # None => offset \in 0..Len(log)
  BY DEF ContentInv, OffsetsOK, TasksInv, Reading
<1>4. CASE StartTracking \/ Restart
  <2>1. ~seeded'
    BY <1>4 DEF StartTracking, Restart, TasksInv
  <2>2. seeding' => offset' # None
    <3>1. CASE Restart
      BY <3>1 DEF Restart
    <3>2. CASE StartTracking
      <4>1. Len(log) \in Nat /\ Len(log) < None
        BY LogLength DEF ContentInv
      <4>. QED
        BY <3>2, <4>1 DEF StartTracking
    <3>. QED
      BY <1>4, <3>1, <3>2
  <2>. QED
    BY <1>2, <2>1, <2>2 DEF TasksInv
<1>5. CASE SaveOffset
  <2>1. UNCHANGED <<offset, seeding, store, seeded, reopened>>
    BY <1>5 DEF SaveOffset, happened
  <2>2. seeded => Follows(store, offset)'
    BY <1>1, <2>1, SameFollows DEF TasksInv
  <2>. QED
    BY <1>1, <1>2, <2>1, <2>2 DEF TasksInv
<1>6. ASSUME NEW id \in Id, TaskCompleted(id)
      PROVE  TasksInv'
  <2>1. /\ UNCHANGED <<offset, seeding, seeded>>
        /\ store' = SetStatus(store, id, "completed")
        /\ reopened' = IF todo[id].status = "completed" THEN reopened ELSE reopened \cup {id}
    BY <1>6 DEF TaskCompleted, MarkCompleted
  <2>2. ASSUME seeded
        PROVE  store' \in Stores /\ Follows(store, offset)'
    <3>1. store \in Stores /\ Follows(store, offset)
      BY <2>2 DEF TasksInv
    <3>2. store' \in Stores
      BY <2>1, <3>1, SetStatusType DEF Status
    <3>3. PICK k : k = offset
      OBVIOUS
    <3>4. PICK st : st = store
      OBVIOUS
    <3>5. PICK st2 : st2 = store'
      OBVIOUS
    <3>6. Follows(st2, k)'
      BY <1>1, <2>1, <3>1, <3>3, <3>4, <3>5, MarkFollows
    <3>7. k = offset' /\ st2 = store'
      BY <2>1, <3>3, <3>5
    <3>. QED
      BY <3>2, <3>6, <3>7
  <2>. QED
    BY <1>1, <1>2, <2>1, <2>2 DEF TasksInv
<1>7. CASE Seed
  <2>1. /\ seeding /\ ~seeding' /\ seeded' = (provider = "claude")
        /\ UNCHANGED <<offset, reopened>> /\ offset # None
        /\ store' = Applied(IF provider = "codex" THEN store ELSE NoTasks, log)
    BY <1>7 DEF Seed, TasksInv
  <2>2. ASSUME provider = "claude"
        PROVE  store' \in Stores /\ Follows(store, offset)'
    <3>1. Reading /\ offset \in Nat /\ offset <= Len(log) /\ Len(log) \in Nat
          /\ log \in Seq(ClaudeLine)
      BY <1>3, <2>1, <2>2, WrittenLines DEF ContentInv
    <3>2. log = SubSeq(log, 0 + 1, Len(log))
      BY <3>1
    <3>3. NoTasks # Untold
      BY DEF NoTasks, Untold
    <3>4. store' = FoldLeft(ApplyLine, NoTasks, SubSeq(log, 0 + 1, Len(log)))
      BY <2>1, <2>2, <3>2, <3>3 DEF Applied
    <3>5. PICK st : st = store'
      OBVIOUS
    <3>6. 0 <= Len(log)
      BY <3>1
    <3>7. st \in Stores /\ Follows(st, Len(log))
      BY <3>1, <3>4, <3>5, <3>6, StartFollows, BatchFollows
    <3>8. PICK k : k = offset
      OBVIOUS
    <3>9. Follows(st, k)
      BY <3>1, <3>7, <3>8, RewindFollows
    <3>10. Follows(st, k)'
      BY <1>1, <2>1, <3>9, SameFollows
    <3>11. k = offset' /\ st = store'
      BY <2>1, <3>5, <3>8
    <3>. QED
      BY <3>7, <3>10, <3>11
  <2>. QED
    BY <1>1, <1>2, <2>1, <2>2 DEF TasksInv
<1>8. CASE Poll
  <2>1. /\ offset # None /\ ~seeding /\ offset < Len(log) /\ offset' = Len(log)
        /\ store' = Applied(store, SubSeq(log, offset + 1, Len(log)))
        /\ UNCHANGED <<seeding, seeded, reopened>>
    BY <1>8 DEF Poll
  <2>2. Len(log) \in Nat /\ Len(log) < None
    BY LogLength DEF ContentInv
  <2>3. ASSUME seeded
        PROVE  store' \in Stores /\ Follows(store, offset)'
    <3>1. /\ Reading /\ provider = "claude" /\ offset \in Nat /\ offset <= Len(log)
          /\ store \in Stores /\ Follows(store, offset)
      BY <1>3, <2>1, <2>2, <2>3 DEF ContentInv, TasksInv
    <3>2. store # Untold
      <4>1. Untold.next = 0
        BY DEF Untold, NoTasks
      <4>2. store.next # 0
        BY <3>1 DEF Stores
      <4>. QED
        BY <4>1, <4>2
    <3>3. store' = FoldLeft(ApplyLine, store, SubSeq(log, offset + 1, Len(log)))
      BY <2>1, <3>1, <3>2 DEF Applied
    <3>4. PICK st : st = store'
      OBVIOUS
    <3>5. st \in Stores /\ Follows(st, Len(log))
      BY <3>1, <3>3, <3>4, BatchFollows
    <3>6. PICK k : k = Len(log)
      OBVIOUS
    <3>7. Follows(st, k)'
      BY <1>1, <2>1, <3>5, <3>6, SameFollows
    <3>8. k = offset' /\ st = store'
      BY <2>1, <3>4, <3>6
    <3>. QED
      BY <3>5, <3>7, <3>8
  <2>4. offset' # None
    BY <2>1, <2>2
  <2>. QED
    BY <1>1, <1>2, <2>1, <2>3, <2>4 DEF TasksInv
<1>. QED
  BY <1>4, <1>5, <1>6, <1>7, <1>8

\* It holds before anything is written.
LEMMA InitTasksInv == Init => TasksInv
<1> SUFFICES ASSUME Init
             PROVE  TasksInv
  OBVIOUS
<1>1. /\ log = <<>> /\ running = <<>> /\ todo = <<>> /\ ~seeded /\ ~seeding
      /\ Len(<<>>) = 0
  BY DEF Init
<1>2. Written = {} /\ InProgress = {} /\ 1..Len(todo) = {}
  BY <1>1 DEF Written, InProgress
<1>3. AgentFacts
  BY <1>2 DEF AgentFacts, CallsMatch, InTurn, Told, OneKind, StatusTold
<1>. QED
  BY <1>1, <1>3 DEF TasksInv

\* Every action keeps it.
LEMMA NextTasksInv == ContentInv /\ TasksInv /\ [Next]_vars => TasksInv'
<1> SUFFICES ASSUME ContentInv, TasksInv, [Next]_vars
             PROVE  TasksInv'
  OBVIOUS
<1>0. AgentOK /\ (provider = "claude" => AgentFacts)
  BY DEF ContentInv, TasksInv
<1>1. ASSUME NEW kind \in {"create", "list", "other"}, MakeCall(kind)
      PROVE  TasksInv'
  BY <1>0, <1>1, MakeCallLine, LineKeepsTasks DEF MakeCall, CanWrite
<1>2. ASSUME NEW kind \in {"other", "update", "create", "todos"}, Return(kind)
      PROVE  TasksInv'
  BY <1>0, <1>2, ReturnLine, LineKeepsTasks DEF Return, Answer, CanWrite
<1>3. CASE CreateTask
  BY <1>0, <1>3, CreateTaskLine, LineKeepsTasks DEF CreateTask, Answer, CanWrite
<1>4. ASSUME NEW full \in BOOLEAN, ListTasks(full)
      PROVE  TasksInv'
  BY <1>0, <1>4, ListTasksLine, LineKeepsTasks DEF ListTasks, Answer, CanWrite
<1>5. ASSUME NEW status \in AgentStatus, WriteTodos(status)
      PROVE  TasksInv'
  BY <1>0, <1>5, WriteTodosLine, LineKeepsTasks DEF WriteTodos, CanWrite
<1>6. ASSUME NEW id \in Id, NEW status \in AgentStatus, UpdateTask(id, status)
      PROVE  TasksInv'
  BY <1>0, <1>6, UpdateTaskLine, LineKeepsTasks DEF UpdateTask, CanWrite
<1>7. ASSUME NEW kind \in {"command", "output", "text"}, Say(kind)
      PROVE  TasksInv'
  BY <1>0, <1>7, SayLine, LineKeepsTasks DEF Say, CanWrite
<1>8. ASSUME NEW line, CodexWrites(line)
      PROVE  TasksInv'
  <2>1. provider = "codex" /\ provider' = "codex" /\ UNCHANGED <<seeded, seeding, offset>>
    BY <1>8 DEF CodexWrites, monitor, happened
  <2>. QED
    BY <2>1 DEF TasksInv
<1>9. CASE \E text \in Text : CodexCalls(text) \/ CodexReturns(text)
  BY <1>8, <1>9 DEF CodexCalls, CodexReturns
<1>10. CASE \E text \in Text, final \in BOOLEAN : CodexSays(text, final)
  BY <1>8, <1>10 DEF CodexSays
<1>11. CASE StartTracking \/ Seed \/ Poll \/ SaveOffset \/ Restart
              \/ \E id \in Id : TaskCompleted(id)
  BY <1>11, GatewayKeepsTasks
<1>12. CASE UNCHANGED vars
  <2>1. UNCHANGED <<provider, log, running, todo, offset, seeding, store, seeded, reopened>>
    BY <1>12 DEF vars, agent, monitor, happened
  <2>2. provider' = "claude" => AgentFacts'
    BY <1>0, <2>1, SameFacts
  <2>3. seeded => Follows(store, offset)'
    BY <2>1, SameFollows DEF TasksInv
  <2>. QED
    BY <2>1, <2>2, <2>3 DEF TasksInv
<1>. QED
  BY <1>1, <1>2, <1>3, <1>4, <1>5, <1>6, <1>7, <1>9, <1>10, <1>11, <1>12 DEF Next

\* The task list follows the agent's, whatever lines were read and in what batches.
THEOREM TasksInvariant == Spec => []TasksInv
BY InitTasksInv, NextTasksInv, ContentInvariant, PTL DEF Spec

\* Once everything is read, the task list shown is the agent's, however the lines fell
\* into batches, when the hook's events came, and although the seeding may have read
\* lines that the first batch reads again (utils/claude_task_state.py).
THEOREM TasksStayCurrent == Spec => []TasksCurrent
<1>1. ASSUME ContentInv, TasksInv
      PROVE  TasksCurrent
  <2> SUFFICES ASSUME seeded, CaughtUp
               PROVE  ListIsCurrent(DOMAIN todo)
    BY DEF TasksCurrent
  <2>1. Reading /\ store \in Stores /\ Follows(store, Len(log))
    BY <1>1 DEF ContentInv, TasksInv, Reading, CaughtUp
  <2>. QED
    BY <2>1, FollowingIsCurrent
<1>. QED
  BY <1>1, ContentInvariant, TasksInvariant, PTL
=============================================================================
