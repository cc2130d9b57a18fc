--------------------------- MODULE TranscriptReader ---------------------------
(***************************************************************************)
(* How protocol/transcript_reader.py finds the lines of a JSONL transcript *)
(* that an agent is still writing.                                         *)
(*                                                                         *)
(* Every line has four bytes: the one it opens with, two more, and the     *)
(* newline.  Line k (from 0) starts at offset 4k, so an offset tells by    *)
(* its remainder whether it is at the start of a line (0), inside it (1,   *)
(* 2) or at its newline (3).  An object parses as soon as its first three  *)
(* bytes are there, with or without the newline.                           *)
(***************************************************************************)
EXTENDS Naturals, Sequences, FiniteSets

CONSTANTS
  Lines,      \* bound: lines of the file in one life of it
  Files,      \* bound: lives of the file; a truncation starts the next one
  Nested,     \* objects whose second byte is again an opening brace
  Wide,       \* objects whose second and third byte are one character
  Blank,      \* lines of white space
  Garbled,    \* lines that open with a brace and are not JSON
  Foreign     \* lines that neither open with a brace nor are JSON

ASSUME ReaderAssumption ==
  /\ Lines \in Nat /\ Files \in Nat \ {0}
  /\ \A kind \in {Nested, Wide, Blank, Garbled, Foreign} : kind \subseteq Nat

VARIABLES
  size,       \* length of the file
  life,       \* truncations it has gone through
  tracked,    \* the session is tracked
  byteOffset  \* TrackedSession.last_byte_offset

\* What happened, for the properties only.
VARIABLES
  read,       \* lines taken, parsed or blank, in that order
  again,      \* lines handed over by a read that then broke off
  first,      \* offset at which tracking started
  cuts        \* offsets of newlines before which a poll met the end of this
              \* life of the file

readerVars == <<size, life, tracked, byteOffset, read, again, first, cuts>>

End == 4 * Lines

\* Lines are numbered through all lives of the file.
Entry(k) == life * Lines + k
Entries == 0..(Files * Lines - 1)

ReaderTypeOK ==
  /\ size \in 0..End
  /\ life \in 0..(Files - 1)
  /\ tracked \in BOOLEAN
  /\ byteOffset \in 0..End
  /\ read \in Seq(Entries)
  /\ again \subseteq Entries
  /\ first \in 0..End
  /\ cuts \subseteq 0..End

-----------------------------------------------------------------------------
(* _read_new_lines.                                                        *)

Least(m, n) == IF m < n THEN m ELSE n

\* Where readline ends that starts at p.
LineEnd(p) == Least(size, 4 * (p \div 4) + 4)

IsBrace(p) ==
  \/ p % 4 = 0 /\ Entry(p \div 4) \notin Blank \cup Foreign
  \/ p % 4 = 1 /\ Entry(p \div 4) \in Nested

\* An offset between the bytes of a character, from which or up to which the text
\* cannot be decoded.
InsideCharacter(p) == p % 4 = 2 /\ Entry(p \div 4) \in Wide

\* A file shorter than the offset was truncated.
Resumed == IF byteOffset > size THEN 0 ELSE byteOffset

\* Mutants: the first character is not looked at; it is taken for no brace.
Unaligned == Resumed
AlwaysAdvanced ==
  IF Resumed \in 1..(size - 1) THEN LineEnd(Resumed + 1) ELSE Resumed

\* A character other than a brace at the offset: it is read, and then a line.
Aligned ==
  IF Resumed \in 1..(size - 1) /\ ~IsBrace(Resumed)
    THEN LineEnd(Resumed + 1)
    ELSE Resumed

\* Line k, as much of it as is there, is blank or an object.
Takes(k) ==
  \/ Entry(k) \in Blank /\ 4 * k < size
  \/ Entry(k) \notin Blank \cup Garbled \cup Foreign /\ 4 * k + 3 <= size

\* Lines from p on at which the loop stops: one that is not JSON, one cut off
\* before its newline, or the end of the file.
Stops(p) == {k \in 0..Lines : 4 * k >= p /\ ~Takes(k)}

\* The lines from there up to the first of them.  A line entered at a brace inside
\* it does not parse.
ParsedLines ==
  IF Aligned % 4 = 0
    THEN {k \in 0..(Lines - 1) : 4 * k >= Aligned /\ \A j \in Stops(Aligned) : k < j}
    ELSE {}

\* Mutant: the offset is saved as it was before the lines.
OffsetBeforeLines == Aligned

\* safe_offset: the end of the last line that was taken.
SafeOffset ==
  IF ParsedLines = {} THEN Aligned
  ELSE LineEnd(4 * (CHOOSE k \in ParsedLines : \A j \in ParsedLines : j <= k))

\* Mutant: the entries are taken one line too late.
EntriesOneOff ==
  [i \in 1..Cardinality(ParsedLines) |-> Entry(Aligned \div 4 + i)]

\* The lines taken, in file order.
NewEntries ==
  [i \in 1..Cardinality(ParsedLines) |-> Entry(Aligned \div 4 + i - 1)]

\* No complete line stops the loop before the end of the file.
ReadsToTheEnd ==
  \A k \in 0..(Lines - 1) :
    4 * k + 4 <= size /\ 4 * k + 3 >= Aligned => Aligned <= 4 * k /\ Takes(k)

\* Reading raises UnicodeDecodeError: the offset, or the end of the file, is inside
\* a character.
Raises ==
  /\ Resumed < size
  /\ InsideCharacter(Resumed) \/ (InsideCharacter(size) /\ ReadsToTheEnd)

\* How far the offset then gets: it stays where it was when the error comes before
\* its character, or the rest of its line, is read.
Reached ==
  IF InsideCharacter(Resumed) \/ (Aligned = size /\ InsideCharacter(size))
    THEN Resumed
    ELSE Aligned

-----------------------------------------------------------------------------
ReaderInit ==
  /\ size \in 0..End
  /\ life = 0
  /\ tracked = FALSE
  /\ byteOffset = 0
  /\ read = <<>>
  /\ again = {}
  /\ first = 0
  /\ cuts = {}

\* The agent's buffered writes reach the file in pieces of any length.
Write(n) ==
  /\ size + n <= End
  /\ size' = size + n
  /\ UNCHANGED <<life, tracked, byteOffset, read, again, first, cuts>>

\* The transcript is written anew.
Truncate ==
  /\ life < Files - 1
  /\ life' = life + 1
  /\ size' = 0
  /\ cuts' = {}
  /\ UNCHANGED <<tracked, byteOffset, read, again, first>>

\* A poll or the start of tracking meets the end of the file.
MeetsEnd == cuts' = IF size % 4 = 3 THEN cuts \cup {size} ELSE cuts

\* The first _process_session_file: tracking starts at the end of the file.
StartReading ==
  /\ ~tracked
  /\ tracked' = TRUE
  /\ byteOffset' = size
  /\ first' = size
  /\ MeetsEnd
  /\ UNCHANGED <<size, life, read, again>>

\* Every later one.  The mtime test only spares opening a file where there is
\* nothing to read.
ReadNewLines ==
  /\ tracked
  /\ ~Raises
  /\ byteOffset' = SafeOffset
  /\ read' = read \o NewEntries
  /\ MeetsEnd
  /\ UNCHANGED <<size, life, tracked, again, first>>

\* The error ends the visit with nothing handed over.  An offset moved back to the
\* start, or past the line it was inside, stays moved.
ReadRaises ==
  /\ tracked
  /\ Raises
  /\ byteOffset' = Reached
  /\ MeetsEnd
  /\ UNCHANGED <<size, life, tracked, read, again, first>>

\* An OSError: what was read by then is handed over, and the offset does not follow
\* it.  Bound: a line is handed over by one such read only.
ReadBreaksOff(n) ==
  LET given == {NewEntries[i] : i \in 1..n}
  IN  /\ tracked
      /\ again \cap given = {}
      /\ read' = read \o SubSeq(NewEntries, 1, n)
      /\ again' = again \cup given
      /\ byteOffset' \in {byteOffset, Resumed, Reached}
      /\ n > 0 => byteOffset' = Aligned
      /\ MeetsEnd
      /\ UNCHANGED <<size, life, tracked, first>>

ReaderNext ==
  \/ \E n \in 1..4 : Write(n)
  \/ Truncate
  \/ StartReading
  \/ ReadNewLines
  \/ ReadRaises
  \/ \E n \in 0..Cardinality(ParsedLines) : ReadBreaksOff(n)

ReaderSpec == ReaderInit /\ [][ReaderNext]_readerVars

FairReaderSpec == ReaderSpec /\ WF_readerVars(ReadNewLines)

-----------------------------------------------------------------------------
(* Properties.                                                             *)

\* No line is taken twice, and none after a later one: not when a line was met
\* half written, nor when tracking began inside one, nor after a truncation, nor
\* after an error in decoding.  Only lines that a read handed over before it broke
\* off come once more, because the offset did not follow them.
ReadInOrder ==
  \A i, j \in DOMAIN read : i < j => read[i] < read[j] \/ read[j] \in again

\* The objects of the file that the offset has passed without their having been
\* read, in a file that was never truncated.
Lost ==
  {k \in 0..(Lines - 1) :
     /\ tracked
     /\ life = 0
     /\ Entry(k) \notin Blank \cup Garbled \cup Foreign
     /\ 4 * k >= first
     /\ 4 * k + 4 <= byteOffset
     /\ \A i \in DOMAIN read : read[i] # Entry(k)}

\* A line is lost only if a poll (or the start of tracking) met the end of the
\* file just before the newline of the line in front of it: the reader takes
\* that newline for a corrupted offset and skips the line after it.  An agent
\* that writes whole lines loses none.
LossNeedsSplitLine == \A k \in Lost : 4 * k - 1 \in cuts

\* Where the reader waits, whatever is behind: at a line that is not JSON and opens
\* with a brace (or is the first of the file), at a brace inside the line in which
\* tracking began, at a byte inside a character, and wherever it is while the file
\* ends inside a character.
Waits ==
  \/ /\ byteOffset % 4 = 0 /\ Entry(byteOffset \div 4) \in Garbled \cup Foreign
     /\ IsBrace(byteOffset) \/ byteOffset = 0
  \/ byteOffset % 4 = 1 /\ IsBrace(byteOffset)
  \/ InsideCharacter(byteOffset)
  \/ InsideCharacter(size)

\* The offset passes every complete line of the file, unless the reader waits at one
\* of these places.  It is not promised to leave them: but for the last, only a
\* truncation helps, although the reader's message (transcript_reader.py:256) says
\* that it will retry.
CatchesUp ==
  \A k \in 1..Lines :
    tracked /\ 4 * k <= size ~> byteOffset >= 4 * k \/ size < 4 * k \/ Waits
=============================================================================
