SPECIFICATION FairSpec
CONSTANTS
  Window = {w1}
  Session = {s1}
  MaxLines = 2
  MaxEvents = 1
INVARIANTS
  TypeOK
  NothingSkipped
  NothingRepeated
  NoEventSkipped
PROPERTY
  LinesArrive
