SPECIFICATION Spec
CONSTANTS
  Window = {w1, w2}
  Process = {p1, p2}
  MaxMessages = 2
  MaxMoves = 2
CONSTRAINT Judged
SYMMETRY Sym
INVARIANTS
  TypeOK
  UnhandledIsKept
  OfferedIsUnhandled
