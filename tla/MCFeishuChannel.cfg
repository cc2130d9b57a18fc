SPECIFICATION Spec
CONSTANTS
  User = {u1, u2}
  Channel = {c1}
  Window = {w1, w2}
  NoWindow = NoWindow
  MaxMessages = 4
  MaxBatches = 2
  MaxEnds = 1
  MaxLosses = 1
CONSTRAINT Apart
SYMMETRY Symmetry
INVARIANTS
  TypeOK
  HandledOnce
  
  OneTurnPerCard
CHECK_DEADLOCK FALSE
