SPECIFICATION Spec
CONSTANTS
  Window = {w1, e1}
  Emdash = {e1}
  Session = {s1, s2}
  Writer = {p1, p2}
  Loop = loop
  Loader = {l1}
  None = None
  Missing = Missing
  Bound = {e1}
  Corrupt = Corrupt
  MaxStarts = 2
  MaxErrors = 1
CONSTRAINT Considered
SYMMETRY Symmetry
INVARIANTS
  TypeOK
  StartsAreKept
  SwitchHolds
