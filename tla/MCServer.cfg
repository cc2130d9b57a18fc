SPECIFICATION Spec
CONSTANTS
  Conn = {x1, x2}
  Channel = {c1, c2}
  All = All
  MaxEvents = 1
SYMMETRY Symmetry
INVARIANTS
  TypeOK
  EveryListenerServed
CHECK_DEADLOCK FALSE
