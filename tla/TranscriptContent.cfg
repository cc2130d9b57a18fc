SPECIFICATION Spec
CONSTANTS
  MaxLines = 5
CONSTRAINT Bounded
INVARIANTS
  TypeOK
  TasksCurrent
  TasksSinceStart
  ShownAsOneParse
