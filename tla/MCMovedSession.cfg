SPECIFICATION Spec
CONSTANTS
  Window = {w1, w2}
  Session = {s1, s2}
  MaxLines = 1
  MaxEvents = 0
SYMMETRY Symmetry
PROPERTY RemovedSessionsAreGone
