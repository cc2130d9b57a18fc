SPECIFICATION GatewaySpec
CONSTANTS
  c1 = c1
  w1 = w1
  w2 = w2
  noWindow = noWindow
  r1 = r1
  r2 = r2
  NoName = NoName
  NoChannel = NoChannel
  NoRequest = NoRequest
  Channel <- MCChannel
  Window <- MCWindow
  Name = {}
  MaxFailures = 1
  Request <- MCRequest
  Blank <- noWindow
SYMMETRY Symmetry
INVARIANTS
  GatewayTypeOK
  NoWindowForgotten
  SavedIsCurrent
PROPERTIES
  StartupReconciles
  CloseIsFinal
