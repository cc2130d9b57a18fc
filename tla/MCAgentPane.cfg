SPECIFICATION Spec
CONSTANTS
  Call = {k1, k2}
  Bang = {k2}
  Prober = {monitor, creator}
  Monitor = {monitor}
  None = None
  MaxOthers = 1
  MaxFaults = 1
CONSTRAINT Judged
INVARIANTS
  TypeOK
  KeysArriveWhole
CHECK_DEADLOCK FALSE
