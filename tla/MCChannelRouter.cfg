SPECIFICATION Spec
CONSTANTS
  c1 = c1
  c2 = c2
  c3 = c3
  w1 = w1
  w2 = w2
  n1 = n1
  NoName = NoName
  Channel <- MCChannel
  Window <- MCWindow
  Name <- MCName
INVARIANTS
  TypeOK
  IndexExact
  MetaOnlyForBound
PROPERTIES
  OrphanIsDiscarded
  BindingChangesAreSaved
  SharingNeverArises
  RoutingSpec
