SPECIFICATION FairReaderSpec
CONSTANTS
  Lines = 4
  Files = 2
  Nested = {0}
  Wide = {4}
  Blank = {1}
  Garbled = {6}
  Foreign = {2, 5}
INVARIANTS
  ReaderTypeOK
  ReadInOrder
  LossNeedsSplitLine
PROPERTIES
  CatchesUp
