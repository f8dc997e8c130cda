SPECIFICATION FairSpec
CONSTANTS
  Size = 4
  Threshold = 2
  WCheckMax = 2
  RCheckMax = 2
  FlushMax = 1
  RaiseWait = 1
  Served = TRUE
  MaxOut = 6
  MaxIn = 5
  MaxResets = 1
INVARIANTS
  TypeOK
  OutputAppended
  InputInOrder
PROPERTIES
  EventuallyWritten
  TransmissionEnds
  InputOffered
