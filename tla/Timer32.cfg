SPECIFICATION Spec
CONSTANTS
  Channels = {2, 3}
  Fd = 3
  Wrap = 9
  Compares = {0, 1, 2, 4}
  MaxClock = 17
INVARIANTS
  TypeOK
  NotOverdue
PROPERTIES
  NoEarlyFiring
  NeverBackwards
