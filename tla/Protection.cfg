SPECIFICATION Spec
CONSTANTS
  Width = 3
  Kept = 2
  ExecNum = 1
  DataNum = 2
  Reserved = FALSE
  Lowers <- SomeLowers
  Uppers <- SomeUppers
  Doubts <- SomeDoubts
  Accesses <- SomeAccesses
INVARIANTS
  TypeOK
  RegionsCurrent
PROPERTIES
  PrivilegeIsEntered
  KeepsProtection
