SPECIFICATION Spec
CONSTANTS
  Width = 3
  Kept = 2
  ExecNum = 1
  DataNum = 2
  Reserved = FALSE
  Lowers <- HighLowers
  Uppers <- HighUppers
  Doubts <- SomeDoubts
  Accesses <- HighAccesses
INVARIANTS
  EnclosedIsGranted
