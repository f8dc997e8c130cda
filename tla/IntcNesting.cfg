SPECIFICATION Spec
CONSTANTS
  CoreNum = 1
  IntNum = 3
  NumLvl = 2
  NoUse = 2
  ImrWidth = 2
  Sources = {0, 1, 2}
  MirInts = {}
  ICValues <- TwoLevels
  ImrValues = {{}, {0}, {1}}
  NmiSources = {}
  Traps = {}
  MaxNmi = 0
INVARIANTS
  TypeOK
  ServiceWaits
  NestingOrder
  WaitCount
  IsprInService
PROPERTIES
  LevelKept
  OnlyTheCurrentEnds
  KeepsPromise
