SPECIFICATION Spec
CONSTANTS
  CoreNum = 1
  IntNum = 4
  NumLvl = 2
  NoUse = 5
  ImrWidth = 4
  Sources = {0, 1, 2, 3}
  MirInts = {}
  ICValues <- OneLevel
  ImrValues = {}
  NmiSources = {}
  Traps = {}
  MaxNmi = 0
INVARIANTS
  StackFits
CHECK_DEADLOCK FALSE
