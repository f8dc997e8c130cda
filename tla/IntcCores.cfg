SPECIFICATION HSpec
CONSTANTS
  CoreNum = 2
  IntNum = 2
  NumLvl = 1
  NoUse = 5
  ImrWidth = 4
  Sources = {1}
  MirInts = {0}
  ICValues <- OneLevel
  ImrValues = {}
  NmiSources = {}
  Traps = {}
  MaxNmi = 0
INVARIANTS
  RequestsWait
PROPERTIES
  NoSpuriousService
