SPECIFICATION FairSpec
CONSTANTS
  CoreNum = 1
  IntNum = 1
  NumLvl = 1
  NoUse = 5
  ImrWidth = 4
  Sources = {0}
  MirInts = {}
  ICValues <- OneLevel
  ImrValues = {}
  NmiSources = {"nmi", "intwdt2"}
  Traps = {"trap", "fetrap", "illegal"}
  MaxNmi = 1
PROPERTIES
  FepswKept
  HaltedCoreWakes
