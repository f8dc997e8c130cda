SPECIFICATION FairSpec
CONSTANTS
  CoreNum = 1
  IntNum = 2
  NumLvl = 1
  NoUse = 5
  ImrWidth = 4
  Sources = {0, 1}
  MirInts = {}
  ICValues <- OneLevel
  ImrValues = {}
  NmiSources = {"intwdt2"}
  Traps = {}
  MaxNmi = 0
PROPERTIES
  Intwdt2IsTaken
