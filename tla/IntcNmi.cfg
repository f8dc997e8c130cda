SPECIFICATION HFairSpec
CONSTANTS
  CoreNum = 2
  IntNum = 1
  NumLvl = 1
  NoUse = 5
  ImrWidth = 4
  Sources = {}
  MirInts = {}
  ICValues = {}
  ImrValues = {}
  NmiSources = {"nmi"}
  Traps = {}
  MaxNmi = 1
PROPERTIES
  NmiIsTaken
