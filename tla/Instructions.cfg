SPECIFICATION FairSpec
CONSTANTS
  Width = 8
  SignBit = 128
  ShortBits = 5
  MulBits = 5
  CondBits = 5
  JumpBits = 6
  EpBits = 5
  LongBits = 6
  RegNum = 8
  SP = 5
  EP = 6
  SingleExp = 5
  DoubleExp = 6
  ReadOnly <- ReadOnlyBytes
  Programs <- AllPrograms
INVARIANTS
  TypeOK
  ComparesAsIntegers
  WideArithmetic
  DividesOrReports
  FitsTheWord
  OneReading
  LoadsSeeStores
  BitsAreLocks
  FloatsCompare
  ConvertsOrReports
  FpuMirrorsAgree
  FloatLaws
PROPERTIES
  ProgramsEnd
