SPECIFICATION Spec
CONSTANTS
  MaxRam = 13
  WordSize = 65536
  AddressSpace = 16777216
  Handler <- MCHandler
  TrapVectors = {32}
  LineVectors = {10}
  Level = 2
  BootSp = 14
  BootPc = 0
  SrValues = {0, 8192}
  SpValues = {6}
  Targets = {0}
  DataWords = {0}
  Opcode = 0
  Program = {"trap", "line", "illegal", "ccr", "sr", "stop", "usp", "reset", "rte"}
  PcBound = 4
  SpBound = 14
INVARIANTS TypeOK FramesIntact
PROPERTIES RteReturns
CHECK_DEADLOCK FALSE
