SPECIFICATION Spec
CONSTANTS
  MaxRam = 7
  WordSize = 65536
  AddressSpace = 16777216
  Handler <- MCHandler
  TrapVectors = {32}
  LineVectors = {10}
  Level = 2
  BootSp = 8
  BootPc = 0
  SrValues = {0}
  SpValues = {3, 4}
  Targets = {0}
  DataWords = {0}
  Opcode = 0
  Program = {"trap", "line", "illegal", "chk", "sr", "usp", "unlk", "rtr", "rts", "jsr", "push"}
  PcBound = 2
  SpBound = 8
PROPERTIES UserConfined
CHECK_DEADLOCK FALSE
