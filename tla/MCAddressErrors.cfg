SPECIFICATION Spec
CONSTANTS
  MaxRam = 15
  WordSize = 65536
  AddressSpace = 16777216
  Handler <- MCHandler
  TrapVectors = {32}
  LineVectors = {10}
  Level = 2
  BootSp = 16
  BootPc = 0
  SrValues = {0, 1792}
  SpValues = {5}
  Targets = {3}
  DataWords = {0}
  Opcode = 0
  Program = {"odd", "sr", "sp", "jump", "rte", "pop", "unlk"}
  PcBound = 2
  SpBound = 16
PROPERTIES UserErrorsCaught PointersApart
CHECK_DEADLOCK FALSE
