SPECIFICATION FairSpec
CONSTANTS
  StrobeLen = 2
  BootTicks = 1
  MaxAccesses = 1
  Accesses <- MCAccesses
  SrMasks <- MCNone
  IntrLevels <- MCNoLevels
  Events <- MCAll
PROPERTIES QuitEnds HeldButtonLoads AccessCompletes
