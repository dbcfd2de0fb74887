SPECIFICATION Spec
CONSTANTS
  StrobeLen = 4
  BootTicks = 4
  MaxAccesses = 2
  Accesses <- MCAccesses
  SrMasks <- MCNone
  IntrLevels <- MCNoLevels
  Events <- MCAll
INVARIANTS TypeOK SelectFollowsCounter NoTornSample ExactlyOnce FullStrobe ReadAnswered
PROPERTIES BusRefinement
