SPECIFICATION Spec
CONSTANTS
  MaxRam = 9
  XoseraStart = 12
  XoseraEnd = 16
  MaxAddress = 17
  SizeAddress = 4
  TimerAddress = 0
  BootTable <- MCBootTable
  NoPrefetch = 6
  ProgramStart = 2
  Programs <- MCPrograms
  Data <- MCData
  JumpTargets <- MCJumpTargets
  MaxWrites = 1
INVARIANT ErrorsExit
CHECK_DEADLOCK FALSE
