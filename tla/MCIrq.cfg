SPECIFICATION FairSpec
CONSTANTS
  StrobeLen = 2
  BootTicks = 1
  MaxAccesses = 1
  Accesses <- MCRead
  SrMasks <- MCMasks
  IntrLevels <- MCLevels
  Events <- MCKeyQuit
INVARIANTS PromptReset ResetBeforeRun LoadsAlone ControllerInSync
PROPERTIES NoStaleInterrupt ResetReachesCpu StoppedCpuWakes
