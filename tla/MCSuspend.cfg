CONSTANTS
  d1 = d1
  d2 = d2
  Devices <- MCDevices
  Normal <- MCDevices
  Noirq <- MCNoirq
  Modes <- MCModes
  Tests <- MCTests
  None = None
  MaxReg = 4
SPECIFICATION FairSpec
INVARIANTS
  AsleepAllDown
  UpWhenBack
  ListsRestored
PROPERTIES
  ImplementsSleepCall
  ResumeReverses
  CallEnds
