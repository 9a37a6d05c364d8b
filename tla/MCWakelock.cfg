CONSTANTS
  a = a
  b = b
  t1 = t1
  t2 = t2
  Locks <- MCLocks
  Threads <- MCThreads
  TimerTask = TimerTask
  Timeouts <- OneTick
  NoLock = NoLock
  Horizon = 3
  MaxRef = 2
SPECIFICATION WlSpec
SYMMETRY Symmetry
INVARIANTS
  WlTypeOK
  HeldKeepsAwake
