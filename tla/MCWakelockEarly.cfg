CONSTANTS
  a = a
  b = b
  t1 = t1
  t2 = t2
  Locks <- MCLocks
  Threads <- MCThreads
  TimerTask = TimerTask
  Timeouts <- MCTimeouts
  NoLock = NoLock
  Horizon = 3
  MaxRef = 1
SPECIFICATION WlSpec
SYMMETRY Symmetry
INVARIANT TimeoutKeepsAwake
