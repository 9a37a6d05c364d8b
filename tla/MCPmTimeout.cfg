CONSTANTS
  pm = pm
  a = a
  main = main
  t1 = t1
  Locks <- MCLocks
  Threads <- MCThreads
  TimerTask = TimerTask
  Timeouts <- NoTimeout
  NoLock = NoLock
  Horizon = 0
  MaxRef = 2
  PmLock = pm
  Caller = main
  Tmos <- AnyTmo
  Aborts = FALSE
  MaxDone = 1
SPECIFICATION PmFairSpec
PROPERTY EnterReturns
