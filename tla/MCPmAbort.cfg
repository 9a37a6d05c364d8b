CONSTANTS
  pm = pm
  a = a
  main = main
  t1 = t1
  Locks <- MCLocks
  Threads <- MCThreads
  TimerTask = TimerTask
  Timeouts <- NoTimeout
  NoLock = NoLock
  Horizon = 0
  MaxRef = 1
  PmLock = pm
  Caller = main
  Tmos <- AnyTmo
  Aborts = TRUE
  MaxDone = 0
SPECIFICATION PmSpec
INVARIANTS
  AsleepUnheld
  AsleepInCall
