CONSTANTS
  o1 = o1
  o2 = o2
  up = up
  app = app
  Observers <- MCObservers
  Events <- MCEvents
  Watches <- MCWatches
  Handler = Handler
  Apps <- MCApps
  Net = Net
  Looper = Looper
  None = None
  QueueLen = 1
  MaxSent = 3
SPECIFICATION FairSpec
INVARIANTS
  SysTypeOK
  ObservesAsAsked
  FreeUnlinked
  FinishHasWaiter
CHECK_DEADLOCK FALSE
PROPERTIES
  EveryObserverTold
  NoneToldUnasked
  SentIsServed
