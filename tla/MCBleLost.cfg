CONSTANTS
  d = d
  a = a
  b = b
  t1 = t1
  t2 = t2
  Works <- MCWorks
  Delayed <- MCDelayed
  Threads <- MCThreads
  WorkQ = WorkQ
  None = None
  MaxSubmit = 5
SPECIFICATION Spec
INVARIANT NoneLost
CHECK_DEADLOCK FALSE
