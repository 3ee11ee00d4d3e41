SPECIFICATION Spec
CONSTANTS
  Threads = {t1, t2}
  Stores = {s1, s2}
  Rounds = 2
  MaxDepth = 2
  Workloads <- AnyWorkload
  NoThread = NoThread
CHECK_DEADLOCK FALSE
PROPERTY ParseReturns
