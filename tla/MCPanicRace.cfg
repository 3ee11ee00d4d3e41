SPECIFICATION Spec
CONSTANTS
  Threads = {t1, t2}
  Installers = {t1, t2}
  MaxDepth = 2
  MaxPanics = 2
  NoThread = NoThread
INVARIANT HookedPanicHasMessage
CHECK_DEADLOCK FALSE
