CONSTANTS
  t1 = t1
  t2 = t2
  Threads = {t1, t2}
  Bos = {1, 2, 3, 4}
  MaxCalls = 2
SPECIFICATION CallsSpec
INVARIANTS CallsJobMemory ResultComplete
PROPERTIES CallReturns
CHECK_DEADLOCK FALSE
