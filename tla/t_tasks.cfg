CONSTANTS
  t1 = t1
  t2 = t2
  t3 = t3
  JobThreads = {}
  TaskThreads = {t1, t2, t3}
  PidOf <- OnePidEach
  ResetClearsIrq = FALSE
  MaxJobs = 4
SPECIFICATION Spec
INVARIANTS SessionExclusive
PROPERTIES SessionStarts
CHECK_DEADLOCK FALSE
