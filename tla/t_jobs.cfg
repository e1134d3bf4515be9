CONSTANTS
  t1 = t1
  t2 = t2
  t3 = t3
  JobThreads = {t1, t2}
  TaskThreads = {}
  PidOf <- OnePidEach
  ResetClearsIrq = FALSE
  MaxJobs = 3
SPECIFICATION Spec
INVARIANTS TFirstRuns
PROPERTIES TImplementsFifo TWaitReturns
