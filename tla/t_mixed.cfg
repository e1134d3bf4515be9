CONSTANTS
  t1 = t1
  t2 = t2
  t3 = t3
  JobThreads = {t1}
  TaskThreads = {t2}
  PidOf <- OnePidEach
  ResetClearsIrq = TRUE
  MaxJobs = 3
SPECIFICATION Spec
PROPERTIES TJobLeaves
CHECK_DEADLOCK FALSE
