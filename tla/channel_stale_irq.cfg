CONSTANTS
  t1 = t1
  t2 = t2
  t3 = t3
  p1 = p1
  p2 = p2
  Free = Free
  Irq = Irq
  Threads = {t1, t2}
  Waiters = {t1, t2}
  PidOf <- OnePidEach
  Channel = "F"
  RepairA1 = FALSE
  CompletionBits = {"CHAIN"}
  ResetClearsIrq = TRUE
  Smp = TRUE
  MaxJobs = 2
SPECIFICATION Spec
INVARIANTS FinishedIsDone
