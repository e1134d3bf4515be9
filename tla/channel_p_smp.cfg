CONSTANTS
  t1 = t1
  t2 = t2
  t3 = t3
  p1 = p1
  p2 = p2
  Free = Free
  Irq = Irq
  Threads = {t1, t2, t3}
  Waiters = {t3}
  PidOf <- SharedPid
  Channel = "P"
  RepairA1 = TRUE
  CompletionBits = {"TIMEOUT"}
  ResetClearsIrq = FALSE
  Smp = TRUE
  MaxJobs = 2
SPECIFICATION Spec
INVARIANTS QueueShape NoLostCompletion ExecOnce OwnJobOut
SYMMETRY AllThreads
