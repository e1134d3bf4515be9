CONSTANTS
  p1 = p1
  p2 = p2
  NoProc = NoProc
  Procs = {p1, p2}
  Files = {1, 2}
  Nr <- HostPid
  Vnr <- HostPid
  Contexts = 1
  MaxBos = 2
  MaxJobs = 2
  Units = 2
SPECIFICATION Spec
INVARIANTS JobMemory OramExact NoBug
