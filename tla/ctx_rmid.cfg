CONSTANTS
  p1 = p1
  p2 = p2
  p3 = p3
  NoProc = NoProc
  Procs = {p1, p2, p3}
  Polite = FALSE
  MaxSegs = 3
SPECIFICATION CtxSpec
INVARIANTS ProcessExclusion
SYMMETRY AllProcs
