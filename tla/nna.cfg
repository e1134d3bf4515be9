CONSTANTS
  t1 = t1
  t2 = t2
  t3 = t3
  Free = Free
  NoPid = NoPid
  Threads = {t1, t2, t3}
  PidOf <- OnePidEach
  Faults = {"unlock", "force", "trylock", "nomem", "kill"}
SPECIFICATION Spec
INVARIANTS OneClaim MutualExclusion NoBug
PROPERTIES LockGranted
CHECK_DEADLOCK FALSE
