CONSTANTS
  RepairA1 = TRUE
  MaxFiles = 2
  MaxProbes = 2
  p1 = p1
  p2 = p2
  p3 = p3
  NoProc = NoProc
  Procs = {p1, p2, p3}
  Polite = TRUE
  MaxSegs = 2
  u1 = u1
  u2 = u2
  NoUser = NoUser
  Users = {u1, u2}
  Used = {"perspective", "covert"}
  MaxBoxes = 2
  MaxBuf = 2
  MaxOpens = 2
  MaxCauses = 1
  CountMod = 8
  MaxMaps = 3
  DmaUsers = {u1, u2}
  NoDmaUser = NoUser
  DmaSizes <- MCDmaSizes
  BoLines = {3, 5}
  OramLines = {0, 7}
SPECIFICATION Spec
INVARIANTS MisusedOnlyEarly ClockFollowsFiles ProcessExclusion LockReady AipUsesLive ChannelExclusive OpenIsReady NothingLeft DmaAsAsked
SYMMETRY AllActors
CHECK_DEADLOCK FALSE
