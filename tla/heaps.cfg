CONSTANTS
  Word = 16
  MaxWrong = 1
  OramVa = 8
  OramPa = 3
  OramSize = 6
  MinRest = 2
  OramSizes = {0, 1, 3}
  OramAligns = {1, 4}
  HeapBase = 8
  HeapSize = 8
  PtrSize = 2
  IncUnits = 3
  MaxChunks = 2
  DdrSizes = {0, 1, 2}
  DdrAligns = {2, 4}
  Callocs <- MCCallocs
  t1 = t1
  Threads = {t1}
  PoolSize = 14
  Granule = 2
  MinRemain = 4
  SharedSize = 1
  Sizes = {0, 3, 6}
  Grow = TRUE
  MaxBos = 3
  Base <- MCBase
SPECIFICATION Spec
INVARIANTS OramTiles OramFindsOwn DdrTiles DdrFindsOwn Tiles 
PROPERTIES OramImplementsHeap DdrImplementsHeap
CHECK_DEADLOCK FALSE
