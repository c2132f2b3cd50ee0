SPECIFICATION ClientsSpec
CONSTANTS
  HEAP_START = 8
  HEAP_SIZE = 120
  HDR = 12
  WORD = 256
  Sizes <- MCSizes
  Strays <- MCStrays
INVARIANTS
  HeapInv
  LiveDisjoint
  NoFalseExhaustion
  StatsExact
  CoalesceIsLoop
