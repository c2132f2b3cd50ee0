SPECIFICATION Spec
CONSTANTS
  HEAP_START = 12
  HEAP_SIZE = 228
  HDR = 12
  WORD = 256
  PAGE_SIZE = 80
  MEM_SIZE = 480
  PROC_SIZE = 28
  PID_MOD = 4
  MAX_COUNT = 3
INVARIANTS
  TypeOK
  PmmInv
  RingIntact
  StructOwnership
  StackOwnership
PROPERTY
  RoundRobin
