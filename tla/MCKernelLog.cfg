SPECIFICATION Spec
CONSTANTS
  KLOG_RING_CAPACITY = 9
  DMESG_PRINT_BUFFER = 6
  LINE_OVERHEAD = 1
  LINE_BUFFER = 4
  TextLengths = {0, 1, 2}
  MAX_LINE_BYTES = 19
  MAX_LINES = 4
PROPERTIES
  KeepsNewest
  DmesgHonest
