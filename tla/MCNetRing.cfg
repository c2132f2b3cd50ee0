SPECIFICATION Spec
CONSTANTS
  NE_RX_START_PAGE = 2
  NE_RX_STOP_PAGE = 8
  PageCounts <- MCPageCounts
  MAX_FRAMES = 6
INVARIANT
  PointersInRing
PROPERTIES
  HandsOnInOrder
  DrainEnds
