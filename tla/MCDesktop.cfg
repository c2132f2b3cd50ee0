SPECIFICATION Spec
CONSTANTS
  VGA_WIDTH = 8
  DESKTOP_TOP = 1
  DESKTOP_BOTTOM = 6
  DOCK_TOP = 7
  MENU_X = 1
  MENU_Y = 1
  MENU_W = 2
  MENU_H = 7
  MENU_BAR_END = 2
  DOCK_SLOT_W = 2
  WINDOW_COUNT = 3
  About = 2
  Size <- MCSize
  Layout <- MCLayout
  Order <- MCOrder
  Moves <- MCMoves
INVARIANTS
  SeenIsHit
  DragSane
  InBounds
