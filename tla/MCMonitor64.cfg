SPECIFICATION Spec
CONSTANTS
  LINE_SIZE = 3
  Dirs = {"/", "/home"}
PROPERTY
  KeysAreRead
CHECK_DEADLOCK FALSE
