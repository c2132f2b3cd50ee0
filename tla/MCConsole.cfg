SPECIFICATION Spec
CONSTANTS
  Letters = {"a"}
  Upper <- MCUpper
  ExtendedCodes = {"up", "down", "left", "right", "home", "end", "delete"}
  PlainCodes = {"enter", "backspace", "escape"}
  Shifts = {"left shift", "right shift"}
  KeySets <- MCKeySets
  AuxBits = {TRUE}
  HIST_SIZE = 2
  HIST_LEN = 3
  Printable = {"a", "A"}
INVARIANT
  PacketsWhole
PROPERTIES
  EditsInOrder
  KeyboardNeverBlocked
