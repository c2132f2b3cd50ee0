\* The same instance, with the children of the root among what is deleted.
SPECIFICATION Spec
CONSTANTS
  home = home
  note = note
  MAX_NODES = 4
  DATA_CAP = 3
  Names <- MCNames
  RawNames <- MCRawNames
  NameLength <- MCNameLength
  Seeds <- MCSeeds
  Paths <- MCPaths
  Texts <- MCTexts
  PATH_CAP = 20
  DELETE_AT_ROOT = TRUE
INVARIANT
  RemovedIsGone
