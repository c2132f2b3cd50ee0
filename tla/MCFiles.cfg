SPECIFICATION Spec
CONSTANTS
  home = home
  note = note
  MAX_NODES = 4
  DATA_CAP = 3
  Names <- MCNames
  RawNames <- MCRawNames
  NameLength <- MCNameLength
  Seeds <- MCSeeds
  Paths <- MCPaths
  Texts <- MCTexts
  PATH_CAP = 20
  DELETE_AT_ROOT = FALSE
INVARIANTS
  TypeOK
  ListsIntact
  PathsResolve
  PoolDisjoint
  CwdLive
PROPERTIES
  CommandsKeepTree
  MvKeepsBytes
  
VIEW MCView
