SPECIFICATION Spec
CONSTANTS
  A = "A.class"
  B = "B.class"
  Long = "com/long/name/of/a/Main.class"
  Text = "hello.txt"
  Manifest = "META-INF/MANIFEST.MF"
  ClassNames = {"A.class", "B.class", "com/long/name/of/a/Main.class"}
  HEADER = 3
  NameLen <- MCNameLen
  CLASS_PATH = 3
  CutName <- MCCutName
  INT_LIM = 128
  JVM_CP_MAX = 5
  JVM_METHOD_MAX = 1
  Jars <- MCJars
  ClassFiles <- MCClassFiles
  JVM_STACK_MAX = 2
  JVM_LOCALS_MAX = 1
  JVM_CALL_DEPTH_MAX = 1
  ARGV_MAX = 1
  HJAR_STACK_MAX = 2
  HjarSize = 12
INVARIANTS
  ReadsJar
  ParsesAsWritten
  ArraysInBounds
PROPERTY
  CallsBalance
