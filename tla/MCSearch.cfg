CONSTANTS
  x = x
  h = h
  c = c
  ADMIN_NODE = ADMIN_NODE
  KEYS = KEYS
  Uint32 = 128
  Plain <- MCPlain
  Local = {c, h}
  Env = {x}
  Host = {h}
  Cluster <- MCCluster
  MaxVersion = 5
SPECIFICATION SearchSpec
INVARIANTS KeptIsSeen  GeneratedIsSpecified WordsAreSpelled
 
CHECK_DEADLOCK FALSE
