CONSTANTS
  x = x
  y = y
  h = h
  Plain <- MCPlain
  Local = {x, h}
  Env <- MCEnv
  Host <- MCHost
  Cluster <- MCCluster
  MaxVersion = 6
SPECIFICATION Spec
INVARIANTS
  WellFormed OneEnvironment 
  NamesResolve SearchesFind DependenciesSorted
PROPERTIES  ThrewIsHalfDone
CHECK_DEADLOCK FALSE
