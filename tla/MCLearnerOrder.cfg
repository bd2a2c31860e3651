CONSTANTS
  h1 = h1
  h2 = h2
  Accepter = {a1, a2, a3}
  Request = {r1, r2}
  Num = {1, 2}
  Host = {h1, h2}
  Home <- MCHome
  InitSeen = {0}
  SeenMod = 8
  Duplicates = FALSE
  MaxReceive = 4
SYMMETRY Symmetry
SPECIFICATION Spec
INVARIANT SameOrder
CHECK_DEADLOCK FALSE
