CONSTANTS
  h1 = h1
  h2 = h2
  Accepter = {a1, a2, a3}
  Request = {r1}
  Num = {1, 2}
  Host = {h1}
  Home <- MCHome
  InitSeen = {0, 1, 7}
  SeenMod = 8
  Duplicates = FALSE
  MaxReceive = 6
SPECIFICATION FairSpec
INVARIANT AppliedOncePerNumber
 
CHECK_DEADLOCK FALSE
