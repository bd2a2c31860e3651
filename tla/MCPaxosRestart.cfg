CONSTANTS
  p1 = p1
  p2 = p2
  r1 = r1
  r2 = r2
  Accepter = {a1, a2, a3}
  Proposer = {p1, p2}
  Request = {r1, r2}
  Failover = {r2}
  NoRequest = NoRequest
  NumMod = 2
  MaxRestarts = 1
  Num <- MCNum
  BowOut = 2
  InitNumber <- MCNumber
  InitAccepted = {0}
  InitPending <- MCPending
  InitView <- MCView
  Timeouts = FALSE
  Duplicates = {}
SYMMETRY Symmetry
SPECIFICATION RestartSpec
INVARIANT ChosenUniqueDespiteRestart
CHECK_DEADLOCK FALSE
