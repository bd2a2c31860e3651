CONSTANTS
  p1 = p1
  p2 = p2
  r1 = r1
  r2 = r2
  Accepter = {a1, a2, a3}
  Proposer = {p1, p2}
  Request = {r1, r2}
  Failover = {r2}
  NoRequest = NoRequest
  NumMod = 3
  Num <- MCNum
  BowOut = 1
  InitNumber <- MCNumber
  InitAccepted = {0}
  InitPending <- MCPending
  InitView <- MCView
  Timeouts = TRUE
  Duplicates = {p2}
SYMMETRY Symmetry
SPECIFICATION Spec
INVARIANTS DoneIsChosen ChosenUnique OneWinnerPerNumber
PROPERTY ImplementsLog
CHECK_DEADLOCK FALSE
