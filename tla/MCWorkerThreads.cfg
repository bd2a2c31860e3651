CONSTANTS
  Registered <- MCLearnerOnly
  TimedWait <- MCTimed
  Item = {i1, i2, i3}
  Capacity = 2
  NoWorker = NoWorker
SPECIFICATION FairSpec
PROPERTIES QueuedIsHandled 
CHECK_DEADLOCK FALSE
