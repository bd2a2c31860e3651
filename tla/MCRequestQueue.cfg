CONSTANTS
  Client = {c1}
  Capacity = 1
  AckCapacity = 1
  Checking = {0}
  MaxRequests = 2
  MaxThreads = 1
  bufsize = 5
  overhead = 2
SPECIFICATION FairSpec
INVARIANTS TrueIsLearned LockedIsNotConfirmed SuccessIsOwnOrLate MessagesArriveMC
 
CHECK_DEADLOCK FALSE
