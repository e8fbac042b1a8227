SPECIFICATION FairSpec
CONSTANTS
  Subjects = {1, 2}
  MaxVersion = 2
  MaxRequests = 2
  MaxTurns = 2
  MaxFaults = 1
INVARIANTS
  NothingComesBack
PROPERTIES
  IsScreen
  CatchesUp
CHECK_DEADLOCK FALSE
