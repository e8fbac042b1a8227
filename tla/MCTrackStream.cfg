SPECIFICATION FairSpec
CONSTANTS
  Slots = {1, 2, 3}
  Cap = 2
  BatchSize = 2
  MaxInbox = 1
  MaxTimers = 2
  MaxNudges = 1
  MaxFaults = 2
  MaxServed = 1

  
PROPERTIES
  StreamRecovers
  WatchlistConverges
CHECK_DEADLOCK FALSE
