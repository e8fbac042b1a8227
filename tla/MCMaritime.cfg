SPECIFICATION Spec
CONSTANTS
  N = 2
  SwitchAfter = 2
  Centers = {0, 1, 2}
  MinMove = 2
  MaxInbox = 1
INVARIANTS
  
  FallbackIsProbeable
  MissionIsFollowed
CHECK_DEADLOCK FALSE
