SPECIFICATION Spec
CONSTANTS
  Sources = {s1, s2}
  Missions = {"home", "away"}
  Default = "home"
  Cells = {1, 2, 3}
  Region <- MCRegion
  Requests = {r1, r2}
  Active = 1
  Empty = 2
  Watched = 2
  MaxNow = 2
  MaxFaults = 1
INVARIANTS
  RegionCovered
  StraysWereHeld
  AreaFollowsMission
  CellsAreServed
CHECK_DEADLOCK FALSE
