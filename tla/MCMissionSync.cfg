SPECIFICATION Spec
CONSTANTS
  Places = {"home", "away", "axis"}
  OnAxis = {"axis"}
  Home = "home"
  Radii = {150}
  DefaultRadius = 150
  Calls = {1}
  MaxMoves = 2
  MaxFaults = 1
INVARIANTS
  ShownWasActive
  OwnMoveIsCached
PROPERTIES
  PageFollows
CHECK_DEADLOCK FALSE
