SPECIFICATION MCSpec
CONSTANTS
  a1 = a1
  s1 = s1
  k1 = k1
  p1 = p1
  p2 = p2
  m1 = m1
  m2 = m2
  squawk = squawk
  aground = aground
  Calm = Calm
  NoMission = NoMission
  Air = {a1}
  Sea = {s1}
  Sats = {k1}
  Places = {p1, p2}
  Missions = {m1, m2}
  Covers <- MCCovers
  Keys = {squawk, aground}
  MaxTime = 2
INVARIANTS
  TracksAreTruthful
PROPERTIES
  NeverBack
  
CHECK_DEADLOCK FALSE
