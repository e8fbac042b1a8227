SPECIFICATION PageFairSpec
CONSTANTS
  Users = {"ann", "bob"}
  MaxTokens = 2
  MaxSessionFaults = 1
  Replayed <- MCRecords
  Durations = {2, 4}
  Speeds = {1, 2}
  Stale = 2
  Now = 5
  MaxLoads = 2
  MaxInputs = 2
  Craft = {1}
  Reports = {2, 3}
  Sitrep = 3
  MaxRuns = 2
  MaxOpens = 2
  Delays = 2
  TrackLength = 2
  MaxPositions = 3
  MaxCloses = 2
  MaxToggles = 2
  Tracks = {1, 2}
  Queries = {1, 2}
  Matches <- MCMatches
  MaxTyped = 3
  MaxTrackMoves = 2
  Regions = {1, 2}
  MaxAsks = 3
  Targets = {1, 2}
  Spots = {0, 1, 2}
  MaxMoves = 7
INVARIANTS
  ShownIsOfAsked
  ReplayIsTruthful
PROPERTIES
  WhatIsBegunEnds
CHECK_DEADLOCK FALSE
