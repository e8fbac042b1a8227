SPECIFICATION Spec
CONSTANTS
  h1 = h1
  h2 = h2
  f1 = f1
  f2 = f2
  Hosts = {h1, h2}
  Freqs <- MCFreqs
  Gains = {0, 1}
  MaxSent = 3
  MaxEvents = 1
  Knobs = {0, 1}
  MaxSettings = 4
  MaxSockets = 4
  MaxEffects = 3
  MaxBreaks = 2
  Articles = {1, 2}
  MaxSteps = 6
  People = {1, 2, 3}
  Administrators = {1, 2}
  MaxRequests = 2
  Tabs = {1, 2}
  MaxSaved = 2
  Nearest = 2
  Farthest = 3
  Start = 2
  MaxEdits = 4
  Airframes = {1}
  Operators = {1, 2}
  Ttl = 1
  MaxDays = 1
  MaxCalls = 3
  MaxStyles = 5
  Filters = {"showHelicopter", "showIXPs", "showJamming", "showH3Risk"}
  PageViews = {"INTEL", "ORBITAL"}
  MaxPans = 1
  MaxClicks = 3
  MaxReloads = 1
SYMMETRY Symmetry
INVARIANTS
  
  SharedListsAreWhole
  NoticedIsWhole
PROPERTIES
  ReloadKeepsShown
CHECK_DEADLOCK FALSE
