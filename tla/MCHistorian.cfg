SPECIFICATION Spec
CONSTANTS
  k1 = k1
  h1 = h1
  h2 = h2
  none = none
  Keys <- MCKeys
  Hashes <- MCHashes
  NoHash = none
  Messages <- MCMessages
  BatchSize = 2
  MaxLog = 3
  MaxFaults = 2
SYMMETRY HashSymmetry
INVARIANTS
  
  StoredIsNewest
  CopiesBounded

  
CHECK_DEADLOCK FALSE
