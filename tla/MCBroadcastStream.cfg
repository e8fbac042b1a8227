SPECIFICATION Spec
CONSTANTS
  Clients = {c1}
  Uids = {u1, u2}
  NoUid = NoUid
  QueueSize = 2
  BatchMsgs = 2
  MaxEntities = 1
  MaxLog = 3
CHECK_DEADLOCK FALSE
INVARIANTS
  QueueIsSuffix
  CacheIsLatest
  ClientConverges
  NothingLeftBehind
PROPERTIES
  NoRegressionAfterBootstrap
