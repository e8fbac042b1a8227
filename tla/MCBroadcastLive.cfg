SPECIFICATION FairSpec
CONSTANTS
  Clients = {c1}
  Uids = {u1}
  NoUid = NoUid
  QueueSize = 1
  BatchMsgs = 1
  MaxEntities = 1
  MaxLog = 2
CHECK_DEADLOCK FALSE
PROPERTIES
  
  DeadPeerIsReaped
  StopCompletes
