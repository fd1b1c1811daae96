CONSTANTS
  Sock = {s1, s2}
  NoSock = NoSock
  FD = {1, 2}
  HolderSize = 2
  MaxGc = 1
  Closer = {s1, s2}
SPECIFICATION FairSharedSpec
INVARIANTS TableIsSound
PROPERTIES ClosesOwnDescriptor ImplementsConnectionLife ClosedIsDeleted
CHECK_DEADLOCK FALSE
