SPECIFICATION FairSpec
CONSTANTS
  Peer = {p1, p2, p3}
  MAX_CLIENTS = 2
  ServerFd = 3
  Fd <- MCFd
INVARIANTS
  TypeOK
  TableMatchesKernel
  SavedAsSent
PROPERTIES
  NoEarlyBreak
  EveryRecordRead
  EveryEndNoticed
