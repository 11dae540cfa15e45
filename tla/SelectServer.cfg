SPECIFICATION FairSpec
CONSTANTS
  Text <- OneText
  NumAccounts = 1
  Name <- OneName
  Pass <- OnePass
  MaxAttempts = 3
  NULL = NULL
  EmptyFile = EmptyFile
  FdSetSize = 6
  ListenFd = 3
  MaxBacklog = 1
  FileCanFail = FALSE
INVARIANTS
  TypeOK
  TableMatchesKernel
  NoBlockingRecv
  OneWindowPerAccount
  SavedWhenIdle
PROPERTIES
  BlockIsFinal
  EveryLineRead
  EveryEndNoticed
