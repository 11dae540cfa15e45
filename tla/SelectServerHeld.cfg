SPECIFICATION Spec
CONSTANTS
  Text <- OneText
  NumAccounts = 1
  Name <- OneName
  Pass <- OnePass
  MaxAttempts = 1
  NULL = NULL
  EmptyFile = EmptyFile
  FdSetSize = 6
  ListenFd = 3
  MaxBacklog = 1
  FileCanFail = FALSE
INVARIANTS
  SignedInIsHeld
