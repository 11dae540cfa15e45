SPECIFICATION Spec
CONSTANTS
  Text <- MCText
  NumAccounts = 2
  Name <- MCName
  Pass <- MCPass
  MaxAttempts = 1
  NULL = NULL
  EmptyFile = EmptyFile
  FdSetSize = 6
  ListenFd = 3
  MaxBacklog = 1
  FileCanFail = TRUE
INVARIANTS
  EmptyOnlyBySaving
PROPERTIES
  DiskBlockPermanent
  ImplementsRegistry
