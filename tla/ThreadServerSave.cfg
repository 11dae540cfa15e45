SPECIFICATION Spec
CONSTANTS
  Text <- OneText
  NumAccounts = 1
  Name <- OneName
  Pass <- OnePass
  MaxAttempts = 2
  NULL = NULL
  EmptyFile = EmptyFile
  FileCanFail = FALSE
  Thread = {t1, t2}
INVARIANTS
  SavedWhenQuiet
SYMMETRY Threads
