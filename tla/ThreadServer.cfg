SPECIFICATION Spec
CONSTANTS
  Text <- TwoText
  NumAccounts = 2
  Name <- TwoName
  Pass <- TwoPass
  MaxAttempts = 2
  NULL = NULL
  EmptyFile = EmptyFile
  FileCanFail = TRUE
  Thread = {t1, t2}
INVARIANTS
  TypeOK
  SavedUnlessDisturbed
  BlockedUnlessRaced
  DiskNeverAhead
SYMMETRY Threads
