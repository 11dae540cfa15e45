SPECIFICATION Spec
CONSTANTS
  Addr = {c1, c2}
  Blank = Blank
  Text <- MCText
  NumAccounts = 2
  Name <- MCName
  Pass <- MCPass
  MaxAttempts = 1
  NULL = NULL
  EmptyFile = EmptyFile
INVARIANTS
  SignedInAsNamed
