SPECIFICATION Spec
CONSTANTS
  Addr = {c1, c2, c3}
  Blank = Blank
  Text <- MCText
  NumAccounts = 2
  Name <- MCName
  Pass <- MCPass
  MaxAttempts = 1
  NULL = NULL
  EmptyFile = EmptyFile
INVARIANTS
  TypeOK
  SlotHoldsAccount
  RelayTargetKnown
  SameClientActs
PROPERTIES
  DiskBlockPermanent
