SPECIFICATION Spec
CONSTANTS
  Word = {w1, w2, w3}
  MaxAttempts = 3
  Nobody = Nobody
  MaxAccounts = 2
INVARIANTS
  TypeOK
PROPERTIES
  ImplementsStore
