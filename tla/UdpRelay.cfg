SPECIFICATION FairSpec
CONSTANTS
  Client = {c1, c2, c3}
  Zeros = Zeros
  Rubbish = Rubbish
  MaxNet = 2
INVARIANTS TypeOK RelayToOther
PROPERTY ClientEnds
