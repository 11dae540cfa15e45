SPECIFICATION FairSpec
CONSTANTS
  Client = {c1, c2}
  Nobody = Nobody
  NUL = NUL
  NL = NL
  Alnum <- MCAlnum
  Messages <- MCMessages
  Chunks <- MCChunks
  BUFF_SIZE = 2
  MaxFile = 2
  MaxStream = 3
INVARIANTS
  TypeOK
  InStep
  UploadWhole
PROPERTIES
  EveryoneServed
