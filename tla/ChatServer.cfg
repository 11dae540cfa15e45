SPECIFICATION FairSpec
CONSTANTS
  c1 = c1
  c2 = c2
  Client = {c1, c2}
  Lines <- MCLines
  NUL = NUL
  NL = NL
  Names <- MCNames
  FileNames <- MCFileNames
  BadNames <- MCBadNames
  Parts <- MCParts
  Chunks <- MCChunks
  MaxFile <- MCMaxFile
INVARIANTS
  TypeOK
  InStep
  OwnImage
PROPERTIES
  UploadWhole
  Answered
