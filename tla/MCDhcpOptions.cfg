CONSTANTS
  SnameSize <- MCSnameSize
  FileSize <- MCFileSize
  OptSize <- MCOptSize
  Inputs <- MCWellFormed
  PrevOptions <- MCPrevOptions
  JunkBytes = {0}
SPECIFICATION Spec
INVARIANTS TypeOK DecodesAsEncoded ReadsInBounds
PROPERTIES Terminates
CHECK_DEADLOCK FALSE
