CONSTANTS
  SnameSize <- MCSnameSize
  FileSize <- MCFileSize
  OptSize <- MCOptSize
  Inputs <- MCOutOfBounds
  PrevOptions <- MCPrevOptions
  JunkBytes = {0, 255}
SPECIFICATION Spec
INVARIANT ReadsInBounds
CHECK_DEADLOCK FALSE
