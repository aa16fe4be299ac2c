CONSTANTS
  SnameSize <- MCSnameSize
  FileSize <- MCFileSize
  OptSize <- MCOptSize
  Inputs <- MCOverload
  PrevOptions <- MCPrevOptions
  JunkBytes = {0, 255}
SPECIFICATION Spec
INVARIANT DecodesAsEncoded
CHECK_DEADLOCK FALSE
