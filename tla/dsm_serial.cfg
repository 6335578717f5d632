SPECIFICATION FairSpec
CONSTANTS
  A = A
  B = B
  NullText = NullText
  NumPages = 2
  Message = {v1, v2}
  Serial = TRUE
  MayExit = {}
INVARIANTS TypeOK Coherent NullShownOnlyIfBothInvalid
PROPERTIES OpCompletes ImplementsSharedMemory
