SPECIFICATION Spec
CONSTANTS
  A = A
  B = B
  NullText = NullText
  NumPages = 1
  Message = {v1, NullText}
  Serial = TRUE
  MayExit = {}
INVARIANT NullShownOnlyIfBothInvalid
