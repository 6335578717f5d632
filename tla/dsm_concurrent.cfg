SPECIFICATION FairSpec
CONSTANTS
  A = A
  B = B
  NullText = NullText
  NumPages = 1
  Message = {v1}
  Serial = FALSE
  MayExit = {A}
INVARIANTS Lockstep ReplyMatchesRequest SingleOwner
PROPERTY WaitsEnd
CHECK_DEADLOCK FALSE
