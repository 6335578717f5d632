SPECIFICATION FairSpec
CONSTANTS
  A = A
  B = B
  PageSize = 2
  Answers = {0, 1, 2, 3, 4, 5, 6, 7, 8}
PROPERTY PairedOrGone
CHECK_DEADLOCK FALSE
