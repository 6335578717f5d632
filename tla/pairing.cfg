SPECIFICATION FairSpec
CONSTANTS
  A = A
  B = B
  PageSize = 2
  Answers = {0, 1, 2, 3, 4, 5, 6, 7, 8}
INVARIANTS TypeOK Agreement AtMostOneFirst
PROPERTIES FirstPairs RequestArrives
CHECK_DEADLOCK FALSE
