SPECIFICATION Spec
CONSTANTS
  Parts = {1, 2}
  CPU = {c1, c2}
  Task = {t1, t2}
  Kthread = {k1}
  Paths = {"idle", "null", "retry"}
  Limit = 1
  Word = 16
  MaxTime = 3
  MaxCalls = 4
SYMMETRY Symmetry
INVARIANTS TypeOK OvercountsExplained StartOnlyInTurn CountersAgree ShowsMostScheduled UnusedWhenFreed
CHECK_DEADLOCK FALSE
