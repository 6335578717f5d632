SPECIFICATION Spec
CONSTANTS
  CPU = {c1}
  Task = {t1, t2}
  Kthread = {}
  Parts = {2}
  Paths = {"idle"}
  Limit = 2
  Word = 64
  MaxTime = 5
  MaxCalls = 5
SYMMETRY Symmetry
INVARIANTS TotalAtMostUsed
CHECK_DEADLOCK FALSE
