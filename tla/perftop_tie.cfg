SPECIFICATION Spec
CONSTANTS
  CPU = {c1}
  Task = {t1, t2}
  Kthread = {}
  Parts = {2}
  Paths = {}
  Limit = 2
  Word = 64
  MaxTime = 5
  MaxCalls = 5
SYMMETRY Symmetry
INVARIANTS TotalIsSum
CHECK_DEADLOCK FALSE
