SPECIFICATION Spec
CONSTANTS
  Client = {c1, c2, c3, c4}
  Backlog = 1
  MayDie = {"server", c1, c2}
  None = None
INVARIANTS TypeOK ServedInExchange AcceptedIsServed
PROPERTY EveryoneEnds
CHECK_DEADLOCK FALSE
