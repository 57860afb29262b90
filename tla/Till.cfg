SPECIFICATION Spec
CONSTANTS
  Requests = {r1, r2}
  MaxSessions = 2
  MaxExpenses = 1
  MaxAmount = 1
  MaxCount = 0
  MaxTurnover = 1
SYMMETRY RequestSymmetry
INVARIANTS OneOpenSession
PROPERTIES FrozenOnceClosed
CHECK_DEADLOCK FALSE
