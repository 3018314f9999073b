SPECIFICATION Spec
CONSTANTS
  r1 = r1
  r2 = r2
  Rpcs = {r1, r2}
  MaxRetries = 2
  MaxConn = 3
  MaxLoops = 2
  Budgets <- MCAppBudget
  MaxFaults = 2
INVARIANT
  EnsureSubscribes
CHECK_DEADLOCK FALSE
