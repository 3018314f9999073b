SPECIFICATION LiveSpec
CONSTANTS
  r1 = r1
  r2 = r2
  Rpcs = {r1, r2}
  MaxRetries = 2
  MaxConn = 3
  MaxLoops = 2
  Budgets <- MCBudgets
  MaxFaults = 1
INVARIANTS
  
  
  CrashOnlyByClose
PROPERTIES
  CallsReturn
CHECK_DEADLOCK FALSE
