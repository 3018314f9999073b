SPECIFICATION LiveSpec
CONSTANTS
  r1 = r1
  r2 = r2
  r3 = r3
  NoCall = NoCall
  Calls = {r1, r2, r3}
  Subs = {r3}
  Detaches = {r2}
  Beside = {r1, r3}
  Pings = {"reader"}
  Coalesce = {"reader"}
  MaxEvents = 1
INVARIANTS
  NoLeak
  RoutedIsReturned
  

  
CHECK_DEADLOCK FALSE
