SPECIFICATION LiveSpec
CONSTANTS
  App = App
  k1 = k1
  s1 = s1
  Closers = {k1}
  Senders = {s1}
  NoProc = NoProc
  MaxConn = 3
  MaxSends = 3
  Scenes <- MCScenes
INVARIANTS
  
  CloseFires
  CauseAgrees
  
PROPERTIES
  BreakNoticed
  CallsReturn
CHECK_DEADLOCK FALSE
