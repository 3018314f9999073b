SPECIFICATION LiveSpec
CONSTANTS
  App = App
  k1 = k1
  s1 = s1
  Closers = {}
  Senders = {s1}
  NoProc = NoProc
  MaxConn = 1
  MaxSends = 2
  Scenes <- MCBrokenScenes
PROPERTIES
  WriteErrorSignalled
CHECK_DEADLOCK FALSE
