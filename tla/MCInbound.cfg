SPECIFICATION Spec
CONSTANTS
  l1 = l1
  l2 = l2
  NoLoop = NoLoop
  Loops = {l1}
  Kinds <- MCKinds
  MaxPending = 2
  PeelReads = 2
  MaxFrames = 3
  MaxCalls = 3
INVARIANTS
  
  OrderKept
  AckSettles
PROPERTIES
  NormalGoesFirst
CHECK_DEADLOCK FALSE
