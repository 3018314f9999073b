SPECIFICATION LiveSpec
CONSTANTS
  l1 = l1
  l2 = l2
  Loop = l1
  Foreign = l2
  NoLoop = NoLoop
  ChunkKinds <- MCKinds
  Controls = {"disconnect"}
  PeelReads = 8
  MaxTurns = 2
  MaxChunks = 2
  MaxFaults = 1
INVARIANTS
  InWireOrder
  

  
  
CHECK_DEADLOCK FALSE

