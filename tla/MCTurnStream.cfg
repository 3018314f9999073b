SPECIFICATION StreamLiveSpec
CONSTANTS
  MaxTurns = 3
  MaxChunks = 1
INVARIANTS
  EndsOnOwnFrame
  ReplyIsOwn
PROPERTIES
  ClosedTurnEnds
CHECK_DEADLOCK FALSE
