SPECIFICATION LiveSpec
CONSTANTS
  c1 = c1
  c2 = c2
  k1 = k1
  k2 = k2
  Callers = {c1, c2}
  AppKeys = {k1, k2}
  Uses <- MCUses
  NoKey = NoKey
  PoolSize = 2
  MaxSlotID = 8
  MaxLoopID = 2
  MaxCalls = 3
INVARIANTS
  SlotConservation
  IdleSlotsFresh
  KeyIsolation
  OneActivePerKey
PROPERTIES
  CallsReturn
CHECK_DEADLOCK FALSE
