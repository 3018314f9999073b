SPECIFICATION LiveSpec
CONSTANTS
  t1 = t1
  t2 = t2
  k1 = k1
  k2 = k2
  c1 = c1
  c2 = c2
  Procs = {t1, t2}
  Keys = {k1, k2}
  Channels = {c1, c2}
  Cap = 2
  KeyOf <- MCKeyOf
  NoTurn = NoTurn
  Blank = " "
  NoPhase = "none"
  LoopPhases = {"quiz", "plan_direct"}
  DeliverablePhases = {"quiz"}
  MinDeliverableRunes = 2
  Messages <- MCMessages
  Scenes <- MCScenes
INVARIANTS
  NoPanic
  FedInOrder
  ReplyStreamed
PROPERTIES
  KeepsContract
  TurnsReturn
CHECK_DEADLOCK FALSE
