SPECIFICATION Spec
CONSTANTS
  t1 = t1
  t2 = t2
  t3 = t3
  x1 = x1
  x2 = x2
  Turns = {t1, t2}
  Reserved = {}
  Cancellers = {}
  Scenes <- MCBusyScenes
  NoTurn = NoTurn
  MaxConns = 1
  ConnsIn <- MCBusyConnsIn
PROPERTIES
  StreamUndisturbed
CHECK_DEADLOCK FALSE
