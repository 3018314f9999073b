SPECIFICATION LiveSpec
CONSTANTS
  t1 = t1
  t2 = t2
  t3 = t3
  x1 = x1
  x2 = x2
  Turns = {t1, t2, t3}
  Reserved = {t2}
  Cancellers = {x1, x2}
  Scenes <- MCScenes
  NoTurn = NoTurn
  MaxConns = 2
  ConnsIn <- MCConnsIn
INVARIANTS
  SingleFlight
  NoStaleReservation
  TimeoutStops
  ToldFirst

  
CHECK_DEADLOCK FALSE
