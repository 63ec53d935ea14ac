SPECIFICATION MCSpec
CONSTANTS
  Node = {n1, n2, n3, n4}
  sip = sip
  custom = custom
  Content = {sip, custom}
  Null = Null
  None = None
  Plinfos <- MCPlinfos
  MaxText = 5
  Long = 57
  Draws <- MCDraws
INVARIANTS FreesEachNodeOnce ClassifiedByHost AcceptedUriFits
PROPERTIES PayloadsTakeTurns
CHECK_DEADLOCK FALSE
