SPECIFICATION Spec
CONSTANTS
  Capacity = 2
  Ip = {a}
  Ifindex <- MCIfindex
  Hwaddr = {h}
  Null = Null
  Blank = Blank
  None = None
  Options <- MCOptions
  Payloads = 2
  Routers <- MCRouters
INVARIANTS DecoyDies AnsweredInFull EgressMatches
CHECK_DEADLOCK FALSE
