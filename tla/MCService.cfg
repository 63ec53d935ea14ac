SPECIFICATION MCSpec
CONSTANTS
  Bit = {0, 1}
  DefaultMark <- MCDefaultMark
  Cap = 2
  Name <- MCName
  Number <- MCNumber
  MaxOptions = 40
  Empty = Empty
  TooLong = TooLong
  Null = Null
  Zero = Zero
  Junk = Junk
  Unset = Unset
  Down = Down
  Values <- MCValues
  Views <- MCViews
  Shipped <- MCShipped
  Bad <- MCBad
  Carrier <- MCCarrier
  MaxEdits = 4
  MaxTyped = 4
  MaxText = 5
  UllMax = 70000
  Uint32Max = 3
  Typed <- MCTyped
  MarkText <- MCMarkText
  wan = wan
  wan6 = wan6
  eth = eth
  ppp = ppp
  bad = bad
  mobile = mobile
  unicom = unicom
  telecom = telecom
  custom_uri = custom_uri
  file = file
  path = path
INVARIANTS
  Terminated
  RunsConsistent
  RunsAsConfigured
  SavingKeepsTargets
  SameNumbers
PROPERTIES
  NotRefused
CHECK_DEADLOCK FALSE
