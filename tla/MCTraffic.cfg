SPECIFICATION MCSpec
CONSTANTS
  Capacity = 3
  Ip = {a}
  Ifindex <- MCIfindex
  Ttl = {50, 60}
  Hwaddr = {h}
  Null = Null
  Blank = Blank
  MaxPacketErrors = 3
  BackoffMax = 1000
  MaxTransient = 10
INVARIANTS GivesUpOnlyWhenHopeless NoPacketForgotten
PROPERTIES RingIsWindow BackoffGrows ExitEndsLoop
CHECK_DEADLOCK FALSE
