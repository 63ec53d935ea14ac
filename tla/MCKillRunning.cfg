SPECIFICATION WalkSpec
CONSTANTS
  MaxPid = 5
  Self = 3
INVARIANTS ReportsTruly
PROPERTIES OnlyFakesipSignalled
CHECK_DEADLOCK FALSE
