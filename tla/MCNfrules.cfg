SPECIFICATION RulesSpec
CONSTANTS
  e0 = e0
  e1 = e1
  Iface = {e0, e1}
  Public = "public"
  LocalNets <- MCLocalNets
  Configs <- MCConfigs
  NftWorks = {TRUE, FALSE}
  MaxFailures = 2
INVARIANTS QueuesOnlyCandidates ExactWhenUp CleanupLeavesNothing
  OneFaultLeavesNoQueue ExpiredDroppedWhereQueued
PROPERTIES StartsFromAnyLeftover
