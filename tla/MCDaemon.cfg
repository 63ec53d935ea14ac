SPECIFICATION FairSpec
CONSTANTS
  d0 = d0
  d1 = d1
  e0 = e0
  Proc = {d0, d1}
  Iface = {e0}
  Public = "public"
  LocalNets <- MCLocalNets
  Config <- MCConfig
  MaxFaults = 2
  MaxCrashes = 2
INVARIANTS OneCommandAtATime LoopHasRules NoRulesWithoutListener
PROPERTIES TerminateEnds
