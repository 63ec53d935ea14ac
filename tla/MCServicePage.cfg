SPECIFICATION FairPageSpec
CONSTANTS
  Click = {c1, c2}
  Attempts = 2
  MaxFaults = 1
  None = None
INVARIANTS
  LockedWhileBusy
  SuccessWasTrue
PROPERTIES
  PanelRecovers
