SPECIFICATION FairSpec
CONSTANTS
  MaxFd = 6
  MaxInput = 3
  PipeSize = 2
INVARIANTS PluggedIn NoDescriptorLost SuccessIsComplete
PROPERTIES EveryCallReturns
