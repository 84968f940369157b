CONSTANTS
  t1 = t1
  t2 = t2
  c1 = c1
  c2 = c2
  Threads <- MCThreads
  Collators <- MCCollators
  Configs <- MCConfigs
  ValidatorCounts = {3}
  NChains = 1
  MaxCores = 3
  Freq = 2
  ChainPeriod = 1
  ThreadPeriod = 3
SPECIFICATION Spec
INVARIANT StuckCoresTimedOut
PROPERTY QueuedClaimLeavesQueue
