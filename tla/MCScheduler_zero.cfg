CONSTANTS
  t1 = t1
  t2 = t2
  c1 = c1
  c2 = c2
  Threads <- MCThreads
  Collators <- MCCollators
  Configs <- MCConfigsWithZero
  ChainCounts = {0, 1}
  ValidatorCounts = {2, 3}
  MultiCall = TRUE
SPECIFICATION Spec
INVARIANT ScheduledSortedAndFree
INVARIANT AtMostOneClaimPerIndrabase
INVARIANT CoreIndraInBounds
INVARIANT ValidatorGroupsPerCore
