CONSTANTS
  t1 = t1
  t2 = t2
  c1 = c1
  c2 = c2
  Threads <- MCThreads
  Collators <- MCCollators
  Configs <- MCConfigs
  ChainCounts = {1}
  ValidatorCounts = {3}
  MultiCall = TRUE
SPECIFICATION Spec
INVARIANT TypeOK
INVARIANT AtMostOneClaimPerIndrabase
INVARIANT ClaimIndexCoversClaims
INVARIANT QueueRespectsConfig
INVARIANT ScheduledSortedAndFree
PROPERTY ClaimIdentityStable
PROPERTY NextUpOnAvailableIsScheduled
PROPERTY ImplementsClaimLifecycle
INVARIANT OccupiedRetainMatchesContract
