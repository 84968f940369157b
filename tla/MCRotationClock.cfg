CONSTANTS
  NCores = 3
  NChains = 1
  Freq = 3
  ChainPeriod = 2
  ThreadPeriod = 4
  MaxBlock = 10
SPECIFICATION Spec
INVARIANT PendingTimedOutInTime
PROPERTY GroupsRotateByOne
