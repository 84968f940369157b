CONSTANTS
  t1 = t1
  t2 = t2
  c1 = c1
  c2 = c2
  Threads <- MCThreads
  Collators <- MCCollators
  Configs <- MCConfigsOne
  ChainCounts = {1}
  ValidatorCounts = {3}
  MultiCall = FALSE
SPECIFICATION Spec
INVARIANT QueueWithinCapacity
