CONSTANTS
  t1 = t1
  t2 = t2
  k1 = k1
  k2 = k2
  k3 = k3
  Key = {k1, k2, k3}
  Free = Free
  Nobody = Nobody
  Ttl = 1
  MaxTime = 3
  Thread <- Threads
  Scenario <- Scenarios
SPECIFICATION FairSpec
INVARIANTS CacheWellFormed SizeBounded OldAreDropped ComputesOnce
PROPERTIES VictimIsOldest EveryCallReturns
CHECK_DEADLOCK FALSE
