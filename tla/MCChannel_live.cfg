CONSTANTS
  t1 = t1
  t2 = t2
  t3 = t3
  a = a
  b = b
  Task <- Tasks
  Chan <- Chans
  Timer = {a}
  Kinds <- FixedKinds
  Requests <- WithTimeout
  MaxCalls = 3
SPECIFICATION FairSpec
PROPERTY TimeoutEndsWait
CHECK_DEADLOCK FALSE
