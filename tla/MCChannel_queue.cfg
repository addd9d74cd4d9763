CONSTANTS
  t1 = t1
  t2 = t2
  t3 = t3
  a = a
  b = b
  Task <- Tasks
  Chan <- Chans
  Timer = {a}
  Kinds <- AllKinds
  Requests <- Selections
  MaxCalls = 4
SPECIFICATION Spec
SYMMETRY TaskSymmetry
INVARIANTS TypeOK NobodyWaitsInVain NoStaleWaiters InTurn
PROPERTY Linearizable
CHECK_DEADLOCK FALSE
