CONSTANTS
  t1 = t1
  t2 = t2
  v1 = v1
  v2 = v2
  Thread <- Threads
  Nobody = Nobody
  Ref = {1, 2}
  Value <- Values
  NoValue = NoValue
  Fn <- Flips
  Validator <- ValidatorOn1
  ValidatorReads <- NoReads
  Limit = {0, 1}
  MinHistory <- HistoryOn2
  BodyOps = {"alter", "after-commit"}
  MaxBodyOps = 2
  MaxTransactions = 1
SPECIFICATION Spec
SYMMETRY ThreadSymmetry
INVARIANTS StoreValid DeferredByThisAttempt
