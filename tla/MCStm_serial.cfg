CONSTANTS
  t1 = t1
  t2 = t2
  v1 = v1
  v2 = v2
  Thread <- Threads
  Nobody = Nobody
  Ref = {1, 2}
  Value <- Values
  NoValue = NoValue
  Fn <- Flips
  Validator <- NoValidator
  ValidatorReads <- NoReads
  Limit = {0}
  MinHistory <- NoHistory
  BodyOps = {"deref", "alter", "ref-set", "commute", "ensure", "set-validator!"}
  MaxBodyOps = 2
  MaxTransactions = 1
SPECIFICATION Spec
SYMMETRY Symmetry
INVARIANTS TypeOK LocksInOrder NoTornCommit VersionStampsValue
PROPERTY Serializable
