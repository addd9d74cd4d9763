CONSTANTS
  c1 = c1
  c2 = c2
  w1 = w1
  w2 = w2
  e1 = e1
  e2 = e2
  Client <- Clients
  Runner <- Runners
  Executor <- Executors
  Ops = {"await", "await-agent", "restart", "shutdown"}
  Modes = {"fail", "continue"}
  MaxSends = 3
SPECIFICATION FairSpec
INVARIANTS QueueNotStalled RefusedNeverRuns
PROPERTIES EveryActionSettles AwaitReturns
