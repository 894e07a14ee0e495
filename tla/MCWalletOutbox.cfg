\* Two workers on two tickets, with crashes, lost answers and expired leases.
SPECIFICATION Spec
CONSTANTS
  t1 = t1
  t2 = t2
  w1 = w1
  w2 = w2
  NoRow = NoRow
  Ticket <- TwoTickets
  Worker <- TwoWorkers
  MaxRetries = 2
  BatchSize = 2
  OperatorMarks = {}
  MaxCrashes = 1
SYMMETRY Alike
INVARIANTS
  RetryBound
  WalletCallsBounded
  SucceededMeansMoved
  NoPayoutBeforeStake
  UnretriedFailureMeansRefused
CHECK_DEADLOCK FALSE
