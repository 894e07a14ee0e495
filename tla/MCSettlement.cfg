\* Two workers, two rounds, the result of one of them posted twice.
SPECIFICATION Spec
CONSTANTS
  w1 = w1
  w2 = w2
  u1 = u1
  u2 = u2
  Worker <- TwoWorkers
  User <- TwoUsers
  Ticket <- MixedTickets
  Job <- MixedJobs
  TicketRound <- MixedTicketRound
  JobRound <- MixedJobRound
  Wins <- MixedWins
  Manual <- MixedManual
  Owner <- MixedOwner
  Payout <- MixedPayout
  LateFunded = {3}
  MaxFailures = 1
  MaxTopups = 1
SYMMETRY WorkersAlike
INVARIANTS
  TypeOK
  PayoutOnce
  BalanceMatchesLedger
  PaidIffWon
  WonMeansPaid
  PayoutShown
  SucceededMeansSettled
CHECK_DEADLOCK FALSE
