\* Two rounds that lock two accounts in opposite order, under fair scheduling.
SPECIFICATION FairSpec
CONSTANTS
  w1 = w1
  w2 = w2
  u1 = u1
  u2 = u2
  Worker <- TwoWorkers
  User <- TwoUsers
  Ticket <- CrossTickets
  Job <- CrossJobs
  TicketRound <- CrossTicketRound
  JobRound <- CrossJobRound
  Wins <- CrossWins
  Manual <- CrossManual
  Owner <- CrossOwner
  Payout <- CrossPayout
  LateFunded = {5}
  MaxFailures = 1
  MaxTopups = 0
PROPERTY
  JobsFinish
CHECK_DEADLOCK FALSE
