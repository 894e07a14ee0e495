\* Workers and an operator who sets any status by hand, on one ticket, with fair workers.
SPECIFICATION FairSpec
CONSTANTS
  t1 = t1
  t2 = t2
  w1 = w1
  w2 = w2
  NoRow = NoRow
  Ticket <- OneTicket
  Worker <- TwoWorkers
  MaxRetries = 2
  BatchSize = 2
  OperatorMarks <- EveryMark
  MaxCrashes = 1
INVARIANTS
  TypeOK
  TicketMirrorsOutbox
  EligibilityAgrees
PROPERTIES
  EveryTransitionAllowed
  TicketsFollowLifecycle
  RowsLeaveTheQueue
CHECK_DEADLOCK FALSE
