\* Topups and deductions of 0.25, 0.5, 1, 1.5 and 4.75 cents between two tickets.
SPECIFICATION Spec
CONSTANTS
  t1 = t1
  t2 = t2
  Ticket = {t1, t2}
  Slip <- Slips
  Odds <- SmallOdds
  Change = {1, 2, 4, 6, 19}
  Posted <- Results
  MaxCents = 16
  MaxChanges = 3
CHECK_DEADLOCK FALSE
INVARIANTS
  TypeOK
  DriftBounded
  PaidByTheRules
