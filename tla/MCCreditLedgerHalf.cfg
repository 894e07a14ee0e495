\* A topup of 0.015 is enough: 0.01 on the account, 0.02 in the ledger.
SPECIFICATION Spec
CONSTANTS
  t1 = t1
  t2 = t2
  Ticket = {t1}
  Slip <- Slips
  Odds <- SmallOdds
  Change = {6}
  Posted <- Results
  MaxCents = 8
  MaxChanges = 1
CHECK_DEADLOCK FALSE
INVARIANT
  LedgerExplainsBalance
