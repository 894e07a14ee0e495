SPECIFICATION Spec
CONSTANTS
  c1 = c1
  c2 = c2
  u1 = u1
  r1 = r1
  q1 = q1
  q2 = q2
  q3 = q3
  NoQuote = NoQuote
  NoUser = NoUser
  Client = {c1, c2}
  User = {u1}
  Round = {r1}
  Quote = {q3}
  QuoteRound <- OneRound
  Manual <- ManualQuotes
  QuoteUser <- OneUser
  Stake <- Stakes
  Amount = {1}
  MaxChanges = 0
  MaxFailures = 0
CHECK_DEADLOCK FALSE
PROPERTY
  TicketsWhileOpen
