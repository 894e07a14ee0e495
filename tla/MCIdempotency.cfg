\* Three clients with one key and two bodies, under fair scheduling.
SPECIFICATION FairSpec
CONSTANTS
  c1 = c1
  c2 = c2
  c3 = c3
  k1 = k1
  k2 = k2
  b1 = b1
  b2 = b2
  NoRow = NoRow
  NoAnswer = NoAnswer
  Client = {c1, c2, c3}
  Key = {k1}
  Body = {b1, b2}
  MaxRuns = 3
  MaxFailures = 2
CHECK_DEADLOCK FALSE
INVARIANTS
  TypeOK
  EffectPerKey
PROPERTY
  ImplementsOncePerKey
  RequestsEnd
