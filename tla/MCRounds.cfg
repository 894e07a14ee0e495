\* Two patches in flight on one round, with four audit entries.
SPECIFICATION Spec
CONSTANTS
  c1 = c1
  c2 = c2
  r1 = r1
  NoRound = NoRound
  NoRequest = NoRequest
  Client = {c1, c2}
  Round = {r1}
  Instant = {1, 2, 3}
  Patch <- Patches
  MaxEntries = 4
CHECK_DEADLOCK FALSE
SYMMETRY Alike
INVARIANTS
  TypeOK
  TimesInOrder
  AuditEndsAtRound
PROPERTY
  OnlyNamedColumnsChange
