\* Two API processes, two rows of which one stays unknown, and two jobs: one
\* left PROCESSING and one that fails every time.
SPECIFICATION FairSpec
CONSTANTS
  p1 = p1
  p2 = p2
  r1 = r1
  r2 = r2
  NoJob = NoJob
  Process = {p1, p2}
  Enabled = {p1, p2}
  Slot = {1, 2}
  Row = {r1, r2}
  Unresolvable = {r1}
  Job = {1, 2}
  Interrupted = {1}
  Poisoned = {2}
  BatchSize = 2
  MaxFaults = 1
INVARIANTS
  TypeOK
  CyclesDoNotOverlap
  JobSettledByOne
PROPERTIES
  SettledJobsStay
  JobsGetSettled
  UnknownRowsResolved
