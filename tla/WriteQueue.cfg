SPECIFICATION Spec
CONSTANTS
  Jobs = {j1}
  LegacyJobs = {l1}
  Malformed = {l1}
  Workers = {w1, w2}
  Batch = 2
  MaxLen = 1
  EnqueueRetry = 1
  ExecRetry = 1
  MaxFaults = 1
  Nobody = Nobody
INVARIANTS
  AckedIsDone
  NothingForgotten
PROPERTIES
  EventuallyDone
