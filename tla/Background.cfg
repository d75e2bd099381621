SPECIFICATION Spec
CONSTANTS
  Mails = {m1, m2}
  Invalid = {m2}
  Workers = {w1, w2}
  Batch = 2
  RetryMax = 1
  MaxFaults = 2
  Jobs = {j1, j2}
  Capacity = 2
  FlushEvery = 3
INVARIANTS MailsAccounted FlushedIsWritten
PROPERTIES EveryMailSettled LinesReachDisk
CHECK_DEADLOCK FALSE
