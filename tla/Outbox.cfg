SPECIFICATION Spec
CONSTANTS
  NumEvents = 2
  Workers = {w1, w2}
  Batch = 2
  MaxAttempts = 2
  MaxFaults = 1
INVARIANTS
  OneSender
PROPERTIES
  KeepsPromise
  EventuallyDecided
