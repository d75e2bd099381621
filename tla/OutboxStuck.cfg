SPECIFICATION Spec
CONSTANTS
  NumEvents = 1
  Workers = {w1}
  Batch = 1
  MaxAttempts = 2
  MaxFaults = 1
PROPERTIES
  EventuallySentOrFailed
