SPECIFICATION FairSpec
CONSTANTS
  Job = {j1}
  Worker = {w1, w2}
  MaxRetries = 1
  Outcomes = {"ok", "retryable"}
  MaxRequests = 1
  MaxFaults = 1
  MaxEdits = 1
  MaxAttempts = 9
  NoOne = NoOne
  Runner = Runner
PROPERTIES
  PendingSettles
CHECK_DEADLOCK FALSE
