SPECIFICATION Spec
CONSTANTS
  Job = {j1}
  Worker = {w1}
  MaxRetries = 1
  Outcomes = {"ok"}
  MaxRequests = 1
  MaxFaults = 0
  MaxEdits = 0
  MaxAttempts = 2
  NoOne = NoOne
  Runner = Runner
PROPERTIES
  LockedIsNotRequeued
CHECK_DEADLOCK FALSE
