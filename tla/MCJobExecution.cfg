SPECIFICATION Spec
CONSTANTS
  Job = {j1}
  Worker = {w1, w2}
  MaxRetries = 1
  Outcomes = {"ok", "retryable", "ignored", "error", "sql_retry", "sql_error"}
  MaxRequests = 2
  MaxFaults = 3
  MaxEdits = 2
  MaxAttempts = 4
  NoOne = NoOne
  Runner = Runner
SYMMETRY WorkerSymmetry
INVARIANTS
  TypeOK
  MutualExclusion
  LocksHeld
  PerformedIsStarted
  EffectsAtMostOnce
  ActiveIsCounted
  RunnerUpToDate
  RetryBounded
PROPERTIES
  ExclusiveSpec
CHECK_DEADLOCK FALSE
