SPECIFICATION FairSpec
CONSTANTS
  Job = {1, 2, 3}
  None = None
  parents <- Pair
  late = {3}
  Cron = {c1, c2}
  MaxDisturbances = 2
INVARIANTS
  TypeOK
  DoneOnce
  WaitsForAParent
  DueJobsAreAnnounced
PROPERTIES
  ExclusiveSpec
  PendingIsPerformed
CHECK_DEADLOCK FALSE
