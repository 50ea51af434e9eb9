SPECIFICATION Spec
CONSTANTS
  Job = {1, 2, 3, 4}
  None = None
  parents <- Fork
  late = {4}
  Cron = {c1, c2}
  MaxDisturbances = 0
INVARIANTS
  ChildrenFollowParents
CHECK_DEADLOCK FALSE
