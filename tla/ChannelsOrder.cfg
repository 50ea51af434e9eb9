SPECIFICATION Spec
CONSTANTS
  j1 = j1
  j2 = j2
  j3 = j3
  root = root
  a = a
  b = b
  Job = {j1, j2, j3}
  Rank <- Ranks
  Parents <- NoParents
  ChannelOf <- Together
  Channel = {a, root}
  Root = root
  Parent <- Line
  PollOrder <- LineOrder
  Capacity <- LineCapacity
  Sequential = {a}
  Throttle <- LineThrottle
  SelectTimeout = TRUE
  MaxTime = 2
  MaxRestarts = 0
  MaxEdits = 0
PROPERTIES
  SequentialOrder
CHECK_DEADLOCK FALSE
