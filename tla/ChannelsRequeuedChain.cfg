SPECIFICATION Spec
CONSTANTS
  j1 = j1
  j2 = j2
  j3 = j3
  root = root
  a = a
  b = b
  Job = {j1, j2}
  Rank <- ChainRanks
  Parents <- ChainParents
  ChannelOf <- ChainChannels
  Channel = {a, root}
  Root = root
  Parent <- Line
  PollOrder <- LineOrder
  Capacity <- LineCapacity
  Sequential = {a}
  Throttle <- LineThrottle
  SelectTimeout = TRUE
  MaxTime = 0
  MaxRestarts = 0
  MaxEdits = 3
INVARIANTS
  BlockedByFailures
CHECK_DEADLOCK FALSE
