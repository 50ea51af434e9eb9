SPECIFICATION FairSpec
CONSTANTS
  j1 = j1
  j2 = j2
  j3 = j3
  root = root
  a = a
  b = b
  Job = {j1, j2, j3}
  Rank <- Ranks
  Parents <- AcrossParents
  ChannelOf <- Apart
  Channel = {a, b, root}
  Root = root
  Parent <- Tree
  PollOrder <- TreeOrder
  Capacity <- NarrowCapacity
  Sequential = {a}
  Throttle <- ThrottleA
  SelectTimeout = FALSE
  MaxTime = 2
  MaxRestarts = 1
  MaxEdits = 2
INVARIANTS
  TypeOK
  JobsFlow
  CapacityKept
  SlotsAreFreed
  WakeupIsLater
PROPERTIES
  SequentialBlocks
  PendingIsDispatched
CHECK_DEADLOCK FALSE
