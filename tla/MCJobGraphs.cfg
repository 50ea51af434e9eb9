SPECIFICATION GraphsSpec
CONSTANTS
  MaxTroubles = 2
  l1 = l1
  l2 = l2
  l3 = l3
  l4 = l4
  g1 = g1
  g2 = g2
  Leaf = {l1, l2, l3, l4}
  Container = {g1, g2}
  Keyed = {l1, l2}
  MaxMembers = 2
  MaxOnDone = 1
  j1 = j1
  j2 = j2
  j3 = j3
  s1 = s1
  s2 = s2
  Job = {j1, j2, j3}
  Parents <- Pair
  Session = {s1, s2}
  Buttons = {"done", "cancelled", "pending"}
SYMMETRY GraphSymmetry
INVARIANTS
  TypesOK
  GraphIsIntended
  ParentsAreStored
  DirectIsTopological
  StartsAfterParents
  WorkersMissNobody
PROPERTIES
  SettledIsKept
CHECK_DEADLOCK FALSE
