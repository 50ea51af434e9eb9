SPECIFICATION Spec
CONSTANTS
  p1 = p1
  p2 = p2
  child = child
  other = other
  Job = {p1, p2, child, other}
  Parents <- Skewed
  Session = {s1, s2}
  Buttons = {}
  MaxTroubles = 0
INVARIANTS
  WaitsForAParent
CHECK_DEADLOCK FALSE
