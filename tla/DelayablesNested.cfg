SPECIFICATION Spec
CONSTANTS
  a = a
  b = b
  c = c
  d = d
  x = x
  y = y
  Leaf = {a, b, c, d}
  Container = {x, y}
  Keyed = {a, b}
  MaxMembers = 2
  MaxOnDone = 1
INVARIANTS
  ChainsAreSequential
CHECK_DEADLOCK FALSE
