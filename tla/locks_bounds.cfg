CONSTANTS
  c1 = c1
  c2 = c2
  c3 = c3
  Thread = {c1, c2}
  NoOne = NoOne
  LOOPS = 4
SPECIFICATION Spec
INVARIANTS IndexInBounds
CHECK_DEADLOCK FALSE
