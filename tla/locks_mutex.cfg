CONSTANTS
  c1 = c1
  c2 = c2
  c3 = c3
  Thread = {c1, c2, c3}
  NoOne = NoOne
  LOOPS = 4
SPECIFICATION Spec
INVARIANTS TypeOK OverrunBounded EachDoubledOnce ResultComplete
PROPERTIES Termination ImplementsAtomicDoubling
CHECK_DEADLOCK FALSE
