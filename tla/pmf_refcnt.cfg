CONSTANTS
  FgId = {10, 11, 12}
  NoGroup = NoGroup
  t1 = t1
  t2 = t2
  t3 = t3
  Tuple = {t1, t2, t3}
  ShapeOf <- MixedShapes
  BitsOf <- TableBits
  SweptRows = {t3}
  Bank = {0, 1}
  KeysPerBank <- EvenKeys
  KeysIn <- SumOfKeys
  Entry = {1, 2}
  Sdk = {}
  Caller = {"delete_all"}
  Limit = 6
SPECIFICATION Spec
INVARIANTS RefcntAssertHolds
