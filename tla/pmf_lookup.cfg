CONSTANTS
  FgId = {10, 11}
  NoGroup = NoGroup
  t1 = t1
  t2 = t2
  t3 = t3
  Tuple = {t1, t3}
  ShapeOf <- TwoShapes
  BitsOf <- TableBits
  SweptRows = {}
  Bank = {0, 1}
  KeysPerBank <- EvenKeys
  KeysIn <- SumOfKeys
  Entry = {1, 2}
  Sdk = {"group_add"}
  Caller = {"rerun"}
  Limit = 6
SPECIFICATION Spec
INVARIANTS LookupAssertHolds
