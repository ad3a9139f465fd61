CONSTANTS
  FgId = {10, 11}
  NoGroup = NoGroup
  t1 = t1
  t2 = t2
  t3 = t3
  Tuple = {t1, t2, t3}
  ShapeOf <- TupleShapes
  BitsOf <- TableBits
  SweptRows = {}
  Bank = {0, 1, 2, 3}
  KeysPerBank <- ChipKeys
  KeysIn <- SumOfKeys
  Entry = {1, 2}
  Sdk = {"group_add", "entry_add", "group_delete"}
  Caller = {}
  Limit = 4
SPECIFICATION Spec
INVARIANTS TypeOK CountersMatchHardware GuaranteeIsKept MaxFreeIsHonest BanksMatchHardware RefcntCountsTrackers RefcntAssertHolds
PROPERTY ImplementsPmfBanks
