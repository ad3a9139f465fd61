CONSTANTS
  FgId = {10, 11}
  NoGroup = NoGroup
  t1 = t1
  t2 = t2
  t3 = t3
  Tuple = {t1, t3}
  ShapeOf <- TwoShapes
  BitsOf <- TableBits
  SweptRows = {t3}
  Bank = {0, 1}
  KeysPerBank <- UnevenKeys
  KeysIn <- SumOfKeys
  Entry = {1}
  Sdk = {"group_add", "attach", "key_size", "info_get", "entry_add", "entry_delete",
         "group_delete", "drops_entries", "shares_banks"}
  Caller = {"rerun", "stale_ids", "delete_all", "uncounted"}
  Limit = 1
SPECIFICATION Spec
INVARIANTS TotalsMatchBanks FreeIffUnreferenced RowsOwnTheirGroups
