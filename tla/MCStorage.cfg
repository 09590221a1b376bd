CONSTANTS
  Cf = {"state"}
  Key = {"key"}
  HashOf <- MCHashOf
  ShardCount = {0, 1, 2}
  Unreadable = {}
  MaxOps = 4
  MaxBoots = 2
SPECIFICATION Spec
INVARIANTS TypeOK ReadsFresh ReadsNeverGoBack Durable
CHECK_DEADLOCK FALSE
