SPECIFICATION TreesSpec
CONSTANTS
  Bits = 3
  Keys = {0, 1, 4}
  Values = {1, 2}
  Admins = {a1, a2}
  MaxStale = 4
  ZeroLeaf <- MCZeroLeaf
  LEVELS = 2
  Members <- MCLeaves
  Callers = {a1, a2}
  PoolLevels = 3
  PoolRing = 2
  PoolLeaves <- MCLeaves
INVARIANTS RootHoldsMembers WalletTreeAgrees TypeOK StoreIsComplete RootIsCanonical AbsencesAreProvable SparseTreesAgree
PROPERTIES PoolTreeSpec BlockedKeysSpec
CHECK_DEADLOCK FALSE
