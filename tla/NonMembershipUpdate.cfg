SPECIFICATION AnySpec
CONSTANTS
  Bits = 2
  Keys = {0, 2}
  Values = {1, 2}
  Admins = {a1}
  MaxStale = 4
INVARIANT StoreIsComplete
