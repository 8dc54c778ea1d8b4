SPECIFICATION MCSpec
CONSTANTS
  Windows = {1, 2}
  UsualWindow = 1
  Retention = 2
  ChunkSize = 1
  PageRoom <- MCPageRoom
  TreeCapacity = 3
  MaxLedger = 4
  Blocks <- MCBlocks
  MaxUpsets = 2
INVARIANT PagesAreFollowed
CHECK_DEADLOCK FALSE
