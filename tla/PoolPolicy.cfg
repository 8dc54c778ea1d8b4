SPECIFICATION PolicySpec
CONSTANTS
  LEVELS = 2
  ROOT_HISTORY_SIZE = 2
  Commitments <- MCCommitments
  Keys = {k1, k2}
  Accounts = {alice}
  PoolAccount = pool
  MembershipAsps = {m1, m2}
  NonMembershipAsps = {n1, n2}
  Blindings = {0, 1, 2, 3, 4}
  InitialBalances <- MCOneToken
  FieldSize = 8
  MaxExtAmount = 2
  MaxWraps = 0
  MaxI128 = 1
  MaxDeposit = 1
  AspCapacity = 2
  ExtAmounts <- MCUnitExts
  OutAmounts = {0, 1}
  MaxMembers = 2
  MaxBlocked = 1
  MaxUnreduced = 0
  MaxSurplus = 0
SYMMETRY PolicySymmetry
PROPERTY OnlyAdmittedKeysSpend
CHECK_DEADLOCK FALSE
