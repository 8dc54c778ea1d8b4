SPECIFICATION ValueSpec
CONSTANTS
  LEVELS = 3
  ROOT_HISTORY_SIZE = 2
  Commitments <- MCCommitments
  Keys = {k1}
  Accounts = {alice}
  PoolAccount = pool
  MembershipAsps = {m1}
  NonMembershipAsps = {n1}
  Blindings = {0, 1, 2, 3, 4, 5, 6, 7, 8, 9}
  InitialBalances <- MCBalances
  FieldSize = 12
  MaxExtAmount = 3
  MaxWraps = 1
  MaxI128 = 2
  MaxDeposit = 2
  AspCapacity = 1
  ExtAmounts <- MCValueExts
  OutAmounts = {0, 1, 11}
  MaxMembers = 2
  MaxBlocked = 1
  MaxUnreduced = 1
  MaxSurplus = 1
INVARIANTS TypeOK EveryInputIsFresh SpentNotesExist AmountsInRange ValueIsConserved Solvent NotesAreWithdrawable KnownRootsAreRecent
PROPERTY LedgerSpec
CHECK_DEADLOCK FALSE
