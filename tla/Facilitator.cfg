SPECIFICATION FairSpec
CONSTANTS
  n1 = n1
  n2 = n2
  pay = pay
  retry = retry
  other = other
  respelled = respelled
  Requests = {pay, respelled, other}
  Keys <- MCKeys
  ValueOf <- MCValueOf
  HexOf <- MCHexOf
  Nullifiers = {n1, n2}
  InputNullifiers <- MCInputNullifiers
  Modes = {"mock", "on_chain"}
  MaxCrashes = 1
  MaxElsewhere = 1
  MaxStale = 1
INVARIANTS TypeOK ClaimsHaveOneOwner SuccessIsOnChain NullifiersSettleOnce
PROPERTIES SubmittedIsAnswered SettlementSpec
CHECK_DEADLOCK FALSE
