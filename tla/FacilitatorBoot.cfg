SPECIFICATION Spec
CONSTANTS
  n1 = n1
  n2 = n2
  pay = pay
  retry = retry
  other = other
  respelled = respelled
  Requests = {pay}
  Keys <- MCKeys
  ValueOf <- MCValueOf
  HexOf <- MCHexOf
  Nullifiers = {n1, n2}
  InputNullifiers <- MCInputNullifiers
  Modes = {"on_chain"}
  MaxCrashes = 1
  MaxElsewhere = 1
  MaxStale = 1
PROPERTY BootRestoresSpent
CHECK_DEADLOCK FALSE
