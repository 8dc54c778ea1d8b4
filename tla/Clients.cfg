SPECIFICATION ClientsSpec
CONSTANTS
  a1 = a1
  a2 = a2
  f1 = f1
  f2 = f2
  f3 = f3
  gated = gated
  open = open
  Requests = {f1, f2, f3}
  Nullifiers <- MCNullifiers
  Keys <- MCKeys
  ValueOf <- MCValueOf
  Decimal <- MCDecimal
  Agents = {a1, a2}
  Urls = {gated, open}
  AgentOf <- MCAgentOf
  UrlOf <- MCUrlOf
  Headers <- MCHeaders
  Price <- MCPrice
  Gated = {gated}
  OrgScoped = {gated}
  NoteFiles <- MCNoteFiles
  ModeOf <- MCModeOf
  Elsewhere <- MCElsewhere
  FirstFixtures <- MCFixtures
  MaxRestarts = 1
  Accounts = {alice, bob}
  Outsider = other
  None = none
  Payments <- MCPayments
  OtherDevices = {3}
  Mirrored = {3}
  MaxOutputs = 4
  MaxActs = 3
SYMMETRY MCSymmetry
INVARIANTS ClientsTypeOK OutcomesTellWhoPaid CapturedFixturesAreSpent ZeroNoteAllowsOnePayment SpentMarksAreTrue ReceivedNotesAreSpendable ScansMissNothing
PROPERTY PaymentsKeepTheirNote
CHECK_DEADLOCK FALSE
