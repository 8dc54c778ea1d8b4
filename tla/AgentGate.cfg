SPECIFICATION Spec
CONSTANTS
  a1 = a1
  a2 = a2
  f1 = f1
  f2 = f2
  f3 = f3
  gated = gated
  open = open
  Requests = {f1, f2, f3}
  Nullifiers <- MCNullifiers
  Keys <- MCKeys
  ValueOf <- MCValueOf
  Decimal <- MCDecimal
  Agents = {a1, a2}
  Urls = {gated, open}
  AgentOf <- MCAgentOf
  UrlOf <- MCUrlOf
  Headers <- MCHeaders
  Price <- MCPrice
  Gated = {gated}
  OrgScoped = {gated}
  NoteFiles <- MCNoteFiles
  ModeOf <- MCModeOf
  Elsewhere <- MCElsewhere
  FirstFixtures <- MCFixtures
  MaxRestarts = 1
INVARIANT SettledPaymentsAreServed
