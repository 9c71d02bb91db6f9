SPECIFICATION FairSpec
CONSTANTS
  p1 = p1
  Providers = {p1, p2}
  Names = {"yahoo"}
  Name <- MCName
  Quotes = {eur}
  Runs = {r1, r2}
  NoProvider = NoProvider
  MaxDay = 1
  MaxCalls = 3
  CallsPerDay <- MCCallsPerDay
INVARIANTS
  TypeOK
  SoftBudget
  ReservedBudget
  NothingAhead
  CountedBatchIsStored
  MetricsNeverAhead
PROPERTIES
  LedgerSpec
  RunsFinish
