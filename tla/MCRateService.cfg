SPECIFICATION Spec
CONSTANTS
  h1 = h1
  h2 = h2
  Handlers = {h1, h2}
  Serves <- MCServes
  Codes = {eur}
  All = All
  Providers = {p1}
  MinProviders = 2
  MaxAge = 3
  TTL = 1
  Timeout = 1
  MaxLag = 0
  MaxNow = 3
INVARIANTS
  TypeOK
  EntriesAreRecent
  FailureForgotten
PROPERTIES
  BoundedStaleness
