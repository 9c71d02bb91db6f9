SPECIFICATION Spec
CONSTANTS
  h1 = h1
  h2 = h2
  Handlers = {h1}
  Serves <- MCServes
  Codes = {eur, brl}
  All = All
  Providers = {p1}
  MinProviders = 1
  MaxAge = 4
  TTL = 1
  Timeout = 1
  MaxLag = 1
  MaxNow = 3
INVARIANTS
  CachedRatesComplete
