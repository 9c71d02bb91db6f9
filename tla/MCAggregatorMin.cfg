SPECIFICATION Spec
CONSTANTS
  Providers = {p1, p2, p3}
  Currencies = {usd, eur}
  Base = usd
  Rates = {10, 11}
  ToleranceNum = 1
  ToleranceDen = 10
  MinProviders = 2
  MaxAge = 1
  Retention = 1
  Step = 2
  MaxLag = 0
  MaxNow = 1
  MaxRows = 2
INVARIANTS
  EnoughProviders
