SPECIFICATION Spec
CONSTANTS
  Providers = {p1}
  Currencies = {usd, eur, brl}
  Base = usd
  Rates = {0, 10}
  ToleranceNum = 1
  ToleranceDen = 10
  MinProviders = 1
  MaxAge = 1
  Retention = 2
  Step = 2
  MaxLag = 1
  MaxNow = 3
  MaxRows = 3
INVARIANTS
  TypeOK
  RowsAreFreshest
  PointsAreBacked
PROPERTIES
  PruneIsInvisible
  FinishedSeriesAreStable
