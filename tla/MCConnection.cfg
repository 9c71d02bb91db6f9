SPECIFICATION FairSpec
CONSTANTS
  cron = cron
  scraper = scraper
  client = client
  p1 = p1
  p2 = p2
  Callers = {cron, scraper, client}
  Serves <- MCServes
  NoOwner = NoOwner
  Providers = {p1, p2}
  Jobs = {p1}
  Listed <- MCListed
  CallsPerDay <- MCCallsPerDay
  Batch = 1
  Codes = 2
  MaxDay = 1
  MaxCalls = 2
INVARIANTS
  TypeOK
  OwnerExecutes
  GaugeIsBacked
  ScrapeIsCurrent
  ProvidersAreCurrent
PROPERTIES
  CallersFinish
