SPECIFICATION Spec
CONSTANTS
  Codes = {eur, brl}
  AllOrNothing = TRUE
  Limits = {10}
  StartTimes = {0}
  Pauses = {0}
  MaxAge = 86400
  Delays = {}
  MaxStarts = 1
  MaxFailures = 0
  MaxDay = 1
INVARIANTS
  MarginIsSafe
CHECK_DEADLOCK FALSE
