SPECIFICATION Spec
CONSTANTS
  Codes = {eur, brl}
  AllOrNothing = TRUE
  Limits = {1, 2, 4}
  StartTimes = {0, 8630, 86399}
  Pauses = {0, 50000}
  MaxAge = 86400
  Delays = {10}
  MaxStarts = 2
  MaxFailures = 1
  MaxDay = 2
INVARIANTS
  TypeOK
  StaysReady
  CodesStayFresh
PROPERTIES
  NeverFaster
CHECK_DEADLOCK FALSE
