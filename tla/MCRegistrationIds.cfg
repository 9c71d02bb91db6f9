SPECIFICATION Spec
CONSTANTS
  Names = {a, b}
  MaxStarts = 2
  Configs <- MCConfigs
CHECK_DEADLOCK FALSE
INVARIANTS
  JobHasItsRow
