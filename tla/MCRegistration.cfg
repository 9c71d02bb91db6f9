SPECIFICATION Spec
CONSTANTS
  Names = {a, b, c}
  MaxStarts = 3
  Configs <- MCConfigs
CHECK_DEADLOCK FALSE
INVARIANTS
  TypeOK
  JobReferencesRow
  WrongIdOnlyAfterInsert
  SchemaBeforeRows
PROPERTIES
  RowKeepsItsId
