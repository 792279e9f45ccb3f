SPECIFICATION Spec
CONSTANTS
  Parts = 3
  MaxCalls = 3
  MaxVersions = 2
  MaxLost = 2
  MaxOthers = 2
INVARIANTS TypeOK TablesFaithful TablesSettle
CHECK_DEADLOCK FALSE
