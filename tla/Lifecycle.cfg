SPECIFICATION LiveSpec
CONSTANTS
  Scopes = {s1, s2, s3}
  DefaultScope = s1
  None = none
  MaxFaults = 2
  MaxCrashes = 1
  MaxRevision = 2
INVARIANTS
  BindingsAreSound
  RuntimesAreOwned
PROPERTY
  OperationsEnd
CHECK_DEADLOCK FALSE
