SPECIFICATION AccountLiveSpec
CONSTANTS
  SignalCapacity = 2
  MaxFlaps = 2
  MaxVersion = 3
  MaxFailures = 1
INVARIANTS
  GroupCopiesAgree
PROPERTY
  ConnectionSettles
CHECK_DEADLOCK FALSE
