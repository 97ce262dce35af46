SPECIFICATION FairSpec
CONSTANTS
  NoMsg = NoMsg
  Recoverer = recoverer
  Msgs = {1, 2, 3}
  Kinds <- EachKind
  Workers = {w1}
  MaxPending = 1
  BurstCap = 2
  MaxRetries = 1
  MaxAttempts = 1
  MaxDups = 1
  MaxFaults = 1
  MaxCrashes = 1
  MaxTrouble = 1
INVARIANTS
  NoMessageLost
  BatchedHasAnAnchor
  TakenInOrder
  QueueIsSound
PROPERTIES
  EachAnsweredOnce
  EventuallySettled
CHECK_DEADLOCK FALSE
