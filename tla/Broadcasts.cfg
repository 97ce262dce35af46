SPECIFICATION LiveSpec
CONSTANTS
  Groups = {g1, g2}
  Jobs = {b1}
  Now = now
  BatchSize = 1
  MaxFaults = 1
  MaxCrashes = 1
INVARIANTS
  SentAtMostOnce
  RowsAreSound
PROPERTY
  DueBroadcastEnds
CHECK_DEADLOCK FALSE
