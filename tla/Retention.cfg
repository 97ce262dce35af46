SPECIFICATION MCSpec
CONSTANTS
  Incoming = {i1, i2}
  Manual = {h}
  Stickers = {s}
  Effects = {e}
  RetainAge = 1
  HistoryAge = 1
  KeepLatest = 1
  BatchSize = 2
  MaxTime = 2
  MaxComing = 2
SYMMETRY Symmetry
CHECK_DEADLOCK FALSE
INVARIANTS KeptWhileNeeded ResetHidesQuotes
