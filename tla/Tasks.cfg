SPECIFICATION LiveSpec
CONSTANTS
  c1 = c1
  d1 = d1
  d2 = d2
  Commands = {c1, d1}
  Calls = {d2}
  Daily = {d1, d2}
  When <- WhenAsked
  Day = 1
  Lateness = 0
  MaxDailyTasks = 1
  MaxNow = 2
  MaxMishaps = 1
INVARIANTS
  TimersFollowRows
  KeptUntilRun
  DailyBounded
PROPERTY DueTaskSettles
CHECK_DEADLOCK FALSE
