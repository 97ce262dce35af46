SPECIFICATION MCSpec
CONSTANTS
  Users = {m1, m2}
  Resets = {c}
  Tasks = {t}
  Manual = {h}
  HistoryWindow = 3
  MaxShown = 3
  MaxTime = 1
  MaxVersions = 2
  MaxFaults = 1
  MaxComing = 3
  MaxEvents = 1
SYMMETRY Symmetry
CHECK_DEADLOCK FALSE
INVARIANT TranscriptTypeOK
PROPERTIES AnswersAreShown ResetIsFinal GivenUpForAReason
