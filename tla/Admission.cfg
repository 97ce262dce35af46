SPECIFICATION AdmissionSpec
CONSTANTS
  Msgs = {s1, s2, t1, t2, mu1}
  Commands = {mu1}
  Mentions = {t1, t2}
  Muted = {s1}
  Workers = 1
  MaxPending = 2
  BurstCap = 2
  MaxComing = 4
  MaxFaults = 1
  NoMsg = NoMsg
  s1 = s1
  s2 = s2
  t1 = t1
  t2 = t2
  mu1 = mu1
INVARIANT WaitersAreServed
PROPERTY HeldIsJudged
CHECK_DEADLOCK FALSE
