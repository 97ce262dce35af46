SPECIFICATION FairSpec
CONSTANTS
  r1 = r1
  c1 = c1
  d1 = d1
  Desktop = Desktop
  NoRow = NoRow
  Flusher = flusher
  Workers = {w1}
  Replies = {r1}
  Bare = {}
  Effects = {c1, d1}
  CommandRuns = {c1}
  TurnOf <- MixedTurnOf
  Rank <- OneRank
  MaxCrashes = 1
  MaxFaults = 1
  MaxDrops = 1
INVARIANTS
  AtMostOnce
  EffectFollowsReply
  RecordsAreTrue
PROPERTIES
  RepliesKeepThePromise
  PendingReplySettles
  DeliveredEffectSettles
