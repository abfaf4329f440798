\* Every core proposes the same share count, as after reset.
SPECIFICATION FeedSpec
CONSTANTS
  Messages <- SampleMessages
  Beats <- SampleBeats
  Score <- SampleScore
  Thresh = 2
  Shares <- EqualShares
  Reference = 1000
  Bps = 200
  MaxQty = 5
  PosLimit = 3
  PosHalf = 8
  CoreLatency = 14
  StallLimit = 2
  ClearLimit = 2
  Junk <- blankFields
  None = None
  MayReset = TRUE
INVARIANTS OneContextWhenCalm ScoredIsCheckedWhenCalm PassedIsSentWhenCalm ChargedIsSent
