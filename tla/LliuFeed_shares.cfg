\* Each core has its own share count.
SPECIFICATION FeedSpec
CONSTANTS
  Messages <- SampleMessages
  Beats <- SampleBeats
  Score <- SampleScore
  Thresh = 2
  Shares <- OwnShares
  Reference = 1000
  Bps = 200
  MaxQty = 5
  PosLimit = 3
  PosHalf = 8
  CoreLatency = 14
  StallLimit = 2
  ClearLimit = 2
  Junk <- blankFields
  None = None
  MayReset = FALSE
INVARIANTS PassedIsSentWhenCalm
