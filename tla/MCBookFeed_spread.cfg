\* No two references share a base slot.
SPECIFICATION FeedSpec
CONSTANTS
  r1 = r1
  r2 = r2
  r3 = r3
  MCRefs = {r1, r2, r3}
  Refs <- MCRefs
  Hash <- SpreadHash
  TableSize = 3
  MaxProbe = 1
  Symbols = {0}
  NumLevels = 2
  Prices = {1, 2}
  MaxShares = 2
  CountMod = 2
  Msgs <- FeedMsgs
  Empty = Empty
  NoMsg = NoMsg
  Gone = Gone
  MayReset = FALSE
  KeepSide = TRUE
INVARIANTS TableIsLive NoGhostQuote LevelsBacked
PROPERTIES ImplementsMap
