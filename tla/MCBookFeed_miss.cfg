\* Two references in one base slot: does a lookup find what is in its window?
SPECIFICATION FeedSpec
CONSTANTS
  r1 = r1
  r2 = r2
  r3 = r3
  MCRefs = {r1, r2, r3}
  Refs <- MCRefs
  Hash <- CrowdedHash
  TableSize = 3
  MaxProbe = 1
  Symbols = {0}
  NumLevels = 1
  Prices = {1}
  MaxShares = 1
  CountMod = 2
  Msgs <- FeedMsgs
  Empty = Empty
  NoMsg = NoMsg
  Gone = Gone
  MayReset = FALSE
  KeepSide = TRUE
PROPERTIES MissMeansAbsent
