\* Positions of 4 bits, a limit and quantities that do not overflow them.
SPECIFICATION FeedSpec
CONSTANTS
  Symbols = {0, 1}
  Half = 4
  MaxQty = 2
  PosLimit = 3
  Quantities = {2, 3}
  Quotes <- SampleQuotes
  None = None
  Gap = 4
  MayReset = TRUE
INVARIANTS NetWithinLimit PositionExact KillHolds BandHolds
