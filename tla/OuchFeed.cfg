\* Any orders, refusals, template writes and resets; short watchdog limits. The
\* transmitter does not refuse for ever.
SPECIFICATION LiveSpec
CONSTANTS
  Orders <- OrderPerSym
  Syms = {0, 1}
  Words = {4}
  Contents = {0, 1}
  Blank = 0
  StallLimit = 3
  ClearLimit = 4
  TokenMod = 3
  NoOrder = NoOrder
  MayWrite = TRUE
  MayReset = TRUE
INVARIANTS WellFramed CarriesTheOrder
PROPERTIES WatchdogHonest SentInTheEnd
