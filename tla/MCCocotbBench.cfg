\* Every bench.  The tests of MoldUPP64 and of lliu_top end.
SPECIFICATION CocotbBenchSpec
CONSTANTS
  Benches = {"mold", "filter", "eth", "v1", "book"}
  PayloadLengths = {4, 8, 14}
  IdleCycles = {0, 1}
  MaxSeq = 3
  DropMax = 2
  NoBeat = NoBeat
  NoDatagram = NoDatagram
  Entries = {0, 1}
  Stocks = {s1, s2}
  NoStock = NoStock
  NoCamWrite = NoCamWrite
  MessageLists <- MCLists
  MaxFrames = 3
  MacDropMax = 2
  NoMacBeat = NoMacBeat
  NoFrame = NoFrame
  SrcIp <- MCSrcIp
  DstIp <- MCDstIp
  Session = 7
  Weights <- MCWeights
  Prices <- MCPrices
  Files <- MCFiles
  Delays = {0, 2, 7}
  NoV1Beat = NoV1Beat
  NoMsg = NoMsg
  NoData = NoData
  NoAddr = NoAddr
  Refs = {1, 2, 3}
  Hash <- PairHash
  TableSize = 3
  MaxProbe = 1
  Symbols = {0}
  NumLevels = 1
  BookPrices = {1, 2}
  MaxShares = 2
  CountMod = 2
  Msgs <- BenchMsgs
  Empty = Empty
  NoOp = NoOp
  MaxDrops = 1
INVARIANTS DatagramStripped CheckerReady FilterChecked WholeFrames ScoresJudged
           ObserversRight BookMatchesModel TableMatchesModel
CHECK_DEADLOCK FALSE
