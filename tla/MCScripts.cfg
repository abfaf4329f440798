\* Every tool; two calls of the regression scripts.  Every behaviour ends: a file
\* is read to its end, and the calls are used up.
SPECIFICATION ScriptSpec
CONSTANTS
  TEST_MODULES <- MCModules
  CaseLists <- MCCases
  NoFile = NoFile
  Broken = Broken
  ALL_TESTS <- MCTests
  EXTRA_TOPLEVEL_TESTS <- MCGroups
  DefaultTop = "lliu_top"
  NoBinary = NoBinary
  NoLog = NoLog
  OldLayout = OldLayout
  AnnotateMins = {1, 2}
  MaxCount = 2
  Stretches = {1, 199, 1999}
  MaxStretches = 3
  Paths <- MCPaths
  Target = "lliu_top_v2.sv"
  Naming <- MCNaming
  LineNos = {1, 2}
  NoPath = NoPath
  MaxRecords = 2
  MaxBranches = 2
  MsgTypes <- MCMsgTypes
  Prices <- MCPrices
  MsgCounts <- MCMsgCounts
  CamIndices <- MCCamIndices
  DropCounts <- MCDropCounts
  Tools = {"regress", "annotated", "lcov", "cover"}
  MaxSessions = 2
INVARIANTS FailureFailsTheRun CleanRunCountsItself UvmPassMeansRan FullMeansFull
           GapFindsEveryMiss ClosureNeedsEveryPair
CHECK_DEADLOCK FALSE
