\* Both searches over the graphs of 4 vertices in SmallGraphs.
CONSTANTS
  N = 4
  Graphs <- SmallGraphs
  SizeMod = 16
  None = None
SPECIFICATION SuiteSpec
INVARIANTS SuiteTypeOK EachOnce Closed SearchOrder QueueLargeEnough DepthFirst
PROPERTY SearchesEnd
CHECK_DEADLOCK FALSE
