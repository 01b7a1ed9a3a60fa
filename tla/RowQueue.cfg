SPECIFICATION Spec
CONSTANTS
  Size = 4
  BlockRows = 2
  FlushAt = 2
  MaxRows = 8
INVARIANT StatsMatchFile
PROPERTY ImplementsFifo
PROPERTY RowsReachStream
PROPERTY StopReturns
CHECK_DEADLOCK FALSE
