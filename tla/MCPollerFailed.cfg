SPECIFICATION SpecGather
CONSTANTS
  Parts = {"poll"}
  Tasks = {"repositories", "teams"}
  NullOrg = {}
  PageCount <- MCPageCount
  Workers = 2
  Cleaner = Cleaner
  NoCount = NoCount
  MaxRetries = 1
  MaxFaults = 0
  Pollers = {w1, w2}
  Sources = {"s"}
  LastObject = 4
  Markers = {4}
  Corrupt = {2}
  Batches <- MCBatches
  PageSize = 2
  NoSource = NoSource
  PollRetries = 1
  MaxQueued = 1
  MaxErrors = 0
  MaxCrashes = 0
INVARIANTS
  CursorWaitsForFailures
CHECK_DEADLOCK FALSE
