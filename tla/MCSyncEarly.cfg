SPECIFICATION SpecGather
CONSTANTS
  Parts = {"sync"}
  Tasks = {"installations", "teams"}
  NullOrg = {"installations"}
  PageCount <- OnePage
  Workers = 1
  Cleaner = Cleaner
  NoCount = NoCount
  MaxRetries = 1
  MaxFaults = 0
  Pollers = {w1, w2}
  Sources = {"s"}
  LastObject = 3
  Markers = {}
  Corrupt = {2}
  Batches <- MCBatches
  PageSize = 2
  NoSource = NoSource
  PollRetries = 1
  MaxQueued = 1
  MaxErrors = 1
  MaxCrashes = 1
INVARIANTS
  FinalizedAfterRegistration
CHECK_DEADLOCK FALSE
