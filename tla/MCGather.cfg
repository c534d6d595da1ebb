SPECIFICATION FairGather
CONSTANTS
  Parts = {"sync", "poll"}
  Tasks = {"repositories", "teams"}
  NullOrg = {}
  PageCount <- MCPageCount
  Workers = 2
  Cleaner = Cleaner
  NoCount = NoCount
  MaxRetries = 1
  MaxFaults = 1
  Pollers = {w1, w2}
  Sources = {"s"}
  LastObject = 3
  Markers = {}
  Corrupt = {2}
  Batches <- MCBatches
  PageSize = 2
  NoSource = NoSource
  PollRetries = 1
  MaxQueued = 1
  MaxErrors = 1
  MaxCrashes = 1
INVARIANTS
  GatherTypeOK
  CompletedMeansSynced
  OnePostSyncPerStart
  NoSilentGap
PROPERTIES
  VerdictStands
  Settles
CHECK_DEADLOCK FALSE
