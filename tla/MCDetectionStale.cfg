SPECIFICATION SpecPipeline
CONSTANTS
  Parts = {"detection"}
  Workers = {w1, w2}
  NoTask = NoTask
  NoDoc = NoDoc
  NoRow = NoRow
  NoDet = NoDet
  Events <- MCEvents
  Docs <- MCDocs
  Positions = {1, 2, 3, 4, 5}
  CollabKeys = {"k"}
  Hash <- MCHash
  DocumentId <- MCDocumentId
  Bits <- MCBits
  Malformed = {"blank"}
  Adds <- MCAdds
  Removes <- MCRemoves
  BadRole = {"refused"}
  Day <- MCDay
  Batches = {"t1", "t2"}
  RunRetries = 1
  Tasks = {"f1"}
  Batch <- MCBatchKilled
  LastDay = 0
  MaxRetries <- MCMaxRetriesKilled
  MaxCrashes = 1
  MaxExpiries = 0
  EventsOf <- MCEventsOf
  Rules <- MCRules
  Kind <- MCKind
  Matches <- MCMatches
  SeqSteps <- MCSeqSteps
  Threshold <- MCThreshold
  Window <- MCWindow
  Suppressed = {}
  LastTick = 2
  MaxKills = 0
  MaxErrors = 0
  MaxTriage = 0
INVARIANTS
  RemedyFollowsIssue
CHECK_DEADLOCK FALSE
