SPECIFICATION SpecPipeline
CONSTANTS
  Parts = {"ingest", "detection"}
  Workers = {w1, w2}
  NoTask = NoTask
  NoDoc = NoDoc
  NoRow = NoRow
  NoDet = NoDet
  Events <- MCEvents
  Docs <- MCDocs
  Positions = {1, 2, 3, 4, 5}
  CollabKeys = {"k"}
  Hash <- MCHash
  DocumentId <- MCDocumentId
  Bits <- MCBits
  Malformed = {"blank"}
  Adds <- MCAdds
  Removes <- MCRemoves
  BadRole = {"refused"}
  Day <- MCDay
  Batches = {"t1", "t2"}
  RunRetries = 1
  Tasks = {"m1", "f1"}
  Batch <- MCBatch
  LastDay = 1
  MaxRetries <- MCMaxRetries
  MaxCrashes = 2
  MaxExpiries = 1
  EventsOf <- MCEventsOf
  Rules <- MCRules
  Kind <- MCKind
  Matches <- MCMatches
  SeqSteps <- MCSeqSteps
  Threshold <- MCThreshold
  Window <- MCWindow
  Suppressed = {}
  LastTick = 2
  MaxKills = 0
  MaxErrors = 1
  MaxTriage = 1
INVARIANTS
  PipelineTypeOK
  NoUnexplainedLoss
  DuplicatesBoundedByWorkers
  ReferencesCommitted
  DetectionsBoundedByWorkers
  
  SentIsWritten
PROPERTIES
  ImplementsEventLog
CONSTRAINT OneDisturbance
SYMMETRY MCSymmetry
CHECK_DEADLOCK FALSE
