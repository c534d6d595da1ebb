SPECIFICATION FairPipeline
CONSTANTS
  Parts = {"ingest", "detection"}
  Workers = {w1, w2}
  NoTask = NoTask
  NoDoc = NoDoc
  NoRow = NoRow
  NoDet = NoDet
  Events <- MCEvents
  Docs <- MCDocs
  Positions = {1, 2, 3, 4, 5}
  CollabKeys = {"k"}
  Hash <- MCHash
  DocumentId <- MCDocumentId
  Bits <- MCBits
  Malformed = {"blank"}
  Adds <- MCAdds
  Removes <- MCRemoves
  BadRole = {"refused"}
  Day <- MCDay
  Batches = {"t1", "t2"}
  RunRetries = 1
  Tasks = {"m1", "f1", "f2"}
  Batch <- MCBatchCrossed
  LastDay = 0
  MaxRetries <- MCMaxRetriesCrossed
  MaxCrashes = 1
  MaxExpiries = 0
  EventsOf <- MCEventsOfCrossed
  Rules <- MCRulesCrossed
  Kind <- MCKindCrossed
  Matches <- MCMatchesCrossed
  SeqSteps <- MCSeqStepsCrossed
  Threshold <- MCThresholdCrossed
  Window <- MCWindowCrossed
  Suppressed <- MCSuppressed
  LastTick = 1
  MaxKills = 1
  MaxErrors = 0
  MaxTriage = 0
PROPERTIES
  Settles
CHECK_DEADLOCK FALSE
