SPECIFICATION SpecResponse
CONSTANTS
  Parts = {"automation", "notify", "digest", "posture", "intel"}
  Senders = {"w1", "w2", "api"}
  Api = "api"
  TargetOrder <- MCTargetOrder
  RepoDispatch = {"repo"}
  MaxAttempts <- MCMaxAttempts
  PerMinute <- MCPerMinute
  TaskRetries = 1
  MaxRows = 3
  SendFaults = 1
  SendRequests = 2
  Notifiers = {"n1", "n2"}
  Responders = {"a1"}
  Raised = {"d1", "d2"}
  SubjectOf <- MCSubjectOf
  ConfigOrder <- MCConfigOrder
  CatchAll = {"any"}
  Accepts <- MCAccepts
  TypeOf <- MCTypeOf
  Globals = {"pagerduty"}
  MaxHour = 1
  NotifyRetries = 1
  NotifyFaults = 1
  MaxCloses = 3
  Alerts = {"d1", "d2"}
  Window = 1
  MaxTick = 6
  DigestFaults = 2
  Assessors = {"p1", "p2"}
  Analysts = {"a1"}
  Pipeline = "dw"
  KeyOrder <- MCKeyOrder
  Covers <- MCCovers
  SuppressedKeys = {"web"}
  MaxFound = 2
  PostureFaults = 1
  PostureChanges = 1
  MaxPatches = 1
  Refreshers = {"r1"}
  Scanners = {"s1", "s2"}
  Indicators = {"i1", "i2"}
  KindOf <- MCKindOf
  MaxEvent = 2
  NamedBy <- MCNamedBy
  Edits = 3
  IntelFaults = 1
INVARIANTS
  ResponseTypeOK
  
  NoForgottenPost
  AtMostOneAlert
  
  
  DigestExplained
  StampFollowsStatus
  QuietAssessmentAgrees
  OneActivePerKey
  
  RetroOnce
PROPERTY
  SuccessIsFinal
CHECK_DEADLOCK FALSE
