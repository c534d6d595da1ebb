SPECIFICATION FairRecords
CONSTANTS
  Parts = {"retention"}
  Entities = {"org_members", "repositories", "team_members", "team_repos", "branch_protections", "audit_log", "repo_commits", "workflow_runs", "pull_requests", "issues", "deployments", "repo_collaborators", "secret_scanning_alerts", "mfa_status"}
  Objects = {"a", "b", "c"}
  ScopeOrder <- MCScopeOrder
  ScopeOf <- MCScopeOf
  Private = {}
  Rank <- MCRank
  Old = {"a"}
  Bare = {"b"}
  PageSize = 1
  MaxClock = 4
  MirrorFaults = 1
  CopilotOrgs = {"o1", "o2"}
  CacheHours = 2
  SyncHours = 1
  LastHour = 4
  SyncRetries = 1
  CopilotFaults = 2
  Scans = {"b1", "b2"}
  IdsOf <- MCIdsOf
  Data <- MCData
  WorkflowOf <- MCWorkflowOf
  CreatedOf <- MCCreatedOf
  IdOf <- MCIdOf
  ChunkSize = 1
  MaxClaims = 1
  ScanFaults = 1
  TypeOrder <- MCTypeOrder
  TimeColumn <- MCTimeColumn
  Columns <- MCColumns
  MinimumDays <- MCMinimumDays
  DaysAsked = {1, 2}
  Servers = {"a1", "a2"}
  Enforcer = "worker"
  TimeToLive = 2
  MaxTime = 4
  MaxUpdates = 0
  AlertIds = {"a", "b", "c"}
  ToolOf <- MCToolOf
  SeverityOf <- MCSeverityOf
  RepoOf <- MCRepoOf
  Audited = {"r1"}
  Week = 1
  Fortnight = 2
  Month = 3
  TwoMonths = 4
  Quarter = 5
  LastDay = 6
  MaxAlerts = 2
  Kinds <- MCKinds
  Scope = {"o1", "o2"}
  Bots = {"bot"}
  H24 = 0
  D7 = 1
  D30 = 1
  D60 = 2
  D90 = 2
  D180 = 3
  D365 = 4
  D730 = 5
  LastTick = 5
  MaxRows = 3
  OwnSlugs = {"own", "persona-bot", "runaway-workflow-queue-anomaly"}
  OwnLogics = {"pattern", "posture", "cross_namespace_sequence"}
  OwnFeeds = {"own", "urlhaus"}
  OwnRoles = {"sys_admin", "super_admin", "viewer"}
  CustomRoles = {"custom"}
  OwnSources = {"hec", "github_api_sync"}
  MaxWrites = 2
PROPERTY
  OldRowsGo
CHECK_DEADLOCK FALSE
