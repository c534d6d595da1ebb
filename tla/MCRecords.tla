----------------------------- MODULE MCRecords ------------------------------
(***************************************************************************)
(* What is kept of GitHub, for how long, and what is told from it, on      *)
(* small instances: Mirror, CopilotSync, WorkflowScan, Retention, Alerts,  *)
(* AuditSignals, and the schema of the database of it all: Schema.         *)
(* A behaviour runs one of them (`part`) while the others rest in an       *)
(* initial state: one run explores the sum of their state spaces.          *)
(***************************************************************************)
EXTENDS Mirror, CopilotSync, WorkflowScan, Retention, Alerts, AuditSignals, Schema
CONSTANT Parts
VARIABLE part
-----------------------------------------------------------------------------
\* Three objects in two scopes; the second or the third is created later.
MCScopeOrder == <<"s1", "s2">>
MCScopeOf == [a |-> "s1", b |-> "s1", c |-> "s2"]
MCRank == [a |-> 1, b |-> 2, c |-> 3]

\* Two batches share an event, and the event of another workflow, which gives rise to
\* no finding, has its time.
MCIdsOf == [b1 |-> {1, 2}, b2 |-> {1}]
MCData ==
  <<[action |-> "prepared", traits |-> {"self-hosted-runner", "pull_ref"}, secrets |-> 2,
     trigger |-> ""],
    [action |-> "created", traits |-> {}, secrets |-> 0, trigger |-> "push"]>>
MCWorkflowOf == <<"ci", "nightly">>
MCCreatedOf == <<1, 1>>
MCIdOf == <<1, 2>>

\* A type whose column _TABLE_MAP misnames, and one whose it knows.
MCTypeOrder == <<"copilot_metrics", "events">>
MCTimeColumn == [copilot_metrics |-> "metric_date", events |-> "created_at"]
MCColumns == [copilot_metrics |-> {"date", "created_at"}, events |-> {"created_at"}]
MCMinimumDays == [copilot_metrics |-> 1, events |-> 1]
-----------------------------------------------------------------------------
\* Two alerts of different tools, in one repository, and a third in another.
MCToolOf == [a |-> "secret_scanning", b |-> "code_scanning", c |-> "dependabot"]
MCSeverityOf == [a |-> "critical", b |-> "high", c |-> "critical"]
MCRepoOf == [a |-> "r1", b |-> "r1", c |-> "r2"]
-----------------------------------------------------------------------------
\* Rows that signals are read from, in groups: of repositories, forks, pull requests,
\* settings, tokens, bypasses, collaborators and workflows.
Row(action, org, repo, actor, item, note) ==
  [action |-> action, org |-> org, repo |-> repo, actor |-> actor, item |-> item,
   note |-> note]
Forked(org) == Row("repo.fork", org, "r", "ann", "", "")
Pushed(org) == Row("git.push", org, "r", "bob", "", "default branch")
OfPull(end) == Row("pull_request." \o end, "o1", "r", "ann", "7", "")
Setting(action) == Row(action, "o1", "", "bob", "", "")
Bypass(actor) == Row("secret_scanning.push_protection.bypass", "o1", "r", actor, "", "")
Completed(end) == Row("workflows.completed_workflow_run", "o1", "r", "bot", "ci", end)
MCKinds ==
  {{Row("repo.create", "o1", "r", "ann", "", ""), Row("repo.archived", "o1", "r", "bob", "", ""),
    Pushed("o1"), Row("copilot.cfb_seat_added", "o1", "", "ann", "cat", "")},
   {Forked("o1"), Forked("o2"), Pushed("o1"), Pushed("o2")},
   {OfPull("opened"), OfPull("closed"), OfPull("reopened")},
   {Setting("org.enable_saml"), Setting("org.disable_saml"),
    Setting("audit_log_streaming.create"), Setting("audit_log_streaming.destroy"),
    Setting("ip_allow_list.enable")},
   {Row("personal_access_token.create", "o1", "", "ann", "t1", "never"),
    Row("personal_access_token.create", "o1", "", "bob", "t2", "expires"),
    Row("personal_access_token.access", "o1", "", "ann", "t1", ""),
    Row("synced.credential", "o1", "", "ann", "t1", "")},
   {Bypass("ann"), Bypass("bot"), Row("protected_branch.policy_override", "o1", "r", "ann", "", ""),
    Row("rate_limit.exceeded", "o1", "", "ann", "", "")},
   {Row("org.add_outside_collaborator", "o1", "", "ann", "dan", "admin"),
    Row("org.remove_outside_collaborator", "o1", "", "ann", "dan", ""),
    Row("git.push", "o1", "r", "dan", "", ""), Row("synced.outside", "o1", "", "", "dan", "")},
   {Completed("failure"), Completed("success"),
    Row("workflow_run.failure", "o1", "r", "bot", "ci", ""),
    Row("hook.create", "o1", "r", "ann", "", "")}}
-----------------------------------------------------------------------------
InitRecords ==
  /\ part \in Parts
  /\ InitMirror /\ InitCopilot /\ InitScan /\ InitRetention /\ InitAlerts /\ InitSignals
  /\ InitSchema
  /\ part = "mirror" => here \in {Objects \ {"b"}, Objects \ {"c"}}
  /\ part # "mirror" => here = Objects /\ entity = "org_members"

\* A step of one part; the others rest.
Does(name, action) ==
  /\ part = name /\ action /\ UNCHANGED part
  /\ name # "mirror" => UNCHANGED mirrorVars
  /\ name # "copilot" => UNCHANGED copilotVars
  /\ name # "scan" => UNCHANGED scanVars
  /\ name # "retention" => UNCHANGED retentionVars
  /\ name # "alerts" => UNCHANGED alertVars
  /\ name # "signals" => UNCHANGED signalVars
  /\ name # "schema" => UNCHANGED schemaVars
NextRecords ==
  \/ Does("mirror", NextMirror) \/ Does("copilot", NextCopilot) \/ Does("scan", NextScan)
  \/ Does("retention", NextRetention) \/ Does("alerts", NextAlerts)
  \/ Does("signals", NextSignals) \/ Does("schema", NextSchema)

recordsVars ==
  <<part, mirrorVars, copilotVars, scanVars, retentionVars, alertVars, signalVars,
    schemaVars>>
SpecRecords == InitRecords /\ [][NextRecords]_recordsVars

\* The fairness of WorkflowScan and of Retention.
FairRecords ==
  /\ SpecRecords
  /\ WF_recordsVars(Does("scan", BeatScan))
  /\ WF_recordsVars(Does("scan", FullScanStep))
  /\ \A m \in Scans : WF_recordsVars(Does("scan", ScanStep(m)))
  /\ WF_recordsVars(Does("retention", EnforceStep))
-----------------------------------------------------------------------------
\* The types of the parts (rows and cursors, snapshots, findings and activity rows,
\* policies, alerts, audit events, rows under the CHECKs and keys of their revision).
RecordsTypeOK ==
  /\ part = "mirror" => MirrorTypeOK
  /\ part = "copilot" => CopilotTypeOK
  /\ part = "scan" => ScanTypeOK
  /\ part = "retention" => RetentionTypeOK
  /\ part = "alerts" => AlertsTypeOK
  /\ part = "signals" => SignalsTypeOK
  /\ part = "schema" => SchemaTypeOK

\* Alerts!FiguresAgree, AuditSignals!SignalsAgree: the figures and the lists that
\* health_signal_service.py derives from the same alerts, and from the same audit events,
\* agree with each other.
AnswersAgree ==
  /\ part = "alerts" => FiguresAgree
  /\ part = "signals" => SignalsAgree

\* Schema!SchemaIsDeclared, Schema!MigrationsRun: what alembic makes of the database is
\* what its revision and the application expect, and neither an upgrade nor a downgrade
\* gets stuck on rows of the release.
MigrationsAgree == part = "schema" => SchemaIsDeclared
MigrationsNeverStick == part = "schema" => MigrationsRun
=============================================================================
