------------------------------- MODULE Schema -------------------------------
(***************************************************************************)
(* The database under the alembic commands and the rows of its users.      *)
(*                                                                         *)
(* A step migrates one revision up or down; a command of several revisions *)
(* is a run of these steps in one transaction (env.py).  PostgreSQL        *)
(* refuses a statement whose outcome breaks a CHECK, a unique or a foreign *)
(* key, and then the command changes nothing.  Between commands the        *)
(* application stores rows; they are the ones a migration also touches or  *)
(* can trip over, and at most MaxWrites of them are made.                  *)
(***************************************************************************)
EXTENDS Models, FiniteSets, Functions, SequencesExt

CONSTANTS
  OwnSlugs,     \* slugs that users give to rules of theirs
  OwnLogics,    \* logic types of these rules
  OwnFeeds,     \* URLs of feeds that users add
  OwnRoles,     \* roles that users assign
  CustomRoles,  \* roles that users define
  OwnSources,   \* ingestion sources of stored events
  MaxWrites     \* bound: rows the application writes

ASSUME SchemaAssumption == MaxWrites \in Nat

VARIABLES
  revision,     \* alembic_version: the number of revisions applied
  schema,       \* tables, keys, foreign keys, CHECKs and other objects
  rows,         \* the rows that matter to a migration
  writes        \* rows written by the application

schemaVars == <<revision, schema, rows, writes>>
-----------------------------------------------------------------------------
NoSchema ==
  [tables |-> <<>>, keys |-> {}, refs |-> {}, objects |-> {}, allows |-> <<>>]

\* f, and g where f says nothing.
Atop(f, g) == [x \in DOMAIN f \cup DOMAIN g |-> IF x \in DOMAIN f THEN f[x] ELSE g[x]]

TableNames(ts) == {t.name : t \in ts}
KeysOf(ts) == UNION {{<<t.name, key>> : key \in t.keys} : t \in ts}
RefsOf(ts) == UNION {{<<t.name>> \o ref : ref \in t.refs} : t \in ts}
ColumnsOf(ts) ==
  [name \in TableNames(ts) |-> (CHOOSE t \in ts : t.name = name).columns]
AddedTo(table, r) == {add[2] : add \in {add \in r.adds : add[1] = table}}

\* The schema after upgrade(), and the one after downgrade().
Migrated(s, r) ==
  LET new == Range(r.creates)
      all == Atop(ColumnsOf(new), s.tables)
  IN [tables |-> [table \in DOMAIN all |-> all[table] \cup AddedTo(table, r)],
      keys |-> s.keys \cup KeysOf(new) \cup r.newKeys,
      refs |-> s.refs \cup RefsOf(new) \cup r.newRefs,
      objects |-> (s.objects \ r.gone) \cup r.objects,
      allows |-> Atop(r.allows, Restrict(s.allows, DOMAIN s.allows \ r.unchecked))]
Reverted(s, r) ==
  LET dropped == TableNames(Range(r.creates))
      left == DOMAIN s.tables \ dropped
      new == DOMAIN r.allows \ DOMAIN r.back
  IN [tables |-> [table \in left |-> s.tables[table] \ AddedTo(table, r)],
      keys |-> {key \in s.keys \ r.newKeys : key[1] \in left},
      refs |-> {ref \in s.refs \ r.newRefs : ref[1] \in left},
      objects |-> (s.objects \ r.objects) \cup r.gone,
      allows |-> Atop(r.back, Restrict(s.allows, DOMAIN s.allows \ new))]

\* The statements of upgrade() find what they name and nothing of what they create; a
\* table that a downgrade drops without CASCADE is referenced by no other.
Builds(s, r) ==
  /\ \A i \in DOMAIN r.creates :
       LET before == DOMAIN s.tables \cup {r.creates[j].name : j \in 1..i}
       IN /\ r.creates[i].name \notin DOMAIN s.tables
          /\ \A ref \in r.creates[i].refs : ref[2] \in before
  /\ LET tables == Migrated(s, r).tables
     IN /\ \A add \in r.adds :
             /\ add[1] \in DOMAIN tables
             /\ add[1] \in DOMAIN s.tables => add[2] \notin s.tables[add[1]]
        /\ \A key \in r.newKeys : key[2] \subseteq tables[key[1]]
        /\ \A ref \in r.newRefs : ref[2] \in tables[ref[1]] /\ ref[3] \in DOMAIN tables
Drops(s, r) ==
  LET left == Reverted(s, r) IN \A ref \in left.refs : ref[3] \in DOMAIN left.tables
-----------------------------------------------------------------------------
\* No rows.  A rule has its logic type, its text ("seeded", "renamed" by 0063 or "own")
\* and its source; a feed may be one of the defaults; `assigned` gives the role of an
\* assignment, `fired` and `executed` are the rules that have a detection and the
\* playbooks that have an execution, `sources` are those of the stored events.
NoRows ==
  [rules |-> <<>>, fired |-> {}, feeds |-> {}, playbooks |-> {}, executed |-> {},
   roles |-> {}, assigned |-> <<>>, sources |-> {}]

\* INSERT ... ON CONFLICT DO NOTHING, or DO UPDATE.
Merged(old, new, overwrites) == IF overwrites THEN Atop(new, old) ELSE Atop(old, new)

\* The rules after upgrade(): inserted under the source of the revision, and renamed.
SeededRules(d, r) ==
  LET slugs == {rule[1] : rule \in r.rules}
      logic == [slug \in slugs |-> (CHOOSE rule \in r.rules : rule[1] = slug)[2]]
      kept == [slug \in slugs |->
                 IF slug \in DOMAIN d.rules THEN d.rules[slug].source ELSE r.source]
      rules == Merged(d.rules,
                 [slug \in slugs |->
                    [logic |-> logic[slug], text |-> "seeded", source |-> kept[slug]]],
                 r.overwrites)
  IN [slug \in DOMAIN rules |->
        IF slug \in r.renames THEN [rules[slug] EXCEPT !.text = "renamed"] ELSE rules[slug]]

\* The feeds: those of the revision are defaults, also if they are there.
SeededFeeds(d, r) ==
  {feed \in d.feeds : feed.url \notin r.feeds}
  \cup {[id |-> feed.id, url |-> feed.url, default |-> TRUE] :
          feed \in {f \in d.feeds : f.url \in r.feeds}}
  \cup {[id |-> 0, url |-> url, default |-> TRUE] :
          url \in r.feeds \ {feed.url : feed \in d.feeds}}

\* The rows after upgrade(); the holders of the old roles are moved.
Heir(role, r) == IF role \in DOMAIN r.heirOf THEN r.heirOf[role] ELSE role
Seeded(d, r) ==
  [d EXCEPT !.rules = SeededRules(d, r), !.feeds = SeededFeeds(d, r),
            !.playbooks = @ \cup r.playbooks,
            !.roles = (@ \cup r.roles) \ DOMAIN r.heirOf,
            !.assigned = [n \in DOMAIN @ |-> Heir(@[n], r)]]

\* The rows after downgrade(): what upgrade() inserted is deleted, by slug, by URL among
\* the default feeds, by source and category in 0071 (which an edit changes: RuleCreate
\* admits neither of the two); the rows of a dropped table go with it.
Unseeded(d, r) ==
  LET dropped == TableNames(Range(r.creates))
      Rows(table, some) == IF table \in dropped THEN {} ELSE some
      gone == IF r.source = "system"
              THEN {slug \in DOMAIN d.rules :
                      d.rules[slug].source = "system" /\ d.rules[slug].text # "own"}
              ELSE {rule[1] : rule \in r.rules}
      left == Rows("rule_definitions", DOMAIN d.rules \ gone)
      old == DOMAIN r.heirOf
      playbooks == Rows("playbook_templates", d.playbooks \ r.playbooks)
      Holder(role) == IF \E o \in old : r.heirOf[o] = role
                      THEN CHOOSE o \in old : r.heirOf[o] = role ELSE role
  IN [rules |-> [slug \in left |->
                   IF slug \in r.renames THEN [d.rules[slug] EXCEPT !.text = "seeded"]
                   ELSE d.rules[slug]],
      fired |-> Rows("detections", d.fired),
      feeds |-> Rows("threat_intel_feeds",
                  {feed \in d.feeds : ~ (feed.url \in r.feeds /\ feed.default)}),
      playbooks |-> playbooks,
      executed |-> d.executed \cap playbooks,          \* ON DELETE CASCADE
      roles |-> Rows("rbac_roles", (d.roles \cup old) \ r.roles),
      assigned |-> [n \in Rows("user_role_assignments", DOMAIN d.assigned) |->
                      Holder(d.assigned[n])],
      sources |-> Rows("events", d.sources)]

\* The CHECKs, the unique key of the feeds and the foreign keys of detections and of
\* role assignments, which restrict.
Admits(s, d) ==
  LET Fit(check, values) == check \in DOMAIN s.allows => values \subseteq s.allows[check]
  IN /\ Fit("logic_type", {d.rules[slug].logic : slug \in DOMAIN d.rules})
     /\ Fit("ingestion_source", d.sources)
     /\ Fit("role_name", d.roles)
     /\ <<"threat_intel_feeds", {"url"}>> \in s.keys =>
          \A f, g \in d.feeds : f.url = g.url => f = g
     /\ d.fired \subseteq DOMAIN d.rules
     /\ Range(d.assigned) \subseteq d.roles

Following == Revisions[revision + 1]
CanUpgrade(d) ==
  LET r == Following
  IN Builds(schema, r) /\ Admits(Migrated(schema, r), Seeded(d, r))
CanDowngrade(d) ==
  LET r == Revisions[revision]
  IN Drops(schema, r) /\ Admits(Reverted(schema, r), Unseeded(d, r))
-----------------------------------------------------------------------------
\* The schemas of a database that is only ever upgraded: the n-th after n revisions.
FreshSchemas ==
  FoldLeft(LAMBDA schemas, r : Append(schemas, Migrated(Last(schemas), r)),
           <<NoSchema>>, Revisions)

\* An empty database.  A release is installed by `alembic upgrade head`, which is as
\* many upgrades as it has revisions before the application first writes.
InitSchema == revision = 0 /\ schema = NoSchema /\ rows = NoRows /\ writes = 0

\* alembic upgrade, of one revision.
Upgrade ==
  /\ revision < HeadRevision /\ CanUpgrade(rows)
  /\ revision' = revision + 1
  /\ schema' = Migrated(schema, Following)
  /\ rows' = Seeded(rows, Following)
  /\ UNCHANGED writes

\* alembic downgrade, of one revision.
Downgrade ==
  /\ revision > 0 /\ CanDowngrade(rows)
  /\ revision' = revision - 1
  /\ schema' = Reverted(schema, Revisions[revision])
  /\ rows' = Unseeded(rows, Revisions[revision])
  /\ UNCHANGED writes

\* A row of the application, which PostgreSQL admits.
Write(table, d) ==
  /\ writes < MaxWrites /\ table \in DOMAIN schema.tables
  /\ Admits(schema, d) /\ rows' = d /\ writes' = writes + 1
  /\ UNCHANGED <<revision, schema>>

Own(logic) == [logic |-> logic, text |-> "own", source |-> "manual"]

\* create_rule refuses a slug that is taken.
OwnRule == \E slug \in OwnSlugs \ DOMAIN rows.rules, logic \in OwnLogics :
  Write("rule_definitions", [rows EXCEPT !.rules = Atop([s \in {slug} |-> Own(logic)], @)])

\* update_rule may change the text and the logic of any rule.
EditRule == \E slug \in OwnSlugs \cap DOMAIN rows.rules, logic \in OwnLogics :
  Write("rule_definitions",
    [rows EXCEPT !.rules =
       [@ EXCEPT ![slug] = [Own(logic) EXCEPT !.source = rows.rules[slug].source]]])

\* A rule, one of a user or of the release, has a detection.
RuleFires == \E slug \in OwnSlugs \cap DOMAIN rows.rules :
  Write("detections", [rows EXCEPT !.fired = @ \cup {slug}])

AddFeed == \E url \in OwnFeeds :
  Write("threat_intel_feeds",
    [rows EXCEPT !.feeds = @ \cup {[id |-> writes + 1, url |-> url, default |-> FALSE]}])

Assign == \E role \in OwnRoles \cap rows.roles :
  Write("user_role_assignments",
    [rows EXCEPT !.assigned = Atop([n \in {writes + 1} |-> role], @)])

CustomRole == \E role \in CustomRoles \ rows.roles :
  Write("rbac_roles", [rows EXCEPT !.roles = @ \cup {role}])

Execute ==
  /\ rows.playbooks # {}
  /\ Write("playbook_executions",
       [rows EXCEPT !.executed = @ \cup {CHOOSE slug \in rows.playbooks : TRUE}])

StoreEvent == \E source \in OwnSources :
  Write("events", [rows EXCEPT !.sources = @ \cup {source}])

NextSchema ==
  \/ Upgrade \/ Downgrade
  \/ OwnRule \/ EditRule \/ RuleFires \/ AddFeed
  \/ Assign \/ CustomRole \/ Execute \/ StoreEvent

SpecSchema == InitSchema /\ [][NextSchema]_schemaVars
-----------------------------------------------------------------------------
\* What the application asks of the schema at the head.
\*
\* The values that requests (schemas/detection.py, integration.py) and writers let
\* through to a column with a CHECK.
Requests ==
  [severity |-> SeverityNames, confidence |-> {"high", "medium", "low"},
   logic_type |-> Logic0020, rule_status |-> {"draft", "active", "deprecated"},
   detection_status |-> {"open", "investigating", "resolved", "false_positive"},
   ticketing_provider |-> {"jira", "github_issues"},
   channel_type |-> {"slack", "email", "webhook", "pagerduty", "teams"},
   idp_provider |-> {"okta", "entra", "google_workspace", "unknown"},
   scope_type |-> {"global", "org", "repo"}, source_type |-> {"hec"},
   employment_status |-> {"active", "inactive"},
   ingestion_source |-> SyncSources \cup {"hec", "webhook"},
   outcome |-> {"success", "denied", "error"}]

\* Those of them that the CHECKs of the first revision refuse.
Refused ==
  [channel_type |-> {"webhook", "pagerduty", "teams"}, source_type |-> {"hec"},
   idp_provider |-> {"unknown"}]

\* ON CONFLICT needs a unique key of just these columns.
AlertKey == {"org_slug", "repo_full_name", "alert_number"}
MemberUpserts ==
  {<<"org_members", {"org", "github_login"}>>, <<"repositories", {"org", "repo_name"}>>,
   <<"org_teams", {"org", "team_slug"}>>,
   <<"org_team_members", {"org", "team_slug", "github_login"}>>}
EnterpriseUpserts ==
  {<<"repo_branch_protections", {"org", "repo_name", "branch"}>>,
   <<"github_app_installations", {"app_id", "installation_id"}>>,
   <<"enterprise_orgs", {"enterprise_slug", "org_login"}>>,
   <<"enterprise_members", {"enterprise_slug", "github_login"}>>}
SummaryUpserts ==
  {<<"org_outside_collaborators", {"enterprise_slug", "org", "login"}>>,
   <<"org_secret_scanning_alert_summaries", {"enterprise_slug", "org"}>>,
   <<"org_dependabot_alert_summaries", {"enterprise_slug", "org"}>>}
UsageUpserts ==
  {<<"enterprise_license_consumption", {"enterprise_slug"}>>,
   <<"ghas_active_committers", {"org_slug"}>>,
   <<"org_code_scanning_alert_summaries", {"enterprise_slug", "org"}>>,
   <<"org_actions_workflow_summaries", {"enterprise_slug", "org"}>>}
SecretAlertUpserts == {<<"secret_scanning_alerts", AlertKey>>}
CodeAlertUpserts == {<<"code_scanning_alerts", AlertKey>>, <<"dependabot_alerts", AlertKey>>}
AccessUpserts ==
  {<<"org_team_repos", {"org", "team_slug", "repo_name"}>>,
   <<"repo_collaborators", {"org", "repo_name", "github_login"}>>,
   <<"org_credential_authorizations", {"org", "credential_id"}>>,
   <<"org_webhooks", {"org", "hook_id"}>>}
SettingUpserts ==
  {<<"repo_webhooks", {"org", "repo_name", "hook_id"}>>, <<"org_actions_permissions", {"org"}>>,
   <<"org_self_hosted_runners", {"org", "runner_id"}>>,
   <<"repo_deploy_keys", {"org", "repo_name", "key_id"}>>}
ConfigUpserts == {<<"github_app_configs", {"app_id", "installation_id"}>>}
CursorUpserts == {<<"enterprise_sync_entity_cursors", {"run_id", "entity_type", "org"}>>}
CollaboratorUpserts == {<<"external_collaborators", {"org", "repo", "github_login"}>>}
BaselineUpserts == {<<"behavioral_baselines", {"baseline_type", "scope_key", "metric_name"}>>}
IndicatorUpserts == {<<"threat_intel_indicators", {"indicator_type", "value"}>>}
CampaignUpserts == {<<"threat_intel_campaigns", {"name"}>>}
PersonaUpserts == {<<"user_classifications", {"user_login", "org"}>>}
TimelineUpserts == {<<"delivery_timelines", {"org", "repo", "pr_number"}>>}
FactUpserts ==
  {<<"utilization_facts", {"org_slug", "actor_login", "feature_area", "metric_date"}>>}
CopilotUpserts ==
  {<<"copilot_daily_metrics",
     {"date", "org_slug", "metric_type", "language", "editor", "model"}>>,
   <<"copilot_seat_snapshots", {"snapshot_date", "org_slug", "github_login"}>>,
   <<"copilot_usage_reports", {"report_date", "org_slug", "github_login"}>>}
PackageUpserts == {<<"packages", {"org", "name"}>>}
FindingUpserts == {<<"workflow_findings", {"repo", "workflow_path", "rule_id"}>>}
Upserts ==
  UNION {MemberUpserts, EnterpriseUpserts, SummaryUpserts, UsageUpserts,
         SecretAlertUpserts, CodeAlertUpserts, AccessUpserts, SettingUpserts,
         ConfigUpserts, CursorUpserts, CollaboratorUpserts, BaselineUpserts,
         IndicatorUpserts, CampaignUpserts, PersonaUpserts, TimelineUpserts,
         FactUpserts, CopilotUpserts, PackageUpserts, FindingUpserts}
-----------------------------------------------------------------------------
SchemaTypeOK ==
  /\ revision \in 0..HeadRevision /\ writes \in 0..MaxWrites
  /\ rows.executed \subseteq rows.playbooks /\ Admits(schema, rows)

\* The tables that the application is written against are those of the head: the models
\* declare each of them with exactly its columns and no key or foreign key that it lacks
\* (app/models), every ON CONFLICT names a unique key, and the CHECKs admit what requests
\* let through, but for the values in Refused.
Declared(s) ==
  /\ ColumnsOf(AllModels) = s.tables
  /\ KeysOf(AllModels) \subseteq s.keys /\ Upserts \subseteq s.keys
  /\ RefsOf(AllModels) \subseteq s.refs
  /\ \A check \in DOMAIN Requests \cap DOMAIN s.allows :
       Requests[check] \ s.allows[check]
         = IF check \in DOMAIN Refused THEN Refused[check] ELSE {}

\* However often revisions are applied and taken back, the database has the schema of a
\* fresh one at the same revision (what each downgrade() undoes), except for the CHECK
\* that 0012's leaves behind; and at the head that is the one the application declares.
SchemaIsDeclared ==
  LET fresh == FreshSchemas[revision + 1]
      wider == Atop([logic_type |-> R0012.back.logic_type], fresh.allows)
  IN /\ \/ schema = fresh
        \/ revision \in 1..11 /\ schema = [fresh EXCEPT !.allows = wider]
     /\ revision = HeadRevision => Declared(schema)

\* The rows of the release alone.
ReleaseRows ==
  LET own == {slug \in DOMAIN rows.rules : rows.rules[slug].text = "own"}
  IN [rows EXCEPT !.rules = Restrict(@, DOMAIN @ \ own), !.fired = {},
        !.feeds = {feed \in @ : feed.id = 0}, !.executed = {},
        !.roles = @ \ CustomRoles, !.assigned = <<>>, !.sources = {}]

\* What the next migration up, and the one down, names is there.
SchemaFits ==
  /\ revision < HeadRevision => Builds(schema, Following)
  /\ revision > 0 => Drops(schema, Revisions[revision])

\* No row of a user keeps an upgrade from running, except two feeds with one URL before
\* 0056 makes the URL unique; and only rows of users keep a downgrade from running.
RowsAdmitted ==
  /\ (revision < HeadRevision /\ Builds(schema, Following)) =>
       \/ Admits(Migrated(schema, Following), Seeded(rows, Following))
       \/ revision = 55 /\ \E f, g \in rows.feeds : f # g /\ f.url = g.url
  /\ revision > 0 =>
       Admits(Reverted(schema, Revisions[revision]), Unseeded(ReleaseRows, Revisions[revision]))

\* A migration is kept from running by nothing else (docs/runbooks/backup-restore.md falls
\* back on the downgrade).
MigrationsRun == SchemaFits /\ RowsAdmitted

\* The rules that a revision overwrites or renames by slug, whoever wrote them.
TakenOver(n) ==
  CASE n = 43 -> {rule[1] : rule \in Ghas0043} [] n = 55 -> {rule[1] : rule \in Projects0055}
    [] n = 61 -> {rule[1] : rule \in Queues0061} [] n = 63 -> {s[1] : s \in Posture0021}
    [] OTHER -> {}

\* An upgrade loses no row of a user: rules keep what the user wrote unless the revision
\* is one of TakenOver, assignments keep a role that exists, and feeds, detections,
\* executions and events stay (upgrade() of every revision).
UpgradeKeepsRows ==
  [][revision' > revision =>
       /\ \A slug \in DOMAIN rows.rules :
            rows.rules[slug].text = "own" =>
              \/ rows'.rules[slug] = rows.rules[slug]
              \/ slug \in TakenOver(revision')
       /\ DOMAIN rows'.assigned = DOMAIN rows.assigned
       /\ {feed.id : feed \in rows.feeds} \subseteq {feed.id : feed \in rows'.feeds}
       /\ rows'.fired = rows.fired /\ rows'.executed = rows.executed
       /\ rows'.sources = rows.sources]_schemaVars
=============================================================================
