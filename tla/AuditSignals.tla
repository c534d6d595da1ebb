---------------------------- MODULE AuditSignals ----------------------------
(***************************************************************************)
(* The signals that backend/app/services/health_signal_service.py reads    *)
(* out of the audit log: the lists of the organisation health pages, the   *)
(* Well-Architected findings, and the health score.                        *)
(*                                                                         *)
(* Each answer is a statement of its own over events, with its own window  *)
(* of time, its own notion of an actor, a repository or a state, and some  *)
(* with a second table to fall back on.  The properties relate what two    *)
(* answers say of the same thing.  LIMIT and order are left out.           *)
(***************************************************************************)
EXTENDS Integers, Sequences, FiniteSets, FiniteSetsExt

CONSTANTS
  Kinds,      \* bound: groups of rows that arrive in one behaviour
  Scope,      \* scoped_orgs
  Bots,       \* the actors with actor_is_bot
  H24, D7, D30, D60, D90, D180, D365, D730,  \* the windows of the statements
  LastTick,   \* bound: the clock
  MaxRows     \* bound: rows that arrive

ASSUME WindowsInOrder ==
  /\ {H24, D7, D30, D60, D90, D180, D365, D730} \subseteq Nat
  /\ H24 <= D7 /\ D7 <= D30 /\ D30 <= D60 /\ D60 <= D90 /\ D90 < D180
  /\ D180 < D365 /\ D365 < D730

ASSUME SignalsAssumption == LastTick \in Nat /\ MaxRows \in Nat /\ IsFiniteSet(Scope)

VARIABLES
  tick,   \* NOW()
  stored    \* what was stored, in order of created_at; `item` and `note` are from `data`

signalVars == <<tick, stored>>

\* Rows of the tables that the sync fills: outside collaborators, credentials, runners.
SyncedKinds == {"synced.outside", "synced.credential", "synced.runner"}

InitSignals == tick = 0 /\ stored = <<>>
RowArrives(k) ==
  /\ Len(stored) < MaxRows
  /\ \E group \in Kinds : k \in group /\ \A i \in DOMAIN stored : stored[i].kind \in group
  /\ stored' = Append(stored, [kind |-> k, at |-> tick]) /\ UNCHANGED tick
TickPasses == tick < LastTick /\ tick' = tick + 1 /\ UNCHANGED stored
NextSignals == (\E k \in UNION Kinds : RowArrives(k)) \/ TickPasses

SpecSignals == InitSignals /\ [][NextSignals]_signalVars
-----------------------------------------------------------------------------
Action(i) == stored[i].kind.action
Org(i) == stored[i].kind.org
Actor(i) == stored[i].kind.actor
Item(i) == stored[i].kind.item
Note(i) == stored[i].kind.note
Repo(i) == <<Org(i), stored[i].kind.repo>>
HasActor(S) == {i \in S : Actor(i) # ""}
HasRepo(S) == {i \in S : stored[i].kind.repo # ""}

Aged(i) == tick - stored[i].at
Within(S, window) == {i \in S : Aged(i) <= window}
Rows(table) == {i \in DOMAIN stored : Action(i) = table /\ Org(i) \in Scope}
Events == {i \in DOMAIN stored : Action(i) \notin SyncedKinds /\ Org(i) \in Scope}
On(actions) == {i \in Events : Action(i) \in actions}
OfOrg(S, o) == {i \in S : Org(i) = o}
N(S) == Cardinality(S)
ActorsOf(S) == {Actor(i) : i \in HasActor(S)}
ReposOf(S) == {Repo(i) : i \in HasRepo(S)}
SumOver(f) == MapThenSumSet(LAMBDA x : f[x], DOMAIN f)

\* DISTINCT ON (...) ORDER BY created_at DESC: the action of the last row.
LastAction(S) == IF S = {} THEN "none" ELSE Action(Max(S))
Bypasses ==
  {"secret_scanning.push_protection.bypass", "protected_branch.policy_override",
   "branch_protection_rule.policy_override"}
NewToken == {"personal_access_token.create"}
NeverExpires(i) == Note(i) \in {"never", "never, expired"}
Expired(i) == Note(i) \in {"expired", "never, expired"}
-----------------------------------------------------------------------------
\* Repositories, by their last event within two years.
IdleFor(S) == tick - Max({stored[i].at : i \in S})
SeenRepositories == ReposOf(Within(Events, D730))
RepoIdle(r) == IdleFor({i \in Events : Repo(i) = r})
\* (Fault: the day of the threshold is left out.)
StaleRepositoriesStrict(days) == {r \in SeenRepositories : RepoIdle(r) > days}
StaleRepositories(days) == {r \in SeenRepositories : RepoIdle(r) >= days}
ArchivedRepositories ==
  ReposOf(On({"repo.archived"})) \ ReposOf(On({"repo.destroy", "repo.delete"}))
\* Forks without a push: the list joins the push on the name of the repository alone.
Forks == {i \in HasRepo(On({"repo.fork"})) : Aged(i) \in D30..D180}
Pushes == HasRepo(Within(On({"git.push", "push"}), D180))
AbandonedForks == {f \in Forks : \A p \in Pushes : Repo(p)[2] # Repo(f)[2]}
\* get_maintenance_signals
FirstCreated(r) == Min({stored[i].at : i \in {j \in On({"repo.create"}) : Repo(j) = r}})
EmptyRepositories ==
  {r \in ReposOf(On({"repo.create"})) :
     ~ \E i \in On({"git.push", "push", "git.commit", "commit.create",
                    "pull_request.merge"}) :
         Repo(i) = r /\ stored[i].at \in FirstCreated(r) + 1..FirstCreated(r) + D30}
ArchiveCandidates ==
  LET recent == HasRepo(Within(Events, D180)) IN
  {r \in ReposOf(recent) \ ReposOf(On({"repo.archived"})) :
     N({i \in recent : Repo(i) = r}) < 5}
Maintenance ==
  [stale |-> StaleRepositories(D180), empty |-> EmptyRepositories,
   candidates |-> ArchiveCandidates]

\* Actors without activity: those seen in a year, less those seen in `days`.
SeenActors == ActorsOf(Within(Events, D365))
GhostMembers(days) == SeenActors \ ActorsOf(Within(Events, days))
ActorIdle(a) == IdleFor({i \in Within(Events, D365) : Actor(i) = a})
HasSeat(a) ==
  a \in ActorsOf(Within(On({"copilot.cfb_seat_added",
                            "copilot.cfb_seat_assignment_created"}), D365))
DormantUsers(days) ==
  [a \in GhostMembers(days) |->
     [idle |-> ActorIdle(a), seat |-> IF HasSeat(a) THEN "github+copilot" ELSE "github"]]

\* Pull requests: an opening of a number that was never closed, before or after.
Openings == Within(On({"pull_request.opened", "pull_request.reopened"}), D365)
Closings == Within(On({"pull_request.closed", "pull_request.merged"}), D365)
NeverClosed ==
  {o \in Openings : \A c \in Closings : Repo(c) # Repo(o) \/ Item(c) # Item(o)}
StalePrs(days) == {o \in NeverClosed : Aged(o) > days}
-----------------------------------------------------------------------------
\* Tokens: three statements over the creations, two of which fall back on the credentials
\* that the sync has stored.
NewTokens == Within(On(NewToken), D365)
PatCounts ==
  [no_expiry |-> N({i \in NewTokens : NeverExpires(i)}),
   expired |-> N({i \in NewTokens : Expired(i)}),
   stale |-> N({i \in NewTokens : NeverExpires(i) /\ Aged(i) >= D90})]
Credentials == Rows("synced.credential")
PatSummary ==
  IF \E f \in DOMAIN PatCounts : PatCounts[f] # 0 THEN PatCounts
  ELSE [no_expiry |-> N(Credentials), expired |-> 0,
        stale |-> N({i \in Credentials : Aged(i) >= D90})]
TokenSignal(i) ==
  CASE Expired(i) -> "expired"
    [] ~Expired(i) /\ NeverExpires(i) /\ Aged(i) >= D90 -> "stale_90d"
    [] ~Expired(i) /\ NeverExpires(i) /\ Aged(i) < D90 -> "no_expiry"
    [] OTHER -> "ok"
ListedTokens == {i \in NewTokens : NeverExpires(i) \/ Expired(i) \/ Aged(i) >= D90}
TokenAges ==
  IF ListedTokens # {} THEN [i \in ListedTokens |-> TokenSignal(i)]
  ELSE [i \in Credentials |-> IF Aged(i) >= D90 THEN "stale_90d" ELSE "no_expiry"]
DormantTokens ==
  {c \in On(NewToken) :
     /\ Aged(c) \in D30..D180
     /\ ~ \E u \in On({"personal_access_token.access"}) :
            Item(u) = Item(c) /\ stored[u].at \in stored[c].at..stored[c].at + D30}

\* Bypasses: the list leaves bots out, the summary and the score do not.
BypassEvents == HasActor(Within(On(Bypasses), D90))
Offender(a) ==
  LET mine == {i \in BypassEvents : Actor(i) = a}
      push == {i \in mine : Action(i) = "secret_scanning.push_protection.bypass"}
  IN [total |-> N(mine), push |-> N(push), branch |-> N(mine \ push),
      days |-> N({stored[i].at : i \in mine})]
BypassOffenders == [a \in ActorsOf(BypassEvents) \ Bots |-> Offender(a)]

\* get_api_abuse_signals names an output column in HAVING, which PostgreSQL refuses: it
\* answers nothing.  The score counts the first of its signals by itself.
ApiAbuse == "UndefinedColumn"
RateLimited ==
  {<<Actor(i), stored[i].at>> : i \in HasActor(Within(On({"rate_limit.exceeded"}), H24))}
-----------------------------------------------------------------------------
\* external_collaborators, as the ingestion of the events has left it: an addition to an
\* organisation inserts a row each time (its repo is NULL, and never conflicts), a removal
\* ends all active rows of the login, and any event of the login is its last.
Joined == {i \in On({"org.add_outside_collaborator"}) :
             ~ \E j \in On({"org.remove_outside_collaborator"}) :
                 j > i /\ Org(j) = Org(i) /\ Item(j) = Item(i)}
ActsAfter(i) == {j \in Events : j >= i /\ Org(j) = Org(i) /\ Actor(j) = Item(i)}
Elevated(i) == Note(i) \in {"admin", "maintain"}
Outside == Rows("synced.outside")
\* A row is dormant that has no last event, or an old one.
DormantRows == {i \in Joined : ActsAfter(i) = {} \/ IdleFor(ActsAfter(i)) > D60}

ExternalCollaborators == IF Joined # {} THEN Joined ELSE Outside
CollaboratorSummary ==
  IF Joined # {}
  THEN [total_active |-> N(Joined), elevated |-> N({i \in Joined : Elevated(i)}),
        dormant |-> N(DormantRows)]
  ELSE [total_active |-> N(Outside), elevated |-> 0, dormant |-> 0]
DormantCollaborators == IF DormantRows # {} THEN DormantRows ELSE Outside

\* get_health_summary has no table to fall back on.
HealthSummary ==
  [stale_repos |-> N(StaleRepositories(D90)), pat_no_expiry |-> PatCounts.no_expiry,
   pat_stale |-> PatCounts.stale, bypass_offenders |-> N(ActorsOf(BypassEvents)),
   ext_collab_total |-> N(Joined), ext_collab_elevated |-> N({i \in Joined : Elevated(i)})]
-----------------------------------------------------------------------------
\* The settings of an organisation, by its last event about each.
Streaming == {"audit_log_streaming.create", "audit_log_streaming.update",
              "audit_log_streaming.destroy"}
LastOn(actions, o) == LastAction(OfOrg(On(actions), o))
Sso(o) == LastOn({"org.enable_saml", "org.disable_saml"}, o)
SsoHealth ==
  [o \in Scope |->
     CASE Sso(o) = "none" -> "unknown" [] Sso(o) = "org.disable_saml" -> "disabled"
       [] OTHER -> "enabled"]
HasSetting(o) ==
  [sso |-> Sso(o) = "org.enable_saml",
   two_fa |-> LastOn({"org.require_two_factor_authentication",
                      "org.disable_two_factor_requirement"}, o)
                = "org.require_two_factor_authentication",
   streaming |-> LastOn(Streaming, o) \notin {"none", "audit_log_streaming.destroy"},
   ip_allowlist |-> OfOrg(On({"ip_allow_list.enable", "ip_allow_list.disable"}), o) # {},
   branch_protection |->
     OfOrg(On({"protected_branch.create", "repository_ruleset.create"}), o) # {}]
Settings == {"sso", "two_fa", "streaming", "ip_allowlist", "branch_protection"}
SettingsOn(o) == LET has == HasSetting(o) IN {s \in Settings : has[s]}
PlatformSecurity ==
  [o \in Scope |->
     LET on == SettingsOn(o) IN
     [on |-> on, compliance |-> (100 * N(on)) \div 5, recommendations |-> Settings \ on]]
AuditStreamStatus ==
  [o \in Scope |-> LastAction(OfOrg(Within(On(Streaming), D7), o))]

\* get_security_coverage: an event of a feature that is no disabling counts as enabling.
FeatureOf(action) ==
  CASE action \in {"secret_scanning.enable", "secret_scanning.disable",
                   "secret_scanning.push_protection.bypass"} -> "secret_scanning"
    [] action \in {"dependabot_alerts.enable", "dependabot_alerts.disable"} -> "dependabot"
    [] OTHER -> "none"
FeatureEvents == {i \in HasRepo(Within(Events, D90)) : FeatureOf(Action(i)) # "none"}
FeatureState(r, f) ==
  LET last == LastAction({i \in FeatureEvents : Repo(i) = r /\ FeatureOf(Action(i)) = f})
  IN IF last = "none" THEN "none"
     ELSE IF last \in {"secret_scanning.disable", "dependabot_alerts.disable"}
          THEN "disabled" ELSE "enabled"
SecurityCoverage(o) ==
  LET repos == ReposOf(OfOrg(FeatureEvents, o))
      In(f, s) == {r \in repos : FeatureState(r, f) = s}
  IN [total |-> N(repos), secret_scanning |-> N(In("secret_scanning", "enabled")),
      dependabot |-> N(In("dependabot", "enabled")),
      disabled |-> N(In("secret_scanning", "disabled") \cup In("dependabot", "disabled"))]

\* Counts of events of an organisation by action: privileges, applications, webhooks,
\* branch protection, Copilot seats.
Counted(o, window, actions) == [a \in actions |-> N(Within(OfOrg(On({a}), o), window))]
PrivilegeChanges(o) ==
  Counted(o, D30, {"org.member_to_admin", "org.integration_manager_added",
                   "organization_role.create", "organization_role.update",
                   "organization_role.destroy"})
VisibilityTrends(o) ==
  N({i \in Within(OfOrg(On({"repo.access"}), o), D90) : Note(i) = "private to public"})
AppGovernance(o) ==
  Counted(o, D90, {"integration_installation.create", "integration_installation.delete",
                   "org.oauth_app_access_approved", "org.oauth_app_access_denied",
                   "integration.revoke_all_tokens"})
WebhookActivity(o) == Counted(o, D30, {"hook.create", "hook.destroy", "hook.events_changed"})
BranchProtectionHealth(o) ==
  Counted(o, D30, {"protected_branch.destroy", "required_status_check.destroy",
                   "protected_branch.policy_override", "protected_branch.create",
                   "protected_branch.update"})
CopilotSeatHealth(o) ==
  Counted(o, D90, {"copilot.cfb_seat_added", "copilot.cfb_seat_cancelled",
                   "copilot.cfb_seat_assignment_created",
                   "copilot.cfb_seat_assignment_unassigned"})
\* A codespace counts by its last event: created, and nothing since.
ActiveCodespaces(o) ==
  LET mine == Within(OfOrg(On({"codespaces.create", "codespaces.suspend_environment",
                               "codespaces.destroy"}), o), D30)
      Of(name, a) == {i \in mine : Item(i) = name /\ Actor(i) = a}
  IN {<<Item(i), Actor(i)>> :
        i \in {j \in mine : LastAction(Of(Item(j), Actor(j))) = "codespaces.create"}}
RunnerFleet ==
  IF Rows("synced.runner") # {} THEN Rows("synced.runner")
  ELSE Within(On({"org.self_hosted_runner_updated", "org.add_self_hosted_runner"}), D7)
\* The second source of get_unhealthy_webhooks; the first is the table of webhooks.
UnhealthyWebhooks ==
  Within(On({"hook.create", "hook.destroy", "integration.destroy",
             "oauth_application.destroy", "integration_installation.destroy"}), D90)
SkippedWorkflows ==
  Within(On({"workflows.disable_workflow", "workflows.delete_workflow"}), D90)

\* Runs of a workflow: the conclusion is the suffix of the action, or in the data.
Runs == Within(On({"workflow_run.success", "workflow_run.failure",
                   "workflows.completed_workflow_run"}), D30)
Failed(i) ==
  \/ Action(i) = "workflow_run.failure"
  \/ (Action(i) = "workflows.completed_workflow_run" /\ Note(i) = "failure")
Workflow(i) == <<Repo(i), Item(i)>>
WorkflowHealth ==
  LET Of(w) == {i \in Runs : Workflow(i) = w} IN
  [w \in {Workflow(i) : i \in {j \in Runs : N(Of(Workflow(j))) >= 3}} |->
     [runs |-> N(Of(w)), failures |-> N({i \in Of(w) : Failed(i)})]]
SecretUsage ==
  {i \in Within(On({"workflows.prepared_workflow_job"}), D7) : Note(i) = "many secrets"}
-----------------------------------------------------------------------------
\* get_waf_findings.  A finding is about the presence of events, about their absence, about
\* a balance of bad and good ones, or about a share; some count as evaluated only when
\* there was anything to count.
Recent(window, actions) == N(Within(On(actions), window))
Finding(fails, status, evaluated, n) ==
  [status |-> IF fails THEN status ELSE "pass", evaluated |-> evaluated, count |-> n]
Present(n) == Finding(n = 0, "warning", TRUE, n)
Absent(n, status) == Finding(n > 0, status, TRUE, n)
Tally(fails, status, n) == Finding(fails, status, n > 0, n)

WafStreaming == Present(Recent(D30, Streaming))
WafSecretScanning ==
  LET off == Recent(D90, {"repository.disable_secret_scanning"}) IN
  Tally(off > 0, "fail", off + Recent(D90, {"repository.enable_secret_scanning"}))
WafBranchProtection ==
  LET off == Recent(D90, {"protected_branch.destroy", "protected_branch.policy_override"})
      on == Recent(D90, {"protected_branch.create"})
  IN Tally(off > on, "fail", off + on)
\* Disabling SAML is counted, but the WHERE lets no such event through; what is counted
\* are the other events of SAML, and the end of the second factor.
WafSso ==
  LET events == Recent(D90, {"org.saml_configured", "org.sso_response"})
      off == Recent(D90, {"org.disable_two_factor_requirement"})
  IN [status |-> IF off > 0 THEN "fail" ELSE IF events > 0 THEN "pass" ELSE "warning",
      evaluated |-> events > 0 \/ off > 0, count |-> events]
WafIpAllowlist == Present(Recent(D90, {"ip_allow_list.enable", "ip_allow_list.disable"}))
WafDependabot ==
  LET off == Recent(D90, {"dependabot_alerts.disable"}) IN
  Tally(off > 0, "warning", off + Recent(D90, {"dependabot_alerts.enable"}))
WafCodeScanning ==
  Present(Recent(D90, {"code_scanning.alert_created", "code_scanning.alert_fixed"}))
WafWebhooks ==
  LET off == Recent(D90, {"hook.destroy"}) on == Recent(D90, {"hook.create"}) IN
  Tally(off > on, "warning", off + on)
WafPushProtection ==
  LET n == Recent(D90, {"secret_scanning.push_protection.bypass"}) IN Tally(n > 0, "fail", n)
\* A push to main or master, and more than five of them.
WafDirectPush ==
  LET n == N({i \in Within(On({"git.push"}), D90) : Note(i) = "default branch"})
  IN Tally(n > 5, "warning", n)
WafWorkflowPermissions ==
  Absent(Recent(D90, {"business.set_default_workflow_permissions",
                      "repo.set_default_workflow_permissions",
                      "org.set_default_workflow_permissions"}), "warning")
WafSelfApprove ==
  Absent(Recent(D90, {"business.set_workflow_permission_can_approve_pr",
                      "repo.set_workflow_permission_can_approve_pr",
                      "org.set_workflow_permission_can_approve_pr"}), "warning")
WafMergeRatio ==
  LET merged == Recent(D90, {"pull_request.merge"})
      created == Recent(D90, {"pull_request.create"})
  IN Tally(merged > created /\ created > 0, "warning", merged + created)
WafSecretsCreated ==
  Finding(FALSE, "warning", TRUE, Recent(D90, {"repo.create_actions_secret"}))
WafAlertsWithdrawn ==
  Absent(Recent(D90, {"repository_vulnerability_alert.withdraw"}), "warning")
WafDeployKeys == Absent(Recent(D90, {"deploy_key_policy.disabled"}), "warning")
WafEnvironments ==
  Finding(FALSE, "warning", TRUE, Recent(D90, {"environment.add_protection_rule"}))
WafFailureRate ==
  LET completed == Within(On({"workflows.completed_workflow_run"}), D30)
      failures == {i \in completed : Failed(i)}
  IN Tally(5 * N(failures) > N(completed), "warning", N(completed))
WafRerunRate ==
  LET reruns == Recent(D30, {"workflows.rerun_workflow_run"})
      created == Recent(D30, {"workflows.created_workflow_run"})
  IN Tally(created > 0 /\ 100 * reruns > 15 * created, "warning", reruns + created)
\* An actor who cloned more than three times the average: of at least four actors.
Cloners == [a \in {Actor(i) : i \in Within(On({"git.clone"}), D30)} |->
              N({i \in Within(On({"git.clone"}), D30) : Actor(i) = a})]
WafClones ==
  LET total == N(Within(On({"git.clone"}), D30)) cloners == N(DOMAIN Cloners) IN
  Tally(\E a \in DOMAIN Cloners : Cloners[a] * cloners > 3 * total, "warning", cloners)
WafAdmins == Absent(Recent(D90, {"business.add_admin"}), "fail")
-----------------------------------------------------------------------------
\* get_health_score counts every signal again, in one statement; without the alerts of
\* secret scanning, which are of another table (Alerts).
WithoutSso == {o \in Scope : ~HasSetting(o).sso}
Missing(o) == Settings \ (SettingsOn(o) \cup {"sso"})
IdleRepositories(days) == {r \in SeenRepositories : RepoIdle(r) \in days}
IdleActors(days) == {a \in SeenActors : ActorIdle(a) \in days}
StaleOpenings == {o \in NeverClosed : Aged(o) >= D30}
\* The score joins the push on organisation and repository.
ForksWithoutPush == {f \in Forks : \A p \in Pushes : Repo(p) # Repo(f)}

CriticalCount == N(WithoutSso) + N(RateLimited)
HighCount ==
  N(IdleRepositories(D180..LastTick)) + N(ActorsOf(BypassEvents))
    + N(IdleActors(D180..LastTick)) + N({i \in On(NewToken) : NeverExpires(i)})
MediumCount ==
  N(IdleRepositories(D90..D180 - 1)) + N(IdleActors(D90..D180 - 1))
    + SumOver([o \in Scope |-> N(Missing(o))])
LowCount == N(StaleOpenings) + N(ArchiveCandidates) + N(ForksWithoutPush)
HealthScore ==
  Max({0, Min({100, 100 - 10 * CriticalCount - 5 * HighCount - 2 * MediumCount - LowCount})})
Grade ==
  LET score == HealthScore IN
  CASE score >= 90 -> "A" [] score \in 80..89 -> "B" [] score \in 70..79 -> "C"
    [] score \in 60..69 -> "D" [] OTHER -> "F"
-----------------------------------------------------------------------------
SignalsTypeOK ==
  /\ tick \in 0..LastTick /\ Len(stored) <= MaxRows
  /\ \A i \in DOMAIN stored : stored[i].at \in 0..tick
  /\ \A i, j \in DOMAIN stored : i < j => stored[i].at <= stored[j].at

\* The score counts what the pages list: its idle repositories are those of the stale list
\* and of the summary, its idle actors those of the dormant list (but for one whose last
\* event is of that very instant), its missing settings those that platform security
\* recommends, its offenders those of the list and the bots.
ScoreAgrees ==
  /\ N(IdleRepositories(D180..LastTick)) + N(IdleRepositories(D90..D180 - 1))
       = HealthSummary.stale_repos
  /\ IdleRepositories(D180..LastTick) = Maintenance.stale
  /\ {a \in IdleActors(D90..LastTick) : ActorIdle(a) # D90} = DOMAIN DormantUsers(D90)
  /\ N(WithoutSso) + SumOver([o \in Scope |-> N(Missing(o))])
       = LET platform == PlatformSecurity IN
         SumOver([o \in Scope |-> N(platform[o].recommendations)])
  /\ DOMAIN BypassOffenders = ActorsOf(BypassEvents) \ Bots
  /\ AbandonedForks \subseteq ForksWithoutPush
  /\ StalePrs(D30) \subseteq StaleOpenings
  /\ HealthSummary.pat_no_expiry <= N({i \in On(NewToken) : NeverExpires(i)})
  /\ Grade = "A" => CriticalCount <= 1 /\ HighCount <= 2

\* What is told of one thing in two places is the same, as long as both take it from the
\* same table: tokens, collaborators, settings, bypasses, webhooks and failed runs.
ListsAgree ==
  /\ PatSummary = PatCounts =>
       /\ HealthSummary.pat_no_expiry = PatSummary.no_expiry
       /\ N({i \in ListedTokens : TokenSignal(i) = "expired"}) = PatSummary.expired
       /\ N({i \in ListedTokens : TokenSignal(i) \in {"stale_90d", "no_expiry"}})
            <= PatSummary.no_expiry
  /\ CollaboratorSummary.total_active = N(ExternalCollaborators)
  /\ CollaboratorSummary.dormant # 0 =>
       CollaboratorSummary.dormant = N(DormantCollaborators)
  /\ LET platform == PlatformSecurity IN
     \A o \in Scope : SsoHealth[o] = "enabled" <=> "sso" \in platform[o].on
  /\ WafPushProtection.status = "pass" =>
       LET list == BypassOffenders IN \A a \in DOMAIN list : list[a].push = 0
  /\ WafBranchProtection.status = "fail" =>
       Within(On({"protected_branch.destroy", "protected_branch.policy_override"}), D90) # {}
  /\ SumOver([o \in Scope |-> WebhookActivity(o)["hook.create"]]) <= WafWebhooks.count
  /\ LET health == WorkflowHealth IN SumOver([w \in DOMAIN health |-> health[w].failures])
       <= N({i \in Runs : Failed(i)})
  /\ WafClones.status = "warning" => WafClones.count > 3
  /\ \A o \in Scope : SecurityCoverage(o).secret_scanning <= SecurityCoverage(o).total
SignalsAgree == ScoreAgrees /\ ListsAgree
=============================================================================
