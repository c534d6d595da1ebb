------------------------------- MODULE Mirror -------------------------------
(***************************************************************************)
(* What one sync_entity task leaves in PostgreSQL                          *)
(* (backend/app/workers/github_sync_worker.py, _sync_entity_async,         *)
(* _fetch_page and the _upsert_* functions).  SyncRun models when tasks    *)
(* run and what verdict the run gets; here one task of one organisation is *)
(* followed page by page while GitHub changes, over several runs: a manual *)
(* run fetches everything, a scheduled one what changed since the last     *)
(* completed run.                                                          *)
(*                                                                         *)
(* The branches of _fetch_page differ in a few facets only, and each is a  *)
(* record of them:                                                         *)
(*   over    what it walks through: the organisation, its teams, its repos *)
(*   batch   what one call returns: one "request"; the pages up to the end *)
(*           of a "scope" with items; those up to a scope with "more"      *)
(*           pages; "all" of them                                          *)
(*   denied  what it makes of a 403: "end" of the entity, "raise", "skip"  *)
(*           the scope, "advance" past it with an empty batch              *)
(*   since   what it makes of the cutoff: "ignored"; it stops at the first *)
(*           object "updated" or "created" before it; or asks GitHub for   *)
(*           those created after it ("query")                              *)
(* Objects are model values with the time of their creation and of their   *)
(* last change.                                                            *)
(***************************************************************************)
EXTENDS Integers, Sequences, FiniteSets, FiniteSetsExt

CONSTANTS
  Entities,    \* the entity types followed
  Objects,     \* members, repositories, events: what the entity type lists
  ScopeOrder,  \* the teams, or the repositories, in the order they are first read
  Private,     \* those that GitHub may keep from the token
  ScopeOf,     \* object -> its scope
  Rank,        \* object -> its place in the default order of a listing
  Old,         \* objects created more than 90 days ago
  Bare,        \* listed, but not kept: repositories without protection, and the
               \* pull requests that GitHub lists among the issues
  PageSize,
  MaxClock,    \* bound: changes on GitHub and completed runs
  MirrorFaults \* bound: calls that raise or are refused, processes lost

VARIABLES
  entity,      \* the entity type
  here, born, touched, \* GitHub: objects, when they were created and last changed
  denied,      \* scopes the token may not read
  table,       \* object -> the version mirrored, or Never
  listing,     \* the order in which a SELECT returns the repositories
  saved,       \* the cursor row of the run: where a new attempt resumes, or NoRow
  finished,    \* completed_at of the last completed run, or Never
  step, since, cursor, batch, next, \* the task
  any,         \* items_synced > 0
  fresh,       \* history: objects created or changed since the run began
  disturbed,   \* history: one has left, or the repositories changed places
  refused,     \* history: a request was refused
  cutShort,    \* history: an empty batch ended it although there was a next cursor
  clock, mirrorFaults

githubVars == <<here, born, touched, denied>>
rowVars == <<table, listing, saved, finished>>
taskVars == <<step, since, cursor, batch, next, any>>
seenVars == <<fresh, disturbed, refused, cutShort>>
mirrorVars == <<entity, githubVars, rowVars, taskVars, seenVars, clock, mirrorFaults>>

Never == -1
LongAgo == 0  \* more than 90 days
First == [over |-> <<>>, i |-> 1, page |-> 1]
End == [over |-> <<>>, i |-> 0, page |-> 0]
NoRow == [cursor |-> End, any |-> FALSE]

-----------------------------------------------------------------------------
(* The branches of _fetch_page *)

SimpleFetch == [over |-> "org", batch |-> "request", denied |-> "end", since |-> "ignored"]
RepositoriesFetch == [SimpleFetch EXCEPT !.since = "updated"]
TeamMembersFetch == [SimpleFetch EXCEPT !.over = "teams", !.denied = "raise"]
TeamReposFetch == [TeamMembersFetch EXCEPT !.denied = "advance"]
BranchProtectionsFetch == [SimpleFetch EXCEPT !.denied = "raise", !.since = "updated"]
InstallationsFetch == [SimpleFetch EXCEPT !.denied = "raise"]
AuditLogFetch == [SimpleFetch EXCEPT !.since = "query"]

RepoCommitsFetch == [over |-> "repos", batch |-> "more", denied |-> "skip", since |-> "query"]
WorkflowRunsFetch == [over |-> "repos", batch |-> "more", denied |-> "skip", since |-> "query"]
PullRequestsFetch == [over |-> "repos", batch |-> "scope", denied |-> "skip", since |-> "updated"]
IssuesFetch == [over |-> "repos", batch |-> "scope", denied |-> "skip", since |-> "updated"]
DeploymentsFetch == [over |-> "repos", batch |-> "scope", denied |-> "skip", since |-> "created"]
CollaboratorsFetch == [over |-> "repos", batch |-> "scope", denied |-> "skip", since |-> "ignored"]
WebhooksFetch == CollaboratorsFetch
DeployKeysFetch == CollaboratorsFetch

\* GraphQL, where an error is an empty answer.
OrgsFetch == SimpleFetch
EnterpriseMembersFetch == SimpleFetch
RunnersFetch == SimpleFetch
PermissionsFetch == SimpleFetch

\* Counted in one call, which leaves the cursor "_done".
SecretScanningFetch == [SimpleFetch EXCEPT !.batch = "all"]
DependabotFetch == SecretScanningFetch
CodeScanningFetch == SecretScanningFetch
WorkflowSummaryFetch == SecretScanningFetch
MfaFetch == SecretScanningFetch
BillingFetch == SecretScanningFetch

Fetch ==
  [org_members |-> SimpleFetch, teams |-> SimpleFetch, outside_collaborators |-> SimpleFetch,
   credential_authorizations |-> SimpleFetch, org_webhooks |-> SimpleFetch,
   repositories |-> RepositoriesFetch, team_members |-> TeamMembersFetch,
   team_repos |-> TeamReposFetch, branch_protections |-> BranchProtectionsFetch,
   installations |-> InstallationsFetch, audit_log |-> AuditLogFetch,
   repo_commits |-> RepoCommitsFetch, workflow_runs |-> WorkflowRunsFetch,
   pull_requests |-> PullRequestsFetch, issues |-> IssuesFetch,
   deployments |-> DeploymentsFetch, repo_collaborators |-> CollaboratorsFetch,
   repo_webhooks |-> WebhooksFetch, deploy_keys |-> DeployKeysFetch,
   orgs |-> OrgsFetch, enterprise_members |-> EnterpriseMembersFetch,
   self_hosted_runners |-> RunnersFetch, actions_permissions |-> PermissionsFetch,
   secret_scanning_alerts |-> SecretScanningFetch, dependabot_alerts |-> DependabotFetch,
   code_scanning_alerts |-> CodeScanningFetch, actions_workflows |-> WorkflowSummaryFetch,
   mfa_status |-> MfaFetch, license_consumption |-> BillingFetch,
   ghas_active_committers |-> BillingFetch]

ASSUME MirrorAssumption ==
  /\ Entities \subseteq DOMAIN Fetch
  /\ IsFiniteSet(Objects)
  /\ ScopeOrder \in Seq(Range(ScopeOrder))
  /\ \A i, j \in DOMAIN ScopeOrder : ScopeOrder[i] = ScopeOrder[j] => i = j
  /\ Private \subseteq Range(ScopeOrder) /\ ScopeOf \in [Objects -> Range(ScopeOrder)]
  /\ Rank \in [Objects -> Int] /\ \A o, q \in Objects : Rank[o] = Rank[q] => o = q
  /\ PageSize \in Nat \ {0} /\ MaxClock \in Nat \ {0} /\ MirrorFaults \in Nat

F == Fetch[entity]

-----------------------------------------------------------------------------
(* What GitHub lists *)

Over == CASE F.over = "org" -> <<"org">>
          [] F.over = "repos" -> listing
          [] F.over = "teams" -> IF cursor.over = <<>> THEN listing ELSE cursor.over

Stamp(o) == IF F.since = "updated" THEN touched[o] ELSE born[o]

\* Objects of before the cutoff: 90 days ago for a full sync of activity.
BeforeCutoff(o) ==
  IF since # Never THEN F.since # "ignored" /\ Stamp(o) < since
  ELSE /\ F.since # "ignored" /\ entity \notin {"repositories", "branch_protections"}
       /\ (IF entity = "issues" THEN touched[o] ELSE born[o]) = LongAgo

\* The listings that are asked for, or come, newest first.
NewestFirst ==
  \/ F.since \in {"created", "query"} \/ entity \in {"pull_requests", "issues"}
  \/ F.since = "updated" /\ since # Never

\* A workflow run is listed once it has completed.  The page behind an `after`
\* of the audit log is not filtered any more.
Listed(s) ==
  {o \in here : /\ F.over = "org" \/ ScopeOf[o] = s
                /\ F.since = "query" => ~BeforeCutoff(o) \/ (entity = "audit_log" /\ cursor.page > 1)
                /\ entity = "workflow_runs" => touched[o] > born[o]}

Precedes(q, o) ==
  IF NewestFirst /\ Stamp(q) # Stamp(o) THEN Stamp(q) > Stamp(o) ELSE Rank[q] < Rank[o]
PageOf(s, o) == Cardinality({q \in Listed(s) : Precedes(q, o)}) \div PageSize + 1
Page(s, p) == {o \in Listed(s) : PageOf(s, o) = p}

\* Fault: a page that is exactly full is taken for the last one.
HasNextPageLess(s, p) == \E o \in Listed(s) : PageOf(s, o) > p + 1
HasNextPage(s, p) == \E o \in Listed(s) : PageOf(s, o) > p

-----------------------------------------------------------------------------
(* One call of _fetch_page *)

\* The first object past the cutoff ends the scope.
Stops(s, p) ==
  {o \in Page(s, p) : /\ F.since \in {"updated", "created"} /\ BeforeCutoff(o)
                      /\ entity = "issues" => o \notin Bare}
Kept(s, p) ==
  {o \in (IF F.batch = "all" THEN Listed(s) ELSE Page(s, p)) :
     /\ entity \in {"branch_protections", "issues"} => o \notin Bare
     /\ \A q \in Stops(s, p) : Precedes(o, q)}

PageAt(k) == IF k = cursor.i THEN cursor.page ELSE 1
Got(k, refusals) == IF Over[k] \in refusals THEN {} ELSE Kept(Over[k], PageAt(k))
MoreAt(k, refusals) ==
  /\ Over[k] \notin refusals /\ F.batch # "all"
  /\ HasNextPage(Over[k], PageAt(k)) /\ Stops(Over[k], PageAt(k)) = {}
UpTo(k, refusals) == UNION {Got(j, refusals) : j \in cursor.i..k}

\* The scope at which the call returns.
LastOf(refusals) ==
  LET ends == {k \in cursor.i..Len(Over) :
                 \/ F.batch \in {"request", "all"} \/ MoreAt(k, refusals)
                 \/ F.batch = "scope" /\ UpTo(k, refusals) # {}} IN
  IF ends = {} THEN Len(Over) ELSE Min(ends)

\* Fault: the cursor moves behind the last scope instead of ending.
NextCursorBeyond(k, refusals) ==
  IF MoreAt(k, refusals) THEN [over |-> Over, i |-> k, page |-> PageAt(k) + 1]
  ELSE [over |-> Over, i |-> k + 1, page |-> 1]
NextCursor(k, refusals) ==
  IF MoreAt(k, refusals) THEN [over |-> Over, i |-> k, page |-> PageAt(k) + 1]
  ELSE IF k < Len(Over) \/ F.batch = "all" THEN [over |-> Over, i |-> k + 1, page |-> 1]
  ELSE End

\* The items with the versions GitHub answered.
Read(items) == [o \in items |-> touched[o]]
NoItems == Read({})

-----------------------------------------------------------------------------
(* The _upsert_* functions *)

PrunedByPage == {"org_members", "teams", "outside_collaborators"}
PrunedByTeam == {"team_members"}
ReplacedByProtections == {"branch_protections"}
ReplacedByMfa == {"mfa_status"}
AuditEvents == {"audit_log"}
ActivityEvents == {"repo_commits", "pull_requests", "workflow_runs", "issues", "deployments"}

\* Rows that the transaction of a page deletes.
Pruned ==
  {o \in Objects \ DOMAIN batch :
     \/ entity \in PrunedByPage /\ since # Never
     \/ entity \in PrunedByTeam /\ since # Never /\ \E q \in DOMAIN batch : ScopeOf[q] = ScopeOf[o]
     \/ entity \in ReplacedByProtections \cup ReplacedByMfa}

\* An event known to event_dedup is not inserted again; a row is overwritten.  (A
\* change of the state of a pull request or an issue, whose document id names the
\* state, would be another event: one state is followed.)
Inserted(o) ==
  IF entity \in AuditEvents \cup ActivityEvents /\ table[o] # Never THEN table[o] ELSE batch[o]

-----------------------------------------------------------------------------
(* _sync_entity_async *)

InitMirror ==
  /\ entity \in Entities
  /\ here \in {Objects} \cup {Objects \ {o} : o \in Objects}
  /\ born = [o \in Objects |-> IF o \in Old THEN LongAgo ELSE 1] /\ touched = born
  /\ denied \in SUBSET Private
  /\ table = [o \in Objects |-> Never] /\ listing = ScopeOrder
  /\ saved = NoRow /\ finished = Never
  /\ step = "idle" /\ since = Never /\ cursor = First /\ batch = NoItems /\ next = End
  /\ any = FALSE
  /\ fresh = {} /\ disturbed = FALSE /\ refused = FALSE /\ cutShort = FALSE
  /\ clock = 1 /\ mirrorFaults = 0

\* A scheduled run starts from the completion of the last completed one.
StartRun(trigger) ==
  /\ step = "idle" /\ clock < MaxClock
  /\ since' = IF trigger = "scheduled" THEN finished ELSE Never
  /\ step' = "fetch" /\ cursor' = First /\ any' = FALSE /\ saved' = NoRow
  /\ fresh' = {} /\ disturbed' = FALSE /\ refused' = FALSE /\ cutShort' = FALSE
  /\ UNCHANGED <<entity, githubVars, table, listing, finished, batch, next, clock, mirrorFaults>>

\* The handler writes the cursor it was at, unless there is a row.
FailedRow == saved' = IF saved = NoRow THEN [cursor |-> cursor, any |-> any] ELSE saved

\* _github_get gives up a request that stays rate-limited and returns the 403.
FetchPage(throttled) ==
  LET refusals == IF throttled THEN Range(ScopeOrder) \cup {"org"} ELSE denied
      over == cursor.i <= Len(Over)
      last == LastOf(refusals)
      at == Over[last]
      nothing == \/ ~over
                 \/ F.denied = "end" /\ at \in refusals
                 \/ F.over = "teams" /\ cursor.over = <<>> /\ "org" \in refusals IN
  /\ step = "fetch"
  /\ throttled => mirrorFaults < MirrorFaults
  /\ mirrorFaults' = mirrorFaults + (IF throttled THEN 1 ELSE 0)
  /\ refused' = (refused \/ refusals # {})
  /\ IF ~nothing /\ F.denied = "raise" /\ at \in refusals
     THEN step' = "failed" /\ FailedRow /\ UNCHANGED <<batch, next, cutShort>>
     ELSE /\ batch' = Read(IF nothing THEN {} ELSE UpTo(last, refusals))
          /\ next' = IF nothing THEN End ELSE NextCursor(last, refusals)
          /\ IF batch' = NoItems /\ (nothing \/ F.batch # "all")
             THEN step' = "complete" /\ cutShort' = (next' # End)
             ELSE step' = "store" /\ UNCHANGED cutShort
          /\ UNCHANGED saved
  /\ UNCHANGED <<entity, githubVars, table, listing, finished, since, cursor, any, fresh, disturbed, clock>>

\* The `after` of the audit log has expired: the page is asked for again by the
\* time stamp of the last event read, which is the oldest one.
CursorExpires ==
  /\ step = "fetch" /\ entity = "audit_log" /\ cursor.page > 1
  /\ mirrorFaults < MirrorFaults /\ mirrorFaults' = mirrorFaults + 1
  /\ batch' = Read(Page("org", 1)) /\ batch' # NoItems
  /\ next' = IF cursor.page = 2 THEN End ELSE First
  /\ refused' = TRUE /\ step' = "store"
  /\ UNCHANGED <<entity, githubVars, rowVars, since, cursor, any, fresh, disturbed, cutShort, clock>>

StoreItems ==
  /\ step = "store"
  /\ table' = [o \in Objects |-> IF o \in DOMAIN batch THEN Inserted(o)
                                ELSE IF o \in Pruned THEN Never ELSE table[o]]
  /\ any' = TRUE /\ step' = "save"
  /\ UNCHANGED <<entity, githubVars, listing, saved, finished, since, cursor, batch, next,
                 seenVars, clock, mirrorFaults>>

\* Behind the last page the row holds no cursor: a new attempt starts again.
SaveCursor ==
  /\ step = "save"
  /\ saved' = [cursor |-> IF next = End THEN First ELSE next, any |-> any]
  /\ IF next = End THEN step' = "complete" /\ UNCHANGED cursor
     ELSE step' = "fetch" /\ cursor' = next
  /\ batch' = NoItems /\ next' = End
  /\ UNCHANGED <<entity, githubVars, table, listing, finished, since, any, seenVars, clock,
                 mirrorFaults>>

\* The cursor is completed, and with it the run of this one task.
CompleteEntity ==
  /\ step = "complete" /\ clock < MaxClock
  /\ table' = IF entity = "branch_protections" /\ ~any THEN [o \in Objects |-> Never] ELSE table
  /\ clock' = clock + 1 /\ finished' = clock + 1
  /\ step' = "idle" /\ batch' = NoItems /\ next' = End /\ cursor' = First /\ since' = Never
  /\ UNCHANGED <<entity, githubVars, listing, saved, any, seenVars, mirrorFaults>>

FetchFails ==
  /\ step \in {"fetch", "store", "save"} /\ mirrorFaults < MirrorFaults
  /\ mirrorFaults' = mirrorFaults + 1 /\ step' = "failed" /\ FailedRow
  /\ UNCHANGED <<entity, githubVars, table, listing, finished, since, cursor, batch, next, any,
                 seenVars, clock>>

ResumeCursor == IF saved = NoRow THEN First ELSE saved.cursor

\* A retry; the row it finds is the one the handler wrote.
RetryEntity ==
  /\ step = "failed"
  /\ step' = "fetch" /\ batch' = NoItems /\ next' = End
  /\ cursor' = ResumeCursor /\ any' = saved.any
  /\ UNCHANGED <<entity, githubVars, rowVars, since, seenVars, clock, mirrorFaults>>

\* The retries are used up: this run does not complete.
GiveUp ==
  /\ step = "failed"
  /\ step' = "idle" /\ batch' = NoItems /\ next' = End /\ cursor' = First /\ since' = Never
  /\ UNCHANGED <<entity, githubVars, rowVars, any, seenVars, clock, mirrorFaults>>

CrashEntity ==
  /\ step \in {"fetch", "store", "save", "complete"} /\ mirrorFaults < MirrorFaults
  /\ mirrorFaults' = mirrorFaults + 1
  /\ step' = "fetch" /\ batch' = NoItems /\ next' = End
  /\ cursor' = ResumeCursor /\ any' = saved.any
  /\ UNCHANGED <<entity, githubVars, rowVars, since, seenVars, clock>>

-----------------------------------------------------------------------------
(* GitHub, and the repositories task *)

Touch(o) ==
  /\ o \in here /\ clock < MaxClock
  /\ clock' = clock + 1 /\ touched' = [touched EXCEPT ![o] = clock']
  /\ fresh' = fresh \cup {o}
  /\ UNCHANGED <<entity, here, born, denied, rowVars, taskVars, disturbed, refused, cutShort,
                 mirrorFaults>>

Appear(o) ==
  /\ o \notin here /\ clock < MaxClock
  /\ clock' = clock + 1 /\ here' = here \cup {o}
  /\ touched' = [touched EXCEPT ![o] = clock'] /\ born' = [born EXCEPT ![o] = clock']
  /\ fresh' = fresh \cup {o}
  /\ UNCHANGED <<entity, denied, rowVars, taskVars, disturbed, refused, cutShort, mirrorFaults>>

Disappear(o) ==
  /\ o \in here /\ clock < MaxClock
  /\ clock' = clock + 1 /\ here' = here \ {o} /\ disturbed' = TRUE
  /\ UNCHANGED <<entity, born, touched, denied, rowVars, taskVars, fresh, refused, cutShort,
                 mirrorFaults>>

\* The SELECT has no ORDER BY, and an UPDATE moves a row.
Reorder ==
  /\ F.over = "repos" /\ Len(listing) > 1 /\ clock < MaxClock
  /\ clock' = clock + 1 /\ disturbed' = TRUE
  /\ listing' = Append(Tail(listing), Head(listing))
  /\ UNCHANGED <<entity, githubVars, table, saved, finished, taskVars, fresh, refused, cutShort,
                 mirrorFaults>>

NextMirror ==
  \/ \E trigger \in {"manual", "scheduled"} : StartRun(trigger)
  \/ \E throttled \in BOOLEAN : FetchPage(throttled)
  \/ CursorExpires \/ StoreItems \/ SaveCursor \/ CompleteEntity
  \/ FetchFails \/ RetryEntity \/ GiveUp \/ CrashEntity \/ Reorder
  \/ \E o \in Objects : Touch(o) \/ Appear(o) \/ Disappear(o)

SpecMirror == InitMirror /\ [][NextMirror]_mirrorVars

-----------------------------------------------------------------------------
\* Types.
MirrorTypeOK ==
  /\ entity \in Entities /\ here \subseteq Objects /\ denied \subseteq Range(ScopeOrder)
  /\ {born, touched} \subseteq [Objects -> 0..MaxClock]
  /\ table \in [Objects -> 0..MaxClock \cup {Never}]
  /\ Range(listing) = Range(ScopeOrder)
  /\ {since, finished} \subseteq 0..MaxClock \cup {Never}
  /\ step \in {"idle", "fetch", "store", "save", "complete", "failed"}
  /\ \A c \in {cursor, next, saved.cursor} :
       /\ c.page \in Nat
       /\ c = First \/ c.i \in 0..Len(Over) \/ (F.batch = "all" /\ c.i = Len(Over) + 1)
  /\ DOMAIN batch \subseteq Objects
  /\ {any, disturbed, refused, cutShort} \subseteq BOOLEAN /\ fresh \subseteq Objects
  /\ clock \in 0..MaxClock /\ mirrorFaults \in 0..MirrorFaults

\* What the sync owes to the mirror: the objects changed since the cutoff that
\* have not been changed again while it ran.
Owed ==
  {o \in here \ fresh : /\ ~BeforeCutoff(o)
                        /\ entity \in {"branch_protections", "issues"} => o \notin Bare
                        /\ entity = "workflow_runs" => touched[o] > born[o]}

\* Their rows survive the pages that follow, and nothing old hides them.
Sheltered ==
  /\ since # Never => entity \notin PrunedByPage \cup PrunedByTeam
  /\ entity \notin ReplacedByProtections
  /\ entity = "pull_requests" /\ since = Never => \A o \in here : born[o] # LongAgo

MirroredAll(S) ==
  \A o \in S : IF entity \in AuditEvents \cup ActivityEvents THEN table[o] # Never
               ELSE table[o] = touched[o]

\* A sync that reaches its end has mirrored all it owes, whatever was created or
\* changed on GitHub meanwhile, and however often it was lost or failed and went
\* on from its cursor: provided that nothing left GitHub, no repository changed
\* its place, no request was refused, and no empty batch ended it.
QuietSyncMirrors ==
  step = "complete" /\ ~disturbed /\ ~refused /\ ~cutShort /\ Sheltered => MirroredAll(Owed)
=============================================================================
