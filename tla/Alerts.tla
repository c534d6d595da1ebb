------------------------------- MODULE Alerts -------------------------------
(***************************************************************************)
(* The alerts of GitHub Advanced Security that the sync stores             *)
(* (github_sync_worker.py, _upsert_*_alerts), and the figures that         *)
(* backend/app/services/health_signal_service.py derives from them.        *)
(*                                                                         *)
(* Each figure is a SELECT of its own over secret_scanning_alerts,         *)
(* code_scanning_alerts and dependabot_alerts, with its own notion of      *)
(* open, closed, severity and age: the properties relate the figures.      *)
(* Time is counted in days; averages and percentages are rounded down.     *)
(***************************************************************************)
EXTENDS Integers, FiniteSets, FiniteSetsExt

CONSTANTS
  AlertIds,
  ToolOf,     \* alert -> "secret_scanning", "code_scanning", "dependabot"
  SeverityOf, \* alert -> "critical", ..., "low"
  RepoOf,     \* alert -> its repository
  Audited,    \* bound: the repositories that have audit events
  Week, Fortnight, Month, TwoMonths, Quarter, \* 7, 14, 30, 60 and 90 days
  LastDay,    \* bound: the clock
  MaxAlerts   \* bound: alerts GitHub has raised

ASSUME DaysInOrder ==
  {Week, Fortnight, Month, TwoMonths, Quarter} \subseteq Nat \ {0}
    /\ Week < Fortnight /\ Fortnight < Month /\ Month < TwoMonths /\ TwoMonths < Quarter

ASSUME AlertsAssumption ==
  /\ IsFiniteSet(AlertIds) /\ LastDay \in Nat
  /\ ToolOf \in [AlertIds -> {"secret_scanning", "code_scanning", "dependabot"}]
  /\ SeverityOf \in [AlertIds -> {"critical", "high", "medium", "low"}]

VARIABLES
  today,
  raised,   \* alert -> its row: state, day it was created and closed
  features  \* repository -> feature -> the event that was recorded last

alertVars == <<today, raised, features>>

Tools == {"secret_scanning", "code_scanning", "dependabot"}
Severities == {"critical", "high", "medium", "low"}
CoveredFeatures == {"ghas", "code_scanning", "secret_scanning", "dependabot", "push_protection"}
Repos == {RepoOf[a] : a \in AlertIds}
NoDay == -1
AlertRow(state, created, closed) == [state |-> state, created |-> created, closed |-> closed]
NotRaised == AlertRow("none", NoDay, NoDay)
Quiet == [f \in CoveredFeatures |-> "none"]

InitAlerts ==
  /\ today = 0 /\ raised = [a \in AlertIds |-> NotRaised]
  /\ features = [r \in Repos |-> Quiet]
-----------------------------------------------------------------------------
\* How an alert of each tool ends: dependabot_alerts has no column for the time of a
\* dismissal, only of a fix and of an automatic dismissal.
Endings ==
  [secret_scanning |-> {"resolved"}, code_scanning |-> {"fixed", "dismissed"},
   dependabot |-> {"fixed", "auto_dismissed", "dismissed"}]
ClosedDay(tool, state) ==
  IF tool = "dependabot" /\ state = "dismissed" THEN NoDay ELSE today

\* The rows follow GitHub: every column is overwritten by the next sync.
AlertAppears(a) ==
  /\ raised[a].state = "none"
  /\ Cardinality({b \in AlertIds : raised[b].state # "none"}) < MaxAlerts
  /\ raised' = [raised EXCEPT ![a] = AlertRow("open", today, NoDay)]
  /\ UNCHANGED <<today, features>>
AlertEnds(a) ==
  /\ raised[a].state = "open"
  /\ \E s \in Endings[ToolOf[a]] :
       raised' = [raised EXCEPT ![a] = AlertRow(s, @.created, ClosedDay(ToolOf[a], s))]
  /\ UNCHANGED <<today, features>>
AlertReopens(a) ==
  /\ raised[a].state \notin {"none", "open"}
  /\ raised' = [raised EXCEPT ![a] = AlertRow("open", @.created, NoDay)]
  /\ UNCHANGED <<today, features>>

\* An audit event about a feature of a repository; "other" is any other event of it.
FeatureEvent(r, f) ==
  /\ \E s \in {"enabled", "disabled", "other"} :
       /\ features[r][f] # s /\ (s = "other" => features[r][f] = "none")
       /\ features' = [features EXCEPT ![r][f] = s]
  /\ UNCHANGED <<today, raised>>
DayPasses == today < LastDay /\ today' = today + 1 /\ UNCHANGED <<raised, features>>

NextAlerts ==
  \/ \E a \in AlertIds : AlertAppears(a) \/ AlertEnds(a) \/ AlertReopens(a)
  \/ \E r \in Audited : FeatureEvent(r, "code_scanning")
  \/ DayPasses

SpecAlerts == InitAlerts /\ [][NextAlerts]_alertVars
-----------------------------------------------------------------------------
Raised(T) == {a \in AlertIds : ToolOf[a] \in T /\ raised[a].state # "none"}
OpenAlerts(T) == {a \in Raised(T) : raised[a].state = "open"}
Age(a) == today - raised[a].created
\* secret_scanning_alerts has no severity.
Severity(a) == IF ToolOf[a] = "secret_scanning" THEN "none" ELSE SeverityOf[a]
Of(S, s) == {a \in S : Severity(a) = s}
Count(S) == Cardinality(S)
Total(f) == MapThenSumSet(LAMBDA x : f[x], DOMAIN f)
Percent(n, m) == IF m = 0 THEN 0 ELSE (100 * n) \div m

\* get_secret_scanning_alert_health: resolved, open, and open for longer than.
SecretHealth ==
  LET open == OpenAlerts({"secret_scanning"})
      all == Raised({"secret_scanning"})
      resolved == {a \in all : raised[a].state = "resolved"}
  IN [unresolved_total |-> Count(open),
      unresolved_gt_7d |-> Count({a \in open : Age(a) > Week}),
      unresolved_gt_30d |-> Count({a \in open : Age(a) > Month}),
      resolved_count |-> Count({a \in resolved : raised[a].closed # NoDay}),
      total_count |-> Count(all),
      resolution_rate_pct |-> Percent(Count(resolved), Count(all))]

\* get_code_scanning_health, for a repository: severities count closed alerts too.
CodeHealth(r) ==
  LET all == {a \in Raised({"code_scanning"}) : RepoOf[a] = r}
      In(s) == {a \in all : raised[a].state = s}
  IN [total_alerts |-> Count(all), open_count |-> Count(In("open")),
      fixed_count |-> Count(In("fixed")), dismissed_count |-> Count(In("dismissed")),
      by_severity |-> [s \in Severities |-> Count(Of(all, s))]]

\* get_vulnerability_aging: ranges that exclude their lower bound.  (Fault: the second
\* range starts a day late.)
AgeRangeLate(a) ==
  CASE Age(a) <= Month -> "age_0_30d" [] Age(a) > Month + 1 /\ Age(a) <= TwoMonths -> "age_30_60d"
    [] Age(a) > TwoMonths /\ Age(a) <= Quarter -> "age_60_90d" [] OTHER -> "none"
AgeRange(a) ==
  CASE Age(a) <= Month -> "age_0_30d" [] Age(a) > Month /\ Age(a) <= TwoMonths -> "age_30_60d"
    [] Age(a) > TwoMonths /\ Age(a) <= Quarter -> "age_60_90d" [] Age(a) > Quarter -> "age_gt_90d"
VulnerabilityAging ==
  LET open == OpenAlerts({"dependabot"})
      Ranges == {"age_0_30d", "age_30_60d", "age_60_90d", "age_gt_90d"}
  IN [total_open |-> Count(open),
      open |-> [s \in Severities |-> Count(Of(open, s))],
      range |-> [b \in Ranges |-> Count({a \in open : AgeRange(a) = b})],
      open_gt_30d |-> Count({a \in open : Age(a) > Month}),
      critical_open_gt_14d |-> Count({a \in Of(open, "critical") : Age(a) > Fortnight}),
      critical_aging_gt_90d |-> Count({a \in Of(open, "critical") : Age(a) > Quarter})]

\* get_unified_security_summary
SummaryOf(tool) ==
  LET open == OpenAlerts({tool}) IN
  [open |-> Count(open), total |-> Count(Raised({tool})),
   by_severity |-> [s \in Severities |-> Count(Of(open, s))],
   critical_aging_gt_90d |-> Count({a \in Of(open, "critical") : Age(a) > Quarter})]
\* The trend of the last 30 days: alerts by the day they were created.
CreatedOn(tool, day) == Count({a \in Raised({tool}) : raised[a].created = day})
Trend30(tool) == [day \in today - (Month - 1)..today |-> CreatedOn(tool, day)]
-----------------------------------------------------------------------------
\* Which alerts get_mttr_trends takes as closed.  A Dependabot alert needs a time of
\* closing but no state; one that was dismissed by hand has none.
ClosedFor(tool) ==
  {a \in Raised({tool}) :
     /\ raised[a].closed # NoDay
     /\ tool # "dependabot" => raised[a].state \in Endings[tool]}
ClosedSince(tool, day) == {a \in ClosedFor(tool) : raised[a].closed >= day}

\* Days to remediate, added up, and the alerts they were added over.
Remediation(S) ==
  [days |-> Total([a \in S |-> raised[a].closed - raised[a].created]),
   n |-> Count(S)]
MttrHours(m) == IF m.n = 0 THEN 0 ELSE (24 * m.days) \div m.n

\* get_mttr_trends for 30 days, and for the 30 days before.
CurrentlyClosed(T) == UNION {ClosedSince(t, today - Month) : t \in T}
CurrentMttr == Remediation(CurrentlyClosed(Tools))
PreviousMttr ==
  Remediation((UNION {ClosedSince(t, today - 2 * Month) : t \in Tools})
                \ CurrentlyClosed(Tools))
MttrByTool(t) == Remediation(CurrentlyClosed({t}))
MttrBySeverity(s) == Remediation(Of(CurrentlyClosed({"code_scanning", "dependabot"}), s))
\* The series starts at midnight of its first day, the window 30 days ago.
MttrOn(day) == Remediation({a \in CurrentlyClosed(Tools) : raised[a].closed = day})
MttrSeries == [day \in today - (Month - 1)..today |-> MttrOn(day)]
TrendPct ==
  LET now == MttrHours(CurrentMttr) before == MttrHours(PreviousMttr) IN
  IF before > 0 THEN (100 * (now - before)) \div before ELSE 0
-----------------------------------------------------------------------------
\* get_coverage_growth: a feature covers a repository when its last event enables it,
\* or when the repository has an alert of the tool, open or not.
SeenRepos == {r \in Repos : \E f \in CoveredFeatures : features[r][f] # "none"}
ReposWithAlerts(f) == {RepoOf[a] : a \in Raised({f} \cap Tools)}
CoveredRepos(f) == {r \in Repos : features[r][f] = "enabled"} \cup ReposWithAlerts(f)
CoveragePct(f) == Percent(Count(CoveredRepos(f)), Count(SeenRepos))
Uncovered ==
  [r \in {x \in SeenRepos : \E f \in CoveredFeatures : x \notin CoveredRepos(f)} |->
     {f \in CoveredFeatures : r \notin CoveredRepos(f)}]
-----------------------------------------------------------------------------
\* get_alert_aging: buckets that include their lower bound.
Bucket(a) ==
  CASE Age(a) < Week -> "<7d" [] Age(a) >= Week /\ Age(a) < Month -> "7-30d"
    [] Age(a) >= Month /\ Age(a) < Quarter -> "30-90d" [] OTHER -> ">90d"
AgeBuckets ==
  [b \in {"<7d", "7-30d", "30-90d", ">90d"} |->
     LET in == {a \in OpenAlerts(Tools) : Bucket(a) = b} IN
     [total |-> Count(in), critical |-> Count(Of(in, "critical")),
      high |-> Count(Of(in, "high"))]]
\* Severe alerts by age; secrets have no severity and are never among them.
Severe == {a \in OpenAlerts(Tools) : Severity(a) \in {"critical", "high"}}
OldestCritical ==
  {a \in Severe : Count({b \in Severe : Age(b) > Age(a)}) < 10}
CurrentOpen == Count(OpenAlerts(Tools))
ClosedLast30 == Count(UNION {ClosedSince(t, today - Month) : t \in Tools})
ProjectedOpen(week) == Max({0, CurrentOpen - (ClosedLast30 * Week * week) \div Month})
-----------------------------------------------------------------------------
\* get_security_score: five figures between 0 and 100, weighed.
Clamp(score) == Min({100, Max({0, score})})
CoverageScore ==
  Total([f \in CoveredFeatures |-> CoveragePct(f)]) \div Count(CoveredFeatures)
MttrScore == Clamp(100 - (MttrHours(CurrentMttr) - 72) \div 2)
VolumeScore ==
  IF SeenRepos = {} THEN 100 ELSE Clamp(100 - (200 * CurrentOpen) \div Count(SeenRepos))
OldAlerts == AgeBuckets["30-90d"].total + AgeBuckets[">90d"].total
AgingScore == Clamp(100 - (3 * Percent(OldAlerts, CurrentOpen)) \div 2)
TrendScore == Clamp(50 + Min({50, Max({-50, -TrendPct})}))
SecurityScore ==
  (30 * CoverageScore + 25 * MttrScore + 20 * VolumeScore + 15 * AgingScore
     + 10 * TrendScore) \div 100
-----------------------------------------------------------------------------
AlertsTypeOK ==
  /\ today \in 0..LastDay
  /\ \A a \in AlertIds : raised[a].created \in -1..today /\ raised[a].closed \in -1..today
  /\ \A a \in AlertIds : raised[a].closed # NoDay =>
       raised[a].state \in Endings[ToolOf[a]] /\ raised[a].closed >= raised[a].created

\* get_security_score counts coverage over the repositories that have audit events, but
\* covers repositories that have alerts: only without a silent repository is it a share.
AllSeen == \A f \in Tools : ReposWithAlerts(f) \subseteq SeenRepos

\* The widgets that count the same alerts agree.  The buckets of get_alert_aging and the
\* ranges of get_vulnerability_aging hold every open alert once, and their sums are what
\* get_unified_security_summary and the two *_health queries show; the 30 days of the
\* trend hold the young alerts; the mean times of get_mttr_trends by tool, by severity
\* and by day are made of the alerts that its overall mean, and the forecast, are made
\* of; an alert that is counted as old is in the list of the oldest, unless more than the
\* ten that it holds are old; and the score stays on its scale.
FiguresAgree ==
  /\ Total([b \in DOMAIN AgeBuckets |-> AgeBuckets[b].total]) = CurrentOpen
  /\ CurrentOpen = Total([t \in Tools |-> SummaryOf(t).open])
  /\ Total(VulnerabilityAging.range) = SummaryOf("dependabot").open
  /\ VulnerabilityAging.open_gt_30d + VulnerabilityAging.range["age_0_30d"]
       = VulnerabilityAging.total_open
  /\ VulnerabilityAging.critical_aging_gt_90d = SummaryOf("dependabot").critical_aging_gt_90d
  /\ Total([r \in Repos |-> CodeHealth(r).open_count]) = SummaryOf("code_scanning").open
  /\ SecretHealth.unresolved_total = SummaryOf("secret_scanning").open
  /\ \A t \in Tools :
       Total(Trend30(t)) = Count({a \in Raised({t}) : Age(a) < Month})
  /\ Total([t \in Tools |-> MttrByTool(t).days]) = CurrentMttr.days
  /\ Total([s \in Severities |-> MttrBySeverity(s).n]) + MttrByTool("secret_scanning").n
       = CurrentMttr.n
  /\ Total([d \in DOMAIN MttrSeries |-> MttrSeries[d].n]) + MttrOn(today - Month).n
       = CurrentMttr.n
  /\ ClosedLast30 = CurrentMttr.n /\ ProjectedOpen(4) <= CurrentOpen
  /\ Count({a \in Severe : Age(a) > Quarter}) <= 10 =>
       {a \in Of(OpenAlerts(Tools), "critical") : Age(a) > Quarter} \subseteq OldestCritical
  /\ AllSeen => /\ SecurityScore \in 0..100
                /\ \A f \in CoveredFeatures :
                     CoveredRepos(f) = SeenRepos \ {r \in DOMAIN Uncovered : f \in Uncovered[r]}
=============================================================================
