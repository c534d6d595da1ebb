---------------------------- MODULE CopilotSync -----------------------------
(***************************************************************************)
(* The daily synchronisation of Copilot metrics, seats and usage           *)
(* (backend/app/workers/copilot_metrics_worker.py), and the readers of the *)
(* seats (backend/app/services/copilot_metrics_service.py).                *)
(*                                                                         *)
(* What an organisation answers is known by the hour it was asked at.      *)
(* Metrics and seats are cached in Valkey for 25 hours, so that a sync may *)
(* store what the one before it has fetched.                               *)
(***************************************************************************)
EXTENDS Integers, FiniteSets, FiniteSetsExt

CONSTANTS
  CopilotOrgs, \* organisations with an installation
  CacheHours,  \* _CACHE_TTL_SECONDS
  SyncHours,   \* from one sync to the next
  LastHour,    \* bound: the clock
  SyncRetries, \* max_retries
  CopilotFaults\* bound: requests that are refused, statements that fail, processes lost

ASSUME CopilotAssumption ==
  /\ {CacheHours, SyncHours} \subseteq Nat \ {0}
  /\ {LastHour, SyncRetries, CopilotFaults} \subseteq Nat

VARIABLES
  hourNow,
  reports,   \* "metrics", "seats" -> what Valkey has, and since when
  metricRows,\* copilot_daily_metrics: rows of <<task, organisation, hour asked at>>
  snapshots, \* day -> organisation -> its seats, as of the hour asked at
  copilot,   \* what the task does
  begun,     \* when the last task was sent
  wanting,   \* history: organisations that were refused, or whose seats were lost
  copilotFaults

copilotVars == <<hourNow, reports, metricRows, snapshots, copilot, begun, wanting, copilotFaults>>

NotAsked == -1
NoReport == [data |-> <<>>, at |-> NotAsked]
NoSeats == [o \in CopilotOrgs |-> NotAsked]
NoSync == [at |-> "idle", fetched |-> <<>>, rows |-> {}, seats |-> NoSeats,
           tries |-> 0]

Today == hourNow \div SyncHours
Days == 0..LastHour \div SyncHours

InitCopilot ==
  /\ hourNow = 0
  /\ reports = [k \in {"metrics", "seats"} |-> NoReport]
  /\ metricRows = {} /\ snapshots = [d \in Days |-> NoSeats]
  /\ copilot = NoSync /\ begun = NotAsked /\ wanting = {} /\ copilotFaults = 0
-----------------------------------------------------------------------------
Cached25(k) == reports[k] # NoReport /\ hourNow - reports[k].at < CacheHours

\* Fault: a hit renews the entry.
AfterHitRenewed(k) == [reports EXCEPT ![k].at = hourNow]
AfterHit(k) == reports

StartSync ==
  /\ copilot.at = "idle" /\ hourNow % SyncHours = 0 /\ begun # hourNow
  /\ copilot' = [NoSync EXCEPT !.at = "metrics"] /\ begun' = hourNow
  /\ UNCHANGED <<hourNow, reports, metricRows, snapshots, wanting, copilotFaults>>

\* An organisation that refuses, or whose file cannot be read, is left out, and
\* what the others answered is cached: even an empty answer is a hit later.
Ask(k, then) ==
  \E refused \in SUBSET CopilotOrgs :
    LET data == [o \in CopilotOrgs \ refused |-> hourNow] IN
    /\ refused # {} => copilotFaults < CopilotFaults
    /\ copilotFaults' = copilotFaults + (IF refused = {} THEN 0 ELSE 1)
    /\ reports' = [reports EXCEPT ![k] = [data |-> data, at |-> hourNow]]
    /\ wanting' = wanting \cup refused
    /\ copilot' = [copilot EXCEPT !.at = then, !.fetched = data]

\* _fetch_metrics_raw, _fetch_copilot_seats
FetchReport(k, then) ==
  /\ copilot.at = k
  /\ IF Cached25(k)
     THEN /\ reports' = AfterHit(k)
          /\ copilot' = [copilot EXCEPT !.at = then, !.fetched = reports[k].data]
          /\ UNCHANGED <<wanting, copilotFaults>>
     ELSE Ask(k, then)
  /\ UNCHANGED <<hourNow, metricRows, snapshots, begun>>

\* No token, or the feature is off: the phase is skipped.
SkipPhase(k, next) ==
  /\ copilot.at = k /\ copilotFaults < CopilotFaults
  /\ copilotFaults' = copilotFaults + 1
  /\ wanting' = IF k = "seats" THEN CopilotOrgs ELSE wanting
  /\ copilot' = [copilot EXCEPT !.at = next]
  /\ UNCHANGED <<hourNow, reports, metricRows, snapshots, begun>>

\* A row has no language, no editor or no model, and NULL equals nothing: the unique
\* constraint never finds a conflict, and each sync inserts its rows anew.
PersistMetrics ==
  /\ copilot.at = "store_metrics"
  /\ copilot' = [copilot EXCEPT !.at = "seats",
                   !.rows = {<<begun, o, copilot.fetched[o]>> : o \in DOMAIN copilot.fetched}]
  /\ UNCHANGED <<hourNow, reports, metricRows, snapshots, begun, wanting, copilotFaults>>

\* A statement with more than 32767 parameters is not sent: the seats are one.
PersistSeats(tooMany) ==
  /\ copilot.at = "store_seats"
  /\ tooMany => copilotFaults < CopilotFaults
  /\ copilotFaults' = copilotFaults + (IF tooMany THEN 1 ELSE 0)
  /\ wanting' = IF tooMany THEN CopilotOrgs ELSE wanting
  /\ copilot' =
       [copilot EXCEPT !.at = "usage",
          !.seats = IF tooMany THEN @
                    ELSE [o \in CopilotOrgs |-> IF o \in DOMAIN copilot.fetched
                                                THEN copilot.fetched[o] ELSE NotAsked]]
  /\ UNCHANGED <<hourNow, reports, metricRows, snapshots, begun>>

\* INSERT ... ON CONFLICT (snapshot_date, org_slug, github_login) DO UPDATE
Upserted(old, new) == [o \in CopilotOrgs |-> IF new[o] = NotAsked THEN old[o] ELSE new[o]]

\* The usage is fetched and stored, and everything is committed.
CommitSync ==
  /\ copilot.at = "usage"
  /\ metricRows' = metricRows \cup copilot.rows
  /\ snapshots' = [snapshots EXCEPT ![Today] = Upserted(@, copilot.seats)]
  /\ copilot' = NoSync
  /\ UNCHANGED <<hourNow, reports, begun, wanting, copilotFaults>>

\* A failed upsert is logged and the transaction is aborted.  The next phase begins
\* with a query, which raises: the task is retried.  Behind the last phase there is
\* only the COMMIT, which rolls back, and the task says "completed".
Abandon == wanting' = CopilotOrgs
StatementFails ==
  /\ copilot.at \in {"store_metrics", "store_seats", "usage"} /\ copilotFaults < CopilotFaults
  /\ copilotFaults' = copilotFaults + 1 /\ Abandon
  /\ copilot' = IF copilot.at # "usage" /\ copilot.tries < SyncRetries
                THEN [NoSync EXCEPT !.at = "metrics", !.tries = copilot.tries + 1]
                ELSE NoSync
  /\ UNCHANGED <<hourNow, reports, metricRows, snapshots, begun>>

LoseSync ==
  /\ copilot.at # "idle" /\ copilotFaults < CopilotFaults
  /\ copilotFaults' = copilotFaults + 1 /\ Abandon
  /\ copilot' = [NoSync EXCEPT !.at = "metrics", !.tries = copilot.tries]
  /\ UNCHANGED <<hourNow, reports, metricRows, snapshots, begun>>

\* A sync takes minutes.
HourPasses ==
  /\ copilot.at = "idle" /\ hourNow < LastHour
  /\ hourNow' = hourNow + 1
  /\ UNCHANGED <<reports, metricRows, snapshots, copilot, begun, wanting, copilotFaults>>

NextCopilot ==
  \/ StartSync \/ FetchReport("metrics", "store_metrics") \/ FetchReport("seats", "store_seats")
  \/ SkipPhase("metrics", "seats") \/ SkipPhase("seats", "usage")
  \/ PersistMetrics \/ (\E tooMany \in BOOLEAN : PersistSeats(tooMany))
  \/ CommitSync \/ StatementFails \/ LoseSync \/ HourPasses

SpecCopilot == InitCopilot /\ [][NextCopilot]_copilotVars
-----------------------------------------------------------------------------
(* The readers *)

Snapshot == {d \in Days : snapshots[d] # NoSeats}

\* Fault: the first snapshot, and not the last one.
LatestSnapshotFirst(days) == Min(days)
LatestSnapshot(days) == Max(days)

\* _read_seats_from_store: the cache, or the rows of the last snapshot_date.
SeatsShown ==
  IF Cached25("seats")
  THEN [o \in CopilotOrgs |-> IF o \in DOMAIN reports["seats"].data
                              THEN reports["seats"].data[o] ELSE NotAsked]
  ELSE IF Snapshot = {} THEN NoSeats ELSE snapshots[LatestSnapshot(Snapshot)]
-----------------------------------------------------------------------------
\* Types.
CopilotTypeOK ==
  /\ hourNow \in 0..LastHour
  /\ \A d \in Days, o \in CopilotOrgs : snapshots[d][o] \in -1..hourNow
  /\ \A r \in metricRows : r[1] <= hourNow /\ r[2] \in CopilotOrgs
  /\ copilot.tries \in 0..SyncRetries /\ copilotFaults \in 0..CopilotFaults

\* _CACHE_TTL_SECONDS: a snapshot is of seats asked for in the 25 hours before its
\* day began or later, though the sync may find its predecessor's answer in the
\* cache.
SnapshotIsRecent ==
  \A d \in Days, o \in CopilotOrgs :
    snapshots[d][o] # NotAsked => snapshots[d][o] > d * SyncHours - CacheHours

\* _read_seats_from_store: when the cache runs out and the table takes over, or a new
\* sync replaces it, nobody is shown older seats than before: unless an organisation
\* was refused or a transaction with seats was lost.
SeatsNeverGoBack ==
  [][\A o \in CopilotOrgs \ wanting' : SeatsShown'[o] >= SeatsShown[o]]_copilotVars
=============================================================================
