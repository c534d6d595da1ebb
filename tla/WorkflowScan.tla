---------------------------- MODULE WorkflowScan ----------------------------
(***************************************************************************)
(* The scanner of workflow events                                          *)
(* (backend/app/workers/workflow_scan_worker.py): it turns the workflow    *)
(* events in PostgreSQL into workflow_findings, one row for each workflow  *)
(* and rule.  The detection task sends the event ids of each batch behind  *)
(* it (_scan_specific_events); an operator, or the beat, has all events    *)
(* analysed (_analyze_events, _analyze_events_paginated).                  *)
(*                                                                         *)
(* A workflow is the organisation, repository and path that an event names;*)
(* a finding row is known by the event that it describes.                  *)
(***************************************************************************)
EXTENDS Integers, FiniteSets

CONSTANTS
  Scans,       \* the messages of detection tasks
  IdsOf,       \* message -> ids of workflow events
  Data,        \* event -> what its data says
  WorkflowOf,  \* event -> workflow
  CreatedOf,   \* event -> created_at
  IdOf,        \* event -> id
  ChunkSize,
  MaxClaims,   \* bound: debounce keys that expire, scans that are asked for
  ScanFaults   \* bound: steps that raise, processes lost

WorkflowEvents == DOMAIN Data
NoEvent == 0

\* id is the primary key of events.
ASSUME ScanAssumption ==
  /\ IsFiniteSet(Scans) /\ IsFiniteSet(WorkflowEvents) /\ NoEvent \notin WorkflowEvents
  /\ IdsOf \in [Scans -> SUBSET WorkflowEvents]
  /\ \A e \in WorkflowEvents : CreatedOf[e] \in Int /\ IdOf[e] \in Int
  /\ \A e, q \in WorkflowEvents : IdOf[e] = IdOf[q] => e = q
  /\ {ChunkSize, MaxClaims, ScanFaults} \subseteq Nat

VARIABLES
  recorded,    \* the rows of events
  claims,      \* the debounce keys in Valkey
  findings,    \* workflow, rule -> the event whose details the row has, or NoEvent
  running,     \* workflow -> activity rows that are "running"
  scan,        \* message -> what its task does
  fullScan,    \* what the task that analyses all events does
  analysed,    \* history: events whose findings were committed
  debounced,   \* history: events that were skipped
  expiries, asked, scanFaults

scanBounds == <<expiries, asked, scanFaults>>
scanVars == <<recorded, claims, findings, running, scan, fullScan, analysed, debounced, scanBounds>>
-----------------------------------------------------------------------------
(* The rules *)

PreparedFindings(d) ==
  {r \in {"self-hosted-runner", "reusable-workflow-chain", "slim-runner-image"} : r \in d.traits}
  \cup (IF d.secrets >= 3 THEN {"excessive-secrets"}
        ELSE IF d.secrets >= 2 THEN {"moderate-secrets"} ELSE {})
  \cup (IF "pull_ref" \in d.traits /\ "dynamic_ref" \notin d.traits
        THEN {"pr-triggered-workflow"} ELSE {})

CompletedFindings(d) == IF "public_repo" \in d.traits THEN {"public-repo-workflow"} ELSE {}

CreatedFindings(d) ==
  (IF "access_token" \in d.traits THEN {"pat-triggered-workflow"} ELSE {})
  \cup (IF "bot" \in d.traits /\ d.trigger \notin {"schedule", "dynamic"}
        THEN {"bot-triggered-workflow"} ELSE {})
  \cup (CASE d.trigger = "schedule" -> {"schedule-triggered"}
          [] d.trigger = "workflow_run" -> {"chained-workflow"}
          [] d.trigger = "dynamic" /\ "dependabot" \in d.traits -> {"dependabot-updates"}
          [] OTHER -> {})

Findings(e) ==
  CASE Data[e].action = "prepared" -> PreparedFindings(Data[e])
    [] Data[e].action = "completed" -> CompletedFindings(Data[e])
    [] Data[e].action = "created" -> CreatedFindings(Data[e])

RowsOf(e) == {WorkflowOf[e]} \X Findings(e)
FindingRows == UNION {RowsOf(e) : e \in WorkflowEvents}

\* INSERT ... ON CONFLICT DO UPDATE: the row describes whatever came last.
UpsertFindings(new) ==
  findings' = [k \in FindingRows |-> IF k \in DOMAIN new THEN new[k] ELSE findings[k]]
-----------------------------------------------------------------------------
NoFullScan == [at |-> "idle", chunked |-> FALSE, cursor |-> NoEvent, seen |-> <<>>, owes |-> {}]

InitScan ==
  /\ recorded = {} /\ claims = {}
  /\ findings = [k \in FindingRows |-> NoEvent]
  /\ running = [w \in {WorkflowOf[e] : e \in WorkflowEvents} |-> 0]
  /\ scan = [m \in Scans |-> [at |-> "unsent", dated |-> FALSE, todo |-> {}, of |-> "", tries |-> 0]]
  /\ fullScan = NoFullScan
  /\ analysed = {} /\ debounced = {} /\ expiries = 0 /\ asked = 0 /\ scanFaults = 0

\* _run_pipeline, after its own commit.  A batch of an ingest task has the bounds of
\* its times, since and until; one of the post-sync pipeline has none.
SendScan(m, dated) ==
  /\ scan[m].at = "unsent"
  /\ recorded' = recorded \cup IdsOf[m]
  /\ scan' = [scan EXCEPT ![m].at = "queued", ![m].dated = dated]
  /\ UNCHANGED <<claims, findings, running, fullScan, analysed, debounced, scanBounds>>

\* The message could not be sent: a warning is logged.
SendScanFails(m) ==
  /\ scan[m].at = "unsent" /\ scanFaults < ScanFaults
  /\ scanFaults' = scanFaults + 1
  /\ recorded' = recorded \cup IdsOf[m]
  /\ scan' = [scan EXCEPT ![m].at = "failed"]
  /\ UNCHANGED <<claims, findings, running, fullScan, analysed, debounced, expiries, asked>>

\* self.retry: two more attempts, and the task is given up.
Again(m) ==
  scan' = [scan EXCEPT ![m] = [at |-> IF @.tries < 2 THEN "queued" ELSE "failed", dated |-> @.dated,
                               todo |-> {}, of |-> "", tries |-> @.tries + 1]]

\* Fault: the keys are claimed before the events are read.
LoadEventsClaiming(m) ==
  /\ scan[m].at = "queued"
  /\ claims' = claims \cup {WorkflowOf[e] : e \in IdsOf[m]}
  /\ IF scan[m].dated THEN Again(m)
     ELSE scan' = [scan EXCEPT ![m].at = "get", ![m].todo = {WorkflowOf[e] : e \in IdsOf[m]}]
  /\ UNCHANGED <<recorded, findings, running, fullScan, analysed, debounced, scanBounds>>

\* since and until are compared with created_at as the strings they came as, which
\* asyncpg refuses; run_detection_pipeline parses its own.
LoadEvents(m) ==
  /\ scan[m].at = "queued"
  /\ IF scan[m].dated THEN Again(m)
     ELSE scan' = [scan EXCEPT ![m].at = "get", ![m].todo = {WorkflowOf[e] : e \in IdsOf[m]}]
  /\ UNCHANGED <<recorded, claims, findings, running, fullScan, analysed, debounced,
                 scanBounds>>

Group(m, w) == {e \in IdsOf[m] : WorkflowOf[e] = w}

\* GET, and then SETEX: two tasks may both find no key.
GetDebounce(m, w) ==
  /\ scan[m].at = "get" /\ w \in scan[m].todo
  /\ IF w \in claims
     THEN /\ scan' = [scan EXCEPT ![m].todo = @ \ {w}]
          /\ debounced' = debounced \cup Group(m, w)
     ELSE /\ scan' = [scan EXCEPT ![m].at = "set", ![m].todo = @ \ {w}, ![m].of = w]
          /\ UNCHANGED debounced
  /\ UNCHANGED <<recorded, claims, findings, running, fullScan, analysed, scanBounds>>

SetDebounce(m) ==
  /\ scan[m].at = "set"
  /\ claims' = claims \cup {scan[m].of}
  /\ scan' = [scan EXCEPT ![m].at = "start"]
  /\ UNCHANGED <<recorded, findings, running, fullScan, analysed, debounced, scanBounds>>

StartActivity(m) ==
  /\ scan[m].at = "start"
  /\ running' = [running EXCEPT ![scan[m].of] = @ + 1]
  /\ scan' = [scan EXCEPT ![m].at = "store"]
  /\ UNCHANGED <<recorded, claims, findings, fullScan, analysed, debounced, scanBounds>>

\* Fault: a group without findings leaves before its activity is completed.
NextGroupEarly(m) == IF UNION {RowsOf(e) : e \in Group(m, scan[m].of)} = {} THEN "get" ELSE "finish"

NextGroup(m) == "finish"

\* The rows of the SELECT come in any order: the first event with the rule is kept.
StoreFindings(m) ==
  LET group == Group(m, scan[m].of)
      rows == UNION {RowsOf(e) : e \in group} IN
  /\ scan[m].at = "store"
  /\ \E new \in [rows -> group] :
       /\ \A k \in rows : k \in RowsOf(new[k])
       /\ UpsertFindings(new)
  /\ analysed' = analysed \cup group
  /\ scan' = [scan EXCEPT ![m].at = NextGroup(m)]
  /\ UNCHANGED <<recorded, claims, running, fullScan, debounced, scanBounds>>

FinishActivity(m) ==
  /\ scan[m].at = "finish"
  /\ running' = [running EXCEPT ![scan[m].of] = @ - 1]
  /\ scan' = [scan EXCEPT ![m].at = "get", ![m].of = ""]
  /\ UNCHANGED <<recorded, claims, findings, fullScan, analysed, debounced, scanBounds>>

EndScanTask(m) ==
  /\ scan[m].at = "get" /\ scan[m].todo = {}
  /\ scan' = [scan EXCEPT ![m].at = "done"]
  /\ UNCHANGED <<recorded, claims, findings, running, fullScan, analysed, debounced,
                 scanBounds>>

AtWork(m) == scan[m].at \in {"get", "set", "start", "store", "finish"}

\* A step raises and the task is retried, or the process is lost and the message
\* is delivered again: keys and activity rows stay as they are.
ScanFails(m) ==
  /\ AtWork(m) /\ scanFaults < ScanFaults
  /\ scanFaults' = scanFaults + 1 /\ Again(m)
  /\ UNCHANGED <<recorded, claims, findings, running, fullScan, analysed, debounced,
                 expiries, asked>>
LoseScan(m) ==
  /\ AtWork(m) /\ scanFaults < ScanFaults
  /\ scanFaults' = scanFaults + 1
  /\ scan' = [scan EXCEPT ![m].at = "queued", ![m].todo = {}, ![m].of = ""]
  /\ UNCHANGED <<recorded, claims, findings, running, fullScan, analysed, debounced,
                 expiries, asked>>

\* 30 seconds pass.
DebounceExpires(w) ==
  /\ w \in claims /\ expiries < MaxClaims
  /\ claims' = claims \ {w} /\ expiries' = expiries + 1
  /\ UNCHANGED <<recorded, findings, running, scan, fullScan, analysed, debounced,
                 asked, scanFaults>>
-----------------------------------------------------------------------------
(* All events *)

Registered ==
  {"scan_workflow_events", "scan_all_workflows", "backfill_workflow_findings"}
BeatEntry == "backfill_workflow_findings_task"

StartFullScan(chunked) ==
  fullScan' = [at |-> "read", chunked |-> chunked, cursor |-> NoEvent, seen |-> <<>>,
               owes |-> recorded]

\* A worker discards a message whose task it does not know.
BeatScan ==
  /\ fullScan.at = "idle"
  /\ IF BeatEntry \in Registered
     THEN StartFullScan(TRUE)
     ELSE UNCHANGED fullScan
  /\ UNCHANGED <<recorded, claims, findings, running, scan, analysed, debounced, scanBounds>>

\* POST /scan-repos, or the backfill task called by its name.
AskFullScan(chunked) ==
  /\ fullScan.at = "idle" /\ asked < MaxClaims
  /\ StartFullScan(chunked) /\ asked' = asked + 1
  /\ UNCHANGED <<recorded, claims, findings, running, scan, analysed, debounced,
                 expiries, scanFaults>>

Newer(e, q) ==
  CreatedOf[e] > CreatedOf[q] \/ (CreatedOf[e] = CreatedOf[q] /\ IdOf[e] > IdOf[q])

\* Fault: the cursor is the time alone.
BehindByTime(e, c) == c = NoEvent \/ CreatedOf[e] < CreatedOf[c]

\* (created_at, id) < (:cursor_created_at, :cursor_id)
Behind(e, c) == c = NoEvent \/ Newer(c, e)

\* What a query reads, newest first.
Chunk ==
  LET rest == {e \in recorded : Behind(e, fullScan.cursor)} IN
  {e \in rest : ~fullScan.chunked \/ Cardinality({q \in rest : Newer(q, e)}) < ChunkSize}

Newest(S) == CHOOSE e \in S : \A q \in S \ {e} : Newer(e, q)
Oldest(S) == CHOOSE e \in S : \A q \in S \ {e} : Newer(q, e)

\* The newest event with the rule is kept: setdefault.
FirstKept(seen, events) ==
  [k \in DOMAIN seen \cup UNION {RowsOf(e) : e \in events} |->
     IF k \in DOMAIN seen THEN seen[k] ELSE Newest({e \in events : k \in RowsOf(e)})]

ReadChunk ==
  /\ fullScan.at = "read"
  /\ fullScan' =
       [fullScan EXCEPT !.at = IF fullScan.chunked /\ Cardinality(Chunk) >= ChunkSize THEN "read" ELSE "write",
                        !.cursor = IF Chunk = {} THEN @ ELSE Oldest(Chunk),
                        !.seen = FirstKept(@, Chunk)]
  /\ UNCHANGED <<recorded, claims, findings, running, scan, analysed, debounced,
                 scanBounds>>

\* Everything is upserted in one transaction, over whatever is there by then.
WriteFullScan ==
  /\ fullScan.at = "write"
  /\ UpsertFindings(fullScan.seen)
  /\ analysed' = analysed \cup fullScan.owes
  /\ fullScan' = NoFullScan
  /\ UNCHANGED <<recorded, claims, running, scan, debounced, scanBounds>>

\* Neither task retries; a lost one is delivered again.
LoseFullScan ==
  /\ fullScan.at # "idle" /\ scanFaults < ScanFaults
  /\ scanFaults' = scanFaults + 1
  /\ \/ fullScan' = NoFullScan
     \/ StartFullScan(fullScan.chunked)
  /\ UNCHANGED <<recorded, claims, findings, running, scan, analysed, debounced,
                 expiries, asked>>
-----------------------------------------------------------------------------
GroupStep(m) == SetDebounce(m) \/ StartActivity(m) \/ StoreFindings(m) \/ FinishActivity(m)
ScanStep(m) ==
  \/ LoadEvents(m) \/ GroupStep(m) \/ EndScanTask(m)
  \/ \E w \in scan[m].todo : GetDebounce(m, w)
FullScanStep == ReadChunk \/ WriteFullScan

NextScan ==
  \/ \E m \in Scans, dated \in BOOLEAN : SendScan(m, dated)
  \/ \E m \in Scans : ScanStep(m) \/ SendScanFails(m) \/ ScanFails(m) \/ LoseScan(m)
  \/ \E w \in claims : DebounceExpires(w)
  \/ BeatScan \/ (\E chunked \in BOOLEAN : AskFullScan(chunked))
  \/ FullScanStep \/ LoseFullScan

SpecScan == InitScan /\ [][NextScan]_scanVars

\* The beat and the workers go on; nobody has to ask for a scan.
FairScan ==
  /\ SpecScan /\ WF_scanVars(BeatScan) /\ WF_scanVars(FullScanStep)
  /\ \A m \in Scans : WF_scanVars(ScanStep(m))
-----------------------------------------------------------------------------
\* Types.
ScanTypeOK ==
  /\ recorded \subseteq WorkflowEvents /\ analysed \cup debounced \subseteq recorded
  /\ findings \in [FindingRows -> WorkflowEvents \cup {NoEvent}]
  /\ \A w \in DOMAIN running : running[w] \in Nat
  /\ \A k \in FindingRows : findings[k] # NoEvent => k \in RowsOf(findings[k])

\* _scan_specific_events: the debounce key of a workflow stands for a scan of it.
\* Without a failing step, an event is skipped only if an event of the same workflow
\* was analysed, or is by a task that holds it, however dated batches fail.
SkippedBesideAScan ==
  scanFaults = 0 =>
    \A e \in debounced :
      \/ \E q \in analysed : WorkflowOf[q] = WorkflowOf[e]
      \/ \E m \in Scans : scan[m].of = WorkflowOf[e]

\* An activity row says "running" only while a task is between the rows it writes,
\* or because one failed there: what the scanner's activity page shows ends.
RunningRows == UNION {{w} \X (1 .. running[w]) : w \in DOMAIN running}
Busy == {m \in Scans : scan[m].at \in {"store", "finish"}}
RunningExplained == Cardinality(RunningRows) <= Cardinality(Busy) + scanFaults

\* _analyze_events_paginated: what was recorded before a full scan began has its
\* findings when it ends, whatever is recorded meanwhile and wherever a chunk ends
\* among events of the same time.
FullScanMissesNothing ==
  \A e \in analysed : \A k \in RowsOf(e) : findings[k] # NoEvent

\* The claim: the scheduled scan brings the findings up to date.
EveryEventIsScanned ==
  <>[](\A e \in recorded : \A k \in RowsOf(e) : findings[k] # NoEvent)
=============================================================================
