------------------------------ MODULE SyncRun -------------------------------
(***************************************************************************)
(* One enterprise sync run (backend/app/workers/github_sync_worker.py and  *)
(* backend/app/routers/sync.py): an orchestrator task marks the run        *)
(* running and queues one sync_entity task for each entity type and        *)
(* organisation; each task stores its pages and its cursor row, and the    *)
(* last one to finish gives the run its verdict and queues the post-sync   *)
(* pipeline.  An operator may cancel the run; the scheduler, a new trigger *)
(* and the orchestrator of another run expire it or fail its cursors.      *)
(*                                                                         *)
(* Times are abstract: whatever waits for an age of the run may happen at  *)
(* any moment, since a run has no upper bound on its duration.             *)
(***************************************************************************)
EXTENDS Integers, Sequences, FiniteSets

CONSTANTS
  Tasks,      \* the <<entity_type, org>> pairs the orchestrator dispatches
  NullOrg,    \* those whose org is NULL
  PageCount,  \* task -> pages GitHub has for it
  Workers,    \* number of processes on the github_sync queue
  Cleaner,    \* the orchestrator of another run, as it cleans stale runs up
  NoCount,    \* expected_entity_count IS NULL
  MaxRetries, \* of sync_entity
  MaxFaults   \* bound: calls that raise and processes lost, together

ASSUME SyncAssumption ==
  /\ IsFiniteSet(Tasks) /\ NullOrg \subseteq Tasks
  /\ PageCount \in [Tasks -> Nat]
  /\ Workers \in Nat \ {0}
  /\ NoCount \notin Nat
  /\ {MaxRetries, MaxFaults} \subseteq Nat

\* The orchestrator may be delivered again, and each delivery fans out.
Starts == 1..MaxFaults + 1
Jobs == Tasks \X Starts
Procs == Jobs \cup {Cleaner}
Active == {"pending", "running"}
Verdicts == {"completed", "failed", "cancelled"}
Watchers == {"cancel", "recover"}

VARIABLES
  \* enterprise_sync_runs, enterprise_sync_entity_cursors
  status, expected,
  rows,     \* task -> its cursor rows
  \* the orchestrator
  orch, starts, sent,
  \* the sync_entity tasks, in the broker or in a worker, and the cleaner
  pc, used,
  page,     \* the page it fetches next
  seen, verdict, \* what _maybe_finalize_run read and concluded
  watch,    \* watcher -> whether it has seen the run active
  \* history and bounds
  stored,   \* task -> pages upserted
  posts,    \* post-sync pipelines dispatched
  faults

runVars == <<status, expected>>
orchVars == <<orch, starts, sent>>
finVars == <<seen, verdict>>
jobVars == <<pc, used, page, finVars>>
history == <<stored, posts>>
vars == <<runVars, rows, orchVars, jobVars, watch, history, faults>>

Row == [st : {"in_progress", "completed", "failed"}, cursor : Nat \ {0}]

Init ==
  /\ status = "pending" /\ expected = NoCount
  /\ rows = [t \in Tasks |-> <<>>]
  /\ orch = "queued" /\ starts = 0 /\ sent = {}
  /\ pc = [p \in Procs |-> "idle"] /\ used = [p \in Procs |-> 0]
  /\ page = [p \in Procs |-> 1]
  /\ seen = [p \in Procs |-> NoCount] /\ verdict = [p \in Procs |-> "failed"]
  /\ watch = [v \in Watchers |-> "idle"]
  /\ stored = [t \in Tasks |-> {}] /\ posts = 0
  /\ faults = 0

-----------------------------------------------------------------------------
(* Workers *)

Waiting == {"idle", "queued", "done", "dead"}
BusyOrch == orch \notin Waiting
FreeWorker ==
  Cardinality({p \in Procs : pc[p] \notin Waiting}) + (IF BusyOrch THEN 1 ELSE 0) < Workers

To(p, l) == pc' = [pc EXCEPT ![p] = l]

\* A process that ends or is lost forgets its local variables.
Forget(p) ==
  /\ page' = [page EXCEPT ![p] = 1]
  /\ seen' = [seen EXCEPT ![p] = NoCount]
  /\ verdict' = [verdict EXCEPT ![p] = "failed"]

-----------------------------------------------------------------------------
(* run_enterprise_sync *)

PickUpRun ==
  /\ orch = "queued" /\ FreeWorker
  /\ orch' = "mark"
  /\ UNCHANGED <<runVars, rows, starts, sent, jobVars, watch, history, faults>>

\* The UPDATE has no condition on the status it replaces.
MarkRunning ==
  /\ orch = "mark"
  /\ status' = "running" /\ starts' = starts + 1 /\ sent' = {}
  /\ orch' = "configs"
  /\ UNCHANGED <<expected, rows, jobVars, watch, history, faults>>

NoConfigs ==
  /\ orch = "configs"
  /\ status' = "failed" /\ orch' = "done"
  /\ UNCHANGED <<expected, rows, starts, sent, jobVars, watch, history, faults>>

Dispatch(t) ==
  /\ orch \in {"configs", "dispatch"} /\ t \notin sent
  /\ sent' = sent \cup {t} /\ orch' = "dispatch"
  /\ To(<<t, starts>>, "queued")
  /\ UNCHANGED <<runVars, rows, starts, used, page, finVars, watch, history, faults>>

\* Written once everything is dispatched, or when there is no installed org.
RecordCount ==
  /\ orch = "configs" \/ (orch = "dispatch" /\ sent = Tasks)
  /\ expected' = Cardinality(sent)
  /\ orch' = IF sent = {} THEN "zero" ELSE "done"
  /\ UNCHANGED <<status, rows, starts, sent, jobVars, watch, history, faults>>

ZeroDispatch ==
  /\ orch = "zero"
  /\ status' = "completed" /\ orch' = "done"
  /\ UNCHANGED <<expected, rows, starts, sent, jobVars, watch, history, faults>>

\* max_retries = 0.
RunFails ==
  /\ BusyOrch /\ faults < MaxFaults
  /\ faults' = faults + 1 /\ orch' = "dead"
  /\ UNCHANGED <<runVars, rows, starts, sent, jobVars, watch, history>>

-----------------------------------------------------------------------------
(* sync_entity *)

\* INSERT ... ON CONFLICT (run_id, entity_type, org): a NULL org conflicts with nothing.
Upsert(t, r) ==
  rows' = [rows EXCEPT ![t] = IF t \in NullOrg THEN Append(@, r) ELSE <<r>>]

\* Fault: a task without a row resumes at page zero.
ResumeAtZero(t) == IF rows[t] = <<>> THEN 0 ELSE rows[t][1].cursor

\* The row decides where a new attempt resumes; without one it starts at the first page.
Resume(t) == IF rows[t] = <<>> THEN 1 ELSE rows[t][1].cursor

\* scalar_one_or_none raises on two rows, outside the try: the task dies.
Begin(j) ==
  /\ pc[j] = "queued" /\ FreeWorker
  /\ IF Len(rows[j[1]]) > 1
     THEN To(j, "dead") /\ UNCHANGED page
     ELSE To(j, "page") /\ page' = [page EXCEPT ![j] = Resume(j[1])]
  /\ UNCHANGED <<runVars, rows, orchVars, used, finVars, watch, history, faults>>

\* A page and the cursor behind it are one transaction.
StorePage(j) ==
  LET t == j[1]
      last == page[j] = PageCount[t] IN
  /\ pc[j] = "page" /\ page[j] <= PageCount[t]
  /\ stored' = [stored EXCEPT ![t] = @ \cup {page[j]}]
  /\ Upsert(t, IF last THEN [st |-> "completed", cursor |-> 1]
               ELSE [st |-> "in_progress", cursor |-> page[j] + 1])
  /\ IF last THEN To(j, "complete") /\ UNCHANGED page
     ELSE page' = [page EXCEPT ![j] = @ + 1] /\ UNCHANGED pc
  /\ UNCHANGED <<runVars, orchVars, used, finVars, watch, posts, faults>>

\* After the last page, or at once when there are no items.
Complete(j) ==
  /\ pc[j] = "complete" \/ (pc[j] = "page" /\ PageCount[j[1]] = 0)
  /\ Upsert(j[1], [st |-> "completed", cursor |-> page[j]])
  /\ To(j, "check") /\ Forget(j)
  /\ UNCHANGED <<runVars, orchVars, used, watch, history, faults>>

\* The except branch: an existing row keeps its cursor.
EntityFails(j) ==
  /\ pc[j] \in {"page", "complete"} /\ faults < MaxFaults
  /\ faults' = faults + 1
  /\ Upsert(j[1], [st |-> "failed",
                   cursor |-> IF j[1] \notin NullOrg /\ rows[j[1]] # <<>>
                              THEN rows[j[1]][1].cursor ELSE page[j]])
  /\ To(j, "failing") /\ Forget(j)
  /\ UNCHANGED <<runVars, orchVars, used, watch, history>>

\* task.retry(exc=exc) raises exc itself once the retries are used: the
\* branch for MaxRetriesExceededError, which would finalize, is not taken.
Retry(j) ==
  /\ pc[j] = "failing"
  /\ IF used[j] < MaxRetries
     THEN To(j, "queued") /\ used' = [used EXCEPT ![j] = @ + 1]
     ELSE To(j, "dead") /\ UNCHANGED used
  /\ UNCHANGED <<runVars, rows, orchVars, page, finVars, watch, history, faults>>

-----------------------------------------------------------------------------
(* _maybe_finalize_run *)

CheckRun(p) ==
  /\ pc[p] = "check"
  /\ IF status = "running"
     THEN To(p, "rows") /\ seen' = [seen EXCEPT ![p] = expected]
     ELSE To(p, "done") /\ UNCHANGED seen
  /\ UNCHANGED <<runVars, rows, orchVars, used, page, verdict, watch, history, faults>>

\* Fault of guard 1: it is gone.
RegisteredAny(n, count) == TRUE

\* Guard 1: every dispatched task has a row; without a count, any number will do.
Registered(n, count) == count = NoCount \/ n >= count

RowCount == Cardinality(UNION {{t} \X DOMAIN rows[t] : t \in Tasks})

\* A failed row is terminal, though its task may be waiting for a retry.
CheckRows(p) ==
  LET states == UNION {{rows[t][i].st : i \in DOMAIN rows[t]} : t \in Tasks} IN
  /\ pc[p] = "rows"
  /\ IF states # {} /\ Registered(RowCount, seen[p]) /\ "in_progress" \notin states
     THEN /\ verdict' = [verdict EXCEPT ![p] = IF "failed" \in states THEN "failed" ELSE "completed"]
          /\ To(p, "claim") /\ UNCHANGED <<page, seen>>
     ELSE To(p, "done") /\ Forget(p)
  /\ UNCHANGED <<runVars, rows, orchVars, used, watch, history, faults>>

\* Fault: the UPDATE has no WHERE status = 'running'.
ClaimAnyway(p) ==
  /\ pc[p] = "claim"
  /\ status' = verdict[p]
  /\ To(p, IF verdict[p] = "completed" THEN "post" ELSE "done")
  /\ UNCHANGED <<expected, rows, orchVars, used, page, finVars, watch, history, faults>>

\* Fault: the rowcount of the UPDATE is not looked at.
ClaimUncounted(p) ==
  /\ pc[p] = "claim"
  /\ status' = IF status = "running" THEN verdict[p] ELSE status
  /\ To(p, IF verdict[p] = "completed" THEN "post" ELSE "done")
  /\ UNCHANGED <<expected, rows, orchVars, used, page, finVars, watch, history, faults>>

\* UPDATE ... WHERE status = 'running': only one caller finds the row.
Claim(p) ==
  /\ pc[p] = "claim"
  /\ IF status = "running"
     THEN status' = verdict[p] /\ To(p, IF verdict[p] = "completed" THEN "post" ELSE "done")
     ELSE To(p, "done") /\ UNCHANGED status
  /\ IF pc'[p] = "done" THEN Forget(p) ELSE UNCHANGED <<page, finVars>>
  /\ UNCHANGED <<expected, rows, orchVars, used, watch, history, faults>>

DispatchPostSync(p) ==
  /\ pc[p] = "post"
  /\ posts' = posts + 1
  /\ To(p, "done") /\ Forget(p)
  /\ UNCHANGED <<runVars, rows, orchVars, used, watch, stored, faults>>

\* A call that raises outside the try of sync_entity, in its handler, or in
\* _maybe_finalize_run: the task is not retried.
TaskDies(p) ==
  /\ pc[p] \notin Waiting /\ faults < MaxFaults
  /\ faults' = faults + 1
  /\ To(p, "dead") /\ Forget(p)
  /\ UNCHANGED <<runVars, rows, orchVars, used, watch, history>>

-----------------------------------------------------------------------------
(* Everyone else who writes the run or its cursors *)

\* _cleanup_stale_runs in the orchestrator of a later run.
SeeStale ==
  /\ pc[Cleaner] = "idle" /\ status = "running" /\ FreeWorker
  /\ To(Cleaner, "mark")
  /\ UNCHANGED <<runVars, rows, orchVars, used, page, finVars, watch, history, faults>>

FailStaleCursors ==
  /\ pc[Cleaner] = "mark"
  /\ rows' = [t \in Tasks |-> [i \in DOMAIN rows[t] |->
                IF rows[t][i].st = "in_progress" THEN [rows[t][i] EXCEPT !.st = "failed"]
                ELSE rows[t][i]]]
  /\ To(Cleaner, "check")
  /\ UNCHANGED <<runVars, orchVars, used, page, finVars, watch, history, faults>>

\* cancel_run and _recover_stuck_run read the run first ...
SeeActive(v) ==
  /\ watch[v] = "idle" /\ status \in Active
  /\ watch' = [watch EXCEPT ![v] = "seen"]
  /\ UNCHANGED <<runVars, rows, orchVars, jobVars, history, faults>>

\* ... and then write it by its id alone.  The revoke names no task that exists.
WriteVerdict(v) ==
  /\ watch[v] = "seen"
  /\ status' = IF v = "cancel" THEN "cancelled" ELSE "failed"
  /\ watch' = [watch EXCEPT ![v] = "done"]
  /\ UNCHANGED <<expected, rows, orchVars, jobVars, history, faults>>

\* trigger_sync expires the run in one UPDATE.
Expire ==
  /\ status \in Active
  /\ status' = "failed"
  /\ UNCHANGED <<expected, rows, orchVars, jobVars, watch, history, faults>>

-----------------------------------------------------------------------------
\* acks_late: what a lost process was doing is delivered again from its start.
CrashRun ==
  /\ BusyOrch /\ faults < MaxFaults
  /\ faults' = faults + 1 /\ orch' = "queued"
  /\ UNCHANGED <<runVars, rows, starts, sent, jobVars, watch, history>>

CrashTask(p) ==
  /\ pc[p] \notin Waiting /\ faults < MaxFaults
  /\ faults' = faults + 1
  /\ To(p, IF p = Cleaner THEN "idle" ELSE "queued") /\ Forget(p)
  /\ UNCHANGED <<runVars, rows, orchVars, used, watch, history>>

RunStep ==
  \/ PickUpRun \/ MarkRunning \/ NoConfigs \/ RecordCount \/ ZeroDispatch
  \/ \E t \in Tasks : Dispatch(t)
FinalizeStep(p) == CheckRun(p) \/ CheckRows(p) \/ Claim(p) \/ DispatchPostSync(p)
JobStep(j) == Begin(j) \/ StorePage(j) \/ Complete(j) \/ Retry(j) \/ FinalizeStep(j)

Next ==
  \/ RunStep
  \/ \E j \in Jobs : JobStep(j) \/ EntityFails(j)
  \/ SeeStale \/ FailStaleCursors \/ FinalizeStep(Cleaner)
  \/ \E v \in Watchers : SeeActive(v) \/ WriteVerdict(v)
  \/ Expire \/ RunFails \/ CrashRun
  \/ \E p \in Procs : TaskDies(p) \/ CrashTask(p)

Spec == Init /\ [][Next]_vars

\* The workers keep taking tasks and running them; nobody has to come and look at the run.
FairSpec ==
  /\ Spec /\ WF_vars(RunStep)
  /\ \A j \in Jobs : WF_vars(JobStep(j))
  /\ WF_vars(FailStaleCursors \/ FinalizeStep(Cleaner))

-----------------------------------------------------------------------------
\* Types.
TypeOK ==
  /\ status \in Active \cup Verdicts
  /\ expected \in Nat \cup {NoCount}
  /\ rows \in [Tasks -> Seq(Row)]
  /\ orch \in Waiting \cup {"mark", "configs", "dispatch", "zero"}
  /\ starts \in Starts \cup {0} /\ sent \subseteq Tasks
  /\ pc \in [Procs -> Waiting \cup {"page", "complete", "failing", "mark",
                                    "check", "rows", "claim", "post"}]
  /\ used \in [Procs -> 0..MaxRetries] /\ page \in [Procs -> Nat \ {0}]
  /\ seen \in [Procs -> Nat \cup {NoCount}] /\ verdict \in [Procs -> Verdicts]
  /\ watch \in [Watchers -> {"idle", "seen", "done"}]
  /\ stored \in [Tasks -> SUBSET (Nat \ {0})] /\ posts \in Nat
  /\ faults \in 0..MaxFaults

\* Whoever completed the run knowing how many tasks were dispatched did so after
\* every page of every task was stored, whatever tasks were retried, delivered
\* twice, or had their cursor failed by a cleanup meanwhile.
CompletedMeansSynced ==
  NullOrg = {} =>
    \A p \in Procs : pc[p] = "post" /\ seen[p] = Cardinality(Tasks) =>
      \A t \in Tasks : stored[t] = 1..PageCount[t]

\* Several tasks may find all cursors terminal; one of them dispatches the
\* post-sync pipeline for each time the orchestrator set the run running.
OnePostSyncPerStart == posts <= starts

\* A verdict, the operator's included, is not overturned by the tasks and
\* cleanups still on their way when it is written: only the orchestrator that
\* picks the run up, or a watcher that saw it active, replaces it.
VerdictStands ==
  [][(status \in Verdicts /\ status' # status) => (orch' # orch \/ watch' # watch)]_vars

\* A run that has a verdict, is not running yet, or has lost a task or its
\* orchestrator without a retry.
Settled == status # "running" \/ orch = "dead" \/ \E p \in Procs : pc[p] = "dead"

\* The claim: a run is not finalized before every task has written its first
\* cursor row.
FinalizedAfterRegistration ==
  \A p \in Procs : pc[p] = "post" /\ seen[p] # NoCount => \A t \in sent : rows[t] # <<>>
=============================================================================
