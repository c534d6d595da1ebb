---------------------------- MODULE Gather_proofs ----------------------------
(***************************************************************************)
(* Proofs about the two ways in which data is fetched.  SyncRun: a verdict *)
(* stands, the post-sync pipeline is dispatched once for each start of the *)
(* run, and a run completed with its count has stored every page.          *)
(* SourcePoller: overlapping polls leave no silent gap behind a cursor.    *)
(***************************************************************************)
EXTENDS MCGather, FiniteSetTheorems, SequenceTheorems, WellFoundedInduction, TLAPS
-----------------------------------------------------------------------------
(* SyncRun *)
(* Types *)

Places ==
  Waiting \cup {"page", "complete", "failing", "mark", "check", "rows", "claim", "post"}

\* TypeOK in parts; the orchestrator starts once, and once more for each fault.
RunInv == status \in Active \cup Verdicts /\ expected \in Nat \cup {NoCount}
RowsInv == rows \in [Tasks -> Seq(Row)] /\ stored \in [Tasks -> SUBSET (Nat \ {0})]
OrchInv ==
  /\ orch \in Waiting \cup {"mark", "configs", "dispatch", "zero"}
  /\ starts \in Nat /\ faults \in 0..MaxFaults /\ sent \subseteq Tasks
  /\ starts <= faults + 1
  /\ orch \in {"queued", "mark"} => starts <= faults
  /\ orch \in {"configs", "dispatch"} => starts >= 1
JobsInv ==
  /\ pc \in [Procs -> Places]
  /\ used \in [Procs -> 0..MaxRetries] /\ page \in [Procs -> Nat \ {0}]
  /\ seen \in [Procs -> Nat \cup {NoCount}] /\ verdict \in [Procs -> Verdicts]
RestInv == watch \in [Watchers -> {"idle", "seen", "done"}] /\ posts \in Nat

SyncTypes == RunInv /\ RowsInv /\ OrchInv /\ JobsInv /\ RestInv

\* A row that is written keeps the rows of all tasks rows (the INSERT of a cursor).
LEMMA UpsertKeepsRows ==
  ASSUME SyncTypes, NEW t \in Tasks, NEW r \in Row, Upsert(t, r)
  PROVE  rows' \in [Tasks -> Seq(Row)]
<1>1. rows[t] \in Seq(Row)
  BY DEF SyncTypes, RowsInv
<1>2. Append(rows[t], r) \in Seq(Row) /\ <<r>> \in Seq(Row)
  BY <1>1
<1> QED BY <1>2 DEF Upsert, SyncTypes, RowsInv

\* A task resumes at a page (the cursor of its row).
LEMMA ResumeIsPage ==
  ASSUME SyncTypes, NEW t \in Tasks
  PROVE  Resume(t) \in Nat \ {0}
<1>1. rows[t] \in Seq(Row)
  BY DEF SyncTypes, RowsInv
<1>2. CASE rows[t] = <<>>
  BY <1>2 DEF Resume
<1>3. CASE rows[t] # <<>>
  <2>1. rows[t][1] \in Row
    BY <1>1, <1>3
  <2> QED BY <1>3, <2>1 DEF Resume, Row
<1> QED BY <1>2, <1>3

\* A process that ends leaves locals of the right type.
LEMMA ForgetKeepsJobs ==
  ASSUME SyncTypes, NEW p \in Procs, Forget(p), NEW l \in Places, To(p, l), UNCHANGED used
  PROVE  JobsInv'
BY DEF SyncTypes, JobsInv, Forget, To, Verdicts, Places

\* run_enterprise_sync.
LEMMA RunStepTypes == SyncTypes /\ RunStep => SyncTypes'
<1> SUFFICES ASSUME SyncTypes, RunStep PROVE SyncTypes'
  OBVIOUS
<1> USE SyncAssumption DEF SyncTypes, RunInv, RowsInv, OrchInv, RestInv, Waiting, Active, Verdicts
<1>1. CASE PickUpRun
  BY <1>1 DEF PickUpRun, runVars, jobVars, finVars, history, JobsInv
<1>2. CASE MarkRunning
  BY <1>2 DEF MarkRunning, jobVars, finVars, history, JobsInv
<1>3. CASE NoConfigs
  BY <1>3 DEF NoConfigs, jobVars, finVars, history, JobsInv
<1>4. CASE RecordCount
  <2>1. Cardinality(sent) \in Nat
    BY FS_Subset, FS_CardinalityType
  <2> QED BY <1>4, <2>1 DEF RecordCount, jobVars, finVars, history, JobsInv
<1>5. CASE ZeroDispatch
  BY <1>5 DEF ZeroDispatch, jobVars, finVars, history, JobsInv
<1>6. ASSUME NEW t \in Tasks, Dispatch(t) PROVE SyncTypes'
  <2>1. pc' \in [Procs -> Places]
    BY <1>6 DEF Dispatch, To, JobsInv, Places
  <2>2. JobsInv'
    BY <1>6, <2>1 DEF Dispatch, JobsInv, finVars
  <2> QED BY <1>6, <2>2 DEF Dispatch, runVars, history
<1> QED BY <1>1, <1>2, <1>3, <1>4, <1>5, <1>6 DEF RunStep

\* sync_entity.
LEMMA EntityTypes ==
  ASSUME SyncTypes, NEW j \in Jobs,
         Begin(j) \/ StorePage(j) \/ Complete(j) \/ Retry(j) \/ EntityFails(j)
  PROVE  SyncTypes'
<1> USE SyncAssumption
<1>0. j \in Procs /\ j[1] \in Tasks
  BY DEF Jobs, Procs
<1>1. CASE Begin(j)
  <2>1. JobsInv'
    BY <1>0, <1>1, ResumeIsPage DEF Begin, To, SyncTypes, JobsInv, Places, Waiting, finVars
  <2> QED BY <1>1, <2>1
        DEF Begin, SyncTypes, RunInv, RowsInv, OrchInv, RestInv, runVars, orchVars, history
<1>2. CASE StorePage(j)
  <2> DEFINE last == page[j] = PageCount[j[1]]
             r == IF last THEN [st |-> "completed", cursor |-> 1]
                  ELSE [st |-> "in_progress", cursor |-> page[j] + 1]
  <2>1. page[j] \in Nat \ {0}
    BY <1>0 DEF SyncTypes, JobsInv
  <2>2. r \in Row
    BY <2>1 DEF Row
  <2>3. Upsert(j[1], r)
    BY <1>2 DEF StorePage
  <2>4. rows' \in [Tasks -> Seq(Row)]
    BY <1>0, <2>2, <2>3, UpsertKeepsRows
  <2>5. stored' \in [Tasks -> SUBSET (Nat \ {0})]
    BY <1>0, <1>2, <2>1 DEF StorePage, SyncTypes, RowsInv
  <2>6. JobsInv'
    BY <1>0, <1>2, <2>1 DEF StorePage, To, SyncTypes, JobsInv, Places, finVars
  <2> QED BY <1>2, <2>4, <2>5, <2>6
        DEF StorePage, SyncTypes, RunInv, RowsInv, OrchInv, RestInv, runVars, orchVars
<1>3. CASE Complete(j)
  <2>1. [st |-> "completed", cursor |-> page[j]] \in Row
    BY <1>0 DEF SyncTypes, JobsInv, Row
  <2>2. rows' \in [Tasks -> Seq(Row)]
    BY <1>0, <1>3, <2>1, UpsertKeepsRows DEF Complete
  <2>3. "check" \in Places
    BY DEF Places
  <2>4. JobsInv'
    BY <1>0, <1>3, <2>3, ForgetKeepsJobs DEF Complete
  <2> QED BY <1>3, <2>2, <2>4
        DEF Complete, SyncTypes, RunInv, RowsInv, OrchInv, RestInv, runVars, orchVars, history
<1>4. CASE Retry(j)
  <2>1. JobsInv'
    BY <1>0, <1>4 DEF Retry, To, SyncTypes, JobsInv, Places, Waiting, finVars
  <2> QED BY <1>4, <2>1
        DEF Retry, SyncTypes, RunInv, RowsInv, OrchInv, RestInv, runVars, orchVars, history
<1>5. CASE EntityFails(j)
  <2> DEFINE c == IF j[1] \notin NullOrg /\ rows[j[1]] # <<>> THEN rows[j[1]][1].cursor ELSE page[j]
  <2>1. c \in Nat \ {0}
    <3>1. page[j] \in Nat \ {0} /\ Resume(j[1]) \in Nat \ {0}
      BY <1>0, ResumeIsPage DEF SyncTypes, JobsInv
    <3> QED BY <3>1 DEF Resume
  <2> HIDE DEF c
  <2>2. [st |-> "failed", cursor |-> c] \in Row
    BY <2>1 DEF Row
  <2>3. Upsert(j[1], [st |-> "failed", cursor |-> c])
    BY <1>5 DEF EntityFails, c
  <2>4. rows' \in [Tasks -> Seq(Row)]
    BY <1>0, <2>2, <2>3, UpsertKeepsRows
  <2>5. "failing" \in Places
    BY DEF Places
  <2>6. JobsInv'
    BY <1>0, <1>5, <2>5, ForgetKeepsJobs DEF EntityFails
  <2> QED BY <1>5, <2>4, <2>6
        DEF EntityFails, SyncTypes, RunInv, RowsInv, OrchInv, RestInv, runVars, orchVars, history
<1> QED BY <1>1, <1>2, <1>3, <1>4, <1>5

\* _maybe_finalize_run.
LEMMA FinalizeTypes ==
  ASSUME SyncTypes, NEW p \in Procs, FinalizeStep(p)
  PROVE  SyncTypes'
<1>1. CASE CheckRun(p)
  <2>1. JobsInv'
    BY <1>1 DEF CheckRun, To, SyncTypes, RunInv, JobsInv, Places, Waiting
  <2> QED BY <1>1, <2>1
        DEF CheckRun, SyncTypes, RunInv, RowsInv, OrchInv, RestInv, runVars, orchVars, history
<1>2. CASE CheckRows(p)
  <2> DEFINE states == UNION {{rows[t][i].st : i \in DOMAIN rows[t]} : t \in Tasks}
             go == states # {} /\ Registered(RowCount, seen[p]) /\ "in_progress" \notin states
  <2> HIDE DEF states
  <2>1. JobsInv'
    <3>1. CASE go
      <4>1. /\ verdict' = [verdict EXCEPT ![p] = IF "failed" \in states THEN "failed" ELSE "completed"]
            /\ To(p, "claim") /\ UNCHANGED <<page, seen, used>>
        BY <1>2, <3>1 DEF CheckRows, states
      <4> QED BY <4>1 DEF To, SyncTypes, JobsInv, Places, Verdicts
    <3>2. CASE ~go
      <4>1. To(p, "done") /\ Forget(p) /\ UNCHANGED used
        BY <1>2, <3>2 DEF CheckRows, states
      <4> QED BY <4>1, ForgetKeepsJobs DEF Places, Waiting
    <3> QED BY <3>1, <3>2
  <2> QED BY <1>2, <2>1
        DEF CheckRows, SyncTypes, RunInv, RowsInv, OrchInv, RestInv, runVars, orchVars, history
<1>3. CASE Claim(p)
  <2>1. JobsInv'
    BY <1>3 DEF Claim, To, Forget, SyncTypes, JobsInv, Places, Waiting, Verdicts, finVars
  <2> QED BY <1>3, <2>1
        DEF Claim, SyncTypes, RunInv, RowsInv, OrchInv, RestInv, JobsInv, orchVars, history
<1>4. CASE DispatchPostSync(p)
  <2>1. JobsInv'
    BY <1>4 DEF DispatchPostSync, To, Forget, SyncTypes, JobsInv, Places, Waiting, Verdicts
  <2> QED BY <1>4, <2>1
        DEF DispatchPostSync, SyncTypes, RunInv, RowsInv, OrchInv, RestInv, runVars, orchVars
<1> QED BY <1>1, <1>2, <1>3, <1>4 DEF FinalizeStep

\* Cleanups, operators, recovery, and what is lost.
LEMMA OthersTypes ==
  ASSUME SyncTypes,
         \/ SeeStale \/ FailStaleCursors \/ Expire \/ RunFails \/ CrashRun
         \/ \E v \in Watchers : SeeActive(v) \/ WriteVerdict(v)
         \/ \E p \in Procs : TaskDies(p) \/ CrashTask(p)
  PROVE  SyncTypes'
<1> USE SyncAssumption
<1>1. CASE SeeStale
  <2>1. JobsInv'
    BY <1>1 DEF SeeStale, To, SyncTypes, JobsInv, Places, Procs, finVars
  <2> QED BY <1>1, <2>1
        DEF SeeStale, SyncTypes, RunInv, RowsInv, OrchInv, RestInv, runVars, orchVars, history
<1>2. CASE FailStaleCursors
  <2>1. JobsInv'
    BY <1>2 DEF FailStaleCursors, To, SyncTypes, JobsInv, Places, Procs, finVars
  <2>2. rows' \in [Tasks -> Seq(Row)]
    <3>1. ASSUME NEW t \in Tasks PROVE rows'[t] \in Seq(Row)
      <4>1. rows[t] \in Seq(Row)
        BY DEF SyncTypes, RowsInv
      <4>2. \A i \in 1..Len(rows[t]) : rows[t][i] \in Row
        BY <4>1
      <4>3. \A i \in 1..Len(rows[t]) : [rows[t][i] EXCEPT !.st = "failed"] \in Row
        BY <4>2 DEF Row
      <4>4. rows'[t] = [i \in 1..Len(rows[t]) |->
                          IF rows[t][i].st = "in_progress" THEN [rows[t][i] EXCEPT !.st = "failed"]
                          ELSE rows[t][i]]
        BY <1>2, <4>1 DEF FailStaleCursors
      <4>5. rows'[t] \in [1..Len(rows[t]) -> Row]
        BY <4>2, <4>3, <4>4
      <4> QED BY <4>1, <4>5
    <3> QED BY <1>2, <3>1 DEF FailStaleCursors
  <2> QED BY <1>2, <2>1, <2>2
        DEF FailStaleCursors, SyncTypes, RunInv, RowsInv, OrchInv, RestInv, runVars, orchVars, history
<1>3. CASE Expire
  BY <1>3 DEF Expire, SyncTypes, RunInv, RowsInv, OrchInv, JobsInv, RestInv, orchVars, jobVars,
              finVars, history, Verdicts
<1>4. CASE RunFails
  BY <1>4 DEF RunFails, SyncTypes, RunInv, RowsInv, OrchInv, JobsInv, RestInv, runVars, jobVars,
              finVars, history, Waiting, BusyOrch
<1>5. CASE CrashRun
  BY <1>5 DEF CrashRun, SyncTypes, RunInv, RowsInv, OrchInv, JobsInv, RestInv, runVars, jobVars,
              finVars, history, Waiting
<1>6. ASSUME NEW v \in Watchers, SeeActive(v) \/ WriteVerdict(v) PROVE SyncTypes'
  BY <1>6 DEF SeeActive, WriteVerdict, SyncTypes, RunInv, RowsInv, OrchInv, JobsInv, RestInv,
              runVars, orchVars, jobVars, finVars, history, Verdicts
<1>7. ASSUME NEW p \in Procs, TaskDies(p) \/ CrashTask(p) PROVE SyncTypes'
  <2>1. PICK l \in Places : To(p, l)
    BY <1>7 DEF TaskDies, CrashTask, Places, Waiting
  <2>2. Forget(p) /\ UNCHANGED used
    BY <1>7 DEF TaskDies, CrashTask
  <2>3. JobsInv'
    BY <2>1, <2>2, ForgetKeepsJobs
  <2>4. faults' = faults + 1 /\ faults < MaxFaults /\ UNCHANGED <<runVars, rows, orchVars, watch, history>>
    BY <1>7 DEF TaskDies, CrashTask
  <2> QED BY <2>3, <2>4
        DEF SyncTypes, RunInv, RowsInv, OrchInv, RestInv, runVars, orchVars, history
<1> QED BY <1>1, <1>2, <1>3, <1>4, <1>5, <1>6, <1>7

\* The types are inductive.
LEMMA StepTypes == SyncTypes /\ [Next]_vars => SyncTypes'
<1> SUFFICES ASSUME SyncTypes, [Next]_vars PROVE SyncTypes'
  OBVIOUS
<1>1. CASE UNCHANGED vars
  BY <1>1 DEF vars, SyncTypes, RunInv, RowsInv, OrchInv, JobsInv, RestInv, runVars, orchVars,
              jobVars, finVars, history
<1>2. CASE RunStep
  BY <1>2, RunStepTypes
<1>3. ASSUME NEW j \in Jobs, JobStep(j) \/ EntityFails(j) PROVE SyncTypes'
  BY <1>3, EntityTypes, FinalizeTypes DEF JobStep, Procs
<1>4. CASE FinalizeStep(Cleaner)
  BY <1>4, FinalizeTypes DEF Procs
<1>5. CASE \/ SeeStale \/ FailStaleCursors \/ Expire \/ RunFails \/ CrashRun
           \/ \E v \in Watchers : SeeActive(v) \/ WriteVerdict(v)
           \/ \E p \in Procs : TaskDies(p) \/ CrashTask(p)
  BY <1>5, OthersTypes
<1> QED BY <1>1, <1>2, <1>3, <1>4, <1>5 DEF Next

LEMMA InitTypes == Init => SyncTypes
BY SyncAssumption
   DEF Init, SyncTypes, RunInv, RowsInv, OrchInv, JobsInv, RestInv, Active, Verdicts, Waiting, Places
\* Types of the run, its cursors, the orchestrator (run_enterprise_sync), the
\* sync_entity tasks and whoever else writes the run, for any number of tasks,
\* pages, workers and retries; the orchestrator starts at most MaxFaults + 1 times.
THEOREM SyncTyping == Spec => []TypeOK
<1>1. SyncTypes => TypeOK
  BY SyncAssumption
     DEF SyncTypes, RunInv, RowsInv, OrchInv, JobsInv, RestInv, TypeOK, Starts, Places
<1> QED BY <1>1, InitTypes, StepTypes, PTL DEF Spec

-----------------------------------------------------------------------------
(* A verdict stands *)

\* Whoever may write the status: only the orchestrator and the watchers do so
\* over a verdict.
LEMMA StepKeepsVerdict ==
  ASSUME SyncTypes, [Next]_vars, status \in Verdicts, status' # status
  PROVE  orch' # orch \/ watch' # watch
<1> USE DEF Verdicts, Active
<1>0. ~UNCHANGED runVars
  BY DEF runVars
<1>1. CASE RunStep
  BY <1>0, <1>1 DEF RunStep, PickUpRun, MarkRunning, NoConfigs, RecordCount, ZeroDispatch, Dispatch
<1>2. ASSUME NEW j \in Jobs, JobStep(j) \/ EntityFails(j) PROVE FALSE
  BY <1>0, <1>2 DEF JobStep, FinalizeStep, Begin, StorePage, Complete, Retry, EntityFails,
                    CheckRun, CheckRows, Claim, DispatchPostSync
<1>3. CASE FinalizeStep(Cleaner)
  BY <1>0, <1>3 DEF FinalizeStep, CheckRun, CheckRows, Claim, DispatchPostSync
<1>4. CASE SeeStale \/ FailStaleCursors \/ Expire \/ RunFails \/ CrashRun
  BY <1>0, <1>4 DEF SeeStale, FailStaleCursors, Expire, RunFails, CrashRun
<1>5. ASSUME NEW v \in Watchers, SeeActive(v) \/ WriteVerdict(v) PROVE watch' # watch
  BY <1>5 DEF SeeActive, WriteVerdict, SyncTypes, RestInv
<1>6. ASSUME NEW p \in Procs, TaskDies(p) \/ CrashTask(p) PROVE FALSE
  BY <1>0, <1>6 DEF TaskDies, CrashTask
<1> QED BY <1>0, <1>1, <1>2, <1>3, <1>4, <1>5, <1>6 DEF Next, vars

\* The verdict of _maybe_finalize_run, of an expiry or of the operator is not
\* overturned by the tasks and cleanups still on their way: the conditional
\* UPDATE of _maybe_finalize_run finds no running row.
THEOREM VerdictsStand == Spec => VerdictStands
<1>1. SyncTypes /\ [Next]_vars
      => [(status \in Verdicts /\ status' # status) => (orch' # orch \/ watch' # watch)]_vars
  BY StepKeepsVerdict
<1> QED BY <1>1, InitTypes, StepTypes, PTL DEF Spec, VerdictStands
-----------------------------------------------------------------------------
(* One post-sync pipeline for each start *)

\* Each start is worth one dispatch: it is still in the running status, in the
\* hands of the task whose UPDATE took it, or spent.
Posting == {p \in Procs : pc[p] = "post"}
Running == IF status = "running" THEN 1 ELSE 0
PostInv == posts + Cardinality(Posting) + Running <= starts

LEMMA FinitePosting == IsFiniteSet(Posting) /\ Cardinality(Posting) \in Nat
<1>1. IsFiniteSet(Starts)
  BY SyncAssumption, FS_Interval DEF Starts
<1>2. IsFiniteSet(Procs)
  BY <1>1, SyncAssumption, FS_Product, FS_AddElement DEF Jobs, Procs
<1> QED BY <1>2, FS_Subset, FS_CardinalityType DEF Posting

\* A step that neither starts the run nor hands a start on.
LEMMA QuietKeepsPosts ==
  ASSUME SyncTypes, PostInv, Posting' \subseteq Posting, UNCHANGED <<posts, starts>>,
         status' = "running" => status = "running"
  PROVE  PostInv'
<1>1. Cardinality(Posting') <= Cardinality(Posting) /\ Cardinality(Posting') \in Nat
  BY FinitePosting, FS_Subset, FS_CardinalityType
<1> QED BY <1>1, FinitePosting DEF PostInv, Running, SyncTypes, OrchInv, RestInv

LEMMA ToKeepsPosting ==
  ASSUME SyncTypes, NEW p, NEW l, l # "post", To(p, l)
  PROVE  Posting' \subseteq Posting
BY DEF SyncTypes, JobsInv, To, Posting

\* The orchestrator and whoever writes the run from outside.
LEMMA RunKeepsPosts ==
  ASSUME SyncTypes, PostInv,
         RunStep \/ RunFails \/ CrashRun \/ Expire
         \/ \E v \in Watchers : SeeActive(v) \/ WriteVerdict(v)
  PROVE  PostInv'
<1>1. CASE MarkRunning
  <2>1. Posting' = Posting /\ posts' = posts /\ starts' = starts + 1
    BY <1>1 DEF MarkRunning, jobVars, history, Posting
  <2> QED BY <2>1, FinitePosting DEF PostInv, Running, SyncTypes, OrchInv, RestInv
<1>2. ASSUME NEW t \in Tasks, Dispatch(t) PROVE PostInv'
  <2>1. Posting' \subseteq Posting
    BY <1>2, ToKeepsPosting DEF Dispatch
  <2> QED BY <1>2, <2>1, QuietKeepsPosts DEF Dispatch, runVars, history
<1>3. CASE PickUpRun \/ NoConfigs \/ RecordCount \/ ZeroDispatch \/ RunFails \/ CrashRun \/ Expire
           \/ \E v \in Watchers : SeeActive(v) \/ WriteVerdict(v)
  <2>1. UNCHANGED <<pc, posts, starts>> /\ (status' = "running" => status = "running")
    BY <1>3 DEF PickUpRun, NoConfigs, RecordCount, ZeroDispatch, RunFails, CrashRun, Expire,
                SeeActive, WriteVerdict, runVars, orchVars, jobVars, history
  <2> QED BY <2>1, QuietKeepsPosts DEF Posting
<1> QED BY <1>1, <1>2, <1>3 DEF RunStep

\* _maybe_finalize_run: the UPDATE takes the running status, the dispatch spends it.
LEMMA FinalizeKeepsPosts ==
  ASSUME SyncTypes, PostInv, NEW p \in Procs, FinalizeStep(p)
  PROVE  PostInv'
<1>1. CASE CheckRun(p) \/ CheckRows(p)
  <2>1. UNCHANGED <<status, posts, starts>>
    BY <1>1 DEF CheckRun, CheckRows, runVars, orchVars, history
  <2>2. \E l \in {"rows", "done", "claim"} : To(p, l)
    BY <1>1 DEF CheckRun, CheckRows
  <2> QED BY <2>1, <2>2, ToKeepsPosting, QuietKeepsPosts
<1>2. CASE Claim(p)
  <2>1. UNCHANGED <<posts, starts>>
    BY <1>2 DEF Claim, orchVars, history
  <2>2. CASE status = "running"
    <3>1. status' # "running"
      BY <1>2, <2>2 DEF Claim, SyncTypes, JobsInv, Verdicts
    <3>2. PICK l : To(p, l)
      BY <1>2, <2>2 DEF Claim
    <3>3. Posting' \subseteq Posting \cup {p}
      BY <3>2 DEF To, Posting, SyncTypes, JobsInv
    <3>4. /\ IsFiniteSet(Posting \cup {p})
          /\ Cardinality(Posting \cup {p}) \in Nat
          /\ Cardinality(Posting \cup {p}) <= Cardinality(Posting) + 1
      BY FinitePosting, FS_AddElement, FS_CardinalityType
    <3>5. Cardinality(Posting') <= Cardinality(Posting \cup {p}) /\ Cardinality(Posting') \in Nat
      BY <3>3, <3>4, FS_Subset, FS_CardinalityType
    <3> QED BY <2>1, <2>2, <3>1, <3>4, <3>5, FinitePosting
          DEF PostInv, Running, SyncTypes, OrchInv, RestInv
  <2>3. CASE status # "running"
    <3>1. To(p, "done") /\ status' = status
      BY <1>2, <2>3 DEF Claim
    <3> QED BY <2>1, <3>1, ToKeepsPosting, QuietKeepsPosts
  <2> QED BY <2>2, <2>3
<1>3. CASE DispatchPostSync(p)
  <2>1. posts' = posts + 1 /\ UNCHANGED <<status, starts>> /\ p \in Posting
    BY <1>3 DEF DispatchPostSync, runVars, orchVars, Posting
  <2>2. Posting' = Posting \ {p}
    BY <1>3 DEF DispatchPostSync, To, Posting, SyncTypes, JobsInv
  <2>3. Cardinality(Posting') = Cardinality(Posting) - 1
    BY <2>1, <2>2, FinitePosting, FS_RemoveElement
  <2> QED BY <2>1, <2>3, FinitePosting DEF PostInv, Running, SyncTypes, OrchInv, RestInv
<1> QED BY <1>1, <1>2, <1>3 DEF FinalizeStep

\* The tasks that sync, the cleaner, and the processes that are lost.
LEMMA TasksKeepPosts ==
  ASSUME SyncTypes, PostInv,
         \/ \E j \in Jobs : Begin(j) \/ StorePage(j) \/ Complete(j) \/ Retry(j) \/ EntityFails(j)
         \/ SeeStale \/ FailStaleCursors
         \/ \E p \in Procs : TaskDies(p) \/ CrashTask(p)
  PROVE  PostInv'
<1>1. UNCHANGED <<status, posts, starts>>
  BY DEF Begin, StorePage, Complete, Retry, EntityFails, SeeStale, FailStaleCursors, TaskDies,
         CrashTask, runVars, orchVars, history
<1>2. UNCHANGED pc \/ \E p, l : l # "post" /\ To(p, l)
  <2>1. ASSUME NEW j \in Jobs,
               Begin(j) \/ StorePage(j) \/ Complete(j) \/ Retry(j) \/ EntityFails(j)
        PROVE  UNCHANGED pc
               \/ \E l \in {"dead", "page", "complete", "check", "queued", "failing"} : To(j, l)
    BY <2>1 DEF Begin, StorePage, Complete, Retry, EntityFails
  <2>2. ASSUME SeeStale \/ FailStaleCursors
        PROVE  \E l \in {"mark", "check"} : To(Cleaner, l)
    BY <2>2 DEF SeeStale, FailStaleCursors
  <2>3. ASSUME NEW p \in Procs, TaskDies(p) \/ CrashTask(p)
        PROVE  \E l \in {"dead", "idle", "queued"} : To(p, l)
    BY <2>3 DEF TaskDies, CrashTask
  <2> QED BY <2>1, <2>2, <2>3
<1>3. Posting' \subseteq Posting
  BY <1>2, ToKeepsPosting DEF Posting
<1> QED BY <1>1, <1>3, QuietKeepsPosts

LEMMA StepPosts == SyncTypes /\ PostInv /\ [Next]_vars => PostInv'
<1> SUFFICES ASSUME SyncTypes, PostInv, [Next]_vars PROVE PostInv'
  OBVIOUS
<1>1. CASE UNCHANGED vars
  BY <1>1 DEF vars, runVars, orchVars, jobVars, history, PostInv, Posting, Running
<1>2. CASE RunStep \/ RunFails \/ CrashRun \/ Expire
           \/ \E v \in Watchers : SeeActive(v) \/ WriteVerdict(v)
  BY <1>2, RunKeepsPosts
<1>3. CASE FinalizeStep(Cleaner) \/ \E j \in Jobs : FinalizeStep(j)
  BY <1>3, FinalizeKeepsPosts DEF Procs
<1>4. CASE \/ \E j \in Jobs : Begin(j) \/ StorePage(j) \/ Complete(j) \/ Retry(j) \/ EntityFails(j)
           \/ SeeStale \/ FailStaleCursors
           \/ \E p \in Procs : TaskDies(p) \/ CrashTask(p)
  BY <1>4, TasksKeepPosts
<1> QED BY <1>1, <1>2, <1>3, <1>4 DEF Next, JobStep

\* However many tasks find all cursors terminal, and whoever expires, cancels or
\* restarts the run meanwhile, _maybe_finalize_run dispatches the post-sync
\* pipeline at most once for each time run_enterprise_sync set the run running.
THEOREM PostSyncOnce == Spec => []OnePostSyncPerStart
<1>1. Init => PostInv
  <2> SUFFICES ASSUME Init PROVE PostInv
    OBVIOUS
  <2>1. Posting = {}
    BY DEF Init, Posting
  <2> QED BY <2>1, FS_EmptySet DEF Init, PostInv, Running
<1>2. SyncTypes /\ PostInv => OnePostSyncPerStart
  BY FinitePosting DEF PostInv, Running, SyncTypes, OrchInv, RestInv, OnePostSyncPerStart
<1> QED BY <1>1, <1>2, InitTypes, StepTypes, StepPosts, PTL DEF Spec
-----------------------------------------------------------------------------
(* A completed run is synced *)

AllStored(t) == stored[t] = 1..PageCount[t]
Before(n) == 1..(n - 1)

\* A cursor row has the pages before its cursor behind it, and a completed one all pages;
RowSays(t) ==
  rows[t] # <<>> =>
    /\ Before(rows[t][1].cursor) \subseteq stored[t]
    /\ rows[t][1].st = "completed" => AllStored(t)

\* so has the task that goes on from it;
JobSays(j) ==
  /\ pc[j] \in {"page", "complete"} => Before(page[j]) \subseteq stored[j[1]]
  /\ pc[j] = "complete" => AllStored(j[1])

\* and whoever concluded from all the rows that the run is complete was right.
Concluded(p) == pc[p] = "post" \/ (pc[p] = "claim" /\ verdict[p] = "completed")
VerdictSays(p) ==
  Concluded(p) /\ seen[p] = Cardinality(Tasks) => \A t \in Tasks : AllStored(t)

PagesInv == \A t \in Tasks : stored[t] \subseteq 1..PageCount[t] /\ Len(rows[t]) <= 1 /\ RowSays(t)
SyncedInv ==
  /\ PagesInv
  /\ \A j \in Jobs : JobSays(j)
  /\ \A p \in Procs : VerdictSays(p)

\* Pages are stored, never taken away, and only those there are.
Grows == \A t \in Tasks : stored[t] \subseteq stored'[t] /\ stored'[t] \subseteq 1..PageCount[t]

LEMMA AllStaysStored ==
  ASSUME Grows, NEW t \in Tasks, AllStored(t)
  PROVE  AllStored(t)'
BY DEF Grows, AllStored

\* A process that stays where it is, or goes elsewhere than to a page, a verdict ...
LEMMA OthersStaySure ==
  ASSUME SyncTypes, SyncedInv, Grows, UNCHANGED <<page, finVars>>, NEW p \in Procs, NEW l,
         To(p, l), l \notin {"page", "complete", "claim", "post"}
  PROVE  (\A j \in Jobs : JobSays(j)') /\ (\A q \in Procs : VerdictSays(q)')
<1>1. \A q \in Procs : pc'[q] = IF q = p THEN l ELSE pc[q]
  BY DEF To, SyncTypes, JobsInv
<1>2. \A j \in Jobs : JobSays(j)'
  <2> SUFFICES ASSUME NEW j \in Jobs PROVE JobSays(j)'
    OBVIOUS
  <2>1. j \in Procs /\ j[1] \in Tasks
    BY DEF Jobs, Procs
  <2>2. CASE j = p
    BY <1>1, <2>1, <2>2 DEF JobSays
  <2>3. CASE j # p
    BY <1>1, <2>1, <2>3, AllStaysStored DEF JobSays, SyncedInv, Grows
  <2> QED BY <2>2, <2>3
<1>3. \A q \in Procs : VerdictSays(q)'
  BY <1>1, AllStaysStored DEF VerdictSays, Concluded, SyncedInv, finVars
<1> QED BY <1>2, <1>3

\* ... or forgets its locals as it leaves.
LEMMA LeaversStaySure ==
  ASSUME SyncTypes, SyncedInv, Grows, NEW p \in Procs, NEW l,
         To(p, l), Forget(p), l \notin {"page", "complete", "claim", "post"}
  PROVE  (\A j \in Jobs : JobSays(j)') /\ (\A q \in Procs : VerdictSays(q)')
<1>1. \A q \in Procs : pc'[q] = IF q = p THEN l ELSE pc[q]
  BY DEF To, SyncTypes, JobsInv
<1>2. \A q \in Procs : q # p => page'[q] = page[q] /\ seen'[q] = seen[q] /\ verdict'[q] = verdict[q]
  BY DEF Forget, SyncTypes, JobsInv
<1>3. \A j \in Jobs : JobSays(j)'
  <2> SUFFICES ASSUME NEW j \in Jobs PROVE JobSays(j)'
    OBVIOUS
  <2>1. j \in Procs /\ j[1] \in Tasks
    BY DEF Jobs, Procs
  <2>2. CASE j = p
    BY <1>1, <2>1, <2>2 DEF JobSays
  <2>3. CASE j # p
    BY <1>1, <1>2, <2>1, <2>3, AllStaysStored DEF JobSays, SyncedInv, Grows
  <2> QED BY <2>2, <2>3
<1>4. \A q \in Procs : VerdictSays(q)'
  BY <1>1, <1>2, AllStaysStored DEF VerdictSays, Concluded, SyncedInv
<1> QED BY <1>3, <1>4

\* Steps that leave pages and rows alone.
LEMMA PagesKept ==
  ASSUME SyncedInv, UNCHANGED <<rows, stored>>
  PROVE  PagesInv' /\ Grows
BY DEF SyncedInv, PagesInv, RowSays, AllStored, Before, Grows

\* A row that is written says what it must, so all rows do.
LEMMA WritersAreSure ==
  ASSUME NullOrg = {}, SyncTypes, SyncedInv, Grows, NEW t \in Tasks, NEW r \in Row, Upsert(t, r),
         Before(r.cursor) \subseteq stored'[t], r.st = "completed" => AllStored(t)'
  PROVE  PagesInv'
<1>1. \A u \in Tasks : rows'[u] = IF u = t THEN <<r>> ELSE rows[u]
  BY DEF Upsert, SyncTypes, RowsInv
<1> SUFFICES ASSUME NEW u \in Tasks
             PROVE  stored'[u] \subseteq 1..PageCount[u] /\ Len(rows'[u]) <= 1 /\ RowSays(u)'
  BY DEF PagesInv
<1>2. CASE u = t
  <2>1. Len(<<r>>) = 1 /\ <<r>>[1] = r
    OBVIOUS
  <2>2. rows'[u] = <<r>> /\ rows'[u][1] = r /\ Len(rows'[u]) = 1
    BY <1>1, <1>2, <2>1
  <2>3. RowSays(u)'
    BY <1>2, <2>2 DEF RowSays, Before
  <2> QED BY <2>2, <2>3 DEF Grows
<1>3. CASE u # t
  <2>1. rows'[u] = rows[u] /\ RowSays(u) /\ Len(rows[u]) <= 1
    BY <1>1, <1>3 DEF SyncedInv, PagesInv
  <2>2. stored[u] \subseteq stored'[u] /\ stored'[u] \subseteq 1..PageCount[u]
    BY DEF Grows
  <2>3. RowSays(u)'
    BY <2>1, <2>2, AllStaysStored DEF RowSays, Before
  <2>4. Len(rows'[u]) <= 1
    BY <2>1
  <2> QED BY <2>2, <2>3, <2>4
<1> QED BY <1>2, <1>3

\* sync_entity: a page is stored behind the cursor that will name the next one.
LEMMA PageStaysSure ==
  ASSUME NullOrg = {}, SyncTypes, SyncedInv, NEW j \in Jobs, StorePage(j)
  PROVE  SyncedInv'
<1> DEFINE t == j[1]
           k == page[j]
           last == k = PageCount[t]
           r == IF last THEN [st |-> "completed", cursor |-> 1]
                ELSE [st |-> "in_progress", cursor |-> k + 1]
<1>1. /\ j \in Procs /\ t \in Tasks /\ k \in Nat \ {0} /\ PageCount[t] \in Nat
      /\ pc[j] = "page" /\ k <= PageCount[t]
  BY SyncAssumption DEF Jobs, Procs, StorePage, SyncTypes, JobsInv
<1>2. /\ stored' = [stored EXCEPT ![t] = @ \cup {k}] /\ Upsert(t, r)
      /\ UNCHANGED <<seen, verdict>>
  BY DEF StorePage, finVars
<1>3. Before(k) \subseteq stored[t] /\ stored[t] \subseteq 1..PageCount[t]
  BY <1>1 DEF SyncedInv, JobSays, PagesInv
<1>4. \A u \in Tasks : stored'[u] = IF u = t THEN stored[t] \cup {k} ELSE stored[u]
  BY <1>1, <1>2 DEF SyncTypes, RowsInv
<1>5. Grows
  BY <1>1, <1>3, <1>4 DEF Grows, SyncedInv, PagesInv
<1>6. Before(k + 1) \subseteq stored'[t]
  BY <1>1, <1>3, <1>4 DEF Before
<1>7. last => AllStored(t)'
  <2> SUFFICES ASSUME last PROVE stored'[t] = 1..PageCount[t]
    BY DEF AllStored
  <2>1. 1..PageCount[t] = Before(k) \cup {k}
    BY <1>1 DEF Before
  <2> QED BY <1>1, <1>3, <1>4, <2>1
<1>8. r \in Row
  BY <1>1 DEF Row
<1>9. Before(r.cursor) \subseteq stored'[t] /\ (r.st = "completed" => AllStored(t)')
  BY <1>6, <1>7 DEF Before
<1>10. PagesInv'
  <2> HIDE DEF r, t
  <2> QED BY <1>1, <1>2, <1>5, <1>8, <1>9, WritersAreSure
<1>11. \A q \in Procs : VerdictSays(q)'
  <2>1. \A q \in Procs : q # j => pc'[q] = pc[q]
    BY <1>1 DEF StorePage, To, SyncTypes, JobsInv
  <2>2. pc'[j] \in {"page", "complete"}
    BY <1>1 DEF StorePage, To, SyncTypes, JobsInv
  <2> QED BY <1>2, <1>5, <2>1, <2>2, AllStaysStored DEF VerdictSays, Concluded, SyncedInv
<1>12. \A i \in Jobs : JobSays(i)'
  <2> SUFFICES ASSUME NEW i \in Jobs PROVE JobSays(i)'
    OBVIOUS
  <2>0. i \in Procs /\ i[1] \in Tasks
    BY DEF Jobs, Procs
  <2>1. CASE i # j
    <3>1. pc'[i] = pc[i] /\ page'[i] = page[i]
      BY <1>1, <2>0, <2>1 DEF StorePage, To, SyncTypes, JobsInv
    <3>2. JobSays(i) /\ stored[i[1]] \subseteq stored'[i[1]]
      BY <1>5, <2>0 DEF SyncedInv, Grows
    <3> QED BY <1>5, <2>0, <3>1, <3>2, AllStaysStored DEF JobSays, Before
  <2>2. CASE i = j /\ last
    <3>1. pc'[j] = "complete" /\ page'[j] = k
      BY <1>1, <2>2 DEF StorePage, To, SyncTypes, JobsInv
    <3>2. Before(k) \subseteq stored'[t]
      BY <1>3, <1>4, <1>1
    <3> QED BY <1>7, <2>2, <3>1, <3>2 DEF JobSays, Before
  <2>3. CASE i = j /\ ~last
    <3>1. pc'[j] = "page" /\ page'[j] = k + 1
      BY <1>1, <2>3 DEF StorePage, SyncTypes, JobsInv
    <3> QED BY <1>6, <2>3, <3>1 DEF JobSays, Before
  <2> QED BY <2>1, <2>2, <2>3
<1> QED BY <1>10, <1>11, <1>12 DEF SyncedInv

\* A step that stores nothing.
LEMMA QuietGrows ==
  ASSUME SyncedInv, UNCHANGED stored
  PROVE  Grows
BY DEF Grows, SyncedInv, PagesInv

LEMMA EntityStaysSure ==
  ASSUME NullOrg = {}, SyncTypes, SyncedInv, NEW j \in Jobs,
         Begin(j) \/ Complete(j) \/ Retry(j) \/ EntityFails(j)
  PROVE  SyncedInv'
<1>0. j \in Procs /\ j[1] \in Tasks /\ page[j] \in Nat \ {0} /\ PageCount[j[1]] \in Nat
  BY SyncAssumption DEF Jobs, Procs, SyncTypes, JobsInv
<1>1. stored' = stored
  BY DEF Begin, Complete, Retry, EntityFails, history
<1>2. Grows
  BY <1>1, QuietGrows
<1>3. CASE Begin(j)
  <2>1. PagesInv'
    BY <1>1, <1>3, PagesKept DEF Begin
  <2>2. Len(rows[j[1]]) <= 1
    BY <1>0 DEF SyncedInv, PagesInv
  <2>3. pc'[j] = "page" /\ page'[j] = Resume(j[1])
    BY <1>0, <1>3, <2>2 DEF Begin, To, SyncTypes, JobsInv
  <2>4. \A q \in Procs : q # j => pc'[q] = pc[q] /\ page'[q] = page[q]
    BY <1>0, <1>3 DEF Begin, To, SyncTypes, JobsInv
  <2>5. Before(Resume(j[1])) \subseteq stored[j[1]]
    BY <1>0 DEF SyncedInv, PagesInv, RowSays, Resume, Before
  <2>6. \A i \in Jobs : JobSays(i)'
    <3> SUFFICES ASSUME NEW i \in Jobs PROVE JobSays(i)'
      OBVIOUS
    <3>1. CASE i = j
      BY <1>1, <2>3, <2>5, <3>1 DEF JobSays, Before
    <3>2. CASE i # j
      BY <1>1, <2>4, <3>2 DEF JobSays, Before, SyncedInv, AllStored, Procs
    <3> QED BY <3>1, <3>2
  <2>7. \A q \in Procs : VerdictSays(q)'
    BY <1>1, <1>3, <2>3, <2>4 DEF VerdictSays, Concluded, SyncedInv, AllStored, Begin, finVars
  <2> QED BY <2>1, <2>6, <2>7 DEF SyncedInv
<1>4. CASE Complete(j)
  <2> DEFINE r == [st |-> "completed", cursor |-> page[j]]
  <2>1. r \in Row /\ Upsert(j[1], r) /\ r.cursor = page[j]
    BY <1>0, <1>4 DEF Complete, Row
  <2>2. Before(page[j]) \subseteq stored[j[1]] /\ AllStored(j[1])
    <3>1. Before(page[j]) \subseteq stored[j[1]] /\ stored[j[1]] \subseteq 1..PageCount[j[1]]
      BY <1>0, <1>4 DEF Complete, SyncedInv, JobSays, PagesInv
    <3>2. CASE pc[j] = "complete"
      BY <3>1, <3>2 DEF SyncedInv, JobSays
    <3>3. CASE PageCount[j[1]] = 0
      BY <3>1, <3>3 DEF AllStored
    <3> QED BY <1>4, <3>1, <3>2, <3>3 DEF Complete
  <2>3. AllStored(j[1])'
    BY <1>0, <1>2, <2>2, AllStaysStored
  <2>4. PagesInv'
    <3>1. Before(r.cursor) \subseteq stored'[j[1]]
      BY <1>1, <2>1, <2>2
    <3> HIDE DEF r
    <3> QED BY <1>0, <1>2, <2>1, <2>3, <3>1, WritersAreSure
  <2> QED BY <1>0, <1>2, <1>4, <2>4, LeaversStaySure DEF Complete, SyncedInv
<1>5. CASE Retry(j)
  <2>1. PagesInv'
    BY <1>1, <1>5, PagesKept DEF Retry
  <2>2. \E l \in {"queued", "dead"} : To(j, l)
    BY <1>5 DEF Retry
  <2>3. UNCHANGED <<page, finVars>>
    BY <1>5 DEF Retry
  <2> QED BY <1>0, <1>2, <2>1, <2>2, <2>3, OthersStaySure DEF SyncedInv
<1>6. CASE EntityFails(j)
  <2> DEFINE c == IF j[1] \notin NullOrg /\ rows[j[1]] # <<>> THEN rows[j[1]][1].cursor ELSE page[j]
             r == [st |-> "failed", cursor |-> c]
  <2>1. c \in Nat \ {0} /\ Before(c) \subseteq stored[j[1]]
    <3>1. Before(page[j]) \subseteq stored[j[1]]
      BY <1>6 DEF EntityFails, SyncedInv, JobSays
    <3>2. rows[j[1]] # <<>> => Before(rows[j[1]][1].cursor) \subseteq stored[j[1]]
      BY <1>0 DEF SyncedInv, PagesInv, RowSays
    <3>3. Resume(j[1]) \in Nat \ {0}
      BY <1>0, ResumeIsPage
    <3> QED BY <1>0, <3>1, <3>2, <3>3 DEF Resume
  <2>2. Upsert(j[1], r)
    BY <1>6 DEF EntityFails
  <2> HIDE DEF c
  <2>3. r \in Row /\ r.cursor = c /\ r.st # "completed"
    BY <2>1 DEF Row
  <2> HIDE DEF r
  <2>4. PagesInv'
    <3>1. Before(r.cursor) \subseteq stored'[j[1]]
      BY <1>1, <2>1, <2>3
    <3> QED BY <1>0, <1>2, <2>2, <2>3, <3>1, WritersAreSure
  <2> QED BY <1>0, <1>2, <1>6, <2>4, LeaversStaySure DEF EntityFails, SyncedInv
<1> QED BY <1>3, <1>4, <1>5, <1>6

\* Guard 1 of _maybe_finalize_run: as many rows as tasks means a row of every task.
LEMMA AllRegistered ==
  ASSUME SyncTypes, PagesInv, RowCount >= Cardinality(Tasks), NEW t \in Tasks
  PROVE  rows[t] # <<>>
<1> SUFFICES ASSUME rows[t] = <<>> PROVE FALSE
  OBVIOUS
<1> DEFINE others == Tasks \ {t}
           pairs == UNION {{u} \X DOMAIN rows[u] : u \in Tasks}
<1>1. pairs \subseteq others \X {1}
  <2> SUFFICES ASSUME NEW u \in Tasks, NEW i \in DOMAIN rows[u] PROVE u # t /\ i = 1
    OBVIOUS
  <2>1. rows[u] \in Seq(Row) /\ Len(rows[u]) <= 1
    BY DEF SyncTypes, RowsInv, PagesInv
  <2> QED BY <2>1
<1>2. /\ IsFiniteSet(others) /\ Cardinality(others) = Cardinality(Tasks) - 1
      /\ Cardinality(Tasks) \in Nat
  BY SyncAssumption, FS_RemoveElement, FS_CardinalityType
<1>3. IsFiniteSet({1}) /\ Cardinality({1}) = 1
  BY FS_Singleton
<1>4. /\ IsFiniteSet(others \X {1})
      /\ Cardinality(others \X {1}) = Cardinality(others) * Cardinality({1})
  <2> HIDE DEF others
  <2> QED BY <1>2, <1>3, FS_Product
<1>5. Cardinality(pairs) <= Cardinality(others \X {1}) /\ Cardinality(pairs) \in Nat
  <2> HIDE DEF pairs, others
  <2> QED BY <1>1, <1>4, FS_Subset, FS_CardinalityType
<1>6. RowCount = Cardinality(pairs)
  BY DEF RowCount
<1> HIDE DEF pairs, others
<1> QED BY <1>2, <1>3, <1>4, <1>5, <1>6

\* _maybe_finalize_run.
LEMMA FinalizeStaysSure ==
  ASSUME NullOrg = {}, SyncTypes, SyncedInv, NEW p \in Procs, FinalizeStep(p)
  PROVE  SyncedInv'
<1>1. UNCHANGED <<rows, stored>>
  BY DEF FinalizeStep, CheckRun, CheckRows, Claim, DispatchPostSync, history
<1>2. PagesInv' /\ Grows
  BY <1>1, PagesKept
<1>3. ASSUME NEW l \in {"rows", "claim", "post"}, To(p, l), page' = page,
             \A q \in Procs : q # p => seen'[q] = seen[q] /\ verdict'[q] = verdict[q],
             VerdictSays(p)'
      PROVE  SyncedInv'
  <2>1. \A q \in Procs : pc'[q] = IF q = p THEN l ELSE pc[q]
    BY <1>3 DEF To, SyncTypes, JobsInv
  <2>2. \A j \in Jobs : JobSays(j)'
    BY <1>1, <1>3, <2>1 DEF JobSays, SyncedInv, Procs, Before, AllStored
  <2>3. \A q \in Procs : VerdictSays(q)'
    BY <1>1, <1>3, <2>1 DEF VerdictSays, Concluded, SyncedInv, AllStored
  <2> QED BY <1>2, <2>2, <2>3 DEF SyncedInv
<1>4. CASE CheckRun(p)
  <2>1. CASE status = "running"
    <3>1. To(p, "rows") /\ seen' = [seen EXCEPT ![p] = expected] /\ UNCHANGED <<page, verdict>>
      BY <1>4, <2>1 DEF CheckRun
    <3>2. pc'[p] = "rows"
      BY <3>1 DEF To, SyncTypes, JobsInv
    <3>3. VerdictSays(p)'
      BY <3>2 DEF VerdictSays, Concluded
    <3> QED BY <1>3, <3>1, <3>3 DEF SyncTypes, JobsInv
  <2>2. CASE status # "running"
    <3>1. To(p, "done") /\ UNCHANGED <<page, finVars>>
      BY <1>4, <2>2 DEF CheckRun, finVars
    <3> QED BY <1>2, <3>1, OthersStaySure DEF SyncedInv
  <2> QED BY <2>1, <2>2
<1>5. CASE CheckRows(p)
  <2> DEFINE states == UNION {{rows[t][i].st : i \in DOMAIN rows[t]} : t \in Tasks}
             go == states # {} /\ Registered(RowCount, seen[p]) /\ "in_progress" \notin states
             v == IF "failed" \in states THEN "failed" ELSE "completed"
  <2>1. CASE go
    <3>1. To(p, "claim") /\ verdict' = [verdict EXCEPT ![p] = v] /\ UNCHANGED <<page, seen>>
      <4> HIDE DEF states
      <4> QED BY <1>5, <2>1 DEF CheckRows, states
    <3>2. verdict'[p] = v /\ \A q \in Procs : q # p => seen'[q] = seen[q] /\ verdict'[q] = verdict[q]
      <4> HIDE DEF v
      <4> QED BY <3>1 DEF SyncTypes, JobsInv
    <3>3. ASSUME v = "completed", seen[p] = Cardinality(Tasks), NEW t \in Tasks
          PROVE  AllStored(t)
      <4>1. RowCount >= Cardinality(Tasks)
        <5>1. Cardinality(Tasks) \in Nat
          BY SyncAssumption, FS_CardinalityType
        <5>2. seen[p] # NoCount /\ Registered(RowCount, seen[p])
          BY <2>1, <3>3, <5>1, SyncAssumption
        <5> HIDE DEF v, states
        <5> QED BY <3>3, <5>2 DEF Registered
      <4>2. rows[t] # <<>>
        BY <4>1, AllRegistered DEF SyncedInv
      <4>3. rows[t] \in Seq(Row) /\ 1 \in DOMAIN rows[t] /\ rows[t][1] \in Row
        BY <4>2 DEF SyncTypes, RowsInv
      <4>4. rows[t][1].st \in states
        BY <4>3
      <4>5. rows[t][1].st = "completed"
        <5>1. "failed" \notin states
          BY <3>3
        <5> HIDE DEF states
        <5> QED BY <2>1, <4>3, <4>4, <5>1 DEF Row
      <4> QED BY <4>2, <4>5 DEF SyncedInv, PagesInv, RowSays
    <3>4. VerdictSays(p)'
      <4> HIDE DEF v
      <4>1. Concluded(p)' => v = "completed"
        <5>1. pc'[p] = "claim"
          BY <3>1 DEF To, SyncTypes, JobsInv
        <5> QED BY <3>2, <5>1 DEF Concluded
      <4> QED BY <1>1, <3>1, <3>3, <4>1 DEF VerdictSays, AllStored
    <3> QED BY <1>3, <3>1, <3>2, <3>4
  <2>2. CASE ~go
    <3>1. To(p, "done") /\ Forget(p)
      <4> HIDE DEF states
      <4> QED BY <1>5, <2>2 DEF CheckRows, states
    <3> QED BY <1>2, <3>1, LeaversStaySure DEF SyncedInv
  <2> QED BY <2>1, <2>2
<1>6. CASE Claim(p)
  <2>1. CASE status = "running" /\ verdict[p] = "completed"
    <3>1. To(p, "post") /\ pc[p] = "claim"
      BY <1>6, <2>1 DEF Claim
    <3>2. pc'[p] = "post"
      BY <3>1 DEF To, SyncTypes, JobsInv
    <3>3. UNCHANGED <<page, finVars>>
      BY <1>6, <3>2 DEF Claim
    <3>4. VerdictSays(p)'
      BY <1>1, <2>1, <3>1, <3>3 DEF VerdictSays, Concluded, SyncedInv, finVars, AllStored
    <3> QED BY <1>3, <3>1, <3>3, <3>4 DEF finVars
  <2>2. CASE ~(status = "running" /\ verdict[p] = "completed")
    <3>1. To(p, "done")
      BY <1>6, <2>2 DEF Claim
    <3>2. pc'[p] = "done"
      BY <3>1 DEF To, SyncTypes, JobsInv
    <3>3. Forget(p)
      BY <1>6, <3>2 DEF Claim
    <3> QED BY <1>2, <3>1, <3>3, LeaversStaySure DEF SyncedInv
  <2> QED BY <2>1, <2>2
<1>7. CASE DispatchPostSync(p)
  BY <1>2, <1>7, LeaversStaySure DEF DispatchPostSync, SyncedInv
<1> QED BY <1>4, <1>5, <1>6, <1>7 DEF FinalizeStep

\* Everyone else: a cleanup fails rows but keeps their cursors.
LEMMA OthersKeepSure ==
  ASSUME NullOrg = {}, SyncTypes, SyncedInv,
         \/ RunStep \/ SeeStale \/ FailStaleCursors \/ Expire \/ RunFails \/ CrashRun
         \/ \E v \in Watchers : SeeActive(v) \/ WriteVerdict(v)
         \/ \E p \in Procs : TaskDies(p) \/ CrashTask(p)
  PROVE  SyncedInv'
<1>0. UNCHANGED stored
  BY DEF RunStep, PickUpRun, MarkRunning, NoConfigs, RecordCount, ZeroDispatch, Dispatch, SeeStale,
         FailStaleCursors, Expire, RunFails, CrashRun, SeeActive, WriteVerdict, TaskDies, CrashTask,
         history
<1>1. Grows
  BY <1>0, QuietGrows
<1>2. ASSUME UNCHANGED <<rows, jobVars>> PROVE SyncedInv'
  BY <1>0, <1>1, <1>2, PagesKept
     DEF SyncedInv, JobSays, VerdictSays, Concluded, Before, AllStored, jobVars, finVars
<1>3. ASSUME NEW t \in Tasks, Dispatch(t) PROVE SyncedInv'
  <2>1. Starts = 1..MaxFaults + 1 /\ starts \in Starts
    BY <1>3, SyncAssumption DEF Dispatch, SyncTypes, OrchInv, Starts
  <2>2. <<t, starts>> \in Procs
    BY <2>1 DEF Jobs, Procs
  <2>3. To(<<t, starts>>, "queued") /\ UNCHANGED <<page, finVars, rows>>
    BY <1>3 DEF Dispatch
  <2> QED BY <1>0, <1>1, <2>2, <2>3, OthersStaySure, PagesKept DEF SyncedInv
<1>4. CASE SeeStale
  <2>1. To(Cleaner, "mark") /\ UNCHANGED <<page, finVars, rows>> /\ Cleaner \in Procs
    BY <1>4 DEF SeeStale, Procs
  <2> QED BY <1>0, <1>1, <2>1, OthersStaySure, PagesKept DEF SyncedInv
<1>5. CASE FailStaleCursors
  <2>1. To(Cleaner, "check") /\ UNCHANGED <<page, finVars>> /\ Cleaner \in Procs
    BY <1>5 DEF FailStaleCursors, Procs
  <2>2. ASSUME NEW t \in Tasks PROVE Len(rows'[t]) <= 1 /\ RowSays(t)'
    <3>1. rows[t] \in Seq(Row) /\ Len(rows[t]) <= 1 /\ RowSays(t)
      BY DEF SyncTypes, RowsInv, SyncedInv, PagesInv
    <3>2. rows'[t] = [i \in 1..Len(rows[t]) |->
                        IF rows[t][i].st = "in_progress" THEN [rows[t][i] EXCEPT !.st = "failed"]
                        ELSE rows[t][i]]
      BY <1>5, <3>1 DEF FailStaleCursors
    <3>3. \A i \in 1..Len(rows[t]) :
            /\ rows'[t][i].cursor = rows[t][i].cursor
            /\ rows'[t][i].st = "completed" => rows[t][i].st = "completed"
      <4>1. \A i \in 1..Len(rows[t]) : rows[t][i] \in Row
        BY <3>1
      <4> QED BY <3>2, <4>1 DEF Row
    <3>4. Len(rows'[t]) = Len(rows[t]) /\ rows'[t] \in Seq(Row)
      <4>1. rows'[t] \in Seq(Row)
        BY <1>5, OthersTypes DEF SyncTypes, RowsInv
      <4>2. DOMAIN rows'[t] = 1..Len(rows[t]) /\ Len(rows[t]) \in Nat
        BY <3>1, <3>2
      <4> QED BY <4>1, <4>2
    <3>5. CASE rows'[t] # <<>>
      <4>1. 1 \in 1..Len(rows[t]) /\ rows[t] # <<>>
        BY <3>1, <3>4, <3>5
      <4> QED BY <1>0, <3>1, <3>3, <3>4, <4>1 DEF RowSays, AllStored, Before
    <3> QED BY <3>1, <3>4, <3>5 DEF RowSays
  <2>3. PagesInv'
    BY <1>1, <2>2 DEF PagesInv, Grows
  <2> QED BY <1>1, <2>1, <2>3, OthersStaySure DEF SyncedInv
<1>6. ASSUME NEW p \in Procs, TaskDies(p) \/ CrashTask(p) PROVE SyncedInv'
  <2>1. UNCHANGED rows /\ Forget(p)
    BY <1>6 DEF TaskDies, CrashTask
  <2>2. \E l \in {"dead", "idle", "queued"} : To(p, l)
    BY <1>6 DEF TaskDies, CrashTask
  <2> QED BY <1>0, <1>1, <2>1, <2>2, LeaversStaySure, PagesKept DEF SyncedInv
<1>7. CASE \/ PickUpRun \/ MarkRunning \/ NoConfigs \/ RecordCount \/ ZeroDispatch
           \/ Expire \/ RunFails \/ CrashRun
           \/ \E v \in Watchers : SeeActive(v) \/ WriteVerdict(v)
  BY <1>2, <1>7 DEF PickUpRun, MarkRunning, NoConfigs, RecordCount, ZeroDispatch, Expire, RunFails,
                    CrashRun, SeeActive, WriteVerdict
<1> QED BY <1>3, <1>4, <1>5, <1>6, <1>7 DEF RunStep

LEMMA StepStaysSure == NullOrg = {} /\ SyncTypes /\ SyncedInv /\ [Next]_vars => SyncedInv'
<1> SUFFICES ASSUME NullOrg = {}, SyncTypes, SyncedInv, [Next]_vars PROVE SyncedInv'
  OBVIOUS
<1>1. CASE UNCHANGED vars
  BY <1>1 DEF vars, jobVars, finVars, history, SyncedInv, PagesInv, RowSays, JobSays, VerdictSays,
              Concluded, Before, AllStored
<1>2. ASSUME NEW j \in Jobs, JobStep(j) \/ EntityFails(j) PROVE SyncedInv'
  BY <1>2, PageStaysSure, EntityStaysSure, FinalizeStaysSure DEF JobStep, Procs
<1>3. CASE FinalizeStep(Cleaner)
  BY <1>3, FinalizeStaysSure DEF Procs
<1>4. CASE \/ RunStep \/ SeeStale \/ FailStaleCursors \/ Expire \/ RunFails \/ CrashRun
           \/ \E v \in Watchers : SeeActive(v) \/ WriteVerdict(v)
           \/ \E p \in Procs : TaskDies(p) \/ CrashTask(p)
  BY <1>4, OthersKeepSure
<1> QED BY <1>1, <1>2, <1>3, <1>4 DEF Next

\* Where every organisation has a name, _maybe_finalize_run completes a run
\* whose count it read as that of all tasks only when every page of every
\* task is stored, whatever is retried, delivered twice or failed by a
\* cleanup meanwhile.
THEOREM CompletedIsSynced == Spec => []CompletedMeansSynced
<1> DEFINE IInv == SyncTypes /\ (NullOrg = {} => SyncedInv)
<1>1. Init => IInv
  <2> SUFFICES ASSUME Init PROVE SyncedInv
    BY InitTypes
  <2>1. \A t \in Tasks : stored[t] = {} /\ rows[t] = <<>>
    BY DEF Init
  <2>2. PagesInv
    BY <2>1 DEF PagesInv, RowSays
  <2> QED BY <2>2 DEF Init, SyncedInv, JobSays, VerdictSays, Concluded, Jobs, Procs
<1>2. IInv /\ [Next]_vars => IInv'
  BY StepTypes, StepStaysSure
<1>3. IInv => CompletedMeansSynced
  BY DEF SyncedInv, VerdictSays, Concluded, AllStored, CompletedMeansSynced
<1> QED BY <1>1, <1>2, <1>3, PTL DEF Spec
-----------------------------------------------------------------------------
(* SourcePoller *)
(* Keys *)

\* A page has a lowest key: the object that is processed next.
LEMMA LowestIsLowest ==
  ASSUME NEW S, S \subseteq Nat, S # {}
  PROVE  Lowest(S) \in S /\ \A m \in S : Lowest(S) <= m
<1>1. PICK x \in S : \A y \in S : <<y, x>> \notin OpToRel(<, Nat)
  BY NatLessThanWellFounded, WFMin
<1>2. \A y \in S : ~(y < x)
  BY <1>1 DEF OpToRel
<1>3. \A y \in S : x <= y
  BY <1>2
<1> QED BY <1>3 DEF Lowest

\* A page has no hole: a key after the cursor that is not on it lies behind all of it.
LEMMA PageHasNoHole ==
  ASSUME NEW s \in Sources, NEW c \in Nat, listed[s] \subseteq Objects,
         NEW m \in PageAfter(s, c), NEW k \in listed[s], k <= m, k > c
  PROVE  k \in PageAfter(s, c)
<1> DEFINE after == {i \in listed[s] : i > c}
<1>0. LastObject \in Nat /\ PageSize \in Nat
  BY PollerAssumption
<1>1. IsFiniteSet(after) /\ after \subseteq Nat
  <2>1. IsFiniteSet(1..LastObject)
    BY <1>0, FS_Interval
  <2>2. after \subseteq 1..LastObject
    BY DEF Objects
  <2> HIDE DEF after
  <2>3. IsFiniteSet(after)
    BY <2>1, <2>2, FS_Subset
  <2> QED BY <2>2, <2>3
<1>2. m \in after /\ Cardinality({i \in after : i < m}) < PageSize /\ k \in after
  BY DEF PageAfter
<1>3. {i \in after : i < k} \subseteq {i \in after : i < m}
  BY <1>1, <1>2
<1>4. IsFiniteSet({i \in after : i < m})
  BY <1>1, FS_Subset
<1>5. /\ Cardinality({i \in after : i < k}) <= Cardinality({i \in after : i < m})
      /\ Cardinality({i \in after : i < k}) \in Nat /\ Cardinality({i \in after : i < m}) \in Nat
  BY <1>3, <1>4, FS_Subset, FS_CardinalityType
<1>6. Cardinality({i \in after : i < k}) < PageSize
  BY <1>0, <1>2, <1>5
<1> QED BY <1>2, <1>6 DEF PageAfter
-----------------------------------------------------------------------------
(* The invariant *)

PollPlaces == {"idle", "select", "locked", "next", "list", "object"}

\* Shapes of the shared state and of the locals of the processes.
ShapeInv ==
  /\ queue \in Seq(0..PollRetries) /\ retries \in [Pollers -> 0..PollRetries]
  /\ listed \in [Sources -> SUBSET Objects]
  /\ cursor \in [Sources -> 0..LastObject] /\ errs \in [Sources -> BOOLEAN]
  /\ taken \subseteq Sources \X Objects \X Nat
  /\ errors \in Nat /\ crashes \in Nat
LocalsInv ==
  /\ pollPc \in [Pollers -> PollPlaces] /\ src \in [Pollers -> Sources \cup {NoSource}]
  /\ DOMAIN todo = Pollers /\ unread \in [Pollers -> SUBSET Objects]
  /\ batch \in [Pollers -> Nat] /\ latest \in [Pollers -> 0..LastObject]

\* A row lock belongs to a session that is open.
LockInv == \A s \in lock : \E w \in Pollers : pollPc[w] = "locked" /\ s \in DOMAIN todo[w]

\* What is behind c in a source was ingested, or raised, or came late.
Handled(s, k) == Ingested(s, k) \/ <<s, k>> \in failed \cup late
Behind(s, c) == \A k \in listed[s] \ Markers : k <= c => Handled(s, k)
CursorInv == \A s \in Sources : Behind(s, cursor[s])

\* A poll works on the sources whose cursors it read, and nothing was missed
\* behind those cursors, whatever the cursors have become since.
ReadInv(w) ==
  /\ DOMAIN todo[w] \subseteq Sources
  /\ \A s \in DOMAIN todo[w] : todo[w][s] \in 0..LastObject /\ Behind(s, todo[w][s])
  /\ pollPc[w] \in {"list", "object"} => src[w] \in DOMAIN todo[w]
  /\ pollPc[w] # "object" => unread[w] = {} /\ batch[w] = 0

\* The page lies after the latest object, which lies after the cursor that was
\* read; only that cursor may name an object which is not there.
PageInv(w) ==
  pollPc[w] = "object" =>
    /\ unread[w] \subseteq listed[src[w]] /\ \A k \in unread[w] : k > latest[w]
    /\ latest[w] >= todo[w][src[w]]
    /\ latest[w] \in listed[src[w]] \/ latest[w] = todo[w][src[w]]

\* No object behind the latest one, or on or between those still to process, is missed.
PassedInv(w) ==
  pollPc[w] = "object" =>
    \A m \in unread[w] \cup {latest[w]} : \A k \in listed[src[w]] \ Markers :
      k <= m /\ k \notin unread[w] => Handled(src[w], k)

\* The batches of the current object so far.
BatchInv(w) ==
  pollPc[w] = "object" /\ unread[w] # {} =>
    \A b \in 1..batch[w] : <<src[w], Current(w), b>> \in taken

WorkerInv(w) == ReadInv(w) /\ PageInv(w) /\ PassedInv(w) /\ BatchInv(w)

PollInv ==
  ShapeInv /\ LocalsInv /\ LockInv /\ CursorInv /\ \A w \in Pollers : WorkerInv(w)
-----------------------------------------------------------------------------
(* What steps have in common *)

\* The histories only grow.
HistoriesGrow == taken \subseteq taken' /\ failed \subseteq failed' /\ late \subseteq late'

\* The locals of a process stay.
Same(w) ==
  /\ pollPc'[w] = pollPc[w] /\ todo'[w] = todo[w] /\ src'[w] = src[w]
  /\ unread'[w] = unread[w] /\ batch'[w] = batch[w] /\ latest'[w] = latest[w]

LEMMA HandledStays ==
  ASSUME HistoriesGrow, NEW s, NEW k, Handled(s, k)
  PROVE  Handled(s, k)'
BY DEF HistoriesGrow, Handled, Ingested

LEMMA BehindStays ==
  ASSUME HistoriesGrow, listed' = listed, NEW s, NEW c, Behind(s, c)
  PROVE  \A k \in listed'[s] \ Markers : k <= c => Handled(s, k)'
BY HandledStays DEF Behind

LEMMA CursorsStay ==
  ASSUME PollInv, HistoriesGrow, listed' = listed, cursor' = cursor
  PROVE  CursorInv'
BY BehindStays DEF PollInv, CursorInv, Behind

\* A process that does nothing is where it was.
LEMMA OthersStay ==
  ASSUME HistoriesGrow, listed' = listed, NEW w, Same(w), WorkerInv(w)
  PROVE  WorkerInv(w)'
<1> USE DEF WorkerInv, Same
<1>1. ReadInv(w)'
  BY BehindStays DEF ReadInv, Behind
<1>2. PageInv(w)'
  BY DEF PageInv
<1>3. PassedInv(w)'
  BY HandledStays DEF PassedInv
<1>4. BatchInv(w)'
  BY DEF BatchInv, Current, HistoriesGrow
<1> QED BY <1>1, <1>2, <1>3, <1>4
LEMMA AllWorkersKeep ==
  ASSUME PollInv, NEW w \in Pollers, HistoriesGrow, listed' = listed,
         \A v \in Pollers \ {w} : Same(v), WorkerInv(w)'
  PROVE  \A v \in Pollers : WorkerInv(v)'
<1> SUFFICES ASSUME NEW v \in Pollers, v # w PROVE WorkerInv(v)'
  OBVIOUS
<1> QED BY OthersStay DEF PollInv

\* A process without an open session has no part in the locks.
LEMMA LocksStay ==
  ASSUME PollInv, NEW w \in Pollers, lock' = lock, pollPc[w] # "locked",
         \A v \in Pollers \ {w} : Same(v)
  PROVE  LockInv'
<1> SUFFICES ASSUME NEW s \in lock PROVE \E v \in Pollers : pollPc'[v] = "locked" /\ s \in DOMAIN todo'[v]
  BY DEF LockInv
<1>1. PICK v \in Pollers : pollPc[v] = "locked" /\ s \in DOMAIN todo[v]
  BY DEF PollInv, LockInv
<1> QED BY <1>1 DEF Same

\* The locals of _poll_single_*_source go out of scope.
LEMMA LeavingKeeps ==
  ASSUME PollInv, NEW w \in Pollers, pollPc[w] # "locked", LeaveSource(w), HistoriesGrow,
         listed' = listed, lock' = lock
  PROVE  LocalsInv' /\ LockInv' /\ \A v \in Pollers : WorkerInv(v)'
<1> USE PollerAssumption DEF LeaveSource
<1>1. \A v \in Pollers \ {w} : Same(v)
  BY DEF PollInv, LocalsInv, Same
<1>2. LocalsInv'
  BY DEF PollInv, LocalsInv, PollPlaces
<1>3. WorkerInv(w)'
  <2>1. /\ pollPc'[w] = "next" /\ unread'[w] = {} /\ batch'[w] = 0
        /\ todo'[w] = [s \in DOMAIN todo[w] \ {src[w]} |-> todo[w][s]]
    BY DEF PollInv, LocalsInv
  <2>2. ReadInv(w)'
    BY <2>1, BehindStays DEF PollInv, WorkerInv, ReadInv, Behind
  <2> QED BY <2>1, <2>2 DEF WorkerInv, PageInv, PassedInv, BatchInv
<1>4. LockInv'
  BY <1>1, LocksStay
<1> QED BY <1>1, <1>2, <1>3, <1>4, AllWorkersKeep

\* The process stops working on its poll.
LEMMA AbandoningKeeps ==
  ASSUME PollInv, NEW w \in Pollers, Abandon(w), HistoriesGrow, listed' = listed
  PROVE  LocalsInv' /\ LockInv' /\ retries' \in [Pollers -> 0..PollRetries]
         /\ \A v \in Pollers : WorkerInv(v)'
<1> USE PollerAssumption DEF Abandon, Nothing
<1>1. \A v \in Pollers \ {w} : Same(v)
  BY DEF PollInv, LocalsInv, Same
<1>2. LocalsInv'
  BY DEF PollInv, LocalsInv, PollPlaces
<1>3. WorkerInv(w)'
  <2>1. pollPc'[w] = "idle" /\ unread'[w] = {} /\ batch'[w] = 0 /\ DOMAIN todo'[w] = {}
    BY DEF PollInv, LocalsInv
  <2> QED BY <2>1 DEF WorkerInv, ReadInv, PageInv, PassedInv, BatchInv
<1>4. LockInv'
  <2> SUFFICES ASSUME NEW s \in lock'
               PROVE  \E v \in Pollers : pollPc'[v] = "locked" /\ s \in DOMAIN todo'[v]
    BY DEF LockInv
  <2>1. PICK v \in Pollers : pollPc[v] = "locked" /\ s \in DOMAIN todo[v]
    BY DEF PollInv, LockInv
  <2>2. v # w
    BY <2>1
  <2> QED BY <1>1, <2>1, <2>2 DEF Same
<1>5. retries' \in [Pollers -> 0..PollRetries]
  BY DEF PollInv, ShapeInv
<1> QED BY <1>1, <1>2, <1>3, <1>4, <1>5, AllWorkersKeep
-----------------------------------------------------------------------------
(* Steps that have no part in the processes *)

LEMMA InitHolds == InitPoll => PollInv
<1> SUFFICES ASSUME InitPoll PROVE PollInv
  OBVIOUS
<1> USE PollerAssumption DEF InitPoll
<1>1. ShapeInv /\ LocalsInv /\ LockInv
  BY DEF ShapeInv, LocalsInv, LockInv, PollPlaces
<1>2. CursorInv
  BY DEF CursorInv, Behind
<1>3. \A w \in Pollers : WorkerInv(w)
  BY DEF WorkerInv, ReadInv, PageInv, PassedInv, BatchInv, Nothing
<1> QED BY <1>1, <1>2, <1>3 DEF PollInv

\* The beat.
LEMMA BeatKeeps == PollInv /\ Beat => PollInv'
<1> SUFFICES ASSUME PollInv, Beat PROVE PollInv'
  OBVIOUS
<1> USE DEF Beat, dbVars, workerVars
<1>1. HistoriesGrow /\ listed' = listed /\ cursor' = cursor /\ \A w \in Pollers : Same(w)
  BY DEF HistoriesGrow, Same
<1>2. ShapeInv'
  <2>1. 0 \in 0..PollRetries
    BY PollerAssumption
  <2> QED BY <2>1 DEF PollInv, ShapeInv
<1>3. LocalsInv' /\ LockInv'
  BY DEF PollInv, LocalsInv, LockInv
<1>4. CursorInv'
  BY <1>1, CursorsStay
<1>5. \A w \in Pollers : WorkerInv(w)'
  BY <1>1, OthersStay DEF PollInv
<1> QED BY <1>2, <1>3, <1>4, <1>5 DEF PollInv

\* An object that appears behind a cursor, a cursor that was read, or a listing is late.
LEMMA AppearKeeps ==
  ASSUME PollInv, NEW s \in Sources, NEW k \in Objects, Appear(s, k)
  PROVE  PollInv'
<1> USE DEF Appear, dbVars, workerVars
<1>1. HistoriesGrow
  BY DEF HistoriesGrow
<1>2. \A r \in Sources : listed'[r] = IF r = s THEN listed[s] \cup {k} ELSE listed[r]
  BY DEF PollInv, ShapeInv
<1>3. ShapeInv'
  BY DEF PollInv, ShapeInv
<1>4. LocalsInv' /\ LockInv'
  BY DEF PollInv, LocalsInv, LockInv
<1>5. ASSUME NEW r \in Sources, NEW c, Behind(r, c), r = s /\ k <= c => <<s, k>> \in late'
      PROVE  Behind(r, c)'
  BY <1>1, <1>2, <1>5, HandledStays DEF Behind, Handled
<1>6. CursorInv'
  <2> SUFFICES ASSUME NEW r \in Sources PROVE Behind(r, cursor[r])'
    BY DEF CursorInv
  <2>1. r = s /\ k <= cursor[r] => <<s, k>> \in late'
    OBVIOUS
  <2> QED BY <1>5, <2>1 DEF PollInv, CursorInv
<1>7. ASSUME NEW w \in Pollers PROVE WorkerInv(w)'
  <2>1. WorkerInv(w)
    BY DEF PollInv
  <2>2. ASSUME NEW r \in DOMAIN todo[w] PROVE Behind(r, todo[w][r])'
    <3>1. r = s /\ k <= todo[w][r] => <<s, k>> \in late'
      OBVIOUS
    <3> QED BY <1>5, <2>1, <2>2, <3>1 DEF WorkerInv, ReadInv
  <2>3. ReadInv(w)'
    BY <2>1, <2>2 DEF WorkerInv, ReadInv, Behind, Handled, Ingested
  <2>4. PageInv(w)'
    BY <1>2, <2>1 DEF WorkerInv, PageInv, ReadInv
  <2>5. PassedInv(w)'
    <3> SUFFICES ASSUME pollPc[w] = "object",
                        NEW m \in unread[w] \cup {latest[w]}, NEW i \in listed'[src[w]] \ Markers,
                        i <= m, i \notin unread[w]
                 PROVE  Handled(src[w], i)'
      BY DEF PassedInv
    <3>1. src[w] \in DOMAIN todo[w] /\ src[w] \in Sources
      BY <2>1 DEF WorkerInv, ReadInv
    <3>2. CASE i \in listed[src[w]]
      BY <1>1, <2>1, <3>2, HandledStays DEF WorkerInv, PassedInv
    <3>3. CASE i \notin listed[src[w]]
      <4>1. src[w] = s /\ i = k
        BY <1>2, <3>1, <3>3
      <4>2. CASE i = m
        <5>1. m = latest[w] /\ m = todo[w][src[w]]
          BY <2>1, <3>3, <4>2 DEF WorkerInv, PageInv
        <5>2. m \in 0..LastObject
          BY <2>1, <3>1, <5>1 DEF WorkerInv, ReadInv
        <5>3. <<s, k>> \in late'
          BY <3>1, <4>1, <4>2, <5>1, <5>2, PollerAssumption
        <5> QED BY <4>1, <5>3 DEF Handled
      <4>3. CASE i # m
        <5>1. m \in Int /\ i \in Int
          BY PollerAssumption, <4>1 DEF PollInv, LocalsInv, Objects
        <5>2. <<s, k>> \in late'
          BY <4>1, <4>3, <5>1
        <5> QED BY <4>1, <5>2 DEF Handled
      <4> QED BY <4>2, <4>3
    <3> QED BY <3>2, <3>3
  <2>6. BatchInv(w)'
    BY <2>1 DEF WorkerInv, BatchInv, Current
  <2> QED BY <2>3, <2>4, <2>5, <2>6 DEF WorkerInv
<1> QED BY <1>3, <1>4, <1>6, <1>7 DEF PollInv
-----------------------------------------------------------------------------
(* Steps of a poll: the session in which it reads the cursors *)

\* A poll begins, or goes on to its next source, or ends.
LEMMA TakingKeeps ==
  ASSUME PollInv, NEW w \in Pollers, PickUp(w) \/ NextSource(w)
  PROVE  PollInv'
<1> USE PollerAssumption DEF PickUp, NextSource, dbVars
<1>1. HistoriesGrow /\ listed' = listed /\ cursor' = cursor /\ \A v \in Pollers \ {w} : Same(v)
  BY DEF HistoriesGrow, Same, PollInv, LocalsInv
<1>2. ShapeInv'
  <2>1. queue \in Seq(0..PollRetries) /\ retries \in [Pollers -> 0..PollRetries]
        /\ 0 \in 0..PollRetries
    BY DEF PollInv, ShapeInv
  <2>2. CASE PickUp(w)
    <3>1. queue # <<>> /\ queue' = Tail(queue) /\ retries' = [retries EXCEPT ![w] = Head(queue)]
      BY <2>2
    <3>2. Head(queue) \in 0..PollRetries /\ Tail(queue) \in Seq(0..PollRetries)
      BY <2>1, <3>1
    <3> QED BY <2>1, <2>2, <3>1, <3>2 DEF PollInv, ShapeInv
  <2>3. CASE NextSource(w)
    <3>1. queue' = queue /\ retries' \in {retries, [retries EXCEPT ![w] = 0]}
      BY <2>3
    <3> QED BY <2>1, <2>3, <3>1 DEF PollInv, ShapeInv
  <2> QED BY <2>2, <2>3
<1>3. LocalsInv'
  <2>1. \A s \in DOMAIN todo[w] : s \in Sources
    BY DEF PollInv, WorkerInv, ReadInv
  <2> QED BY <2>1 DEF PollInv, LocalsInv, PollPlaces
<1>4. LockInv'
  BY <1>1, LocksStay
<1>5. CursorInv'
  BY <1>1, CursorsStay
<1>6. WorkerInv(w)'
  <2>1. /\ pollPc'[w] \in {"select", "idle", "list"} /\ UNCHANGED <<todo, unread, batch>>
        /\ unread[w] = {} /\ batch[w] = 0 /\ pollPc'[w] = "list" => src'[w] \in DOMAIN todo[w]
    BY DEF PollInv, LocalsInv, WorkerInv, ReadInv
  <2>2. ReadInv(w)'
    BY <1>1, <2>1, BehindStays DEF PollInv, WorkerInv, ReadInv, Behind
  <2> QED BY <2>1, <2>2 DEF WorkerInv, PageInv, PassedInv, BatchInv
<1> QED BY <1>1, <1>2, <1>3, <1>4, <1>5, <1>6, AllWorkersKeep DEF PollInv

\* SELECT ... FOR UPDATE SKIP LOCKED.
LEMMA SelectKeeps ==
  ASSUME PollInv, NEW w \in Pollers, Select(w)
  PROVE  PollInv'
<1> USE PollerAssumption DEF Select
<1>1. HistoriesGrow /\ listed' = listed /\ cursor' = cursor /\ \A v \in Pollers \ {w} : Same(v)
  BY DEF HistoriesGrow, Same, PollInv, LocalsInv
<1>2. ShapeInv'
  BY DEF PollInv, ShapeInv
<1>3. LocalsInv'
  BY DEF PollInv, LocalsInv, PollPlaces
<1>4. /\ pollPc'[w] = "locked" /\ todo'[w] = [s \in Sources \ lock |-> cursor[s]]
      /\ unread'[w] = {} /\ batch'[w] = 0
  BY DEF PollInv, LocalsInv, WorkerInv, ReadInv
<1>5. LockInv'
  <2> SUFFICES ASSUME NEW s \in Sources
               PROVE  \E v \in Pollers : pollPc'[v] = "locked" /\ s \in DOMAIN todo'[v]
    BY DEF LockInv
  <2>1. CASE s \notin lock
    BY <1>4, <2>1
  <2>2. CASE s \in lock
    <3>1. PICK v \in Pollers : pollPc[v] = "locked" /\ s \in DOMAIN todo[v]
      BY <2>2 DEF PollInv, LockInv
    <3>2. v # w
      BY <3>1
    <3> QED BY <1>1, <3>1, <3>2 DEF Same
  <2> QED BY <2>1, <2>2
<1>6. CursorInv'
  BY <1>1, CursorsStay
<1>7. WorkerInv(w)'
  <2>1. \A s \in Sources : cursor[s] \in 0..LastObject /\ Behind(s, cursor[s])'
    BY <1>1, BehindStays DEF PollInv, ShapeInv, CursorInv, Behind
  <2>2. ReadInv(w)'
    BY <1>4, <2>1 DEF ReadInv, Behind
  <2> QED BY <1>4, <2>2 DEF WorkerInv, PageInv, PassedInv, BatchInv
<1> QED BY <1>1, <1>2, <1>3, <1>5, <1>6, <1>7, AllWorkersKeep DEF PollInv

\* The session closes.
LEMMA UnlockKeeps ==
  ASSUME PollInv, NEW w \in Pollers, Unlock(w)
  PROVE  PollInv'
<1> USE DEF Unlock
<1>1. HistoriesGrow /\ listed' = listed /\ cursor' = cursor /\ \A v \in Pollers \ {w} : Same(v)
  BY DEF HistoriesGrow, Same, PollInv, LocalsInv
<1>2. ShapeInv'
  BY DEF PollInv, ShapeInv
<1>3. LocalsInv'
  BY DEF PollInv, LocalsInv, PollPlaces
<1>4. LockInv'
  <2> SUFFICES ASSUME NEW s \in lock \ DOMAIN todo[w]
               PROVE  \E v \in Pollers : pollPc'[v] = "locked" /\ s \in DOMAIN todo'[v]
    BY DEF LockInv
  <2>1. PICK v \in Pollers : pollPc[v] = "locked" /\ s \in DOMAIN todo[v]
    BY DEF PollInv, LockInv
  <2> QED BY <1>1, <2>1 DEF Same
<1>5. CursorInv'
  BY <1>1, CursorsStay
<1>6. WorkerInv(w)'
  <2>1. /\ pollPc'[w] = "next" /\ UNCHANGED <<todo, unread, batch>>
        /\ unread[w] = {} /\ batch[w] = 0
    BY DEF PollInv, LocalsInv, WorkerInv, ReadInv
  <2>2. ReadInv(w)'
    BY <1>1, <2>1, BehindStays DEF PollInv, WorkerInv, ReadInv, Behind
  <2> QED BY <2>1, <2>2 DEF WorkerInv, PageInv, PassedInv, BatchInv
<1> QED BY <1>1, <1>2, <1>3, <1>4, <1>5, <1>6, AllWorkersKeep DEF PollInv
-----------------------------------------------------------------------------
(* Steps of a poll: one source *)

\* list_objects_v2 / list_blobs.
LEMMA ListKeeps ==
  ASSUME PollInv, NEW w \in Pollers, List(w)
  PROVE  PollInv'
<1> DEFINE s == src[w]
           c == todo[w][s]
           p == PageAfter(s, c)
<1> USE DEF List, dbVars
<1>1. HistoriesGrow /\ listed' = listed /\ cursor' = cursor /\ lock' = lock /\ pollPc[w] = "list"
  BY DEF HistoriesGrow
<1>2. ShapeInv'
  BY DEF PollInv, ShapeInv
<1>3. CursorInv'
  BY <1>1, CursorsStay
<1>4. CASE p = {}
  BY <1>1, <1>2, <1>3, <1>4, LeavingKeeps DEF PollInv
<1>5. CASE p # {}
  <2>1. \A v \in Pollers \ {w} : Same(v)
    BY <1>5 DEF Same, PollInv, LocalsInv
  <2>2. /\ s \in DOMAIN todo[w] /\ s \in Sources /\ c \in 0..LastObject /\ Behind(s, c)
        /\ listed[s] \subseteq Objects
    BY <1>1 DEF PollInv, ShapeInv, WorkerInv, ReadInv
  <2>3. p \subseteq listed[s] /\ \A k \in p : k > c
    BY DEF PageAfter
  <2>4. LocalsInv'
    <3>1. p \subseteq Objects
      BY <2>2, <2>3
    <3> QED BY <1>5, <2>2, <3>1 DEF PollInv, LocalsInv, PollPlaces
  <2>5. /\ pollPc'[w] = "object" /\ unread'[w] = p /\ latest'[w] = c
        /\ src'[w] = s /\ todo' = todo /\ batch'[w] = batch[w]
    BY <1>5 DEF PollInv, LocalsInv
  <2> HIDE DEF p
  <2>6. ReadInv(w)'
    BY <1>1, <2>2, <2>5, BehindStays DEF PollInv, WorkerInv, ReadInv, Behind
  <2>7. PageInv(w)'
    BY <1>1, <2>2, <2>3, <2>5, PollerAssumption DEF PageInv
  <2>8. PassedInv(w)'
    <3> SUFFICES ASSUME NEW m \in p \cup {c}, NEW k \in listed[s] \ Markers, k <= m, k \notin p
                 PROVE  Handled(s, k)'
      BY <1>1, <2>5 DEF PassedInv
    <3>1. k <= c
      <4>1. CASE m = c
        BY <4>1
      <4>2. CASE m \in p
        <5>1. c \in Nat /\ k \in Int
          BY <2>2, PollerAssumption DEF Objects
        <5> QED BY <2>2, <4>2, <5>1, PageHasNoHole DEF p
      <4> QED BY <4>1, <4>2
    <3>2. Handled(s, k)
      BY <2>2, <3>1 DEF Behind
    <3> QED BY <1>1, <2>5, <3>2 DEF Handled, Ingested, HistoriesGrow
  <2>9. BatchInv(w)'
    <3>1. batch[w] = 0
      BY <1>1 DEF PollInv, WorkerInv, ReadInv
    <3> QED BY <2>5, <3>1 DEF BatchInv
  <2> QED BY <1>1, <1>2, <1>3, <2>1, <2>4, <2>6, <2>7, <2>8, <2>9, LocksStay, AllWorkersKeep
        DEF PollInv, WorkerInv
<1> QED BY <1>4, <1>5
\* What holds of a process at an object: the object is the lowest of its page.
LEMMA AtObject ==
  ASSUME PollInv, NEW w \in Pollers, pollPc[w] = "object"
  PROVE  /\ src[w] \in DOMAIN todo[w] /\ src[w] \in Sources
         /\ todo[w][src[w]] \in 0..LastObject /\ latest[w] \in 0..LastObject
         /\ unread[w] \subseteq listed[src[w]] /\ listed[src[w]] \subseteq Objects
         /\ unread[w] # {} =>
              /\ Current(w) \in unread[w] /\ \A m \in unread[w] : Current(w) <= m
              /\ Current(w) \in Objects /\ Current(w) > latest[w]
<1>1. /\ src[w] \in DOMAIN todo[w] /\ src[w] \in Sources
      /\ todo[w][src[w]] \in 0..LastObject /\ latest[w] \in 0..LastObject
  BY DEF PollInv, LocalsInv, WorkerInv, ReadInv
<1>2. /\ unread[w] \subseteq listed[src[w]] /\ \A k \in unread[w] : k > latest[w]
      /\ listed[src[w]] \subseteq Objects
  BY <1>1 DEF PollInv, ShapeInv, WorkerInv, PageInv
<1>3. unread[w] \subseteq Nat
  BY <1>2, PollerAssumption DEF Objects
<1>4. unread[w] # {} => Current(w) \in unread[w] /\ \A m \in unread[w] : Current(w) <= m
  BY <1>3, LowestIsLowest DEF Current
<1> QED BY <1>1, <1>2, <1>4

\* One ingest_batch.
LEMMA IngestKeeps ==
  ASSUME PollInv, NEW w \in Pollers, IngestBatch(w)
  PROVE  PollInv'
<1> USE DEF IngestBatch, dbVars
<1>1. /\ HistoriesGrow /\ listed' = listed /\ cursor' = cursor /\ lock' = lock /\ pollPc[w] = "object"
      /\ unread[w] # {}
  BY DEF HistoriesGrow
<1>2. \A v \in Pollers \ {w} : Same(v)
  BY DEF Same, PollInv, LocalsInv
<1>3. /\ src[w] \in Sources /\ Current(w) \in Objects /\ batch[w] \in Nat
  BY <1>1, AtObject DEF PollInv, LocalsInv
<1>4. ShapeInv' /\ LocalsInv'
  BY <1>3 DEF PollInv, ShapeInv, LocalsInv
<1>5. /\ UNCHANGED <<pollPc, src, todo, unread, latest>> /\ batch'[w] = batch[w] + 1
      /\ taken' = taken \cup {<<src[w], Current(w), batch[w] + 1>>}
  BY DEF PollInv, LocalsInv
<1>6. ReadInv(w)'
  BY <1>1, <1>5, BehindStays DEF PollInv, WorkerInv, ReadInv, Behind
<1>7. PageInv(w)' /\ PassedInv(w)'
  BY <1>1, <1>5, HandledStays DEF PollInv, WorkerInv, PageInv, PassedInv
<1>8. BatchInv(w)'
  <2> SUFFICES ASSUME NEW b \in 1..batch[w] + 1 PROVE <<src[w], Current(w), b>> \in taken'
    BY <1>5 DEF BatchInv, Current
  <2>1. b \in 1..batch[w] \/ b = batch[w] + 1
    BY <1>3
  <2> QED BY <1>1, <1>5, <2>1 DEF PollInv, WorkerInv, BatchInv
<1> QED BY <1>1, <1>2, <1>4, <1>6, <1>7, <1>8, LocksStay, CursorsStay, AllWorkersKeep
      DEF PollInv, WorkerInv

\* The current object leaves the page, handled; the latest object is what it was or this one.
LEMMA LeavingObjectKeeps ==
  ASSUME PollInv, NEW w \in Pollers, pollPc[w] = "object", unread[w] # {},
         NEW s, s = src[w], NEW k, k = Current(w), HistoriesGrow, UNCHANGED <<queue, listed, dbVars, pollPc, retries, todo, src>>,
         unread' = [unread EXCEPT ![w] = @ \ {k}],
         batch' = [batch EXCEPT ![w] = 0],
         latest' = latest \/ latest' = [latest EXCEPT ![w] = k],
         k \notin Markers => Handled(s, k)',
         taken' = taken, errors' \in Nat, UNCHANGED crashes
  PROVE  PollInv'
<1> USE DEF dbVars
<1>0. /\ src[w] \in DOMAIN todo[w] /\ src[w] \in Sources
      /\ unread[w] \subseteq listed[src[w]] /\ listed[src[w]] \subseteq Objects
      /\ k \in unread[w] /\ (\A m \in unread[w] : k <= m) /\ k \in Objects /\ k > latest[w]
      /\ latest[w] \in 0..LastObject /\ todo[w][src[w]] \in 0..LastObject
  BY AtObject
<1>1. \A v \in Pollers \ {w} : Same(v)
  BY DEF Same, PollInv, LocalsInv
<1>2. /\ unread'[w] = unread[w] \ {k} /\ batch'[w] = 0
      /\ latest'[w] = latest[w] \/ latest'[w] = k
  BY DEF PollInv, LocalsInv
<1>3. ShapeInv'
  BY DEF PollInv, ShapeInv
<1>4. LocalsInv'
  <2>1. k \in 0..LastObject /\ latest \in [Pollers -> 0..LastObject]
    BY <1>0, PollerAssumption DEF PollInv, LocalsInv, Objects
  <2>2. latest' \in [Pollers -> 0..LastObject]
    BY <2>1
  <2> QED BY <2>2 DEF PollInv, LocalsInv
<1>5. LockInv' /\ CursorInv'
  BY <1>1, LocksStay, CursorsStay
<1>6. ReadInv(w)'
  BY BehindStays DEF PollInv, WorkerInv, ReadInv, Behind
<1>7. PageInv(w)'
  <2>1. \A m \in unread[w] \ {k} : m > k
    BY <1>0, PollerAssumption DEF Objects
  <2>2. /\ \A m \in unread[w] : m > latest[w]
        /\ latest[w] >= todo[w][s]
        /\ latest[w] \in listed[s] \/ latest[w] = todo[w][s]
    BY DEF PollInv, WorkerInv, PageInv
  <2>3. k >= todo[w][s]
    BY <1>0, <2>2, PollerAssumption DEF Objects
  <2>4. /\ pollPc'[w] = "object" /\ src'[w] = s /\ todo'[w] = todo[w] /\ listed' = listed
        /\ unread'[w] \subseteq listed[s]
    BY <1>0, <1>2
  <2>5. CASE latest'[w] = latest[w]
    BY <1>2, <2>2, <2>4, <2>5 DEF PageInv
  <2>6. CASE latest'[w] = k
    BY <1>0, <1>2, <2>1, <2>3, <2>4, <2>6 DEF PageInv
  <2> QED BY <1>2, <2>5, <2>6
<1>8. PassedInv(w)'
  <2> SUFFICES ASSUME NEW m \in unread'[w] \cup {latest'[w]}, NEW i \in listed[s] \ Markers,
                      i <= m, i \notin unread[w] \ {k}
               PROVE  Handled(s, i)'
    BY <1>2 DEF PassedInv
  <2>1. m \in unread[w] \cup {latest[w]}
    BY <1>0, <1>2
  <2>2. CASE i = k
    BY <2>2
  <2>3. CASE i # k
    <3>1. Handled(s, i)
      BY <2>1, <2>3 DEF PollInv, WorkerInv, PassedInv
    <3> QED BY <3>1, HandledStays
  <2> QED BY <2>2, <2>3
<1>9. BatchInv(w)'
  BY <1>2 DEF BatchInv
<1> QED BY <1>1, <1>3, <1>4, <1>5, <1>6, <1>7, <1>8, <1>9, AllWorkersKeep DEF PollInv, WorkerInv

\* The object is done: all its batches went through, or it is a marker.
LEMMA ObjectDoneKeeps ==
  ASSUME PollInv, NEW w \in Pollers, ObjectDone(w)
  PROVE  PollInv'
<1> PICK s, k : s = src[w] /\ k = Current(w)
  OBVIOUS
<1>1. HistoriesGrow /\ UNCHANGED <<taken, failed, late>>
  BY DEF ObjectDone, HistoriesGrow
<1>2. k \notin Markers => Handled(s, k)
  <2> SUFFICES ASSUME k \notin Markers PROVE Ingested(s, k)
    BY DEF Handled
  <2>1. batch[w] = Batches[k] /\ pollPc[w] = "object" /\ unread[w] # {}
    BY DEF ObjectDone
  <2> QED BY <2>1 DEF PollInv, WorkerInv, BatchInv, Ingested
<1>3. k \notin Markers => Handled(s, k)'
  BY <1>1, <1>2, HandledStays
<1>4. latest' = latest \/ latest' = [latest EXCEPT ![w] = k]
  BY DEF ObjectDone, PollInv, LocalsInv
<1>5. errors' \in Nat
  BY DEF ObjectDone, PollInv, ShapeInv
<1> QED BY <1>1, <1>3, <1>4, <1>5, LeavingObjectKeeps DEF ObjectDone

\* The object raised and is passed over.
LEMMA ObjectFailsKeeps ==
  ASSUME PollInv, NEW w \in Pollers, ParseFails(w) \/ CallFails(w)
  PROVE  PollInv'
<1> PICK s, k : s = src[w] /\ k = Current(w)
  OBVIOUS
<1>1. ObjectFails(w) /\ pollPc[w] = "object" /\ unread[w] # {} /\ errors' \in {errors, errors + 1}
  BY DEF ParseFails, CallFails
<1>2. HistoriesGrow /\ errors' \in Nat
  BY <1>1 DEF ObjectFails, HistoriesGrow, PollInv, ShapeInv
<1>3. k \notin Markers => Handled(s, k)'
  BY <1>1 DEF ObjectFails, Handled
<1> QED BY <1>1, <1>2, <1>3, LeavingObjectKeeps DEF ObjectFails
\* The cursor moves to the latest object, or stays, whatever it has become meanwhile.
LEMMA SaveKeeps ==
  ASSUME PollInv, NEW w \in Pollers, SaveCursor(w)
  PROVE  PollInv'
<1>1. /\ HistoriesGrow /\ listed' = listed /\ lock' = lock /\ pollPc[w] = "object" /\ unread[w] = {}
      /\ LeaveSource(w)
  BY DEF SaveCursor, HistoriesGrow
<1>2. LocalsInv' /\ LockInv' /\ \A v \in Pollers : WorkerInv(v)'
  BY <1>1, LeavingKeeps
<1>3. src[w] \in Sources /\ latest[w] \in 0..LastObject
  BY <1>1, AtObject
<1>4. ShapeInv'
  BY <1>3 DEF SaveCursor, PollInv, ShapeInv
<1>5. CursorInv'
  <2> SUFFICES ASSUME NEW s \in Sources PROVE Behind(s, cursor[s])'
    BY DEF CursorInv
  <2>1. cursor'[s] = cursor[s] \/ (s = src[w] /\ cursor'[s] = latest[w])
    BY DEF SaveCursor, PollInv, ShapeInv
  <2>2. CASE cursor'[s] = cursor[s]
    BY <1>1, <2>2, BehindStays DEF PollInv, CursorInv, Behind
  <2>3. CASE s = src[w] /\ cursor'[s] = latest[w]
    <3>1. \A k \in listed[s] \ Markers : k <= latest[w] => Handled(s, k)
      BY <1>1, <2>3 DEF PollInv, WorkerInv, PassedInv
    <3> QED BY <1>1, <2>3, <3>1, HandledStays DEF Behind
  <2> QED BY <2>1, <2>2, <2>3
<1> QED BY <1>2, <1>4, <1>5 DEF PollInv

\* The listing or the UPDATE raises; the cursor stays.
LEMMA SourceFailsKeeps ==
  ASSUME PollInv, NEW w \in Pollers, SourceFails(w)
  PROVE  PollInv'
<1>1. /\ HistoriesGrow /\ listed' = listed /\ lock' = lock /\ cursor' = cursor /\ pollPc[w] # "locked"
      /\ LeaveSource(w)
  BY DEF SourceFails, HistoriesGrow
<1>2. ShapeInv'
  <2>1. errs \in [Sources -> BOOLEAN] /\ errs' = [errs EXCEPT ![src[w]] = TRUE]
    BY DEF SourceFails, PollInv, ShapeInv
  <2>2. errs' \in [Sources -> BOOLEAN]
    BY <2>1
  <2> QED BY <2>2 DEF SourceFails, PollInv, ShapeInv
<1> QED BY <1>1, <1>2, LeavingKeeps, CursorsStay DEF PollInv

\* The poll is retried or given up, or its process dies: its locals are lost.
LEMMA LosingKeeps ==
  ASSUME PollInv, NEW w \in Pollers, PollFails(w) \/ Crash(w)
  PROVE  PollInv'
<1>1. HistoriesGrow /\ listed' = listed /\ cursor' = cursor /\ Abandon(w)
  BY DEF PollFails, Crash, HistoriesGrow
<1>2. /\ LocalsInv' /\ LockInv' /\ retries' \in [Pollers -> 0..PollRetries]
      /\ \A v \in Pollers : WorkerInv(v)'
  BY <1>1, AbandoningKeeps
<1>3. queue' \in Seq(0..PollRetries)
  <2>1. queue \in Seq(0..PollRetries) /\ retries[w] \in 0..PollRetries
    BY DEF PollInv, ShapeInv
  <2>2. CASE PollFails(w)
    <3>1. retries[w] < PollRetries => retries[w] + 1 \in 0..PollRetries
      BY <2>1, PollerAssumption
    <3>2. retries[w] < PollRetries => Append(queue, retries[w] + 1) \in Seq(0..PollRetries)
      BY <2>1, <3>1
    <3> QED BY <2>1, <2>2, <3>2 DEF PollFails
  <2>3. CASE Crash(w)
    <3>1. <<retries[w]>> \in Seq(0..PollRetries)
      BY <2>1
    <3>2. <<retries[w]>> \o queue \in Seq(0..PollRetries)
      BY <2>1, <3>1, ConcatProperties
    <3> QED BY <2>3, <3>2 DEF Crash
  <2> QED BY <2>2, <2>3
<1>4. ShapeInv'
  BY <1>2, <1>3 DEF PollFails, Crash, PollInv, ShapeInv
<1> QED BY <1>1, <1>2, <1>4, CursorsStay DEF PollInv
-----------------------------------------------------------------------------
(* The theorems *)

LEMMA StepHolds == PollInv /\ [NextPoll]_pollVars => PollInv'
<1> SUFFICES ASSUME PollInv, [NextPoll]_pollVars PROVE PollInv'
  OBVIOUS
<1>1. CASE UNCHANGED pollVars
  <2> USE <1>1 DEF pollVars, dbVars, workerVars
  <2>1. HistoriesGrow /\ listed' = listed /\ cursor' = cursor /\ \A w \in Pollers : Same(w)
    BY DEF HistoriesGrow, Same
  <2>2. ShapeInv' /\ LocalsInv' /\ LockInv'
    BY DEF PollInv, ShapeInv, LocalsInv, LockInv
  <2>3. CursorInv' /\ \A w \in Pollers : WorkerInv(w)'
    BY <2>1, CursorsStay, OthersStay DEF PollInv
  <2> QED BY <2>2, <2>3 DEF PollInv
<1>2. CASE Beat
  BY <1>2, BeatKeeps
<1>3. ASSUME NEW s \in Sources, NEW k \in Objects, Appear(s, k) PROVE PollInv'
  BY <1>3, AppearKeeps
<1>4. ASSUME NEW w \in Pollers,
             PollStep(w) \/ CallFails(w) \/ SourceFails(w) \/ PollFails(w) \/ Crash(w)
      PROVE  PollInv'
  BY <1>4, TakingKeeps, SelectKeeps, UnlockKeeps, ListKeeps, IngestKeeps, ObjectDoneKeeps,
     ObjectFailsKeeps, SaveKeeps, SourceFailsKeeps, LosingKeeps DEF PollStep
<1> QED BY <1>1, <1>2, <1>3, <1>4 DEF NextPoll

\* Types of the queue, the cursors and the processes of poll_s3_sources and
\* poll_azure_sources, for any number of pollers, sources, keys and retries: a row
\* lock of the SELECT belongs to an open session, and the page a poll works on lies
\* behind the latest object, which lies behind the cursor it read.
THEOREM PollTyping == SpecPoll => []PollTypeOK
<1>1. PollInv => PollTypeOK
  BY DEF PollInv, ShapeInv, LocalsInv, LockInv, WorkerInv, ReadInv, PageInv, PollTypeOK, PollPlaces
<1> QED BY <1>1, InitHolds, StepHolds, PTL DEF SpecPoll

\* Whatever polls overlap, move the cursor back, are retried or lost (SaveCursor, the
\* unconditional UPDATE of ingestion_cursors), an object behind the cursor was
\* ingested whole unless it raised or appeared behind a cursor or a listing.
THEOREM NoGap == SpecPoll => []NoSilentGap
<1>1. PollInv => NoSilentGap
  BY DEF PollInv, CursorInv, Behind, Handled, NoSilentGap
<1> QED BY <1>1, InitHolds, StepHolds, PTL DEF SpecPoll
-----------------------------------------------------------------------------
(* The two side by side *)

\* A step of NextGather is a step of one module, and the other rests.
LEMMA EachGathers == SpecGather => Spec /\ SpecPoll
<1>1. InitGather => Init /\ InitPoll
  BY DEF InitGather
<1>2. UNCHANGED gatherVars => UNCHANGED vars /\ UNCHANGED pollVars
  BY DEF gatherVars
<1>3. [NextGather]_gatherVars => [Next]_vars /\ [NextPoll]_pollVars
  BY <1>2 DEF NextGather, SyncDoes, PollDoes
<1> QED BY <1>1, <1>3, PTL DEF SpecGather, Spec, SpecPoll

\* The runs, cursors, sources, tasks and processes of the GitHub sync and of the pollers
\* keep their types.
THEOREM GatherTypesStay == SpecGather => []GatherTypeOK
<1>1. TypeOK /\ PollTypeOK => GatherTypeOK
  BY DEF GatherTypeOK
<1> QED BY <1>1, EachGathers, SyncTyping, PollTyping, PTL
=============================================================================
