------------------------------ MODULE MCGather ------------------------------
(***************************************************************************)
(* The two ways in which data is fetched: SyncRun asks the GitHub API,     *)
(* SourcePoller reads a bucket.  A behaviour runs one of them (`part`)     *)
(* while the other rests in its initial state, so that one run explores    *)
(* the sum of their state spaces.                                          *)
(***************************************************************************)
EXTENDS SyncRun, SourcePoller, TLC
CONSTANT Parts
VARIABLE part
-----------------------------------------------------------------------------
\* Two entity tasks: one has two pages, the other one page.
MCPageCount == ("repositories" :> 2) @@ ("teams" :> 1)
OnePage == ("installations" :> 1) @@ ("teams" :> 1)

\* One bucket, pages of two objects: 1 and 3 hold events (3 in two batches), 2 never
\* parses.
MCBatches == [k \in Objects |-> IF k = 3 THEN 2 ELSE 1]
-----------------------------------------------------------------------------
gatherVars == <<part, vars, pollVars>>
InitGather == part \in Parts /\ Init /\ InitPoll

SyncDoes(action) == part = "sync" /\ action /\ UNCHANGED <<part, pollVars>>
PollDoes(action) == part = "poll" /\ action /\ UNCHANGED <<part, vars>>

NextGather == SyncDoes(Next) \/ PollDoes(NextPoll)
SpecGather == InitGather /\ [][NextGather]_gatherVars

\* The fairness of the two modules.
FairGather ==
  /\ SpecGather
  /\ WF_gatherVars(SyncDoes(RunStep))
  /\ \A j \in Jobs : WF_gatherVars(SyncDoes(JobStep(j)))
  /\ WF_gatherVars(SyncDoes(FailStaleCursors \/ FinalizeStep(Cleaner)))
  /\ WF_gatherVars(PollDoes(Beat))
  /\ \A w \in Pollers : WF_gatherVars(PollDoes(PollStep(w)))
-----------------------------------------------------------------------------
\* The types of both parts (runs, cursor rows, tasks; queue, cursors, processes).
GatherTypeOK == TypeOK /\ PollTypeOK

\* What is under way comes to its end.  sync_entity and _maybe_finalize_run: a run in
\* which no task and no orchestrator was lost for good gets a verdict.
\* _poll_single_s3_source: an object that appears in order is ingested or logged as
\* failed, as long as no whole page raises; an overlapping poll may move the cursor
\* back, but only as far as a cursor that another poll had read.
Settles == <>[](IF part = "sync" THEN Settled ELSE AllHandled)
=============================================================================
