----------------------------- MODULE MCPipeline -----------------------------
(***************************************************************************)
(* The two ends of the event pipeline side by side: Ingest, and            *)
(* DetectionPipeline as D.  A behaviour runs one of them (`part`) while    *)
(* the other rests in its initial state, so that one run explores the sum  *)
(* of their state spaces; the pools share the worker processes.            *)
(***************************************************************************)
EXTENDS Ingest, TLC
CONSTANTS
  Parts,                           \* those that a run explores
  Batches, EventsOf, Rules, Kind, Matches, SeqSteps, Threshold, Window, Suppressed,
  NoDet, RunRetries, LastTick, MaxKills, MaxErrors, MaxTriage
VARIABLES
  part,
  clock, dTask, dRetries, dTries, dJob, dPc, tx, began, idx, hits, found, edits, ids,
  failed, goal, det, sent, written, lossy, dropped, kills, errors, triaged
-----------------------------------------------------------------------------
\* Ingest.  plain is an event known by its hash; it grants a collaborator and is
\* delivered by a message and by files.  tagged carries a _document_id and removes
\* that collaborator.  refused carries a role the table refuses, blank has no action.
MCEvents == {"plain", "tagged", "refused", "blank"}
MCDocs == {"h1", "h2", "h3", "h4", "g2"}
MCHash == [plain |-> "h1", tagged |-> "h2", refused |-> "h3", blank |-> "h4"]
MCDocumentId ==
  [plain |-> NoDoc, tagged |-> "g2", refused |-> NoDoc, blank |-> NoDoc]
MCBits == [h1 |-> {1, 2}, h2 |-> {2, 3}, h3 |-> {4}, h4 |-> {5}, g2 |-> {}]
MCAdds == [plain |-> {"k"}, tagged |-> {}, refused |-> {"k"}, blank |-> {}]
MCRemoves == [plain |-> {}, tagged |-> {"k"}, refused |-> {}, blank |-> {}]
MCDay == [plain |-> 1, tagged |-> 0, refused |-> 1, blank |-> 1]

\* A webhook message and a file that carries the same event among others.
MCBatch ==
  [m1 |-> <<"plain">>, f1 |-> <<"plain", "blank", "tagged", "plain", "refused">>]
MCMaxRetries == [m1 |-> 1, f1 |-> 0]

\* For the liveness run, two files that meet the same events in opposite orders:
\* their transactions wait for each other.
MCBatchCrossed ==
  [m1 |-> <<"refused">>, f1 |-> <<"plain", "tagged">>, f2 |-> <<"tagged", "plain">>]
MCMaxRetriesCrossed == [m1 |-> 1, f1 |-> 0, f2 |-> 0]

\* A file whose worker is killed once: no failure but the kill brings it back.
MCBatchKilled == [f1 |-> <<"plain">>]
MCMaxRetriesKilled == [f1 |-> 0]
-----------------------------------------------------------------------------
\* DetectionPipeline.  off disables a security feature and on, a little older,
\* enables it; both are by k1.  x is an unrelated event by k2.  ghas is the pattern
\* rule that reports off, burst counts the three, flip wants on and then off.
Found == {"off", "on", "x"}
KeyOfEvent == [off |-> "k1", on |-> "k1", x |-> "k2"]
OrgOfEvent == [e \in Found |-> "o"]
AtOfEvent == [off |-> 1, on |-> 0, x |-> 0]
NoIssue == "no issue"
OpensOfEvent == [off |-> "i", on |-> NoIssue, x |-> NoIssue]
RemediesOfEvent == [off |-> {}, on |-> {"i"}, x |-> {}]

MCRules == <<"ghas", "burst", "flip">>
MCKind == [ghas |-> "pattern", burst |-> "threshold", flip |-> "sequence"]
MCMatches == [ghas |-> {"off"}, burst |-> Found, flip |-> {"off", "on"}]
MCSeqSteps == [ghas |-> <<>>, burst |-> <<>>, flip |-> <<{"on"}, {"off"}>>]
MCThreshold == [ghas |-> 1, burst |-> 2, flip |-> 1]
MCWindow == [ghas |-> 1, burst |-> 1, flip |-> 1]

\* The two halves of a crossing arrive in two batches.
MCEventsOf == [t1 |-> {"off"}, t2 |-> {"on"}]

\* Both batches hit two keys at once, so that transactions lock two detections; a
\* second rule is suppressed for the key it hits.
MCEventsOfCrossed == [t1 |-> {"off", "x"}, t2 |-> {"on", "x"}]
MCRulesCrossed == <<"burst", "muted">>
MCThresholdCrossed == [burst |-> 1, muted |-> 1]
MCKindCrossed == [burst |-> "threshold", muted |-> "threshold"]
MCMatchesCrossed == [burst |-> Found, muted |-> {"x"}]
MCSeqStepsCrossed == [burst |-> <<>>, muted |-> <<>>]
MCWindowCrossed == [burst |-> 1, muted |-> 1]
MCSuppressed == {<<"muted", "k2">>}

D == INSTANCE DetectionPipeline WITH
  Tasks <- Batches, Events <- Found, Keys <- {"k1", "k2"}, Orgs <- {"o"},
  Issues <- {"i"}, Counted <- Matches,
  Key <- KeyOfEvent, Org <- OrgOfEvent, CreatedAt <- AtOfEvent,
  Opens <- OpensOfEvent, Remedies <- RemediesOfEvent,
  MaxRetries <- RunRetries, MaxCrashes <- MaxKills,
  task <- dTask, retries <- dRetries, tries <- dTries, job <- dJob, pc <- dPc,
  crashes <- kills

ASSUME DetectionParameters == D!DetectionAssumption
-----------------------------------------------------------------------------
detectionVars ==
  <<clock, dTask, dRetries, dTries, dJob, dPc, tx, began, idx, hits, found, edits, ids,
    failed, goal, det, sent, written, lossy, dropped, kills, errors, triaged>>

InitPipeline == part \in Parts /\ Init /\ D!Init

NextPipeline ==
  /\ UNCHANGED part
  /\ \/ part = "ingest" /\ Next /\ UNCHANGED detectionVars
     \/ part = "detection" /\ D!Next /\ UNCHANGED vars

pipelineVars == <<part, vars, detectionVars>>
SpecPipeline == InitPipeline /\ [][NextPipeline]_pipelineVars

\* The fairness of the two modules: a live pool process goes on.
PoolStep(w) ==
  /\ UNCHANGED part
  /\ \/ part = "ingest" /\ Step(w) /\ UNCHANGED detectionVars
     \/ part = "detection" /\ D!Step(w) /\ UNCHANGED vars
FairPipeline == SpecPipeline /\ \A w \in Workers : WF_pipelineVars(PoolStep(w))
-----------------------------------------------------------------------------
\* The types of both parts (rows of events, event_dedup, external_collaborators
\* and detections, queues, processes).
PipelineTypeOK == TypeOK /\ D!TypeOK

\* DetectionPipeline!DuplicatesBoundedByWorkers: find_existing_detection keeps the
\* active detections of a rule and key to one per process.
DetectionsBoundedByWorkers == D!DuplicatesBoundedByWorkers

\* DetectionPipeline!NoMissedCrossing: evaluate_threshold_rule misses no crossing.
NoMissedCrossing == D!NoMissedCrossing

\* DetectionPipeline!SentIsWritten: _run_pipeline publishes committed detections.
SentIsWritten == D!SentIsWritten

\* Every task published to the ingest queue, and every batch that reached the
\* detection queue, is eventually acknowledged or given up: ingest_batch and
\* run_detection_pipeline wait for each other's rows, deadlock, fail and retry, but
\* never for ever.
Settles == <>[](IF part = "ingest" THEN Settled ELSE D!Settled)

\* DetectionPipeline!SingleDetectionPerWindow (docs/api-and-detection-design.md:1569).
SingleDetectionPerWindow == D!SingleDetectionPerWindow

\* DetectionPipeline!RemedyFollowsIssue (detection_service.py:1858).
RemedyFollowsIssue == D!RemedyFollowsIssue

\* Bound: in one behaviour a call raises or an analyst comes between, not both.
OneDisturbance == errors + triaged <= 1

\* The processes of a pool are interchangeable.
MCSymmetry == Permutations(Workers)
=============================================================================
