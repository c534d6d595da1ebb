------------------------- MODULE DetectionPipeline -------------------------
(***************************************************************************)
(* run_detection_pipeline_task (backend/app/workers/detection_worker.py    *)
(* and backend/app/services/detection_service.py): the events of a batch   *)
(* are evaluated against the active rules in one transaction, the          *)
(* transaction is committed, and the new detections are handed to the      *)
(* notification, SIEM and automation queues.  Analysts change the same     *)
(* rows through backend/app/routers/detections.py.                         *)
(*                                                                         *)
(* A worker stops between two SQL statements or broker calls.  What its    *)
(* transaction wrote is the overlay `edits`; the transaction itself is     *)
(* "open", or "aborted" after a failed statement (PostgreSQL refuses every *)
(* later one, and COMMIT rolls back without an error), or "broken" after a *)
(* failed flush or a lost connection (SQLAlchemy refuses the COMMIT too).  *)
(* Payloads are abstracted to what rules tell apart: which rule an event   *)
(* matches or is counted for, its aggregation key, its org, its creation   *)
(* time, and the posture issue it opens or remedies.                       *)
(***************************************************************************)
EXTENDS Integers, Sequences, FiniteSets

CONSTANTS
  Workers,      \* processes of the detection pool
  Tasks,        \* batches chained by the ingest workers
  Events, Keys, \* events, and values of the aggregation key (an actor)
  Orgs, Issues, \* organisations, and posture dedup_keys
  NoIssue, NoTask, NoDet,
  EventsOf,     \* task -> its event_ids
  Rules,        \* the active rules, in the order the query returned them
  Kind,         \* rule -> "pattern", "threshold" or "sequence"
  Matches,      \* rule -> events that pass event_matches_rule
  Counted,      \* rule -> events with one of its action_filters
  SeqSteps,     \* rule -> for each of its sequence_steps, the events with its action
  Threshold, Window,  \* rule -> threshold, time_window_minutes
  Key, Org, CreatedAt,\* event -> its actor, org and created_at
  Opens,        \* event -> the dedup_key its posture detection carries, or NoIssue
  Remedies,     \* event -> the dedup_keys that _REMEDIATION_MAP matches
  Suppressed,   \* {<<rule, key>>} that an active suppression covers
  MaxRetries,   \* of run_detection_pipeline_task
  LastTick,     \* bound: the last instant
  MaxCrashes, MaxErrors,  \* bounds: processes lost, calls that raise
  MaxTriage     \* bound: analyst changes

RuleNames == {Rules[i] : i \in 1..Len(Rules)}

\* A detection is named by the delivery that inserted it, the rule, and the event
\* (pattern) or the aggregation key (threshold, sequence) it was inserted for.
DetIds == [task : Tasks, try : Nat, rule : RuleNames, of : Events \cup Keys]

DetectionAssumption ==
  /\ IsFiniteSet(Workers) /\ IsFiniteSet(Events)
  /\ NoTask \notin Tasks /\ NoDet \notin DetIds
  /\ EventsOf \in [Tasks -> SUBSET Events]
  /\ Rules \in Seq(STRING)
  /\ \A i, j \in 1..Len(Rules) : Rules[i] = Rules[j] => i = j
  /\ Kind \in [RuleNames -> {"pattern", "threshold", "sequence"}]
  /\ Matches \in [RuleNames -> SUBSET Events]
  /\ Counted \in [RuleNames -> SUBSET Events]
  /\ \A r \in RuleNames : Matches[r] \subseteq Counted[r]
  /\ SeqSteps \in [RuleNames -> Seq(SUBSET Events)]
  /\ Threshold \in [RuleNames -> Nat \ {0}] /\ Window \in [RuleNames -> Nat]
  /\ Key \in [Events -> Keys] /\ Org \in [Events -> Orgs]
  /\ CreatedAt \in [Events -> Nat]
  /\ Opens \in [Events -> Issues \cup {NoIssue}]
  /\ Remedies \in [Events -> SUBSET Issues] /\ NoIssue \notin Issues
  /\ Suppressed \subseteq RuleNames \X Keys
  /\ {MaxRetries, LastTick, MaxCrashes, MaxErrors, MaxTriage} \subseteq Nat

VARIABLES
  clock,     \* the time of day
  task, retries, tries,  \* as in Ingest; a task is "unsent" until its rows commit
  \* a worker process
  job, pc,   \* the task it runs, and the statement or call it makes next
  tx,        \* its transaction: "none", "open", "aborted" or "broken"
  began,     \* NOW() of the transaction: the triggered_at of what it inserts
  idx,       \* index of the rule it evaluates
  hits,      \* hits of that rule not written yet
  found,     \* the hit it is writing, the detection find_existing_detection
             \* returned for it, and the event_ids read with it
  edits,     \* detections its transaction inserted or updated
  ids,       \* detection_ids
  failed,    \* failed_rules
  goal,      \* detections it is about to auto-resolve
  \* PostgreSQL, and the queues
  det,       \* committed rows of detections
  sent,      \* detection ids published to one of the queues
  \* history and bounds
  written,   \* ids of all rows ever committed
  lossy,     \* runs <<task, delivery>> whose COMMIT rolled back
  dropped,   \* rules that failed in a run that was acknowledged
  crashes, errors, triaged

brokerVars == <<task, retries, tries>>
workVars   == <<idx, hits, found, edits, ids, failed, goal>>
workerVars == <<job, pc, tx, began, workVars>>
histVars   == <<written, lossy, dropped>>
boundVars  == <<crashes, errors, triaged>>
vars == <<clock, brokerVars, workerVars, det, sent, histVars, boundVars>>

-----------------------------------------------------------------------------
KeyOf(d) == IF Kind[d.rule] = "pattern" THEN Key[d.of] ELSE d.of
IssueOf(d) == IF Kind[d.rule] = "pattern" THEN Opens[d.of] ELSE NoIssue
RunOf(d) == <<d.task, d.try>>

Statuses == {"open", "investigating", "resolved", "false_positive"}
Active == {"open", "investigating"}
Rows == [events : SUBSET Events, status : Statuses, at : Nat,
         by : {"", "system", "analyst"}, reopened : BOOLEAN]
Channels == {"notify", "siem", "automate"}

\* Events the ingest pipeline has committed.
stored == UNION {EventsOf[t] : t \in {u \in Tasks : task[u] # "unsent"}}

Nothing == [d \in {} |-> NoDet]
NotFound == [hit |-> NoDet, id |-> NoDet, events |-> {}]
Overlay(e, f) == [d \in DOMAIN e \cup DOMAIN f |-> IF d \in DOMAIN e THEN e[d] ELSE f[d]]

Init ==
  /\ clock = 0
  /\ task = [t \in Tasks |-> "unsent"]
  /\ retries = [t \in Tasks |-> 0] /\ tries = [t \in Tasks |-> 0]
  /\ job = [w \in Workers |-> NoTask] /\ pc = [w \in Workers |-> "idle"]
  /\ tx = [w \in Workers |-> "none"] /\ began = [w \in Workers |-> 0]
  /\ idx = [w \in Workers |-> 0] /\ hits = [w \in Workers |-> {}]
  /\ found = [w \in Workers |-> NotFound]
  /\ edits = [w \in Workers |-> Nothing]
  /\ ids = [w \in Workers |-> {}] /\ failed = [w \in Workers |-> {}]
  /\ goal = [w \in Workers |-> {}]
  /\ det = Nothing /\ sent = {}
  /\ written = {} /\ lossy = {} /\ dropped = {}
  /\ crashes = 0 /\ errors = 0 /\ triaged = 0

-----------------------------------------------------------------------------
Tick ==
  /\ clock < LastTick
  /\ clock' = clock + 1
  /\ UNCHANGED <<brokerVars, workerVars, det, sent, histVars, boundVars>>

\* External, the ingest workers: a batch commits its rows and chains its task.
Arrive(t) ==
  /\ task[t] = "unsent"
  /\ \A e \in EventsOf[t] : CreatedAt[e] <= clock
  /\ task' = [task EXCEPT ![t] = "queued"]
  /\ UNCHANGED <<clock, retries, tries, workerVars, det, sent, histVars, boundVars>>

PickUp(w, t) ==
  /\ pc[w] = "idle" /\ task[t] = "queued"
  /\ task' = [task EXCEPT ![t] = "running"]
  /\ tries' = [tries EXCEPT ![t] = @ + 1]
  /\ job' = [job EXCEPT ![w] = t]
  /\ pc' = [pc EXCEPT ![w] = "fetch"]
  /\ UNCHANGED <<clock, retries, tx, began, workVars, det, sent, histVars, boundVars>>

\* The call is over and its locals are gone.
Leave(w) ==
  /\ job' = [job EXCEPT ![w] = NoTask]
  /\ pc' = [pc EXCEPT ![w] = "idle"]
  /\ tx' = [tx EXCEPT ![w] = "none"]
  /\ began' = [began EXCEPT ![w] = 0]
  /\ idx' = [idx EXCEPT ![w] = 0]
  /\ hits' = [hits EXCEPT ![w] = {}]
  /\ found' = [found EXCEPT ![w] = NotFound]
  /\ edits' = [edits EXCEPT ![w] = Nothing]
  /\ ids' = [ids EXCEPT ![w] = {}]
  /\ failed' = [failed EXCEPT ![w] = {}]
  /\ goal' = [goal EXCEPT ![w] = {}]

\* The transaction begins with the SELECTs of the events of the batch and of the
\* active rules; without a rule it is over.
Fetch(w) ==
  /\ pc[w] = "fetch"
  /\ pc' = [pc EXCEPT ![w] = IF Rules = <<>> THEN "commit" ELSE "rule"]
  /\ tx' = [tx EXCEPT ![w] = "open"]
  /\ began' = [began EXCEPT ![w] = clock]
  /\ idx' = [idx EXCEPT ![w] = 1]
  /\ UNCHANGED <<clock, brokerVars, job, hits, found, edits, ids, failed, goal,
                 det, sent, histVars, boundVars>>

-----------------------------------------------------------------------------
\* What a statement of w reads: committed rows under those it wrote itself.
Seen(w) == Overlay(edits[w], det)
NewId(w, x) == [task |-> job[w], try |-> tries[job[w]], rule |-> Rules[idx[w]], of |-> x]

Matching(w) == EventsOf[job[w]] \cap Matches[Rules[idx[w]]]
InWindow(r, at) == at >= clock - Window[r]

\* Fault: only the events of the batch are counted.
CountBatch(w, r, k) ==
  Cardinality({e \in EventsOf[job[w]] \cap Counted[r] : Key[e] = k /\ InWindow(r, CreatedAt[e])})

\* SELECT group_col, COUNT(*) FROM events: rows with the actions of the rule, in
\* its window, in one of the orgs of the batch.
Count(w, r, k) ==
  Cardinality({e \in stored \cap Counted[r] :
    Key[e] = k /\ InWindow(r, CreatedAt[e]) /\ Org[e] \in {Org[f] : f \in EventsOf[job[w]]}})

\* The rows that match the steps of a sequence rule, in chronological order.
Sequences(r, k) ==
  {s \in [1..Len(SeqSteps[r]) -> stored] :
    /\ \A i \in DOMAIN s : s[i] \in SeqSteps[r][i] /\ Key[s[i]] = k /\ InWindow(r, CreatedAt[s[i]])
    /\ \A i, j \in DOMAIN s : i < j => s[i] # s[j] /\ CreatedAt[s[i]] <= CreatedAt[s[j]]}

\* event_matches_rule over the batch, and the counting query of a threshold rule.
HitsOf(w, r) ==
  CASE Kind[r] = "pattern"   -> Matching(w)
    [] Kind[r] = "threshold" -> {k \in {Key[e] : e \in Matching(w)} : Count(w, r, k) >= Threshold[r]}
    [] Kind[r] = "sequence"  -> {Key[e] : e \in Matching(w)}

\* The loop goes on with the next rule; after the last one comes
\* _auto_resolve_from_events.
NextRule(w) ==
  /\ idx' = [idx EXCEPT ![w] = @ + 1]
  /\ hits' = [hits EXCEPT ![w] = {}]
  /\ found' = [found EXCEPT ![w] = NotFound]
  /\ pc' = [pc EXCEPT ![w] = IF idx[w] = Len(Rules) THEN "remedies" ELSE "rule"]

Evaluate(w) ==
  /\ pc[w] = "rule" /\ tx[w] = "open"
  /\ IF HitsOf(w, Rules[idx[w]]) = {}
     THEN NextRule(w)
     ELSE /\ hits' = [hits EXCEPT ![w] = HitsOf(w, Rules[idx[w]])]
          /\ pc' = [pc EXCEPT ![w] = "find"]
          /\ UNCHANGED <<idx, found>>
  /\ UNCHANGED <<clock, brokerVars, job, tx, began, edits, ids, failed, goal,
                 det, sent, histVars, boundVars>>

\* The hit h is dealt with; after the last one of the rule comes the next rule.
HitDone(w, h) ==
  IF hits[w] = {h}
  THEN NextRule(w)
  ELSE /\ hits' = [hits EXCEPT ![w] = @ \ {h}]
       /\ found' = [found EXCEPT ![w] = NotFound]
       /\ pc' = [pc EXCEPT ![w] = "find"]
       /\ UNCHANGED idx

\* `except Exception` in the rule loop: the rule is added to failed_rules.
RuleFails(w) ==
  /\ failed' = [failed EXCEPT ![w] = @ \cup {Rules[idx[w]]}]
  /\ NextRule(w)

HitKey(r, h) == IF Kind[r] = "pattern" THEN Key[h] ELSE h

\* Fault: the comparison with the cutoff is the wrong way round.
ExistingBeforeCutoff(w, r, k) ==
  {d \in DOMAIN Seen(w) :
    /\ Kind[r] # "pattern" /\ d.rule = r /\ KeyOf(d) = k
    /\ Seen(w)[d].status \in Active /\ ~InWindow(r, Seen(w)[d].at)}

\* find_existing_detection: active, and triggered inside the window.  Pattern
\* rules do not look for one.
Existing(w, r, k) ==
  {d \in DOMAIN Seen(w) :
    /\ Kind[r] # "pattern" /\ d.rule = r /\ KeyOf(d) = k
    /\ Seen(w)[d].status \in Active /\ InWindow(r, Seen(w)[d].at)}

\* A hit that ends without a write: an active suppression covers it, or it is a
\* sequence that is incomplete or already has its detection.
NothingToWrite(w, r, h) ==
  \/ <<r, HitKey(r, h)>> \in Suppressed
  \/ /\ Kind[r] = "sequence"
     /\ \/ Sequences(r, h) = {}
        \/ Cardinality(Existing(w, r, h)) = 1

\* scalar_one_or_none raises MultipleResultsFound: no statement has failed, only
\* the rule.
Ambiguous(w, r, h) == Cardinality(Existing(w, r, HitKey(r, h))) > 1

\* check_suppression, find_existing_detection, and resolve_severity.
Find(w) ==
  LET r == Rules[idx[w]] IN
  /\ pc[w] = "find" /\ tx[w] = "open"
  /\ \E h \in hits[w] :
       \/ NothingToWrite(w, r, h) /\ HitDone(w, h) /\ UNCHANGED failed
       \/ ~NothingToWrite(w, r, h) /\ Ambiguous(w, r, h) /\ RuleFails(w)
       \/ /\ ~NothingToWrite(w, r, h) /\ ~Ambiguous(w, r, h)
          /\ \/ /\ Existing(w, r, HitKey(r, h)) = {}
                /\ \E evs \in CASE Kind[r] = "pattern"   -> {{h}}
                                [] Kind[r] = "threshold" -> {Matching(w)}
                                [] Kind[r] = "sequence"  -> {{s[i] : i \in DOMAIN s} : s \in Sequences(r, h)} :
                     found' = [found EXCEPT ![w] = [hit |-> h, id |-> NoDet, events |-> evs]]
             \/ \E d \in Existing(w, r, HitKey(r, h)) :
                  found' = [found EXCEPT ![w] =
                    [hit |-> h, id |-> d, events |-> Seen(w)[d].events \cup Matching(w)]]
          /\ pc' = [pc EXCEPT ![w] = "save"]
          /\ UNCHANGED <<idx, hits, failed>>
  /\ UNCHANGED <<clock, brokerVars, job, tx, began, edits, ids, goal,
                 det, sent, histVars, boundVars>>

\* External, PostgreSQL: an UPDATE waits for the open transaction that has updated
\* the same committed row.
Locked(d) == {u \in Workers : tx[u] = "open" /\ d \in DOMAIN edits[u] \cap DOMAIN det}
Targets(w) ==
  CASE pc[w] = "save"    -> {found[w].id} \ {NoDet}
    [] pc[w] = "resolve" -> goal[w]
    [] OTHER             -> {}
WaitsFor(w, u) == u # w /\ \E d \in Targets(w) : u \in Locked(d)

Put(w, d, row) ==
  edits' = [edits EXCEPT ![w] = Overlay([x \in {d} |-> row], @)]

\* Fault: the id is read before the flush that generates it.
InsertWithoutFlush(w) ==
  /\ pc[w] = "save" /\ found[w].id = NoDet
  /\ Put(w, NewId(w, found[w].hit),
         [events |-> found[w].events, status |-> "open", at |-> began[w],
          by |-> "", reopened |-> FALSE])
  /\ ids' = [ids EXCEPT ![w] = @ \cup {NoDet}]
  /\ HitDone(w, found[w].hit)
  /\ UNCHANGED <<clock, brokerVars, job, tx, began, failed, goal, det, sent, histVars, boundVars>>

\* Fault: the notification is queued as the row is inserted.
InsertAndNotify(w) ==
  /\ pc[w] = "save" /\ found[w].id = NoDet
  /\ Put(w, NewId(w, found[w].hit),
         [events |-> found[w].events, status |-> "open", at |-> began[w],
          by |-> "", reopened |-> FALSE])
  /\ sent' = sent \cup {NewId(w, found[w].hit)}
  /\ HitDone(w, found[w].hit)
  /\ UNCHANGED <<clock, brokerVars, job, tx, began, ids, failed, goal, det, histVars, boundVars>>

\* INSERT of a new detection and flush.  A sequence rule does not report its id.
Insert(w) ==
  /\ pc[w] = "save" /\ found[w].id = NoDet
  /\ Put(w, NewId(w, found[w].hit),
         [events |-> found[w].events, status |-> "open", at |-> began[w],
          by |-> "", reopened |-> FALSE])
  /\ ids' = [ids EXCEPT ![w] = IF Kind[Rules[idx[w]]] = "sequence" THEN @
                               ELSE @ \cup {NewId(w, found[w].hit)}]
  /\ HitDone(w, found[w].hit)
  /\ UNCHANGED <<clock, brokerVars, job, tx, began, failed, goal, det, sent, histVars, boundVars>>

\* UPDATE of the existing detection, by its id only: it writes the event_ids read
\* earlier plus its own, whatever the status of the row is by now, and nothing if
\* the row is gone.
Update(w) ==
  LET d == found[w].id IN
  /\ pc[w] = "save" /\ d # NoDet
  /\ Locked(d) \subseteq {w}
  /\ IF d \in DOMAIN Seen(w)
     THEN Put(w, d, [Seen(w)[d] EXCEPT !.events = found[w].events])
     ELSE UNCHANGED edits
  /\ HitDone(w, found[w].hit)
  /\ UNCHANGED <<clock, brokerVars, job, tx, began, ids, failed, goal, det, sent, histVars, boundVars>>

-----------------------------------------------------------------------------
\* _auto_resolve_from_events: the active detections whose dedup_key an event of
\* the batch remedies ...
FindRemedied(w) ==
  LET issues == UNION {Remedies[e] : e \in EventsOf[job[w]]}
      remedied == {d \in DOMAIN Seen(w) : /\ Seen(w)[d].status \in Active
                                          /\ IssueOf(d) \in issues} IN
  /\ pc[w] = "remedies" /\ tx[w] = "open"
  /\ goal' = [goal EXCEPT ![w] = remedied]
  /\ pc' = [pc EXCEPT ![w] = IF remedied = {} THEN "commit" ELSE "resolve"]
  /\ UNCHANGED <<clock, brokerVars, job, tx, began, idx, hits, found, edits, ids, failed,
                 det, sent, histVars, boundVars>>

\* ... are updated one by one, whatever their status is by now.
Resolve(w) ==
  /\ pc[w] = "resolve"
  /\ \E d \in goal[w] :
       /\ Locked(d) \subseteq {w}
       /\ IF d \in DOMAIN Seen(w)
          THEN Put(w, d, [Seen(w)[d] EXCEPT !.status = "resolved", !.by = "system"])
          ELSE UNCHANGED edits
       /\ goal' = [goal EXCEPT ![w] = @ \ {d}]
       /\ pc' = [pc EXCEPT ![w] = IF goal[w] = {d} THEN "commit" ELSE "resolve"]
  /\ UNCHANGED <<clock, brokerVars, job, tx, began, idx, hits, found, ids, failed,
                 det, sent, histVars, boundVars>>

-----------------------------------------------------------------------------
\* Something raises inside the rule loop or inside the auto-resolution, and the
\* exception is caught there: the loop goes on, unless it was mere Python with a
\* transaction that is over.
CaughtFailure(w, how) ==
  /\ tx' = [tx EXCEPT ![w] = how]
  /\ edits' = [edits EXCEPT ![w] = IF how = "open" THEN @ ELSE Nothing]
  /\ \/ pc[w] \in {"rule", "find", "save"} /\ RuleFails(w) /\ UNCHANGED goal
     \/ /\ pc[w] \in {"remedies", "resolve"}
        /\ pc' = [pc EXCEPT ![w] = "commit"]
        /\ goal' = [goal EXCEPT ![w] = {}]
        /\ UNCHANGED <<idx, hits, found, failed>>
  /\ UNCHANGED <<clock, brokerVars, job, began, ids, det, sent, histVars>>

Raises(w) ==
  /\ tx[w] = "open" /\ errors < MaxErrors
  /\ errors' = errors + 1
  /\ \E how \in {"open", "aborted", "broken"} : CaughtFailure(w, how)
  /\ UNCHANGED <<crashes, triaged>>

\* External, PostgreSQL: the victim of a cycle of row locks.
DeadlockVictim(w) ==
  /\ \E D \in SUBSET Workers :
       /\ w \in D
       /\ \A u \in D : (\E v \in D : WaitsFor(u, v)) /\ (\E v \in D : WaitsFor(v, u))
  /\ CaughtFailure(w, "aborted")
  /\ UNCHANGED boundVars

\* Every statement after that is refused: each rule that makes one fails too.
Refused(w) ==
  /\ tx[w] \in {"aborted", "broken"}
  /\ \/ /\ pc[w] = "rule"
        /\ IF Matching(w) = {}
           THEN NextRule(w) /\ UNCHANGED failed
           ELSE RuleFails(w)
     \/ /\ pc[w] = "remedies"
        /\ pc' = [pc EXCEPT ![w] = "commit"]
        /\ UNCHANGED <<idx, hits, found, failed>>
  /\ UNCHANGED <<clock, brokerVars, job, tx, began, edits, ids, goal,
                 det, sent, histVars, boundVars>>

\* The message is acknowledged, with the hits of some rules lost.
Finish(w, lost) ==
  /\ Leave(w)
  /\ task' = [task EXCEPT ![job[w]] = "done"]
  /\ dropped' = dropped \cup lost

Run(w) == <<job[w], tries[job[w]]>>

\* session.commit().  On an aborted transaction it rolls back and returns.  The
\* dispatch follows when there are ids to dispatch.
Commit(w) ==
  /\ pc[w] = "commit" /\ tx[w] # "broken"
  /\ det' = Overlay(edits[w], det)
  /\ written' = written \cup DOMAIN edits[w]
  /\ lossy' = IF tx[w] = "aborted" THEN lossy \cup {Run(w)} ELSE lossy
  /\ IF ids[w] = {}
     THEN Finish(w, IF tx[w] = "aborted" THEN RuleNames ELSE failed[w])
     ELSE /\ pc' = [pc EXCEPT ![w] = "notify"]
          /\ tx' = [tx EXCEPT ![w] = "none"]
          /\ edits' = [edits EXCEPT ![w] = Nothing]
          /\ UNCHANGED <<task, job, began, idx, hits, found, ids, failed, goal, dropped>>
  /\ UNCHANGED <<clock, retries, tries, sent, boundVars>>

\* The three loops of .delay calls; a broker error ends a loop and is swallowed.
Publish(w) ==
  /\ pc[w] \in Channels
  /\ \E some \in SUBSET ids[w] : sent' = sent \cup some
  /\ IF pc[w] = "automate"
     THEN Finish(w, IF Run(w) \in lossy THEN RuleNames ELSE failed[w])
     ELSE /\ pc' = [pc EXCEPT ![w] = IF @ = "notify" THEN "siem" ELSE "automate"]
          /\ UNCHANGED <<task, job, tx, began, workVars, dropped>>
  /\ UNCHANGED <<clock, retries, tries, det, written, lossy, boundVars>>

\* self.retry, until the retries are used up.
RaiseToRetry(w) ==
  LET t == job[w] IN
  /\ Leave(w)
  /\ IF retries[t] < MaxRetries
     THEN /\ task' = [task EXCEPT ![t] = "queued"]
          /\ retries' = [retries EXCEPT ![t] = @ + 1]
     ELSE /\ task' = [task EXCEPT ![t] = "failed"]
          /\ UNCHANGED retries
  /\ UNCHANGED <<clock, tries, sent>>

\* The session refuses to commit after a failed flush or a lost connection.
CommitRefused(w) ==
  /\ pc[w] = "commit" /\ tx[w] = "broken"
  /\ RaiseToRetry(w)
  /\ UNCHANGED <<det, histVars, boundVars>>

\* The first SELECTs raise, or the connection is lost during the COMMIT, which may
\* or may not have taken effect.
CallFails(w) ==
  /\ errors < MaxErrors /\ errors' = errors + 1
  /\ \/ pc[w] = "fetch" /\ UNCHANGED <<det, written>>
     \/ /\ pc[w] = "commit" /\ tx[w] = "open"
        /\ \/ UNCHANGED <<det, written>>
           \/ det' = Overlay(edits[w], det) /\ written' = written \cup DOMAIN edits[w]
  /\ RaiseToRetry(w)
  /\ UNCHANGED <<lossy, dropped, crashes, triaged>>

\* Fault: task_reject_on_worker_lost is off, so the lost message is acknowledged.
CrashDropsMessage(w) ==
  /\ pc[w] # "idle" /\ crashes < MaxCrashes
  /\ crashes' = crashes + 1
  /\ Leave(w)
  /\ UNCHANGED <<clock, task, retries, tries, det, sent, histVars, errors, triaged>>

\* The process dies and the message goes back to the queue.
Crash(w) ==
  /\ pc[w] # "idle" /\ crashes < MaxCrashes
  /\ crashes' = crashes + 1
  /\ Leave(w)
  /\ task' = [task EXCEPT ![job[w]] = "queued"]
  /\ UNCHANGED <<clock, retries, tries, det, sent, histVars, errors, triaged>>

-----------------------------------------------------------------------------
\* update_detection_status: the transitions it allows.
Allowed == [open           |-> {"investigating", "resolved", "false_positive"},
            investigating  |-> {"open", "resolved", "false_positive"},
            resolved       |-> {"open"},
            false_positive |-> {"open"}]

SetStatus(d, s) ==
  /\ triaged < MaxTriage /\ triaged' = triaged + 1
  /\ s \in Allowed[det[d].status] /\ Locked(d) = {}
  /\ det' = [det EXCEPT ![d].status = s,
       ![d].by = IF s = "resolved" THEN "analyst"
                 ELSE IF det[d].status = "resolved" THEN "" ELSE @,
       ![d].reopened = @ \/ det[d].status \notin Active]
  /\ UNCHANGED <<clock, brokerVars, workerVars, sent, histVars, crashes, errors>>

\* delete_detection.
Delete(d) ==
  /\ triaged < MaxTriage /\ triaged' = triaged + 1
  /\ Locked(d) = {}
  /\ det' = [x \in DOMAIN det \ {d} |-> det[x]]
  /\ UNCHANGED <<clock, brokerVars, workerVars, sent, histVars, crashes, errors>>

-----------------------------------------------------------------------------
\* What a running process does next.
Step(w) ==
  \/ \E t \in Tasks : PickUp(w, t)
  \/ Fetch(w) \/ Evaluate(w) \/ Find(w) \/ Insert(w) \/ Update(w)
  \/ FindRemedied(w) \/ Resolve(w) \/ DeadlockVictim(w) \/ Refused(w)
  \/ Commit(w) \/ CommitRefused(w) \/ Publish(w)

Next ==
  \/ Tick
  \/ \E t \in Tasks : Arrive(t)
  \/ \E w \in Workers : Step(w) \/ Raises(w) \/ CallFails(w) \/ Crash(w)
  \/ \E d \in DOMAIN det : Delete(d) \/ \E s \in Statuses : SetStatus(d, s)

Spec == Init /\ [][Next]_vars

\* A live pool process goes on; nothing forces an arrival, a failure, a crash or an
\* analyst.
FairSpec == Spec /\ \A w \in Workers : WF_vars(Step(w))
-----------------------------------------------------------------------------
\* Every variable keeps its shape.  The commit never meets a row that somebody
\* deleted or changed under its locks: an edited row is a new one or still there.
TypeOK ==
  /\ clock \in Nat
  /\ task \in [Tasks -> {"unsent", "queued", "running", "done", "failed"}]
  /\ retries \in [Tasks -> 0..MaxRetries] /\ tries \in [Tasks -> Nat]
  /\ job \in [Workers -> Tasks \cup {NoTask}]
  /\ pc \in [Workers -> {"idle", "fetch", "rule", "find", "save", "remedies", "resolve",
                         "commit"} \cup Channels]
  /\ tx \in [Workers -> {"none", "open", "aborted", "broken"}]
  /\ began \in [Workers -> Nat] /\ idx \in [Workers -> Nat]
  /\ hits \in [Workers -> SUBSET (Events \cup Keys)]
  /\ \A w \in Workers :
       /\ \A d \in DOMAIN edits[w] :
            /\ d \in DetIds /\ edits[w][d] \in Rows
            /\ d \in DOMAIN det \/ RunOf(d) = Run(w)
       /\ ids[w] \subseteq DetIds /\ failed[w] \subseteq RuleNames
       /\ goal[w] \subseteq DetIds
       /\ found[w].id \in DetIds \cup {NoDet} /\ found[w].events \subseteq Events
  /\ \A d \in DOMAIN det : d \in DetIds /\ det[d] \in Rows
  /\ sent \subseteq DetIds
  /\ DOMAIN det \subseteq written /\ written \subseteq DetIds
  /\ dropped \subseteq RuleNames
  /\ crashes \in Nat /\ errors \in Nat /\ triaged \in Nat

\* The detections of a rule and key that an analyst sees as current.
Current(r, k) ==
  {d \in DOMAIN det : /\ d.rule = r /\ KeyOf(d) = k /\ ~det[d].reopened
                      /\ det[d].status \in Active /\ InWindow(r, det[d].at)}
Deduplicated == {r \in RuleNames : Kind[r] # "pattern"}

\* However often batches are retried, redelivered and evaluated side by side, the
\* active detections of a rule and key in its window, reopened ones aside, are at
\* most one per process: only transactions that overlap miss each other's row.
DuplicatesBoundedByWorkers ==
  \A r \in Deduplicated, k \in Keys : Cardinality(Current(r, k)) <= Cardinality(Workers)

\* When all batches are evaluated, a key whose events reach a threshold inside the
\* window has (or had) its detection, in whatever order the batches arrived and
\* their transactions interleaved: each counts what is committed, itself included,
\* so the last to arrive sees the crossing.  Excepted are rules that a run lost.
NoMissedCrossing ==
  (\A t \in Tasks : task[t] \in {"unsent", "done"}) =>
    \A r \in RuleNames, k \in Keys, o \in Orgs :
      LET now == {e \in stored \cap Matches[r] :
                    Key[e] = k /\ Org[e] = o /\ InWindow(r, CreatedAt[e])} IN
      Kind[r] = "threshold" /\ r \notin dropped /\ <<r, k>> \notin Suppressed
        /\ Cardinality(now) >= Threshold[r]
      => \E d \in written : d.rule = r /\ KeyOf(d) = k

\* Notification, SIEM export and automation are told of committed detections only,
\* or of those of a run whose COMMIT rolled back after a caught SQL error.
SentIsWritten ==
  \A d \in sent : d \in written \/ RunOf(d) \in lossy

\* No batch that reached the queue is waiting or under way (MCPipeline!Settles:
\* eventually so, whatever row locks its transaction waits for).
Settled == \A t \in Tasks : task[t] \in {"unsent", "done", "failed"}

\* docs/api-and-detection-design.md:1569 ("keeping a single detection per rolling
\* window"): a deduplicated rule has one active detection per key and window.
SingleDetectionPerWindow ==
  \A r \in Deduplicated, k \in Keys : Cardinality(Current(r, k)) <= 1

\* detection_service.py:1858 ("if an incoming event remediated an issue tracked by a
\* posture detection, resolve it"): the event that resolves a detection is not older
\* than the event that opened it.
RemedyFollowsIssue ==
  \A d \in DOMAIN det : det[d].by = "system" =>
    \E e \in stored : IssueOf(d) \in Remedies[e] /\ CreatedAt[d.of] <= CreatedAt[e]
=============================================================================
