------------------------------- MODULE Posture ------------------------------
(***************************************************************************)
(* The detections of one posture rule, and who changes their status:       *)
(*   - run_posture_assessment (services/detection_service.py), called in   *)
(*     the post-sync pipeline: it opens a detection for each entity whose  *)
(*     mirrored settings are insecure and resolves the others;             *)
(*   - _auto_resolve_from_events, in the detection pipeline: an event of a *)
(*     remedy resolves the detections whose key starts with its prefix;    *)
(*   - analysts, through update_detection_status (routers/detections.py).  *)
(* Every one is a transaction at READ COMMITTED: a SELECT sees committed   *)
(* rows and its own, an UPDATE waits for the row and then writes the       *)
(* columns it was given over what it finds.                                *)
(***************************************************************************)
EXTENDS Integers, Sequences, FiniteSets, Functions

CONSTANTS
  Assessors,      \* processes that may run a post-sync pipeline
  Analysts,       \* requests
  Pipeline,       \* a detection worker that handles an event of a remedy
  KeyOrder,       \* the dedup keys of the rule, in the order of its query
  Covers,         \* key -> keys that start with it
  SuppressedKeys, \* check_suppression finds an entry
  MaxFound,       \* bound: detections
  PostureFaults,  \* bound: rules that raise, transactions that fail, processes lost
  PostureChanges, \* bound: changes of the mirror, remedies
  MaxPatches      \* bound: requests of analysts

VARIABLES
  setting,  \* key -> what the mirror says: "secure", "insecure", or "unknown" (NULL)
  found,    \* the detections, in the order of their ids
  worker,   \* process -> what it does
  pipelines,\* post-sync tasks waiting
  alone,    \* history: assessors whose run nothing disturbed so far
  raced,    \* history: rows a request flushed although they had changed since it read them
  reopened, \* history: requests that made a detection active again
  twice,    \* history: assessments that began while another one was running
  postureFaults, postureChanges, patches

postureVars == <<setting, found, worker, pipelines, alone, raced, reopened, twice,
                 postureFaults, postureChanges, patches>>

Keys == Range(KeyOrder)
Workers == Assessors \cup Analysts \cup {Pipeline}
Active == {"open", "investigating"}

ASSUME PostureAssumption ==
  /\ IsFiniteSet(Assessors) /\ Assessors \cap Analysts = {}
  /\ Pipeline \notin Assessors \cup Analysts /\ "none" \notin Workers
  /\ DOMAIN KeyOrder \subseteq Nat
  /\ {MaxFound, PostureFaults, PostureChanges, MaxPatches} \subseteq Nat

\* What an assessment has to do: positions in KeyOrder, then ids of rows.
Waiting == [at |-> "idle", todo |-> {}, keys |-> {}, row |-> 0, status |-> "none",
            stamp |-> FALSE, want |-> "none"]
NextOf(w) == CHOOSE i \in worker[w].todo : \A j \in worker[w].todo : i <= j

\* What a SELECT of w sees of a row, and the UPDATE that waits for it.
SeenBy(w, i) ==
  IF found[i].lock \in {"none", w} THEN found[i].status ELSE found[i].was.status
StampSeen(w, i) == IF found[i].lock \in {"none", w} THEN found[i].stamp ELSE found[i].was.stamp
Free(w, i) == found[i].lock \in {"none", w}
Update(w, i, status, stamp) ==
  [found EXCEPT ![i].status = status, ![i].stamp = stamp, ![i].lock = w,
                ![i].was = IF found[i].lock = w THEN @
                           ELSE [status |-> found[i].status, stamp |-> found[i].stamp]]
\* Fault: a detection under investigation is not taken for an active one.
OpenSeen(w) == {i \in DOMAIN found : SeenBy(w, i) = "open"}
ActiveSeen(w) == {i \in DOMAIN found : SeenBy(w, i) \in Active}
ByKey(S, k) == {i \in S : found[i].key = k}

InitPosture ==
  /\ setting \in [Keys -> {"secure", "insecure"}]
  /\ found = <<>> /\ worker = [w \in Workers |-> Waiting] /\ pipelines = 2
  /\ alone = {} /\ raced = {} /\ reopened = 0 /\ twice = 0
  /\ postureFaults = 0 /\ postureChanges = 0 /\ patches = 0

Settled(w) ==
  [i \in DOMAIN found |->
     IF found[i].lock = w THEN [found[i] EXCEPT !.lock = "none"] ELSE found[i]]
Undone(w) ==
  [i \in DOMAIN found |->
     IF found[i].lock # w THEN found[i]
     ELSE [found[i] EXCEPT !.lock = "none", !.status = found[i].was.status,
                           !.stamp = found[i].was.stamp]]
Wrote(w) == \E i \in DOMAIN found : found[i].lock = w

-----------------------------------------------------------------------------
(* run_posture_assessment *)

\* Another run completes: its post-sync pipeline is queued.
QueueAssessment ==
  /\ pipelines = 0 /\ postureChanges < PostureChanges
  /\ postureChanges' = postureChanges + 1 /\ pipelines' = 1
  /\ UNCHANGED <<setting, found, worker, alone, raced, reopened, twice, postureFaults, patches>>

Busy == {w \in Assessors : worker[w].at # "idle"}

\* _evaluate_posture_rule: an entity whose field is NULL is passed over.
Hits == {n \in DOMAIN KeyOrder : setting[KeyOrder[n]] = "insecure"}

StartAssessment(w) ==
  /\ worker[w].at = "idle" /\ pipelines > 0 /\ pipelines' = pipelines - 1
  /\ worker' = [worker EXCEPT ![w] = [Waiting EXCEPT !.at = "write", !.todo = Hits]]
  /\ alone' = IF \A v \in Workers : worker[v].at = "idle" THEN {w} ELSE {}
  /\ twice' = IF Busy # {} THEN twice + 1 ELSE twice
  /\ UNCHANGED <<setting, found, raced, reopened, postureFaults, postureChanges, patches>>

\* _write_posture_detection: scalar_one_or_none raises when two rows match, and
\* the exception ends the rule: the hits that follow are not marked active.
WriteHit(w) ==
  LET k == KeyOrder[NextOf(w)]
      same == ByKey(ActiveSeen(w), k)
      done == [worker[w] EXCEPT !.todo = @ \ {NextOf(w)}, !.keys = @ \cup {k}] IN
  /\ worker[w].at = "write" /\ worker[w].todo # {}
  /\ \/ /\ k \in SuppressedKeys
        /\ worker' = [worker EXCEPT ![w] = done] /\ UNCHANGED <<found, alone>>
     \/ /\ k \notin SuppressedKeys /\ Cardinality(same) > 1
        /\ worker' = [worker EXCEPT ![w] = [done EXCEPT !.todo = {}]]
        /\ alone' = alone \ {w} /\ UNCHANGED found
     \/ /\ k \notin SuppressedKeys /\ Cardinality(same) = 1
        /\ \A i \in same : Free(w, i) /\ found' = Update(w, i, found[i].status, found[i].stamp)
        /\ worker' = [worker EXCEPT ![w] = done] /\ UNCHANGED alone
     \/ /\ k \notin SuppressedKeys /\ same = {} /\ Len(found) < MaxFound
        /\ found' = Append(found, [key |-> k, status |-> "open", stamp |-> FALSE, lock |-> w,
                                   was |-> [status |-> "absent", stamp |-> FALSE]])
        /\ worker' = [worker EXCEPT ![w] = done] /\ UNCHANGED alone
  /\ UNCHANGED <<setting, pipelines, raced, reopened, twice, postureFaults, postureChanges, patches>>

\* The evaluation of the rule raises before or between its hits.
RuleRaises(w) ==
  /\ worker[w].at = "write" /\ worker[w].todo # {} /\ postureFaults < PostureFaults
  /\ postureFaults' = postureFaults + 1
  /\ worker' = [worker EXCEPT ![w].todo = {}] /\ alone' = alone \ {w}
  /\ UNCHANGED <<setting, found, pipelines, raced, reopened, twice, postureChanges, patches>>

\* Fault: a detection under investigation is left alone.
FixedIfOpen(w) == {i \in OpenSeen(w) : found[i].key \notin worker[w].keys}
Fixed(w) == {i \in ActiveSeen(w) : found[i].key \notin worker[w].keys}

\* _auto_resolve_posture_detections: the SELECT ...
SelectFixed(w) ==
  /\ worker[w].at = "write" /\ worker[w].todo = {}
  /\ worker' = [worker EXCEPT ![w].at = "resolve", ![w].todo = Fixed(w)]
  /\ UNCHANGED <<setting, found, pipelines, alone, raced, reopened, twice, postureFaults,
                 postureChanges, patches>>

\* ... and an UPDATE of each row by its id, whatever its status is by then.
ResolveRow(w) ==
  LET i == NextOf(w) IN
  /\ worker[w].at = "resolve" /\ worker[w].todo # {} /\ Free(w, i)
  /\ found' = Update(w, i, "resolved", TRUE)
  /\ worker' = [worker EXCEPT ![w].todo = @ \ {i}]
  /\ UNCHANGED <<setting, pipelines, alone, raced, reopened, twice, postureFaults,
                 postureChanges, patches>>

-----------------------------------------------------------------------------
(* _auto_resolve_from_events, in the transaction of a detection task *)

Remedy(k) ==
  /\ worker[Pipeline].at = "idle" /\ postureChanges < PostureChanges
  /\ postureChanges' = postureChanges + 1
  /\ worker' = [worker EXCEPT ![Pipeline] =
       [Waiting EXCEPT !.at = "resolve",
          !.todo = {i \in ActiveSeen(Pipeline) : found[i].key \in Covers[k]}]]
  /\ alone' = {}
  /\ UNCHANGED <<setting, found, pipelines, raced, reopened, twice, postureFaults, patches>>

CommitRows(w) ==
  /\ worker[w].at = "resolve" /\ worker[w].todo = {}
  /\ found' = Settled(w)
  /\ worker' = [worker EXCEPT ![w] = IF w = Pipeline THEN Waiting ELSE [@ EXCEPT !.at = "done"]]
  /\ UNCHANGED <<setting, pipelines, alone, raced, reopened, twice, postureFaults,
                 postureChanges, patches>>

EndAssessment(w) ==
  /\ worker[w].at = "done"
  /\ worker' = [worker EXCEPT ![w] = Waiting] /\ alone' = alone \ {w}
  /\ UNCHANGED <<setting, found, pipelines, raced, reopened, twice, postureFaults,
                 postureChanges, patches>>

\* The transaction fails: _run_post_sync_pipeline_async returns "failed".  A lost
\* process returns its task to the queue.
AbortRows(w, lost) ==
  /\ worker[w].at \in {"write", "resolve"} /\ postureFaults < PostureFaults
  /\ postureFaults' = postureFaults + 1
  /\ found' = Undone(w) /\ worker' = [worker EXCEPT ![w] = Waiting]
  /\ pipelines' = IF lost /\ w \in Assessors THEN pipelines + 1 ELSE pipelines
  /\ alone' = alone \ {w}
  /\ UNCHANGED <<setting, raced, reopened, twice, postureChanges, patches>>

-----------------------------------------------------------------------------
(* update_detection_status *)

Transitions ==
  [open |-> {"investigating", "resolved", "false_positive"},
   investigating |-> {"open", "resolved", "false_positive"},
   resolved |-> {"open"}, false_positive |-> {"open"}]

ReadDetection(a, i, want) ==
  /\ worker[a].at = "idle" /\ patches < MaxPatches /\ i \in DOMAIN found
  /\ SeenBy(a, i) \in DOMAIN Transitions /\ want \in Transitions[SeenBy(a, i)]
  /\ patches' = patches + 1
  /\ worker' = [worker EXCEPT ![a] =
       [Waiting EXCEPT !.at = "flush", !.row = i, !.want = want,
                       !.status = SeenBy(a, i), !.stamp = StampSeen(a, i)]]
  /\ alone' = {}
  /\ UNCHANGED <<setting, found, pipelines, raced, reopened, twice, postureFaults, postureChanges>>

\* resolved_at as the session leaves it: set, cleared, or not among the columns
\* of the UPDATE.  Fault: it is never cleared.
StampOfKept(a) == IF worker[a].want = "resolved" THEN TRUE ELSE found[worker[a].row].stamp
StampOf(a) ==
  LET p == worker[a] IN
  CASE p.want = "resolved" -> TRUE
    [] p.want # "resolved" /\ p.status = "resolved" -> FALSE
    [] OTHER -> found[p.row].stamp

FlushStatus(a) ==
  LET p == worker[a] IN
  /\ p.at = "flush" /\ Free(a, p.row)
  /\ found' = Update(a, p.row, p.want, StampOf(a))
  /\ raced' = IF found[p.row].status # p.status THEN raced \cup {p.row} ELSE raced
  /\ reopened' = IF p.want \in Active /\ found[p.row].status \notin Active THEN reopened + 1
                 ELSE reopened
  /\ worker' = [worker EXCEPT ![a].at = "commit"]
  /\ UNCHANGED <<setting, pipelines, alone, twice, postureFaults, postureChanges, patches>>

\* The request ends with a commit, or log_action raises and it rolls back.
EndPatch(a, ok) ==
  /\ worker[a].at = "commit"
  /\ ~ok => postureFaults < PostureFaults
  /\ postureFaults' = IF ok THEN postureFaults ELSE postureFaults + 1
  /\ found' = IF ok THEN Settled(a) ELSE Undone(a)
  /\ worker' = [worker EXCEPT ![a] = Waiting]
  /\ UNCHANGED <<setting, pipelines, alone, raced, reopened, twice, postureChanges, patches>>

\* A sync changes the mirrored settings.
Change(k, value) ==
  /\ setting[k] # value /\ postureChanges < PostureChanges
  /\ postureChanges' = postureChanges + 1
  /\ setting' = [setting EXCEPT ![k] = value] /\ alone' = {}
  /\ UNCHANGED <<found, worker, pipelines, raced, reopened, twice, postureFaults, patches>>

NextPosture ==
  \/ QueueAssessment
  \/ \E w \in Assessors :
       StartAssessment(w) \/ WriteHit(w) \/ RuleRaises(w) \/ SelectFixed(w) \/ EndAssessment(w)
  \/ \E w \in Assessors \cup {Pipeline} :
       ResolveRow(w) \/ CommitRows(w) \/ \E lost \in BOOLEAN : AbortRows(w, lost)
  \/ \E k \in Keys : Remedy(k) \/ \E value \in {"secure", "insecure", "unknown"} : Change(k, value)
  \/ \E a \in Analysts :
       \/ \E i \in DOMAIN found, want \in DOMAIN Transitions : ReadDetection(a, i, want)
       \/ FlushStatus(a) \/ \E ok \in BOOLEAN : EndPatch(a, ok)

SpecPosture == InitPosture /\ [][NextPosture]_postureVars

-----------------------------------------------------------------------------
Committed(i) == SeenBy("none", i)

\* Types.
PostureTypeOK ==
  /\ setting \in [Keys -> {"secure", "insecure", "unknown"}]
  /\ Len(found) <= MaxFound
  /\ \A i \in DOMAIN found :
       /\ found[i].key \in Keys \ SuppressedKeys
       /\ found[i].status \in DOMAIN Transitions \cup {"absent"}
       /\ found[i].lock # "none" => worker[found[i].lock].at # "idle"
  /\ \A w \in Workers : worker[w].at \in {"idle", "write", "resolve", "done", "flush", "commit"}
  /\ pipelines \in 0..PostureFaults + 2 /\ alone \subseteq Assessors
  /\ raced \subseteq DOMAIN found

\* resolved_at belongs to the status: a resolved detection carries it, whoever
\* resolved it last; another carries it only if a request wrote over a change that
\* it had not read.
StampFollowsStatus ==
  \A i \in DOMAIN found :
    LET stamp == StampSeen("none", i) IN
    /\ Committed(i) = "resolved" => stamp
    /\ stamp /\ Committed(i) # "resolved" => i \in raced

\* An assessment that nothing disturbed leaves exactly the insecure entities with
\* an active detection.  (One that is not known to be insecure counts as fixed.)
QuietAssessmentAgrees ==
  \A w \in Assessors : worker[w].at = "done" /\ w \in alone =>
    {found[i].key : i \in {j \in DOMAIN found : Committed(j) \in Active}}
      = {k \in Keys \ SuppressedKeys : setting[k] = "insecure"}

\* A key has one active detection, but for each assessment that overlapped with
\* another one and each detection that an analyst made active again.
OneActivePerKey ==
  \A k \in Keys :
    Cardinality({i \in DOMAIN found : found[i].key = k /\ Committed(i) \in Active})
      <= 1 + twice + reopened
=============================================================================
