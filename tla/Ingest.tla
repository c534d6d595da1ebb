------------------------------- MODULE Ingest -------------------------------
(***************************************************************************)
(* The ingest pipeline of backend/app/workers/ingestion/base.py: a batch   *)
(* of raw audit events goes through a bloom filter held in Valkey (tier    *)
(* 1), the event_dedup table (tier 2), one database transaction that       *)
(* writes events, event_dedup and external_collaborators, and the          *)
(* publication of a detection task.                                        *)
(*                                                                         *)
(* A task here is a unit of redelivery: an ingest_webhook_event message    *)
(* (one event, three retries), or a file of a poll (many events; the       *)
(* poller catches its exception, so MaxRetries is 0, and a lost process    *)
(* brings the poll back).                                                  *)
(*                                                                         *)
(* Each worker process is a program counter that stops between two         *)
(* external calls.  A transaction is the set of positions of the batch it  *)
(* has inserted (`ins`); nothing it wrote is visible before `Commit`.      *)
(* Payloads are abstracted to what deduplication tells apart: the hash of  *)
(* the stable fields, GitHub's _document_id when there is one, whether the *)
(* event normalises, and which external_collaborators rows it writes.      *)
(***************************************************************************)
EXTENDS Integers, Sequences, FiniteSets

CONSTANTS
  Workers,      \* processes of the Celery pool that consumes the queue
  Tasks,        \* messages published by the receivers, and files of a poll
  Events,       \* distinct raw events
  Docs,         \* values of a document_id: hashes and GitHub ids
  Positions,    \* bit positions of the bloom filter
  CollabKeys,   \* (org, repo, login) keys of external_collaborators
  NoTask, NoDoc, NoRow,
  Batch,        \* task -> sequence of events in its payload
  Hash,         \* event -> compute_dedup_hash(event)
  DocumentId,   \* event -> its _document_id, or NoDoc
  Bits,         \* document_id -> _bloom_bit_positions
  Malformed,    \* events without an action: _normalize_event returns None
  Adds,         \* event -> collaborator keys it upserts as active
  Removes,      \* event -> collaborator keys it deactivates
  BadRole,      \* events whose role the CHECK of external_collaborators refuses
  Day,          \* event -> day of its created_at
  LastDay,      \* bound: the last day the retention window reaches
  MaxRetries,   \* task -> its max_retries
  MaxCrashes,   \* bound: worker processes lost
  MaxExpiries   \* bound: Valkey keys expired

ASSUME IngestAssumption ==
  /\ IsFiniteSet(Workers) /\ NoTask \notin Tasks
  /\ NoDoc \notin Docs
  /\ Batch \in [Tasks -> Seq(Events)]
  /\ Hash \in [Events -> Docs]
  /\ DocumentId \in [Events -> Docs \cup {NoDoc}]
  \* a GitHub document id is never the SHA-256 of an event
  /\ \A e, f \in Events : DocumentId[e] # Hash[f]
  /\ Bits \in [Docs -> SUBSET Positions]
  /\ Malformed \subseteq Events
  /\ BadRole \subseteq Events
  /\ Adds \in [Events -> SUBSET CollabKeys]
  /\ Removes \in [Events -> SUBSET CollabKeys]
  /\ Day \in [Events -> Nat]
  /\ LastDay \in Nat
  /\ MaxRetries \in [Tasks -> Nat]
  /\ MaxCrashes \in Nat
  /\ MaxExpiries \in Nat

VARIABLES
  \* the broker
  task,      \* task -> where the message is
  retries,   \* task -> request.retries
  tries,     \* task -> how many times a worker has picked it up
  \* a worker process
  job,       \* worker -> the task it runs
  pc,        \* worker -> the external call it makes next
  pos,       \* worker -> position in the batch
  fresh,     \* worker -> positions tier 1 let through (to_insert)
  ins,       \* worker -> positions whose rows the open transaction holds
  own,       \* worker -> those for which it inserted an event_dedup row
  wrote,     \* worker -> collaborator key -> the row its transaction wrote, or NoRow
  \* Valkey
  active, previous,  \* bits set in the two bloom filters
  rotated,           \* does the rotated_at key exist
  \* PostgreSQL
  stored,    \* ids of committed rows of events
  dedup,     \* committed rows of event_dedup
  collab,    \* committed rows of external_collaborators
  cutoff,    \* first day that prune_event_dedup has kept
  \* the detection queue
  chained,   \* row ids handed to run_detection_pipeline_task
  \* history and bounds
  burnt,     \* events marked in the bloom filter by a transaction that rolled back
  crashes, expiries

brokerVars == <<task, retries, tries>>
workerVars == <<job, pc, pos, fresh, ins, own, wrote>>
bloomVars  == <<active, previous, rotated>>
dbVars     == <<stored, dedup, collab, cutoff>>
auxVars    == <<burnt, crashes, expiries>>
vars == <<brokerVars, workerVars, bloomVars, dbVars, chained, auxVars>>

-----------------------------------------------------------------------------
\* The id of a row of events: the delivery that inserted it, and which event.
RowIds == {r \in Tasks \X Nat \X Nat : r[3] \in 1..Len(Batch[r[1]])}
EventOf(r) == Batch[r[1]][r[3]]

DocKey(e) == IF DocumentId[e] = NoDoc THEN Hash[e] ELSE DocumentId[e]

EventAt(w, p) == Batch[job[w]][p]
Current(w) == EventAt(w, pos[w])
RowOf(w, p) == <<job[w], tries[job[w]], p>>
RowsOf(w) == {RowOf(w, p) : p \in ins[w]}

\* Between the first SELECT and the COMMIT the transaction of w is open.
InTransaction(w) ==
  pc[w] \in {"tier2", "dedup", "rotget", "rotset", "rename", "setbit", "upsert"}
Marking(w) == pc[w] \in {"rotget", "rotset", "rename", "setbit"}

\* The positions w has marked in the bloom filter and not committed yet.
Marked(w) ==
  IF ~InTransaction(w) THEN {}
  ELSE IF Marking(w) THEN ins[w] \ {pos[w]} ELSE ins[w]

\* Rows of external_collaborators: their source_event_id and is_active.
CollabRows == [row : RowIds, active : BOOLEAN]
NothingWritten == [k \in CollabKeys |-> NoRow]

Init ==
  /\ task = [t \in Tasks |-> "queued"]
  /\ retries = [t \in Tasks |-> 0]
  /\ tries = [t \in Tasks |-> 0]
  /\ job = [w \in Workers |-> NoTask]
  /\ pc = [w \in Workers |-> "idle"]
  /\ pos = [w \in Workers |-> 0]
  /\ fresh = [w \in Workers |-> {}]
  /\ ins = [w \in Workers |-> {}]
  /\ own = [w \in Workers |-> {}]
  /\ wrote = [w \in Workers |-> NothingWritten]
  /\ active = {} /\ previous = {} /\ rotated = FALSE
  /\ stored = {} /\ dedup = {} /\ cutoff = 0
  /\ collab = [k \in CollabKeys |-> NoRow]
  /\ chained = {}
  /\ burnt = {} /\ crashes = 0 /\ expiries = 0

-----------------------------------------------------------------------------
\* The broker hands a queued message to a free process.
PickUp(w, t) ==
  /\ pc[w] = "idle" /\ task[t] = "queued"
  /\ task' = [task EXCEPT ![t] = "running"]
  /\ tries' = [tries EXCEPT ![t] = @ + 1]
  /\ job' = [job EXCEPT ![w] = t]
  /\ pc' = [pc EXCEPT ![w] = "tier1"]
  /\ pos' = [pos EXCEPT ![w] = 1]
  /\ UNCHANGED <<retries, fresh, ins, own, wrote, bloomVars, dbVars, chained, auxVars>>

\* The call is over and its locals are gone.
Leave(w) ==
  /\ job' = [job EXCEPT ![w] = NoTask]
  /\ pc' = [pc EXCEPT ![w] = "idle"]
  /\ pos' = [pos EXCEPT ![w] = 0]
  /\ fresh' = [fresh EXCEPT ![w] = {}]
  /\ ins' = [ins EXCEPT ![w] = {}]
  /\ own' = [own EXCEPT ![w] = {}]
  /\ wrote' = [wrote EXCEPT ![w] = NothingWritten]

\* ingest_batch returns and the message is acknowledged.
Finish(w) ==
  /\ Leave(w)
  /\ task' = [task EXCEPT ![job[w]] = "done"]

\* _is_duplicate_bloom: all bits set in one of the two filters.  The two
\* pipelined reads are one step: whatever they return together, one of the
\* instants between them returns as well.
IsDuplicateBloom(d) == Bits[d] \subseteq active \/ Bits[d] \subseteq previous

\* Fault: the hash is marked when it is looked up.
Tier1MarksBits(w) ==
  /\ pc[w] = "tier1" /\ pos[w] <= Len(Batch[job[w]])
  /\ fresh' = [fresh EXCEPT ![w] = IF IsDuplicateBloom(Hash[Current(w)])
                                   THEN @ ELSE @ \cup {pos[w]}]
  /\ active' = active \cup Bits[Hash[Current(w)]]
  /\ pos' = [pos EXCEPT ![w] = @ + 1]
  /\ UNCHANGED <<brokerVars, job, pc, ins, own, wrote, previous, rotated, dbVars, chained, auxVars>>

\* One iteration of the bloom pass over the batch.
Tier1(w) ==
  /\ pc[w] = "tier1" /\ pos[w] <= Len(Batch[job[w]])
  /\ fresh' = [fresh EXCEPT ![w] = IF IsDuplicateBloom(Hash[Current(w)])
                                   THEN @ ELSE @ \cup {pos[w]}]
  /\ pos' = [pos EXCEPT ![w] = @ + 1]
  /\ UNCHANGED <<brokerVars, job, pc, ins, own, wrote, bloomVars, dbVars, chained, auxVars>>

\* End of the pass: nothing to insert, or open the session.
Tier1End(w) ==
  /\ pc[w] = "tier1" /\ pos[w] > Len(Batch[job[w]])
  /\ IF fresh[w] = {}
     THEN Finish(w)
     ELSE /\ pc' = [pc EXCEPT ![w] = "tier2"]
          /\ pos' = [pos EXCEPT ![w] = 1]
          /\ UNCHANGED <<task, job, fresh, ins, own, wrote>>
  /\ UNCHANGED <<retries, tries, bloomVars, dbVars, chained, auxVars>>

\* What SELECT ... FROM event_dedup WHERE document_id = :d sees under READ
\* COMMITTED: the committed rows and those of its own transaction.
KnownDoc(w, d) ==
  \/ \E r \in dedup : r.doc = d
  \/ \E p \in own[w] : DocKey(EventAt(w, p)) = d

\* Fault: events are checked for being valid instead of being known.
SkippedIfInvalid(w) == Current(w) \in Malformed \cup BadRole

\* The SELECT of the second tier is made with the hash, whatever document_id the
\* row was stored under.  An event that is known, that tier 1 dropped or that
\* does not normalise is skipped; any other is inserted into events.
SkippedByTier2(w) ==
  \/ pos[w] \notin fresh[w]
  \/ KnownDoc(w, Hash[Current(w)])
  \/ Current(w) \in Malformed

Tier2(w) ==
  /\ pc[w] = "tier2" /\ pos[w] <= Len(Batch[job[w]])
  /\ IF SkippedByTier2(w)
     THEN /\ pos' = [pos EXCEPT ![w] = @ + 1]
          /\ UNCHANGED pc
     ELSE /\ pc' = [pc EXCEPT ![w] = "dedup"]
          /\ UNCHANGED pos
  /\ UNCHANGED <<brokerVars, job, fresh, ins, own, wrote, bloomVars, dbVars, chained, auxVars>>

\* What a statement of w sees of the row k, and whether the event it is at
\* writes that row: an addition always, a removal only if the row is active.
CollabRow(w, k) == IF wrote[w][k] = NoRow THEN collab[k] ELSE wrote[w][k]
Deactivates(w, k) ==
  /\ k \in Removes[Current(w)]
  /\ CollabRow(w, k) # NoRow /\ CollabRow(w, k).active
Touches(w, k) == k \in Adds[Current(w)] \/ Deactivates(w, k)

\* External, PostgreSQL: a statement that meets the uncommitted key or row of
\* another transaction waits for that transaction to end.
WaitsFor(w, u) ==
  /\ w # u /\ InTransaction(u)
  /\ \/ /\ pc[w] = "dedup"
        /\ \E p \in own[u] : DocKey(EventAt(u, p)) = DocKey(Current(w))
     \/ /\ pc[w] = "upsert" /\ Current(w) \notin BadRole
        /\ \E k \in CollabKeys : Touches(w, k) /\ wrote[u][k] # NoRow
Waits(w) == \E u \in Workers : WaitsFor(w, u)

\* Fault: the event_dedup row is inserted in a session of its own.
InsertDedupAutocommit(w) ==
  /\ pc[w] = "dedup"
  /\ ins' = [ins EXCEPT ![w] = @ \cup {pos[w]}]
  /\ dedup' = IF KnownDoc(w, DocKey(Current(w))) THEN dedup
              ELSE dedup \cup {[doc |-> DocKey(Current(w)), row |-> RowOf(w, pos[w])]}
  /\ pc' = [pc EXCEPT ![w] = "rotget"]
  /\ UNCHANGED <<brokerVars, job, pos, fresh, own, wrote, bloomVars, stored, collab, cutoff,
                 chained, auxVars>>

\* INSERT INTO event_dedup ... ON CONFLICT DO NOTHING, after the INSERT INTO
\* events, which conflicts with nothing.
InsertDedup(w) ==
  /\ pc[w] = "dedup"
  /\ ~Waits(w)
  /\ ins' = [ins EXCEPT ![w] = @ \cup {pos[w]}]
  /\ own' = [own EXCEPT ![w] = IF KnownDoc(w, DocKey(Current(w)))
                               THEN @ ELSE @ \cup {pos[w]}]
  /\ pc' = [pc EXCEPT ![w] = "rotget"]
  /\ UNCHANGED <<brokerVars, job, pos, fresh, wrote, bloomVars, dbVars, chained, auxVars>>

-----------------------------------------------------------------------------
\* _mark_bloom.  First _maybe_rotate_bloom: GET rotated_at ...
RotateGet(w) ==
  /\ pc[w] = "rotget"
  /\ pc' = [pc EXCEPT ![w] = IF rotated THEN "setbit" ELSE "rotset"]
  /\ UNCHANGED <<brokerVars, job, pos, fresh, ins, own, wrote, bloomVars, dbVars, chained, auxVars>>

\* ... SET NX, then SET XX when another worker holds the key: both outcomes go on
\* to the rename.
RotateSet(w) ==
  /\ pc[w] = "rotset"
  /\ rotated' = TRUE
  /\ pc' = [pc EXCEPT ![w] = "rename"]
  /\ UNCHANGED <<brokerVars, job, pos, fresh, ins, own, wrote, active, previous, dbVars, chained, auxVars>>

\* RENAME active previous fails, and is ignored, when there is no active filter.
RotateRename(w) ==
  /\ pc[w] = "rename"
  /\ previous' = IF active = {} THEN previous ELSE active
  /\ active' = {}
  /\ pc' = [pc EXCEPT ![w] = "setbit"]
  /\ UNCHANGED <<brokerVars, job, pos, fresh, ins, own, wrote, rotated, dbVars, chained, auxVars>>

\* The bits are set while the transaction is still open.
SetBits(w) ==
  /\ pc[w] = "setbit"
  /\ active' = active \cup Bits[Hash[Current(w)]]
  /\ pc' = [pc EXCEPT ![w] = "upsert"]
  /\ UNCHANGED <<brokerVars, job, pos, fresh, ins, own, wrote, previous, rotated, dbVars, chained, auxVars>>

\* Fault: the session is committed after each event.
CommitEachEvent(w) ==
  /\ pc[w] = "upsert" /\ Current(w) \notin BadRole
  /\ stored' = stored \cup {RowOf(w, pos[w])}
  /\ pos' = [pos EXCEPT ![w] = @ + 1]
  /\ pc' = [pc EXCEPT ![w] = "tier2"]
  /\ UNCHANGED <<brokerVars, job, fresh, ins, own, wrote, bloomVars, dedup, collab, cutoff,
                 chained, auxVars>>

\* _upsert_external_collaborator, when the database accepts the row: it changes
\* the open transaction only.  Next event.
UpsertCollaborator(w) ==
  /\ pc[w] = "upsert" /\ Current(w) \notin BadRole
  /\ ~Waits(w)
  /\ wrote' = [wrote EXCEPT ![w] = [k \in CollabKeys |->
       IF Touches(w, k) THEN [row |-> RowOf(w, pos[w]), active |-> k \in Adds[Current(w)]]
       ELSE @[k]]]
  /\ pos' = [pos EXCEPT ![w] = @ + 1]
  /\ pc' = [pc EXCEPT ![w] = "tier2"]
  /\ UNCHANGED <<brokerVars, job, fresh, ins, own, bloomVars, dbVars, chained, auxVars>>

-----------------------------------------------------------------------------
\* End of the loop, session.commit(): the three tables change together.
Commit(w) ==
  /\ pc[w] = "tier2" /\ pos[w] > Len(Batch[job[w]])
  /\ stored' = stored \cup RowsOf(w)
  /\ dedup' = dedup \cup {[doc |-> DocKey(EventAt(w, p)), row |-> RowOf(w, p)] : p \in own[w]}
  /\ collab' = [k \in CollabKeys |-> CollabRow(w, k)]
  /\ IF ins[w] = {}
     THEN Finish(w)
     ELSE /\ pc' = [pc EXCEPT ![w] = "chain"]
          /\ wrote' = [wrote EXCEPT ![w] = NothingWritten]
          /\ UNCHANGED <<task, job, pos, fresh, ins, own>>
  /\ UNCHANGED <<retries, tries, bloomVars, cutoff, chained, auxVars>>

\* run_detection_pipeline_task.delay(inserted_ids); a broker error is logged and
\* swallowed.
ChainDetection(w) ==
  /\ pc[w] = "chain"
  /\ chained' \in {chained, chained \cup RowsOf(w)}
  /\ Finish(w)
  /\ UNCHANGED <<retries, tries, bloomVars, dbVars, auxVars>>

-----------------------------------------------------------------------------
\* The session rolls back; the marks the transaction left in Valkey stay.
Rollback(w) ==
  /\ burnt' = burnt \cup {EventAt(w, p) : p \in Marked(w)}
  /\ Leave(w)

\* Fault: one retry too many.
RetryOnceMore(w) ==
  LET t == job[w] IN
  /\ Rollback(w)
  /\ IF retries[t] <= MaxRetries[t]
     THEN /\ task' = [task EXCEPT ![t] = "queued"]
          /\ retries' = [retries EXCEPT ![t] = @ + 1]
     ELSE /\ task' = [task EXCEPT ![t] = "failed"]
          /\ UNCHANGED retries
  /\ UNCHANGED <<tries, bloomVars, dbVars, chained, crashes, expiries>>

\* An exception leaves ingest_batch: self.retry publishes the message again until
\* its retries are used up.
RaiseToRetry(w) ==
  LET t == job[w] IN
  /\ Rollback(w)
  /\ IF retries[t] < MaxRetries[t]
     THEN /\ task' = [task EXCEPT ![t] = "queued"]
          /\ retries' = [retries EXCEPT ![t] = @ + 1]
     ELSE /\ task' = [task EXCEPT ![t] = "failed"]
          /\ UNCHANGED retries
  /\ UNCHANGED <<tries, bloomVars, dbVars, chained, crashes, expiries>>

\* A Valkey command or an SQL statement raises: to Celery's self.retry for a
\* message, to the poller's except for a file.
CallFails(w) ==
  /\ pc[w] \notin {"idle", "chain"}
  /\ RaiseToRetry(w)

\* The collaborator upsert violates the role CHECK: it raises every time.
RoleRefused(w) ==
  /\ pc[w] = "upsert" /\ Current(w) \in BadRole
  /\ RaiseToRetry(w)

\* External, PostgreSQL: the deadlock detector aborts one of the transactions of a
\* cycle of waits.
Deadlocked(w) ==
  \E D \in SUBSET Workers :
    /\ w \in D
    /\ \A u \in D : \E v \in D : WaitsFor(u, v)
    /\ \A v \in D : \E u \in D : WaitsFor(u, v)

DeadlockVictim(w) == Deadlocked(w) /\ RaiseToRetry(w)

\* Fault: task_reject_on_worker_lost is off, so the lost message is acknowledged.
CrashDropsMessage(w) ==
  /\ pc[w] # "idle" /\ crashes < MaxCrashes
  /\ Rollback(w)
  /\ crashes' = crashes + 1
  /\ UNCHANGED <<task, retries, tries, bloomVars, dbVars, chained, expiries>>

\* The process dies.  task_acks_late and task_reject_on_worker_lost put the
\* message back in the queue, its retry count untouched.
Crash(w) ==
  /\ pc[w] # "idle" /\ crashes < MaxCrashes
  /\ Rollback(w)
  /\ task' = [task EXCEPT ![job[w]] = "queued"]
  /\ crashes' = crashes + 1
  /\ UNCHANGED <<retries, tries, bloomVars, dbVars, chained, expiries>>

\* External, Valkey: a key reaches its TTL (or is evicted).
KeyExpires ==
  /\ expiries < MaxExpiries
  /\ \/ rotated /\ rotated' = FALSE /\ UNCHANGED <<active, previous>>
     \/ active # {} /\ active' = {} /\ UNCHANGED <<previous, rotated>>
     \/ previous # {} /\ previous' = {} /\ UNCHANGED <<active, rotated>>
  /\ expiries' = expiries + 1
  /\ UNCHANGED <<brokerVars, workerVars, dbVars, chained, burnt, crashes>>

\* prune_event_dedup: the retention window is over the created_at of the event.
PruneDedup ==
  /\ \E d \in (cutoff + 1)..LastDay :
       /\ cutoff' = d
       /\ dedup' = {r \in dedup : Day[EventOf(r.row)] >= d}
  /\ UNCHANGED <<brokerVars, workerVars, bloomVars, stored, collab, chained, auxVars>>

-----------------------------------------------------------------------------
\* What a running process does next when no call fails.
Step(w) ==
  \/ \E t \in Tasks : PickUp(w, t)
  \/ Tier1(w) \/ Tier1End(w) \/ Tier2(w) \/ InsertDedup(w)
  \/ RotateGet(w) \/ RotateSet(w) \/ RotateRename(w) \/ SetBits(w)
  \/ UpsertCollaborator(w) \/ RoleRefused(w) \/ DeadlockVictim(w)
  \/ Commit(w) \/ ChainDetection(w)

Next ==
  \/ \E w \in Workers : Step(w) \/ CallFails(w) \/ Crash(w)
  \/ KeyExpires
  \/ PruneDedup

Spec == Init /\ [][Next]_vars

\* A live pool process goes on: each command it waits for returns or raises.
\* Nothing forces a failure, a crash, an expiry or a pruning run to happen.
FairSpec == Spec /\ \A w \in Workers : WF_vars(Step(w))
-----------------------------------------------------------------------------
\* Every variable keeps its shape, and a task is retried at most MaxRetries times
\* (max_retries of ingest_webhook_event_task).
TypeOK ==
  /\ task \in [Tasks -> {"queued", "running", "done", "failed"}]
  /\ retries \in [Tasks -> Nat] /\ \A t \in Tasks : retries[t] <= MaxRetries[t]
  /\ tries \in [Tasks -> Nat]
  /\ job \in [Workers -> Tasks \cup {NoTask}]
  /\ pc \in [Workers -> {"idle", "tier1", "tier2", "dedup", "rotget", "rotset",
                         "rename", "setbit", "upsert", "chain"}]
  /\ pos \in [Workers -> Nat]
  /\ fresh \in [Workers -> SUBSET Nat]
  /\ ins \in [Workers -> SUBSET Nat]
  /\ own \in [Workers -> SUBSET Nat]
  /\ wrote \in [Workers -> [CollabKeys -> CollabRows \cup {NoRow}]]
  /\ active \subseteq Positions /\ previous \subseteq Positions
  /\ rotated \in BOOLEAN
  /\ stored \subseteq RowIds
  /\ dedup \subseteq [doc : Docs, row : RowIds]
  /\ collab \in [CollabKeys -> CollabRows \cup {NoRow}]
  /\ cutoff \in Nat
  /\ chained \subseteq RowIds
  /\ burnt \subseteq Events
  /\ crashes \in Nat /\ expiries \in Nat

\* The events whose marks the bloom filter may hold for a good reason (their row
\* is committed, or is in an open transaction) or for a bad one (`burnt`).
Witnesses ==
  {EventOf(r) : r \in stored} \cup burnt
    \cup UNION {{EventAt(w, p) : p \in Marked(w)} : w \in Workers}

Accounted(b) == \E e \in Witnesses : b \in Bits[Hash[e]]
Explained(d) == \A b \in Bits[d] : Accounted(b)

\* An event of an acknowledged task that is not in the database was dropped by
\* the filter because of marks of stored events, of open transactions, or of a
\* transaction that rolled back after marking: ingest_batch loses events in no
\* other way (not by retries, rotations, crashes, waits or pruning).
NoUnexplainedLoss ==
  \A t \in Tasks : task[t] = "done" =>
    \A p \in 1..Len(Batch[t]) :
      Batch[t][p] \in Malformed \/ Explained(Hash[Batch[t][p]])

\* Events stored under their hash, inside the retention window, are stored at
\* most once per process of the pool, however often GitHub or Celery delivers
\* them: tier 2 lets through only transactions opened before the first commit.
DuplicatesBoundedByWorkers ==
  \A d \in {Hash[e] : e \in Events} :
    LET alike == {e \in Events : Hash[e] = d} IN
    (\A e \in alike : DocumentId[e] = NoDoc /\ Day[e] >= cutoff)
      => Cardinality({r \in stored : EventOf(r) \in alike}) <= Cardinality(Workers)

\* event_dedup, external_collaborators and the detection queue name only rows that
\* are committed, although they are written before the commit, with it and after
\* it, and any process may die in between.
ReferencesCommitted ==
  /\ \A r \in dedup : r.row \in stored
  /\ \A k \in CollabKeys : collab[k] # NoRow => collab[k].row \in stored
  /\ chained \subseteq stored

\* The pipeline implements the log of EventLog.
Log == INSTANCE EventLog WITH log <- stored, handed <- chained
ImplementsEventLog == Log!Spec

\* Every published task is acknowledged or given up (MCPipeline!Settles: eventually
\* so, although transactions wait for each other's event_dedup keys, deadlock and
\* retry).
Settled == \A t \in Tasks : task[t] \in {"done", "failed"}

\* docs/runbooks/zero-downtime-upgrade.md:99 ("Celery configuration ensures no work
\* is lost during upgrades", a killed worker's task being requeued): an event of an
\* acknowledged task is in the database, or in a transaction that may still commit.
NoWorkLost ==
  \A t \in Tasks : task[t] = "done" =>
    \A p \in 1..Len(Batch[t]) :
      \/ Batch[t][p] \in Malformed
      \/ \E w \in Workers : \E q \in ins[w] : Hash[EventAt(w, q)] = Hash[Batch[t][p]]
      \/ \E r \in stored : Hash[EventOf(r)] = Hash[Batch[t][p]]
=============================================================================
