---------------------------- MODULE SourcePoller ----------------------------
(***************************************************************************)
(* poll_s3_sources and poll_azure_sources                                  *)
(* (backend/app/workers/ingestion/s3_worker.py and azure_worker.py): every *)
(* five minutes the beat queues a poll; the process that takes it reads    *)
(* the cursors of the active sources, lists a page of objects after each   *)
(* cursor, feeds them to ingest_batch and moves the cursor.                *)
(*                                                                         *)
(* Objects are numbered in the lexicographic order of their keys.  An      *)
(* object may appear at any time, in any order.  ingest_batch is the       *)
(* component Ingest; here a batch is taken by it, or it raises.            *)
(***************************************************************************)
EXTENDS Integers, Sequences, FiniteSets

CONSTANTS
  Pollers,    \* processes of the ingestion pool
  Sources,    \* ingestion_cursors rows that are active
  LastObject, \* keys are 1..LastObject; a cursor of 0 is NULL
  Markers,    \* objects whose key ends with "/"
  Corrupt,    \* objects that never parse
  Batches,    \* object -> number of batches of events in it
  PageSize,   \* _MAX_OBJECTS_PER_POLL
  NoSource,
  PollRetries, \* of the poll task
  MaxQueued,  \* bound: polls in the queue at once
  MaxErrors, MaxCrashes  \* bounds: calls that raise, processes lost

ASSUME PollerAssumption ==
  /\ NoSource \notin Sources
  /\ LastObject \in Nat /\ PageSize \in Nat \ {0}
  /\ Markers \subseteq 1..LastObject /\ Corrupt \subseteq 1..LastObject
  /\ Batches \in [1..LastObject -> Nat]
  /\ {PollRetries, MaxQueued, MaxErrors, MaxCrashes} \subseteq Nat

Objects == 1..LastObject

VARIABLES
  queue,    \* retries already used by each queued poll
  \* the bucket or container
  listed,   \* source -> objects it holds
  \* PostgreSQL
  cursor,   \* source -> last_file
  lock,     \* sources whose row a SELECT ... FOR UPDATE holds
  errs,     \* source -> whether error_count is positive
  \* a worker process
  pollPc, retries, \* its next call; the retries of the poll it runs
  todo,     \* source -> cursor read for it, for the sources still to poll
  src,      \* the source it polls
  unread,     \* objects of the page not processed yet
  batch,    \* batches of the current object already ingested
  latest,   \* latest_file
  \* history and bounds
  taken,    \* <<source, object, batch>> that ingest_batch accepted
  failed,   \* <<source, object>> that raised
  late,     \* <<source, object>> that appeared behind a listing or a cursor
  errors, crashes

workerVars == <<pollPc, retries, todo, src, unread, batch, latest>>
dbVars == <<cursor, lock, errs>>
pollVars == <<queue, listed, dbVars, workerVars, taken, failed, late, errors, crashes>>

-----------------------------------------------------------------------------
Nothing == [s \in {} |-> 0]
Lowest(S) == CHOOSE k \in S : \A m \in S : k <= m

\* Fault: the listing includes the cursor itself.
PageFrom(s, c) ==
  LET after == {k \in listed[s] : k >= c} IN
  {k \in after : Cardinality({m \in after : m < k}) < PageSize}

\* The first PageSize keys after the cursor.
PageAfter(s, c) ==
  LET after == {k \in listed[s] : k > c} IN
  {k \in after : Cardinality({m \in after : m < k}) < PageSize}

\* Every batch of the object went through ingest_batch.
Ingested(s, k) == \A b \in 1..Batches[k] : <<s, k, b>> \in taken

InitPoll ==
  /\ queue = <<>>
  /\ listed = [s \in Sources |-> {}]
  /\ cursor = [s \in Sources |-> 0] /\ lock = {} /\ errs = [s \in Sources |-> FALSE]
  /\ pollPc = [w \in Pollers |-> "idle"] /\ retries = [w \in Pollers |-> 0]
  /\ todo = [w \in Pollers |-> Nothing] /\ src = [w \in Pollers |-> NoSource]
  /\ unread = [w \in Pollers |-> {}] /\ batch = [w \in Pollers |-> 0]
  /\ latest = [w \in Pollers |-> 0]
  /\ taken = {} /\ failed = {} /\ late = {} /\ errors = 0 /\ crashes = 0

\* External: an object appears.  It is late when its key is behind the cursor, a
\* cursor that a poll has read (an overlapping poll may have moved it back since),
\* a listing in progress or the cursor that listing will write.
Appear(s, k) ==
  /\ k \notin listed[s]
  /\ listed' = [listed EXCEPT ![s] = @ \cup {k}]
  /\ late' = IF \/ k <= cursor[s]
                \/ \E w \in Pollers :
                     \/ s \in DOMAIN todo[w] /\ k <= todo[w][s]
                     \/ src[w] = s /\ \E m \in unread[w] \cup {latest[w]} : k < m
             THEN late \cup {<<s, k>>} ELSE late
  /\ UNCHANGED <<queue, dbVars, workerVars, taken, failed, errors, crashes>>

\* The beat queues a poll every five minutes, whether or not the last one is done.
Beat ==
  /\ Len(queue) < MaxQueued
  /\ queue' = Append(queue, 0)
  /\ UNCHANGED <<listed, dbVars, workerVars, taken, failed, late, errors, crashes>>

PickUp(w) ==
  /\ pollPc[w] = "idle" /\ queue # <<>>
  /\ queue' = Tail(queue)
  /\ retries' = [retries EXCEPT ![w] = Head(queue)]
  /\ pollPc' = [pollPc EXCEPT ![w] = "select"]
  /\ UNCHANGED <<listed, dbVars, todo, src, unread, batch, latest, taken, failed, late, errors, crashes>>

\* SELECT ... FOR UPDATE SKIP LOCKED of the active cursors.
Select(w) ==
  /\ pollPc[w] = "select"
  /\ todo' = [todo EXCEPT ![w] = [s \in Sources \ lock |-> cursor[s]]]
  /\ lock' = Sources
  /\ pollPc' = [pollPc EXCEPT ![w] = "locked"]
  /\ UNCHANGED <<queue, listed, cursor, errs, retries, src, unread, batch, latest,
                 taken, failed, late, errors, crashes>>

\* Fault: the session stays open.
KeepLock(w) ==
  /\ pollPc[w] = "locked"
  /\ pollPc' = [pollPc EXCEPT ![w] = "next"]
  /\ UNCHANGED <<queue, listed, dbVars, retries, todo, src, unread, batch, latest,
                 taken, failed, late, errors, crashes>>

\* The session closes, and with it the row locks go, before any source is polled.
Unlock(w) ==
  /\ pollPc[w] = "locked"
  /\ lock' = lock \ DOMAIN todo[w]
  /\ pollPc' = [pollPc EXCEPT ![w] = "next"]
  /\ UNCHANGED <<queue, listed, cursor, errs, retries, todo, src, unread, batch, latest,
                 taken, failed, late, errors, crashes>>

\* The loop over the cursors takes the next source, or the poll is over.
NextSource(w) ==
  /\ pollPc[w] = "next"
  /\ IF todo[w] = Nothing
     THEN pollPc' = [pollPc EXCEPT ![w] = "idle"] /\ retries' = [retries EXCEPT ![w] = 0]
          /\ UNCHANGED src
     ELSE /\ pollPc' = [pollPc EXCEPT ![w] = "list"]
          /\ \E s \in DOMAIN todo[w] : src' = [src EXCEPT ![w] = s]
          /\ UNCHANGED retries
  /\ UNCHANGED <<queue, listed, dbVars, todo, unread, batch, latest, taken, failed, late, errors, crashes>>

\* Locals of _poll_single_*_source go out of scope.
LeaveSource(w) ==
  /\ todo' = [todo EXCEPT ![w] = [s \in DOMAIN @ \ {src[w]} |-> @[s]]]
  /\ src' = [src EXCEPT ![w] = NoSource]
  /\ unread' = [unread EXCEPT ![w] = {}]
  /\ batch' = [batch EXCEPT ![w] = 0]
  /\ latest' = [latest EXCEPT ![w] = 0]
  /\ pollPc' = [pollPc EXCEPT ![w] = "next"]

\* list_objects_v2 / list_blobs.
List(w) ==
  LET s == src[w] IN
  /\ pollPc[w] = "list"
  /\ IF PageAfter(s, todo[w][s]) = {}
     THEN LeaveSource(w)
     ELSE /\ unread' = [unread EXCEPT ![w] = PageAfter(s, todo[w][s])]
          /\ latest' = [latest EXCEPT ![w] = todo[w][s]]
          /\ pollPc' = [pollPc EXCEPT ![w] = "object"]
          /\ UNCHANGED <<todo, src, batch>>
  /\ UNCHANGED <<queue, listed, dbVars, retries, taken, failed, late, errors, crashes>>

Current(w) == Lowest(unread[w])

\* One ingest_batch of the current object.
IngestBatch(w) ==
  LET k == Current(w) IN
  /\ pollPc[w] = "object" /\ unread[w] # {} /\ k \notin Markers \cup Corrupt
  /\ batch[w] < Batches[k]
  /\ taken' = taken \cup {<<src[w], k, batch[w] + 1>>}
  /\ batch' = [batch EXCEPT ![w] = @ + 1]
  /\ UNCHANGED <<queue, listed, dbVars, pollPc, retries, todo, src, unread, latest,
                 failed, late, errors, crashes>>

\* Fault: the object counts as done after its first batch.
DoneAfterFirstBatch(w) ==
  LET k == Current(w) IN
  /\ pollPc[w] = "object" /\ unread[w] # {}
  /\ k \in Markers \/ (k \notin Corrupt /\ batch[w] > 0)
  /\ latest' = [latest EXCEPT ![w] = IF k \in Markers THEN @ ELSE k]
  /\ unread' = [unread EXCEPT ![w] = @ \ {k}]
  /\ batch' = [batch EXCEPT ![w] = 0]
  /\ UNCHANGED <<queue, listed, dbVars, pollPc, retries, todo, src, taken, failed, late, errors, crashes>>

\* The object is done, and latest_file is its key; a marker is skipped.
ObjectDone(w) ==
  LET k == Current(w) IN
  /\ pollPc[w] = "object" /\ unread[w] # {}
  /\ k \in Markers \/ (k \notin Corrupt /\ batch[w] = Batches[k])
  /\ latest' = [latest EXCEPT ![w] = IF k \in Markers THEN @ ELSE k]
  /\ unread' = [unread EXCEPT ![w] = @ \ {k}]
  /\ batch' = [batch EXCEPT ![w] = 0]
  /\ UNCHANGED <<queue, listed, dbVars, pollPc, retries, todo, src, taken, failed, late, errors, crashes>>

\* The loop goes on with the next object, and latest_file stays.
ObjectFails(w) ==
  /\ failed' = failed \cup {<<src[w], Current(w)>>}
  /\ unread' = [unread EXCEPT ![w] = @ \ {Current(w)}]
  /\ batch' = [batch EXCEPT ![w] = 0]
  /\ UNCHANGED <<queue, listed, dbVars, pollPc, retries, todo, src, latest, taken, late, crashes>>

\* The object does not parse.
ParseFails(w) ==
  /\ pollPc[w] = "object" /\ unread[w] # {} /\ Current(w) \in Corrupt \ Markers
  /\ ObjectFails(w)
  /\ UNCHANGED errors

\* The download or an ingest_batch raises.
CallFails(w) ==
  /\ pollPc[w] = "object" /\ unread[w] # {} /\ Current(w) \notin Corrupt \cup Markers
  /\ errors < MaxErrors /\ errors' = errors + 1
  /\ ObjectFails(w)

\* UPDATE ingestion_cursors, unconditionally, when some object was processed.
SaveCursor(w) ==
  LET s == src[w] IN
  /\ pollPc[w] = "object" /\ unread[w] = {}
  /\ IF latest[w] = todo[w][s]
     THEN UNCHANGED <<cursor, errs>>
     ELSE /\ s \notin lock
          /\ cursor' = [cursor EXCEPT ![s] = latest[w]]
          /\ errs' = [errs EXCEPT ![s] = FALSE]
  /\ LeaveSource(w)
  /\ UNCHANGED <<queue, listed, lock, retries, taken, failed, late, errors, crashes>>

\* The listing or the UPDATE raises: error_count goes up, and the next source comes.
SourceFails(w) ==
  /\ pollPc[w] = "list" \/ (pollPc[w] = "object" /\ unread[w] = {})
  /\ errors < MaxErrors /\ errors' = errors + 1
  /\ src[w] \notin lock
  /\ errs' = [errs EXCEPT ![src[w]] = TRUE]
  /\ LeaveSource(w)
  /\ UNCHANGED <<queue, listed, cursor, lock, retries, taken, failed, late, crashes>>

\* The process stops working on the poll; an open session ends with its locks.
Abandon(w) ==
  /\ lock' = IF pollPc[w] = "locked" THEN lock \ DOMAIN todo[w] ELSE lock
  /\ pollPc' = [pollPc EXCEPT ![w] = "idle"] /\ retries' = [retries EXCEPT ![w] = 0]
  /\ todo' = [todo EXCEPT ![w] = Nothing] /\ src' = [src EXCEPT ![w] = NoSource]
  /\ unread' = [unread EXCEPT ![w] = {}] /\ batch' = [batch EXCEPT ![w] = 0]
  /\ latest' = [latest EXCEPT ![w] = 0]

\* The SELECT raises, out of the task: self.retry, or the poll is given up.
PollFails(w) ==
  /\ pollPc[w] = "select" /\ errors < MaxErrors /\ errors' = errors + 1
  /\ queue' = IF retries[w] < PollRetries THEN Append(queue, retries[w] + 1) ELSE queue
  /\ Abandon(w)
  /\ UNCHANGED <<listed, cursor, errs, taken, failed, late, crashes>>

\* The process dies and the message returns to the queue.
Crash(w) ==
  /\ pollPc[w] # "idle" /\ crashes < MaxCrashes /\ crashes' = crashes + 1
  /\ queue' = <<retries[w]>> \o queue
  /\ Abandon(w)
  /\ UNCHANGED <<listed, cursor, errs, taken, failed, late, errors>>

-----------------------------------------------------------------------------
PollStep(w) ==
  \/ PickUp(w) \/ Select(w) \/ Unlock(w) \/ NextSource(w) \/ List(w)
  \/ IngestBatch(w) \/ ObjectDone(w) \/ ParseFails(w)
  \/ SaveCursor(w)

NextPoll ==
  \/ Beat
  \/ \E s \in Sources, k \in Objects : Appear(s, k)
  \/ \E w \in Pollers : PollStep(w) \/ CallFails(w) \/ SourceFails(w) \/ PollFails(w) \/ Crash(w)

SpecPoll == InitPoll /\ [][NextPoll]_pollVars

\* The beat keeps its schedule and live processes go on.
FairPoll == SpecPoll /\ WF_pollVars(Beat) /\ \A w \in Pollers : WF_pollVars(PollStep(w))
-----------------------------------------------------------------------------
\* Every variable keeps its shape; a row lock belongs to a session that is open; the
\* page lies after the latest object, which lies after the cursor that was read.
PollTypeOK ==
  /\ queue \in Seq(0..PollRetries)
  /\ listed \in [Sources -> SUBSET Objects]
  /\ cursor \in [Sources -> 0..LastObject] /\ errs \in [Sources -> BOOLEAN]
  /\ \A s \in lock : \E w \in Pollers : pollPc[w] = "locked" /\ s \in DOMAIN todo[w]
  /\ pollPc \in [Pollers -> {"idle", "select", "locked", "next", "list", "object"}]
  /\ retries \in [Pollers -> 0..PollRetries]
  /\ src \in [Pollers -> Sources \cup {NoSource}]
  /\ batch \in [Pollers -> Nat]
  /\ \A w \in Pollers :
       /\ DOMAIN todo[w] \subseteq Sources
       /\ \A k \in unread[w] : k \in listed[src[w]] /\ k > latest[w]
       /\ pollPc[w] = "object" => latest[w] >= todo[w][src[w]]
  /\ taken \subseteq Sources \X Objects \X Nat
  /\ errors \in Nat /\ crashes \in Nat

\* An object behind the cursor of its source was ingested whole, unless it raised
\* once or appeared behind a listing: overlapping polls that move the cursor back
\* and forth, partial objects, retries and crashes leave no other gap.
NoSilentGap ==
  \A s \in Sources : \A k \in listed[s] \ Markers :
    k <= cursor[s] => \/ Ingested(s, k)
                      \/ <<s, k>> \in failed \cup late

\* The objects there are have been ingested, or logged as failed, or came late.
AllHandled ==
  \A s \in Sources : \A k \in listed[s] \ Markers :
    Ingested(s, k) \/ <<s, k>> \in failed \cup late

\* docs/architecture.md:135 ("On failure, the cursor does not advance and the batch
\* is retried from the same position"): the cursor stays before an object that
\* failed and has not been ingested since.
CursorWaitsForFailures ==
  \A s \in Sources, k \in Objects :
    <<s, k>> \in failed /\ ~Ingested(s, k) => cursor[s] < k
=============================================================================
