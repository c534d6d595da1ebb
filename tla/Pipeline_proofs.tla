--------------------------- MODULE Pipeline_proofs ---------------------------
(***************************************************************************)
(* Proofs about Ingest for every pool, every set of tasks and batches,     *)
(* every hash and bit assignment and every number of faults; and what      *)
(* these and Detection_proofs prove, for the specification that runs the   *)
(* two ends of the pipeline side by side.  A step of NextPipeline is a     *)
(* step of one of them and leaves the variables of the other alone, so     *)
(* that each keeps its own theorems.                                       *)
(***************************************************************************)
EXTENDS MCPipeline, FiniteSetTheorems, TLAPS

MarkPcs == {"rotget", "rotset", "rename", "setbit"}
BatchRange(w) == 1..Len(Batch[job[w]])

\* The locals of a process agree with where it is in ingest_batch ...
LocalOf(w) ==
  /\ pc[w] = "idle" => ins[w] = {} /\ own[w] = {}
  /\ pc[w] # "idle" => job[w] \in Tasks /\ task[job[w]] = "running" /\ pos[w] >= 1
  /\ pc[w] = "tier1" => ins[w] = {}
  /\ pc[w] \in {"dedup", "upsert"} \cup MarkPcs => pos[w] \in BatchRange(w)
  /\ pc[w] \in {"tier2", "dedup"} => \A p \in ins[w] : p < pos[w]
  /\ pc[w] \in MarkPcs \cup {"upsert"} => pos[w] \in ins[w] /\ \A p \in ins[w] : p <= pos[w]
  /\ pc[w] # "idle" => ins[w] \subseteq BatchRange(w)
  /\ own[w] \subseteq ins[w]

\* ... it has written collaborator rows in its open transaction only, and for
\* events that it has inserted ...
WroteOf(w) ==
  \A k \in CollabKeys : wrote[w][k] # NoRow =>
    wrote[w][k].row \in RowsOf(w) /\ InTransaction(w)

\* ... and the broker gives a message to one process at a time.
OneRunner ==
  \A w, u \in Workers : w # u /\ pc[w] # "idle" /\ pc[u] # "idle" => job[w] # job[u]

LocalInv == (\A w \in Workers : LocalOf(w) /\ WroteOf(w)) /\ OneRunner

\* What a process does in a step, failures included.
Act(w) == Step(w) \/ CallFails(w) \/ Crash(w)

BatchEvents == \A t \in Tasks : Len(Batch[t]) \in Nat /\ \A p \in 1..Len(Batch[t]) : Batch[t][p] \in Events

LEMMA BatchType == BatchEvents
  BY IngestAssumption DEF IngestAssumption, BatchEvents

LEMMA KeyType == \A e \in Events : DocKey(e) \in Docs
  BY IngestAssumption DEF IngestAssumption, DocKey

LEMMA RowEvents == \A r \in RowIds : EventOf(r) \in Events
  BY BatchType DEF RowIds, BatchEvents, EventOf

LEMMA ConstantTypes ==
  /\ NoTask \notin Tasks /\ MaxRetries \in [Tasks -> Nat] /\ LastDay \in Nat
  /\ Hash \in [Events -> Docs] /\ Bits \in [Docs -> SUBSET Positions]
  BY IngestAssumption DEF IngestAssumption

LEMMA InitLocal == Init => TypeOK /\ LocalInv
  <1> SUFFICES ASSUME Init PROVE TypeOK /\ LocalInv
    OBVIOUS
  <1>1. /\ collab \in [CollabKeys -> CollabRows \cup {NoRow}]
        /\ wrote \in [Workers -> [CollabKeys -> CollabRows \cup {NoRow}]]
    BY DEF Init, NothingWritten
  <1>2. TypeOK
    <2>1. /\ task \in [Tasks -> {"queued", "running", "done", "failed"}]
          /\ retries \in [Tasks -> Nat] /\ \A t \in Tasks : retries[t] <= MaxRetries[t]
          /\ tries \in [Tasks -> Nat]
      BY ConstantTypes DEF Init
    <2>2. /\ job \in [Workers -> Tasks \cup {NoTask}]
          /\ pos \in [Workers -> Nat]
          /\ fresh \in [Workers -> SUBSET Nat]
          /\ ins \in [Workers -> SUBSET Nat]
          /\ own \in [Workers -> SUBSET Nat]
      BY DEF Init
    <2>3. QED
      BY <1>1, <2>1, <2>2 DEF Init, TypeOK
  <1>3. LocalInv
    BY DEF Init, LocalInv, LocalOf, WroteOf, OneRunner, MarkPcs, NothingWritten
  <1>4. QED
    BY <1>2, <1>3

\* A process that leaves its call keeps the types of its locals.
LEMMA LeaveTypes ==
  ASSUME TypeOK, NEW w \in Workers, Leave(w)
  PROVE  /\ job' \in [Workers -> Tasks \cup {NoTask}]
         /\ pc' \in [Workers -> {"idle", "tier1", "tier2", "dedup", "rotget", "rotset",
                                 "rename", "setbit", "upsert", "chain"}]
         /\ pos' \in [Workers -> Nat]
         /\ fresh' \in [Workers -> SUBSET Nat]
         /\ ins' \in [Workers -> SUBSET Nat]
         /\ own' \in [Workers -> SUBSET Nat]
         /\ wrote' \in [Workers -> [CollabKeys -> CollabRows \cup {NoRow}]]
  BY DEF TypeOK, Leave, NothingWritten

LEMMA FinishTypes ==
  ASSUME TypeOK, NEW w \in Workers, job[w] \in Tasks, Finish(w)
  PROVE  /\ task' \in [Tasks -> {"queued", "running", "done", "failed"}]
         /\ job' \in [Workers -> Tasks \cup {NoTask}]
         /\ pc' \in [Workers -> {"idle", "tier1", "tier2", "dedup", "rotget", "rotset",
                                 "rename", "setbit", "upsert", "chain"}]
         /\ pos' \in [Workers -> Nat]
         /\ fresh' \in [Workers -> SUBSET Nat]
         /\ ins' \in [Workers -> SUBSET Nat]
         /\ own' \in [Workers -> SUBSET Nat]
         /\ wrote' \in [Workers -> [CollabKeys -> CollabRows \cup {NoRow}]]
  <1>1. Leave(w)
    BY DEF Finish
  <1>2. task' \in [Tasks -> {"queued", "running", "done", "failed"}]
    BY DEF TypeOK, Finish
  <1>3. QED
    BY <1>1, <1>2, LeaveTypes

LEMMA CountOneMore ==
  ASSUME NEW T, NEW f \in [T -> Nat], NEW m \in [T -> Nat], NEW t \in T, f[t] < m[t],
         \A x \in T : f[x] <= m[x]
  PROVE  LET g == [f EXCEPT ![t] = f[t] + 1]
         IN  g \in [T -> Nat] /\ \A x \in T : g[x] <= m[x]
  OBVIOUS

LEMMA TypeStep == TypeOK /\ LocalInv /\ [Next]_vars => TypeOK'
  <1> SUFFICES ASSUME TypeOK, LocalInv, [Next]_vars PROVE TypeOK'
    OBVIOUS
  <1> USE DEF TypeOK
  <1>1. ASSUME NEW w \in Workers, NEW t \in Tasks, PickUp(w, t) PROVE TypeOK'
    BY <1>1 DEF PickUp, bloomVars, dbVars, auxVars
  <1>2. ASSUME NEW w \in Workers, Tier1(w) PROVE TypeOK'
    BY <1>2 DEF Tier1, brokerVars, bloomVars, dbVars, auxVars
  <1>3. ASSUME NEW w \in Workers, Tier1End(w) PROVE TypeOK'
    <2>1. CASE fresh[w] = {}
      <3>1. job[w] \in Tasks
        BY <1>3 DEF Tier1End, LocalInv, LocalOf
      <3>2. Finish(w) /\ UNCHANGED <<retries, tries, bloomVars, dbVars, chained, auxVars>>
        BY <1>3, <2>1 DEF Tier1End
      <3>3. QED
        BY <3>1, <3>2, FinishTypes DEF bloomVars, dbVars, auxVars
    <2>2. CASE fresh[w] # {}
      <3>1. /\ pc' = [pc EXCEPT ![w] = "tier2"]
            /\ pos' = [pos EXCEPT ![w] = 1]
            /\ UNCHANGED <<task, job, fresh, ins, own, wrote, retries, tries, bloomVars, dbVars,
                           chained, auxVars>>
        BY <1>3, <2>2 DEF Tier1End
      <3>2. QED
        BY <3>1 DEF bloomVars, dbVars, auxVars
    <2>3. QED
      BY <2>1, <2>2
  <1>4. ASSUME NEW w \in Workers, Tier2(w) PROVE TypeOK'
    <2>1. pos' \in [Workers -> Nat]
      <3>1. pos' = pos \/ pos' = [pos EXCEPT ![w] = pos[w] + 1]
        BY <1>4 DEF Tier2
      <3>2. QED
        BY <3>1
    <2>2. pc' = pc \/ pc' = [pc EXCEPT ![w] = "dedup"]
      BY <1>4 DEF Tier2
    <2>3. UNCHANGED <<brokerVars, job, fresh, ins, own, wrote, bloomVars, dbVars, chained, auxVars>>
      BY <1>4 DEF Tier2
    <2>4. QED
      BY <2>1, <2>2, <2>3 DEF brokerVars, bloomVars, dbVars, auxVars
  <1>5. ASSUME NEW w \in Workers, InsertDedup(w) PROVE TypeOK'
    BY <1>5 DEF InsertDedup, brokerVars, bloomVars, dbVars, auxVars
  <1>6. ASSUME NEW w \in Workers, RotateGet(w) PROVE TypeOK'
    BY <1>6 DEF RotateGet, brokerVars, bloomVars, dbVars, auxVars
  <1>7. ASSUME NEW w \in Workers, RotateSet(w) PROVE TypeOK'
    BY <1>7 DEF RotateSet, brokerVars, dbVars, auxVars
  <1>8. ASSUME NEW w \in Workers, RotateRename(w) PROVE TypeOK'
    BY <1>8 DEF RotateRename, brokerVars, dbVars, auxVars
  <1>9. ASSUME NEW w \in Workers, SetBits(w) PROVE TypeOK'
    <2>1. Current(w) \in Events
      BY <1>9, BatchType DEF SetBits, LocalInv, LocalOf, MarkPcs, BatchRange, BatchEvents, Current, EventAt
    <2>2. QED
      BY <1>9, <2>1, ConstantTypes DEF SetBits, brokerVars, dbVars, auxVars
  <1>10. ASSUME NEW w \in Workers, UpsertCollaborator(w) PROVE TypeOK'
    <2>1. job[w] \in Tasks /\ RowOf(w, pos[w]) \in RowIds
      BY <1>10, BatchType DEF UpsertCollaborator, LocalInv, LocalOf, BatchRange, BatchEvents, RowOf, RowIds
    <2>2. [k \in CollabKeys |->
             IF Touches(w, k) THEN [row |-> RowOf(w, pos[w]), active |-> k \in Adds[Current(w)]]
             ELSE wrote[w][k]] \in [CollabKeys -> CollabRows \cup {NoRow}]
      BY <2>1 DEF CollabRows
    <2>3. wrote' \in [Workers -> [CollabKeys -> CollabRows \cup {NoRow}]]
      BY <1>10, <2>2 DEF UpsertCollaborator
    <2>4. UNCHANGED <<brokerVars, job, fresh, ins, own, bloomVars, dbVars, chained, auxVars>>
      BY <1>10 DEF UpsertCollaborator
    <2>5. pos' = [pos EXCEPT ![w] = pos[w] + 1] /\ pc' = [pc EXCEPT ![w] = "tier2"]
      BY <1>10 DEF UpsertCollaborator
    <2>6. QED
      BY <2>3, <2>4, <2>5 DEF brokerVars, bloomVars, dbVars, auxVars
  <1>11. ASSUME NEW w \in Workers, pc[w] # "idle", Rollback(w) PROVE burnt' \subseteq Events
    BY <1>11, BatchType DEF Rollback, Marked, LocalInv, LocalOf, BatchRange, BatchEvents, EventAt
  <1>12. ASSUME NEW w \in Workers, pc[w] # "idle", RaiseToRetry(w) PROVE TypeOK'
    <2>1. job[w] \in Tasks
      BY <1>12 DEF LocalInv, LocalOf
    <2>2. burnt' \subseteq Events
      BY <1>11, <1>12 DEF RaiseToRetry
    <2>3. /\ task' \in [Tasks -> {"queued", "running", "done", "failed"}]
          /\ retries' \in [Tasks -> Nat] /\ \A t \in Tasks : retries'[t] <= MaxRetries[t]
      <3>1. CASE retries[job[w]] < MaxRetries[job[w]]
        <4>1. /\ task' = [task EXCEPT ![job[w]] = "queued"]
              /\ retries' = [retries EXCEPT ![job[w]] = retries[job[w]] + 1]
          BY <1>12, <3>1 DEF RaiseToRetry
        <4>2. retries \in [Tasks -> Nat] /\ \A t \in Tasks : retries[t] <= MaxRetries[t]
          OBVIOUS
        <4>3. retries' \in [Tasks -> Nat] /\ \A t \in Tasks : retries'[t] <= MaxRetries[t]
          BY <2>1, <3>1, <4>1, <4>2, ConstantTypes, CountOneMore
        <4>4. QED
          BY <2>1, <4>1, <4>3
      <3>2. CASE ~(retries[job[w]] < MaxRetries[job[w]])
        <4>1. task' = [task EXCEPT ![job[w]] = "failed"] /\ retries' = retries
          BY <1>12, <3>2 DEF RaiseToRetry
        <4>2. QED
          BY <2>1, <4>1
      <3>3. QED
        BY <3>1, <3>2
    <2>4. Leave(w) /\ UNCHANGED <<tries, bloomVars, dbVars, chained, crashes, expiries>>
      BY <1>12 DEF RaiseToRetry, Rollback
    <2>5. QED
      BY <2>2, <2>3, <2>4, LeaveTypes DEF bloomVars, dbVars
  <1>13. ASSUME NEW w \in Workers, Commit(w) PROVE TypeOK'
    <2>1. job[w] \in Tasks /\ \A p \in ins[w] : RowOf(w, p) \in RowIds /\ EventAt(w, p) \in Events
      BY <1>13, BatchType DEF Commit, LocalInv, LocalOf, BatchRange, BatchEvents, EventAt, RowOf, RowIds
    <2>2. stored' \subseteq RowIds
      BY <1>13, <2>1 DEF Commit, RowsOf
    <2>3. dedup' \subseteq [doc : Docs, row : RowIds]
      BY <1>13, <2>1, KeyType DEF Commit, LocalInv, LocalOf
    <2>4. collab' \in [CollabKeys -> CollabRows \cup {NoRow}]
      BY <1>13 DEF Commit, CollabRow
    <2>5. CASE ins[w] = {}
      <3>1. Finish(w) /\ UNCHANGED <<retries, tries, bloomVars, cutoff, chained, auxVars>>
        BY <1>13, <2>5 DEF Commit
      <3>2. QED
        BY <2>1, <2>2, <2>3, <2>4, <3>1, FinishTypes DEF bloomVars, auxVars
    <2>6. CASE ins[w] # {}
      <3>1. /\ pc' = [pc EXCEPT ![w] = "chain"]
            /\ wrote' = [wrote EXCEPT ![w] = NothingWritten]
            /\ UNCHANGED <<task, job, pos, fresh, ins, own, retries, tries, bloomVars, cutoff,
                           chained, auxVars>>
        BY <1>13, <2>6 DEF Commit
      <3>2. QED
        BY <2>2, <2>3, <2>4, <3>1 DEF bloomVars, auxVars, NothingWritten
    <2>7. QED
      BY <2>5, <2>6
  <1>14. ASSUME NEW w \in Workers, ChainDetection(w) PROVE TypeOK'
    <2>1. job[w] \in Tasks /\ RowsOf(w) \subseteq RowIds
      <3>1. job[w] \in Tasks /\ ins[w] \subseteq BatchRange(w)
        BY <1>14 DEF ChainDetection, LocalInv, LocalOf
      <3>2. \A p \in ins[w] : RowOf(w, p) \in RowIds
        BY <3>1, BatchType DEF RowOf, RowIds, BatchRange, BatchEvents
      <3>3. QED
        BY <3>1, <3>2 DEF RowsOf
    <2>2. QED
      BY <1>14, <2>1, FinishTypes DEF ChainDetection, bloomVars, dbVars, auxVars
  <1>15. ASSUME NEW w \in Workers, Crash(w) PROVE TypeOK'
    <2>1. job[w] \in Tasks /\ pc[w] # "idle"
      BY <1>15 DEF Crash, LocalInv, LocalOf
    <2>2. burnt' \subseteq Events
      BY <1>11, <1>15, <2>1 DEF Crash
    <2>3. QED
      BY <1>15, <2>1, <2>2, LeaveTypes DEF Crash, Rollback, bloomVars, dbVars
  <1>16. CASE KeyExpires
    <2>1. active' \subseteq Positions /\ previous' \subseteq Positions /\ rotated' \in BOOLEAN
      BY <1>16 DEF KeyExpires
    <2>2. expiries' \in Nat
      BY <1>16 DEF KeyExpires
    <2>3. UNCHANGED <<brokerVars, workerVars, dbVars, chained, burnt, crashes>>
      BY <1>16 DEF KeyExpires
    <2>4. QED
      BY <2>1, <2>2, <2>3 DEF brokerVars, workerVars, dbVars
  <1>17. CASE PruneDedup
    BY <1>17, ConstantTypes DEF PruneDedup, brokerVars, workerVars, bloomVars, auxVars
  <1>18. CASE UNCHANGED vars
    BY <1>18 DEF vars, brokerVars, workerVars, bloomVars, dbVars, auxVars
  <1>19. QED
    BY <1>1, <1>2, <1>3, <1>4, <1>5, <1>6, <1>7, <1>8, <1>9, <1>10, <1>12, <1>13,
       <1>14, <1>15, <1>16, <1>17, <1>18
       DEF Next, Step, CallFails, RoleRefused, DeadlockVictim, Deadlocked, WaitsFor

-----------------------------------------------------------------------------
\* A step of one process leaves the locals of the others alone, and the broker's
\* record of the messages they run.
LEMMA Frame ==
  ASSUME TypeOK, LocalInv, NEW w \in Workers, Act(w), NEW u \in Workers, u # w
  PROVE  /\ pc'[u] = pc[u] /\ job'[u] = job[u] /\ pos'[u] = pos[u]
         /\ fresh'[u] = fresh[u] /\ ins'[u] = ins[u] /\ own'[u] = own[u] /\ wrote'[u] = wrote[u]
         /\ pc[u] # "idle" => /\ task'[job[u]] = task[job[u]]
                              /\ tries'[job[u]] = tries[job[u]]
  <1> USE DEF TypeOK
  <1>1. ASSUME Leave(w) PROVE
          /\ pc'[u] = pc[u] /\ job'[u] = job[u] /\ pos'[u] = pos[u]
          /\ fresh'[u] = fresh[u] /\ ins'[u] = ins[u] /\ own'[u] = own[u] /\ wrote'[u] = wrote[u]
    BY <1>1 DEF Leave
  <1>2. ASSUME NEW s, pc[w] # "idle", pc[u] # "idle",
               task' = [task EXCEPT ![job[w]] = s]
        PROVE  task'[job[u]] = task[job[u]]
    BY <1>2 DEF LocalInv, LocalOf, OneRunner
  <1>3. ASSUME NEW t \in Tasks, PickUp(w, t) PROVE
          /\ pc'[u] = pc[u] /\ job'[u] = job[u] /\ pos'[u] = pos[u]
          /\ fresh'[u] = fresh[u] /\ ins'[u] = ins[u] /\ own'[u] = own[u] /\ wrote'[u] = wrote[u]
          /\ pc[u] # "idle" => /\ task'[job[u]] = task[job[u]]
                               /\ tries'[job[u]] = tries[job[u]]
    BY <1>3 DEF PickUp, LocalInv, LocalOf
  <1>4. CASE Tier1End(w) /\ fresh[w] = {}
    BY <1>1, <1>2, <1>4 DEF Tier1End, Finish
  <1>5. CASE Tier1End(w) /\ fresh[w] # {}
    BY <1>5 DEF Tier1End
  <1>6. CASE Commit(w) /\ ins[w] = {}
    BY <1>1, <1>2, <1>6 DEF Commit, Finish
  <1>7. CASE Commit(w) /\ ins[w] # {}
    BY <1>7 DEF Commit
  <1>8. CASE ChainDetection(w)
    BY <1>1, <1>2, <1>8 DEF ChainDetection, Finish
  <1>9. CASE Crash(w)
    BY <1>1, <1>2, <1>9 DEF Crash, Rollback
  <1>10. CASE pc[w] # "idle" /\ RaiseToRetry(w)
    BY <1>1, <1>2, <1>10 DEF RaiseToRetry, Rollback
  <1>11. CASE Tier1(w) \/ Tier2(w) \/ InsertDedup(w)
    BY <1>11 DEF Tier1, Tier2, InsertDedup, brokerVars
  <1>12. CASE RotateGet(w) \/ RotateSet(w) \/ RotateRename(w)
    BY <1>12 DEF RotateGet, RotateSet, RotateRename, brokerVars
  <1>13. CASE SetBits(w) \/ UpsertCollaborator(w)
    BY <1>13 DEF SetBits, UpsertCollaborator, brokerVars
  <1>14. QED
    BY <1>3, <1>4, <1>5, <1>6, <1>7, <1>8, <1>9, <1>10, <1>11, <1>12, <1>13
       DEF Act, Step, CallFails, RoleRefused, DeadlockVictim, Deadlocked, WaitsFor

\* Except when it takes a message, a process goes on with its own or leaves.
LEMMA GoesOn ==
  ASSUME TypeOK, LocalInv, NEW w \in Workers, Act(w), ~\E t \in Tasks : PickUp(w, t)
  PROVE  /\ pc[w] # "idle"
         /\ \/ job'[w] = job[w] /\ task'[job[w]] = task[job[w]] /\ pc'[w] # "idle"
            \/ Leave(w)
         /\ tries' = tries
  <1> USE DEF TypeOK
  <1>1. CASE Tier1End(w)
    BY <1>1 DEF Tier1End, Finish
  <1>2. CASE Commit(w)
    BY <1>2 DEF Commit, Finish
  <1>3. CASE ChainDetection(w)
    BY <1>3 DEF ChainDetection, Finish
  <1>4. CASE Crash(w)
    BY <1>4 DEF Crash, Rollback
  <1>5. CASE pc[w] # "idle" /\ RaiseToRetry(w)
    BY <1>5 DEF RaiseToRetry, Rollback
  <1>6. CASE Tier1(w) \/ Tier2(w) \/ InsertDedup(w)
    BY <1>6 DEF Tier1, Tier2, InsertDedup, brokerVars
  <1>7. CASE RotateGet(w) \/ RotateSet(w) \/ RotateRename(w)
    BY <1>7 DEF RotateGet, RotateSet, RotateRename, brokerVars
  <1>8. CASE SetBits(w) \/ UpsertCollaborator(w)
    BY <1>8 DEF SetBits, UpsertCollaborator, brokerVars
  <1>9. QED
    BY <1>1, <1>2, <1>3, <1>4, <1>5, <1>6, <1>7, <1>8
       DEF Act, Step, CallFails, RoleRefused, DeadlockVictim, Deadlocked, WaitsFor

LEMMA LocalOfStep ==
  ASSUME TypeOK, LocalInv, NEW w \in Workers, Act(w)
  PROVE  LocalOf(w)'
  <1> USE DEF TypeOK, LocalOf, BatchRange, MarkPcs
  <1>0. LocalOf(w)
    BY DEF LocalInv
  <1>1. ASSUME NEW t \in Tasks, PickUp(w, t) PROVE LocalOf(w)'
    BY <1>0, <1>1 DEF PickUp
  <1>2. CASE Leave(w)
    BY <1>2 DEF Leave
  <1>3. CASE Tier1(w)
    BY <1>0, <1>3 DEF Tier1, brokerVars
  <1>4. CASE Tier1End(w) /\ fresh[w] # {}
    BY <1>0, <1>4 DEF Tier1End
  <1>5. CASE Tier2(w)
    BY <1>0, <1>5 DEF Tier2, brokerVars
  <1>6. CASE InsertDedup(w)
    BY <1>0, <1>6 DEF InsertDedup, brokerVars
  <1>7. CASE RotateGet(w) \/ RotateSet(w) \/ RotateRename(w)
    BY <1>0, <1>7 DEF RotateGet, RotateSet, RotateRename, brokerVars
  <1>8. CASE SetBits(w)
    BY <1>0, <1>8 DEF SetBits, brokerVars
  <1>9. CASE UpsertCollaborator(w)
    BY <1>0, <1>9 DEF UpsertCollaborator, brokerVars
  <1>10. CASE Commit(w) /\ ins[w] # {}
    BY <1>0, <1>10 DEF Commit
  <1>11. QED
    BY <1>1, <1>2, <1>3, <1>4, <1>5, <1>6, <1>7, <1>8, <1>9, <1>10
       DEF Act, Step, CallFails, RoleRefused, DeadlockVictim, RaiseToRetry, Crash, Rollback,
           ChainDetection, Finish, Tier1End, Commit

LEMMA WroteOfStep ==
  ASSUME TypeOK, LocalInv, NEW w \in Workers, Act(w)
  PROVE  WroteOf(w)'
  <1> USE DEF TypeOK, RowsOf, RowOf, InTransaction
  <1>0. LocalOf(w) /\ WroteOf(w)
    BY DEF LocalInv
  <1>1. ASSUME NEW t \in Tasks, PickUp(w, t) PROVE WroteOf(w)'
    BY <1>0, <1>1 DEF PickUp, WroteOf
  <1>2. CASE Leave(w)
    BY <1>2 DEF Leave, WroteOf, NothingWritten
  <1>3. CASE Tier1(w)
    BY <1>0, <1>3 DEF Tier1, brokerVars, WroteOf
  <1>4. CASE Tier1End(w) /\ fresh[w] # {}
    BY <1>0, <1>4 DEF Tier1End, WroteOf
  <1>5. CASE Tier2(w)
    BY <1>0, <1>5 DEF Tier2, brokerVars, WroteOf
  <1>6. CASE InsertDedup(w)
    <2>1. UNCHANGED <<job, tries, wrote>> /\ ins[w] \subseteq ins'[w] /\ pc'[w] = "rotget"
      BY <1>6 DEF InsertDedup, brokerVars
    <2>2. QED
      BY <1>0, <2>1 DEF WroteOf
  <1>7. CASE RotateGet(w) \/ RotateSet(w) \/ RotateRename(w)
    BY <1>0, <1>7 DEF RotateGet, RotateSet, RotateRename, brokerVars, WroteOf
  <1>8. CASE SetBits(w)
    BY <1>0, <1>8 DEF SetBits, brokerVars, WroteOf
  <1>9. CASE UpsertCollaborator(w)
    <2>1. UNCHANGED <<job, tries, ins>> /\ pc'[w] = "tier2" /\ pos[w] \in ins[w]
      BY <1>0, <1>9 DEF UpsertCollaborator, brokerVars, LocalOf
    <2>2. ASSUME NEW k \in CollabKeys
          PROVE  \/ wrote'[w][k] = wrote[w][k]
                 \/ wrote'[w][k] = [row |-> RowOf(w, pos[w]), active |-> k \in Adds[Current(w)]]
      BY <1>9 DEF UpsertCollaborator
    <2>3. RowOf(w, pos[w]) \in RowsOf(w) /\ RowsOf(w)' = RowsOf(w)
      BY <2>1
    <2>4. InTransaction(w)'
      BY <2>1
    <2> HIDE DEF TypeOK, RowsOf, RowOf, InTransaction
    <2>5. ASSUME NEW k \in CollabKeys, wrote'[w][k] # NoRow
          PROVE  wrote'[w][k].row \in RowsOf(w)
      <3>1. CASE wrote'[w][k] = wrote[w][k]
        BY <1>0, <2>5, <3>1 DEF WroteOf
      <3>2. CASE wrote'[w][k] = [row |-> RowOf(w, pos[w]), active |-> k \in Adds[Current(w)]]
        BY <2>3, <3>2
      <3>3. QED
        BY <2>2, <3>1, <3>2
    <2>6. QED
      BY <2>3, <2>4, <2>5 DEF WroteOf
  <1>10. CASE Commit(w) /\ ins[w] # {}
    BY <1>0, <1>10 DEF Commit, WroteOf, NothingWritten
  <1>11. QED
    BY <1>1, <1>2, <1>3, <1>4, <1>5, <1>6, <1>7, <1>8, <1>9, <1>10
       DEF Act, Step, CallFails, RoleRefused, DeadlockVictim, RaiseToRetry, Crash, Rollback,
           ChainDetection, Finish, Tier1End, Commit

LEMMA LocalStep == TypeOK /\ LocalInv /\ [Next]_vars => LocalInv'
  <1> SUFFICES ASSUME TypeOK, LocalInv, [Next]_vars PROVE LocalInv'
    OBVIOUS
  <1>1. ASSUME NEW w \in Workers, Act(w) PROVE LocalInv'
    <2>1. \A u \in Workers : LocalOf(u)' /\ WroteOf(u)'
      <3>1. ASSUME NEW u \in Workers, u # w PROVE LocalOf(u)'
        BY <1>1, <3>1, Frame DEF LocalInv, LocalOf, BatchRange
      <3>2. ASSUME NEW u \in Workers, u # w PROVE WroteOf(u)'
        <4>1. pc[u] # "idle" => RowsOf(u)' = RowsOf(u)
          BY <1>1, <3>2, Frame DEF RowsOf, RowOf
        <4>2. wrote'[u] = wrote[u] /\ InTransaction(u)' = InTransaction(u) /\ WroteOf(u)
          BY <1>1, <3>2, Frame DEF InTransaction, LocalInv
        <4>3. InTransaction(u) => pc[u] # "idle"
          BY DEF InTransaction
        <4>4. QED
          BY <4>1, <4>2, <4>3 DEF WroteOf
      <3>3. QED
        BY <1>1, <3>1, <3>2, LocalOfStep, WroteOfStep
    <2>2. ASSUME NEW u \in Workers, u # w, pc'[u] # "idle", pc'[w] # "idle"
          PROVE  job'[w] # job'[u]
      <3>1. pc[u] # "idle" /\ job'[u] = job[u]
        BY <1>1, <2>2, Frame
      <3>2. ASSUME NEW t \in Tasks, PickUp(w, t) PROVE job'[w] # job'[u]
        BY <3>1, <3>2 DEF PickUp, LocalInv, LocalOf, TypeOK
      <3>3. CASE ~\E t \in Tasks : PickUp(w, t)
        <4>1. pc[w] # "idle" /\ job'[w] = job[w]
          BY <1>1, <2>2, <3>3, GoesOn DEF Leave, TypeOK
        <4>2. QED
          BY <2>2, <3>1, <4>1 DEF LocalInv, OneRunner
      <3>4. QED
        BY <3>2, <3>3
    <2>3. OneRunner'
      <3>1. ASSUME NEW u \in Workers, NEW v \in Workers, u # v, u # w, v # w,
                   pc'[u] # "idle", pc'[v] # "idle"
            PROVE  job'[u] # job'[v]
        BY <1>1, <3>1, Frame DEF LocalInv, OneRunner
      <3>2. QED
        BY <2>2, <3>1 DEF OneRunner
    <2>4. QED
      BY <2>1, <2>3 DEF LocalInv
  <1>2. CASE KeyExpires \/ PruneDedup \/ UNCHANGED vars
    <2>1. UNCHANGED <<brokerVars, workerVars>>
      BY <1>2 DEF KeyExpires, PruneDedup, vars
    <2>2. QED
      BY <2>1 DEF brokerVars, workerVars, LocalInv, LocalOf, WroteOf, OneRunner, BatchRange, RowsOf,
                  RowOf, InTransaction
  <1>3. QED
    BY <1>1, <1>2 DEF Next, Act

\* Every variable keeps its shape, whatever the pool, the batches and the faults:
\* in particular no task is retried more often than max_retries.
THEOREM Typing == Spec => []TypeOK
  <1>1. Init => TypeOK /\ LocalInv
    BY InitLocal
  <1>2. TypeOK /\ LocalInv /\ [Next]_vars => (TypeOK /\ LocalInv)'
    BY TypeStep, LocalStep
  <1>3. QED
    BY <1>1, <1>2, PTL DEF Spec

-----------------------------------------------------------------------------
\* The tables name committed rows only, an event_dedup row holds the document id
\* of the event it points to, and a process that chains has committed its rows.
TablesInv ==
  /\ ReferencesCommitted
  /\ \A r \in dedup : r.doc = DocKey(EventOf(r.row))
  /\ \A w \in Workers : pc[w] = "chain" => RowsOf(w) \subseteq stored

\* The actions of a process that touch none of the tables.
LEMMA TablesKept ==
  ASSUME TypeOK, NEW w \in Workers, Act(w), ~Commit(w)
  PROVE  /\ UNCHANGED <<stored, dedup, collab>>
         /\ pc'[w] = "chain" => FALSE
         /\ ~ChainDetection(w) => UNCHANGED chained
  <1> USE DEF TypeOK
  <1>1. CASE \E t \in Tasks : PickUp(w, t)
    BY <1>1 DEF PickUp, dbVars, ChainDetection, Finish, Leave
  <1>2. CASE Tier1End(w)
    BY <1>2 DEF Tier1End, Finish, Leave, dbVars
  <1>3. CASE ChainDetection(w)
    BY <1>3 DEF ChainDetection, Finish, Leave, dbVars
  <1>4. CASE Crash(w)
    BY <1>4 DEF Crash, Rollback, Leave, dbVars
  <1>5. CASE RaiseToRetry(w)
    BY <1>5 DEF RaiseToRetry, Rollback, Leave, dbVars
  <1>6. CASE Tier1(w) \/ Tier2(w) \/ InsertDedup(w)
    BY <1>6 DEF Tier1, Tier2, InsertDedup, dbVars
  <1>7. CASE RotateGet(w) \/ RotateSet(w) \/ RotateRename(w)
    BY <1>7 DEF RotateGet, RotateSet, RotateRename, dbVars
  <1>8. CASE SetBits(w) \/ UpsertCollaborator(w)
    BY <1>8 DEF SetBits, UpsertCollaborator, dbVars
  <1>9. QED
    BY <1>1, <1>2, <1>3, <1>4, <1>5, <1>6, <1>7, <1>8
       DEF Act, Step, CallFails, RoleRefused, DeadlockVictim

LEMMA TablesStep == TypeOK /\ LocalInv /\ TablesInv /\ [Next]_vars => TablesInv'
  <1> SUFFICES ASSUME TypeOK, LocalInv, TablesInv, [Next]_vars PROVE TablesInv'
    OBVIOUS
  <1> USE DEF TablesInv, ReferencesCommitted
  <1>1. ASSUME NEW w \in Workers, Act(w), NEW u \in Workers, u # w, stored \subseteq stored'
        PROVE  pc'[u] = "chain" => RowsOf(u)' \subseteq stored'
    <2>1. pc'[u] = "chain" => pc[u] = "chain" /\ RowsOf(u)' = RowsOf(u)
      BY <1>1, Frame DEF RowsOf, RowOf
    <2>2. QED
      BY <1>1, <2>1
  <1>2. ASSUME NEW w \in Workers, Commit(w) PROVE TablesInv'
    <2>1. Act(w) /\ pc[w] # "idle"
      BY <1>2 DEF Act, Step, Commit
    <2>2. stored \subseteq stored' /\ RowsOf(w) \subseteq stored' /\ chained' = chained
      BY <1>2 DEF Commit
    <2>3. ASSUME NEW p \in own[w]
          PROVE  RowOf(w, p) \in stored' /\ EventOf(RowOf(w, p)) = EventAt(w, p)
      BY <2>1, <2>2, <2>3 DEF LocalInv, LocalOf, RowsOf, RowOf, EventOf, EventAt
    <2>4. \A r \in dedup' : r.row \in stored' /\ r.doc = DocKey(EventOf(r.row))
      <3>1. TAKE r \in dedup'
      <3>2. CASE r \in dedup
        BY <2>2, <3>2
      <3>3. CASE r \notin dedup
        <4>1. PICK p \in own[w] : r = [doc |-> DocKey(EventAt(w, p)), row |-> RowOf(w, p)]
          BY <1>2, <3>3 DEF Commit
        <4>2. QED
          BY <2>3, <4>1
      <3>4. QED
        BY <3>2, <3>3
    <2>5. \A k \in CollabKeys : collab'[k] # NoRow => collab'[k].row \in stored'
      BY <1>2, <2>2 DEF Commit, CollabRow, LocalInv, WroteOf
    <2>6. pc'[w] = "chain" => RowsOf(w)' \subseteq stored'
      <3>1. CASE ins[w] = {}
        BY <1>2, <3>1 DEF Commit, Finish, Leave, TypeOK
      <3>2. CASE ins[w] # {}
        BY <1>2, <2>2, <3>2 DEF Commit, RowsOf, RowOf
      <3>3. QED
        BY <3>1, <3>2
    <2>7. QED
      BY <1>1, <2>1, <2>2, <2>4, <2>5, <2>6
  <1>3. ASSUME NEW w \in Workers, Act(w), ~Commit(w) PROVE TablesInv'
    <2>1. UNCHANGED <<stored, dedup, collab>> /\ pc'[w] # "chain"
      BY <1>3, TablesKept
    <2>2. chained' \subseteq stored
      <3>1. CASE ChainDetection(w)
        BY <3>1 DEF ChainDetection
      <3>2. CASE ~ChainDetection(w)
        BY <1>3, <3>2, TablesKept
      <3>3. QED
        BY <3>1, <3>2
    <2>3. QED
      BY <1>1, <1>3, <2>1, <2>2
  <1>4. CASE KeyExpires \/ PruneDedup \/ UNCHANGED vars
    <2>1. UNCHANGED <<brokerVars, workerVars, stored, collab, chained>> /\ dedup' \subseteq dedup
      BY <1>4 DEF KeyExpires, PruneDedup, vars, dbVars
    <2>2. QED
      BY <2>1 DEF brokerVars, workerVars, RowsOf, RowOf
  <1>5. QED
    BY <1>2, <1>3, <1>4 DEF Next, Act

\* Nothing outside a transaction ever names a row that is not committed, for every
\* interleaving of processes that deadlock, roll back, retry or die between the
\* writes of ingest_batch.
THEOREM References == Spec => []ReferencesCommitted
  <1>1. Init => TypeOK /\ LocalInv /\ TablesInv
    <2>1. Init => TablesInv
      BY DEF Init, TablesInv, ReferencesCommitted
    <2>2. QED
      BY <2>1, InitLocal
  <1>2. TypeOK /\ LocalInv /\ TablesInv /\ [Next]_vars => (TypeOK /\ LocalInv /\ TablesInv)'
    BY TypeStep, LocalStep, TablesStep
  <1>3. TablesInv => ReferencesCommitted
    BY DEF TablesInv
  <1>4. QED
    BY <1>1, <1>2, <1>3, PTL DEF Spec

-----------------------------------------------------------------------------
\* A set bit of the filter is explained by an event, and so is every position of
\* the batch that the process has decided not to insert.
FilterInv == \A b \in active \cup previous : Accounted(b)

Handled(w, p) ==
  IF pc[w] = "tier1" THEN p < pos[w] /\ p \notin fresh[w]
  ELSE pc[w] # "chain" => p \notin fresh[w] \/ p < pos[w]

Passed(e) == e \in Malformed \/ Explained(Hash[e])

ScanOf(w) ==
  pc[w] # "idle" => \A p \in BatchRange(w) : Handled(w, p) => Passed(EventAt(w, p))

LossInv == FilterInv /\ (\A w \in Workers : ScanOf(w)) /\ NoUnexplainedLoss

LEMMA HashTypes == \A e \in Events : Hash[e] \in Docs /\ Bits[Hash[e]] \subseteq Positions
  BY ConstantTypes

\* A rollback keeps in `burnt` what it takes from the open transactions, and a
\* commit keeps it in the table: what explains a mark is never forgotten.
MarkedEvents(w) == {EventAt(w, p) : p \in Marked(w)}

LEMMA MarkedEventsStep ==
  ASSUME TypeOK, LocalInv, NEW w \in Workers, Act(w)
  PROVE  MarkedEvents(w) \subseteq MarkedEvents(w)' \cup burnt' \cup {EventOf(r) : r \in stored'}
  <1> USE DEF TypeOK, MarkedEvents, Marked, InTransaction, Marking
  <1>0. LocalOf(w)
    BY DEF LocalInv
  <1>1. CASE \E t \in Tasks : PickUp(w, t)
    BY <1>1 DEF PickUp
  <1>2. CASE Tier1(w) \/ Tier1End(w) \/ ChainDetection(w)
    BY <1>2 DEF Tier1, Tier1End, ChainDetection
  <1>3. CASE Tier2(w)
    BY <1>3 DEF Tier2, EventAt
  <1>4. CASE InsertDedup(w)
    BY <1>0, <1>4 DEF InsertDedup, EventAt, LocalOf
  <1>5. CASE RotateGet(w) \/ RotateSet(w) \/ RotateRename(w)
    BY <1>5 DEF RotateGet, RotateSet, RotateRename, EventAt
  <1>6. CASE SetBits(w) \/ UpsertCollaborator(w)
    <2>1. UNCHANGED <<job, ins>> /\ pc'[w] \in {"upsert", "tier2"}
      BY <1>6 DEF SetBits, UpsertCollaborator
    <2>2. Marked(w) \subseteq ins[w] /\ Marked(w)' = ins[w] /\ \A p : EventAt(w, p)' = EventAt(w, p)
      BY <2>1 DEF EventAt
    <2>3. QED
      BY <2>2
  <1>7. CASE Commit(w)
    <2>1. Marked(w) = ins[w]
      BY <1>7 DEF Commit
    <2>2. ASSUME NEW p \in ins[w] PROVE EventAt(w, p) \in {EventOf(r) : r \in stored'}
      <3>1. RowOf(w, p) \in stored' /\ EventOf(RowOf(w, p)) = EventAt(w, p)
        BY <1>7 DEF Commit, RowsOf, RowOf, EventOf, EventAt
      <3>2. QED
        BY <3>1
    <2>3. QED
      BY <2>1, <2>2
  <1>8. CASE Crash(w) \/ RaiseToRetry(w)
    BY <1>8 DEF Crash, RaiseToRetry, Rollback
  <1>9. QED
    BY <1>1, <1>2, <1>3, <1>4, <1>5, <1>6, <1>7, <1>8
       DEF Act, Step, CallFails, RoleRefused, DeadlockVictim

LEMMA HistoryGrows ==
  ASSUME [Next]_vars
  PROVE  stored \subseteq stored' /\ burnt \subseteq burnt'
  <1>1. ASSUME NEW w \in Workers, Act(w) PROVE burnt \subseteq burnt'
    BY <1>1 DEF Act, Step, CallFails, Crash, RoleRefused, DeadlockVictim, RaiseToRetry, Rollback,
       PickUp, Tier1, Tier1End, Tier2, InsertDedup, RotateGet, RotateSet, RotateRename, SetBits,
       UpsertCollaborator, Commit, ChainDetection, auxVars
  <1>2. ASSUME NEW w \in Workers, Act(w) PROVE stored \subseteq stored'
    BY <1>2 DEF Act, Step, CallFails, Crash, RoleRefused, DeadlockVictim, RaiseToRetry,
       PickUp, Tier1, Tier1End, Tier2, InsertDedup, RotateGet, RotateSet, RotateRename, SetBits,
       UpsertCollaborator, Commit, ChainDetection, dbVars
  <1>3. CASE KeyExpires \/ PruneDedup \/ UNCHANGED vars
    BY <1>3 DEF KeyExpires, PruneDedup, vars, dbVars, auxVars
  <1>4. QED
    BY <1>1, <1>2, <1>3 DEF Next, Act

LEMMA WitnessesGrow ==
  ASSUME TypeOK, LocalInv, [Next]_vars
  PROVE  Witnesses \subseteq Witnesses'
  <1> DEFINE StoredEvents == {EventOf(r) : r \in stored}
  <1>1. Witnesses = StoredEvents \cup burnt \cup UNION {MarkedEvents(w) : w \in Workers}
    BY DEF Witnesses, MarkedEvents
  <1>2. Witnesses' = StoredEvents' \cup burnt' \cup UNION {MarkedEvents(w)' : w \in Workers}
    BY DEF Witnesses, MarkedEvents
  <1>3. StoredEvents \subseteq StoredEvents' /\ burnt \subseteq burnt'
    BY HistoryGrows DEF EventOf
  <1>4. ASSUME NEW u \in Workers
        PROVE  MarkedEvents(u) \subseteq MarkedEvents(u)' \cup burnt' \cup StoredEvents'
    <2>1. ASSUME NEW w \in Workers, Act(w) PROVE
            MarkedEvents(u) \subseteq MarkedEvents(u)' \cup burnt' \cup StoredEvents'
      <3>1. CASE u = w
        BY <2>1, <3>1, MarkedEventsStep
      <3>2. CASE u # w
        BY <2>1, <3>2, Frame DEF MarkedEvents, Marked, InTransaction, Marking, EventAt
      <3>3. QED
        BY <3>1, <3>2
    <2>2. CASE KeyExpires \/ PruneDedup \/ UNCHANGED vars
      BY <2>2 DEF KeyExpires, PruneDedup, vars, workerVars, MarkedEvents, Marked, InTransaction,
                  Marking, EventAt
    <2>3. QED
      BY <2>1, <2>2 DEF Next, Act
  <1> HIDE DEF StoredEvents
  <1>5. QED
    BY <1>1, <1>2, <1>3, <1>4

\* So an explanation is good for ever.
LEMMA ExplanationsLast ==
  ASSUME TypeOK, LocalInv, [Next]_vars
  PROVE  /\ \A b : Accounted(b) => Accounted(b)'
         /\ \A e : Passed(e) => Passed(e)'
  BY WitnessesGrow DEF Accounted, Explained, Passed

LEMMA MarkedAreWitnesses ==
  ASSUME NEW w \in Workers
  PROVE  /\ \A p \in Marked(w) : EventAt(w, p) \in Witnesses
         /\ (\A p \in Marked(w) : EventAt(w, p) \in Witnesses)'
  BY DEF Witnesses

\* Bits are set for an event whose row the open transaction holds; a rotation and
\* an expiry only clear them.
LEMMA FilterStep == TypeOK /\ LocalInv /\ FilterInv /\ [Next]_vars => FilterInv'
  <1> SUFFICES ASSUME TypeOK, LocalInv, FilterInv, [Next]_vars PROVE FilterInv'
    OBVIOUS
  <1>1. ASSUME active' \cup previous' \subseteq active \cup previous PROVE FilterInv'
    BY <1>1, ExplanationsLast DEF FilterInv
  <1>2. ASSUME NEW w \in Workers, SetBits(w) PROVE FilterInv'
    <2>1. Current(w) \in Witnesses'
      <3>1. /\ pos[w] \in ins[w] /\ pc[w] = "setbit" /\ pc' = [pc EXCEPT ![w] = "upsert"]
            /\ UNCHANGED <<job, pos, ins>>
        BY <1>2 DEF SetBits, LocalInv, LocalOf, MarkPcs
      <3>2. pos[w] \in Marked(w)' /\ EventAt(w, pos[w])' = Current(w)
        BY <3>1 DEF Marked, InTransaction, Marking, Current, EventAt, TypeOK
      <3>3. QED
        BY <3>1, <3>2, MarkedAreWitnesses
    <2>2. \A b \in Bits[Hash[Current(w)]] : Accounted(b)'
      BY <2>1 DEF Accounted
    <2>3. active' = active \cup Bits[Hash[Current(w)]] /\ previous' = previous
      BY <1>2 DEF SetBits
    <2>4. QED
      BY <2>2, <2>3, ExplanationsLast DEF FilterInv
  <1>3. ASSUME NEW w \in Workers, RotateRename(w) PROVE FilterInv'
    BY <1>1, <1>3 DEF RotateRename
  <1>4. ASSUME NEW w \in Workers, Act(w), ~SetBits(w), ~RotateRename(w) PROVE FilterInv'
    <2>1. UNCHANGED <<active, previous>>
      BY <1>4 DEF Act, Step, CallFails, Crash, RoleRefused, DeadlockVictim, RaiseToRetry,
         PickUp, Tier1, Tier1End, Tier2, InsertDedup, RotateGet, RotateSet,
         UpsertCollaborator, Commit, ChainDetection, bloomVars
    <2>2. QED
      BY <1>1, <2>1
  <1>5. CASE KeyExpires \/ PruneDedup \/ UNCHANGED vars
    BY <1>1, <1>5 DEF KeyExpires, PruneDedup, vars, bloomVars
  <1>6. QED
    BY <1>2, <1>3, <1>4, <1>5 DEF Next, Act

\* What each tier may let go: an event tier 1 calls a duplicate ...
LEMMA Tier1Explains ==
  ASSUME FilterInv, NEW e, IsDuplicateBloom(Hash[e])
  PROVE  Passed(e)
  BY DEF FilterInv, IsDuplicateBloom, Passed, Explained

\* ... and one that tier 2 finds, since an event known by its hash was stored under
\* its hash.
LEMMA Tier2Explains ==
  ASSUME TypeOK, LocalInv, TablesInv, NEW w \in Workers, pc[w] = "tier2",
         NEW e \in Events, KnownDoc(w, Hash[e])
  PROVE  Passed(e)
  <1>1. ASSUME NEW f \in Events, DocKey(f) = Hash[e] PROVE Hash[f] = Hash[e]
    BY <1>1, IngestAssumption DEF IngestAssumption, DocKey
  <1>2. ASSUME NEW f \in Events, f \in Witnesses, DocKey(f) = Hash[e] PROVE Passed(e)
    BY <1>1, <1>2 DEF Passed, Explained, Accounted
  <1>3. CASE \E r \in dedup : r.doc = Hash[e]
    <2>1. PICK r \in dedup : r.doc = Hash[e]
      BY <1>3
    <2>2. r.row \in stored /\ DocKey(EventOf(r.row)) = Hash[e]
      BY <2>1 DEF TablesInv, ReferencesCommitted
    <2>3. EventOf(r.row) \in Witnesses
      BY <2>2 DEF Witnesses
    <2>4. QED
      BY <1>2, <2>2, <2>3, RowEvents DEF TypeOK
  <1>4. CASE \E p \in own[w] : DocKey(EventAt(w, p)) = Hash[e]
    <2>1. PICK p \in own[w] : DocKey(EventAt(w, p)) = Hash[e]
      BY <1>4
    <2>2. p \in Marked(w)
      BY <2>1 DEF LocalInv, LocalOf, Marked, InTransaction, Marking
    <2>3. EventAt(w, p) \in Witnesses
      BY <2>2 DEF Witnesses
    <2>4. EventAt(w, p) \in Events
      BY <2>1, BatchType DEF LocalInv, LocalOf, BatchRange, BatchEvents, EventAt
    <2>5. QED
      BY <1>2, <2>1, <2>3, <2>4
  <1>5. QED
    BY <1>3, <1>4 DEF KnownDoc

\* The whole batch has been handled when a call returns, and what is handled stays
\* explained.
AllPassed(w) == \A p \in BatchRange(w) : Passed(EventAt(w, p))

LEMMA ScanStep ==
  ASSUME TypeOK, LocalInv, TablesInv, FilterInv, [Next]_vars,
         NEW w \in Workers, ScanOf(w), Act(w)
  PROVE  /\ ScanOf(w)'
         /\ Finish(w) => AllPassed(w)
  <1> USE DEF TypeOK
  <1>0. LocalOf(w)
    BY DEF LocalInv
  <1>1. \A e : Passed(e) => Passed(e)'
    BY ExplanationsLast
  <1>2. ASSUME UNCHANGED job, pc[w] # "idle", \A p \in BatchRange(w) : Handled(w, p)' => Passed(EventAt(w, p))
        PROVE  ScanOf(w)'
    <2>1. BatchRange(w)' = BatchRange(w) /\ \A p : EventAt(w, p)' = EventAt(w, p)
      BY <1>2 DEF BatchRange, EventAt
    <2>2. QED
      BY <1>1, <1>2, <2>1 DEF ScanOf
  <1>3. ASSUME Leave(w) PROVE ScanOf(w)'
    BY <1>3 DEF Leave, ScanOf
  <1>4. ASSUME NEW t \in Tasks, PickUp(w, t) PROVE ScanOf(w)' /\ ~Finish(w)
    BY <1>4 DEF PickUp, ScanOf, Handled, BatchRange, Finish, Leave
  <1>5. CASE Tier1(w)
    <2>1. ASSUME NEW p \in BatchRange(w), Handled(w, p)' PROVE Passed(EventAt(w, p))
      BY <1>0, <1>5, <2>1, Tier1Explains
         DEF Tier1, ScanOf, Handled, LocalOf, BatchRange, Current
    <2>2. QED
      BY <1>2, <1>5, <2>1 DEF Tier1, Finish, Leave
  <1>6. CASE Tier1End(w)
    <2>1. \A p \in BatchRange(w) : p \notin fresh[w] => Passed(EventAt(w, p))
      BY <1>0, <1>6, BatchType DEF Tier1End, ScanOf, Handled, BatchRange, LocalOf, BatchEvents
    <2>2. CASE fresh[w] = {}
      BY <1>3, <1>6, <2>1, <2>2 DEF Tier1End, Finish, AllPassed
    <2>3. CASE fresh[w] # {}
      <3>1. UNCHANGED job /\ pc[w] # "idle" /\ pc' = [pc EXCEPT ![w] = "tier2"]
            /\ pos' = [pos EXCEPT ![w] = 1] /\ fresh' = fresh
        BY <1>6, <2>3 DEF Tier1End
      <3>2. \A p \in BatchRange(w) : Handled(w, p)' => Passed(EventAt(w, p))
        BY <2>1, <3>1 DEF Handled, BatchRange
      <3>3. QED
        BY <1>2, <3>1, <3>2 DEF Finish, Leave
    <2>4. QED
      BY <2>2, <2>3
  <1>7. CASE Tier2(w)
    <2>1. ASSUME NEW p \in BatchRange(w), Handled(w, p)' PROVE Passed(EventAt(w, p))
      <3>1. CASE p = pos[w] /\ SkippedByTier2(w)
        <4>1. Current(w) \in Events /\ EventAt(w, p) = Current(w)
          BY <1>0, <1>7, <2>1, <3>1, BatchType
             DEF Tier2, LocalOf, BatchRange, BatchEvents, EventAt, Current
        <4>2. CASE KnownDoc(w, Hash[Current(w)])
          BY <1>7, <4>1, <4>2, Tier2Explains DEF Tier2
        <4>3. CASE p \notin fresh[w]
          BY <1>7, <2>1, <4>3 DEF Tier2, ScanOf, Handled
        <4>4. CASE Current(w) \in Malformed
          BY <4>1, <4>4 DEF Passed
        <4>5. QED
          BY <3>1, <4>2, <4>3, <4>4 DEF SkippedByTier2
      <3>2. CASE ~(p = pos[w] /\ SkippedByTier2(w))
        BY <1>7, <2>1, <3>2 DEF Tier2, ScanOf, Handled, BatchRange
      <3>3. QED
        BY <3>1, <3>2
    <2>2. QED
      BY <1>2, <1>7, <2>1 DEF Tier2, Finish, Leave
  <1>8. CASE InsertDedup(w) \/ RotateGet(w) \/ RotateSet(w) \/ RotateRename(w) \/ SetBits(w)
    <2>1. ASSUME NEW p \in BatchRange(w), Handled(w, p)' PROVE Passed(EventAt(w, p))
      BY <1>8, <2>1 DEF InsertDedup, RotateGet, RotateSet, RotateRename, SetBits, ScanOf, Handled
    <2>2. QED
      BY <1>2, <1>8, <2>1
         DEF InsertDedup, RotateGet, RotateSet, RotateRename, SetBits, Finish, Leave
  <1>9. CASE UpsertCollaborator(w)
    <2>1. Passed(Current(w))
      <3>1. pos[w] \in Marked(w)
        BY <1>0, <1>9 DEF UpsertCollaborator, LocalOf, Marked, InTransaction, Marking
      <3>2. Current(w) \in Witnesses
        BY <3>1, MarkedAreWitnesses DEF Current
      <3>3. QED
        BY <3>2 DEF Passed, Explained, Accounted
    <2>2. ASSUME NEW p \in BatchRange(w), Handled(w, p)' PROVE Passed(EventAt(w, p))
      <3>1. pos'[w] = pos[w] + 1 /\ pc'[w] = "tier2" /\ fresh' = fresh
        BY <1>9 DEF UpsertCollaborator
      <3>2. p \in Nat /\ (p = pos[w] \/ p < pos[w] \/ p \notin fresh[w])
        BY <2>2, <3>1 DEF Handled, BatchRange
      <3>3. CASE p = pos[w]
        BY <2>1, <3>3 DEF Current
      <3>4. CASE p # pos[w]
        BY <1>9, <2>2, <3>2, <3>4 DEF UpsertCollaborator, ScanOf, Handled
      <3>5. QED
        BY <3>3, <3>4
    <2>3. UNCHANGED job /\ pc[w] # "idle" /\ pc' = [pc EXCEPT ![w] = "tier2"]
      BY <1>9 DEF UpsertCollaborator
    <2>4. ~Finish(w)
      BY <2>3 DEF Finish, Leave
    <2>5. QED
      BY <1>2, <2>2, <2>3, <2>4
  <1>10. CASE Commit(w)
    <2>1. AllPassed(w)
      <3>1. pc[w] = "tier2" /\ pos[w] > Len(Batch[job[w]]) /\ job[w] \in Tasks
        BY <1>0, <1>10 DEF Commit, LocalOf
      <3>2. \A p \in BatchRange(w) : p < pos[w]
        BY <3>1, BatchType DEF BatchRange, BatchEvents
      <3>3. QED
        BY <3>1, <3>2 DEF ScanOf, Handled, AllPassed
    <2>2. CASE ins[w] = {}
      BY <1>3, <1>10, <2>1, <2>2 DEF Commit, Finish
    <2>3. CASE ins[w] # {}
      BY <1>2, <1>10, <2>1, <2>3 DEF Commit, AllPassed
    <2>4. QED
      BY <2>2, <2>3
  <1>11. CASE ChainDetection(w)
    BY <1>3, <1>11 DEF ChainDetection, Finish, AllPassed, ScanOf, Handled
  <1>12. CASE pc[w] # "idle" /\ (RaiseToRetry(w) \/ Crash(w))
    <2>1. Leave(w) /\ (task'[job[w]] = "queued" \/ task'[job[w]] = "failed")
      BY <1>0, <1>12 DEF RaiseToRetry, Crash, Rollback, LocalOf
    <2>2. ~Finish(w)
      BY <1>0, <1>12, <2>1 DEF Finish, LocalOf
    <2>3. QED
      BY <1>3, <2>1, <2>2
  <1>13. QED
    BY <1>4, <1>5, <1>6, <1>7, <1>8, <1>9, <1>10, <1>11, <1>12
       DEF Act, Step, CallFails, RoleRefused, DeadlockVictim, Deadlocked, WaitsFor, Crash

\* A message is acknowledged by Finish only.
LEMMA DoneByFinish ==
  ASSUME TypeOK, LocalInv, [Next]_vars, NEW t \in Tasks, task'[t] = "done", task[t] # "done"
  PROVE  \E w \in Workers : Act(w) /\ Finish(w) /\ job[w] = t /\ pc[w] # "idle"
  <1> USE DEF TypeOK
  <1>1. PICK w \in Workers : Act(w)
    BY DEF Next, Act, KeyExpires, PruneDedup, vars, brokerVars
  <1>2. CASE Finish(w)
    BY <1>1, <1>2, GoesOn DEF Finish, PickUp, Leave
  <1>3. CASE ~Finish(w)
    <2>1. UNCHANGED task \/ \E s \in {"queued", "failed"}, q \in Tasks \cup {NoTask} : task' = [task EXCEPT ![q] = s]
            \/ \E u \in Tasks : task' = [task EXCEPT ![u] = "running"]
      BY <1>1, <1>3 DEF Act, Step, CallFails, Crash, RoleRefused, DeadlockVictim, RaiseToRetry,
         PickUp, Tier1, Tier1End, Tier2, InsertDedup, RotateGet, RotateSet, RotateRename, SetBits,
         UpsertCollaborator, Commit, ChainDetection, brokerVars
    <2>2. QED
      BY <2>1
  <1>4. QED
    BY <1>2, <1>3

LEMMA LossStep ==
  TypeOK /\ LocalInv /\ TablesInv /\ LossInv /\ [Next]_vars => LossInv'
  <1> SUFFICES ASSUME TypeOK, LocalInv, TablesInv, LossInv, [Next]_vars PROVE LossInv'
    OBVIOUS
  <1>1. FilterInv'
    BY FilterStep DEF LossInv
  <1>2. \A e : Passed(e) => Passed(e)'
    BY ExplanationsLast
  <1>3. ASSUME NEW u \in Workers PROVE ScanOf(u)'
    <2>1. ScanOf(u)
      BY DEF LossInv
    <2>2. CASE Act(u)
      BY <2>1, <2>2, ScanStep DEF LossInv
    <2>3. ASSUME UNCHANGED <<pc[u], job[u], pos[u], fresh[u]>> PROVE ScanOf(u)'
      <3>1. BatchRange(u)' = BatchRange(u) /\ \A p : EventAt(u, p)' = EventAt(u, p)
        BY <2>3 DEF BatchRange, EventAt
      <3>2. \A p : Handled(u, p)' => Handled(u, p)
        BY <2>3 DEF Handled
      <3>3. QED
        BY <1>2, <2>1, <2>3, <3>1, <3>2 DEF ScanOf
    <2>4. ASSUME NEW w \in Workers, Act(w), w # u PROVE ScanOf(u)'
      BY <2>3, <2>4, Frame
    <2>5. CASE KeyExpires \/ PruneDedup \/ UNCHANGED vars
      BY <2>3, <2>5 DEF KeyExpires, PruneDedup, vars, workerVars
    <2>6. QED
      BY <2>2, <2>4, <2>5 DEF Next, Act
  <1>4. NoUnexplainedLoss'
    <2>1. ASSUME NEW t \in Tasks, task'[t] = "done", NEW p \in 1..Len(Batch[t])
          PROVE  Passed(Batch[t][p])'
      <3>1. CASE task[t] = "done"
        BY <1>2, <2>1, <3>1 DEF LossInv, NoUnexplainedLoss, Passed
      <3>2. CASE task[t] # "done"
        <4>1. PICK w \in Workers : Act(w) /\ Finish(w) /\ job[w] = t
          BY <2>1, <3>2, DoneByFinish
        <4>2. AllPassed(w)
          BY <4>1, ScanStep DEF LossInv
        <4>3. Passed(Batch[t][p])
          BY <4>1, <4>2 DEF AllPassed, BatchRange, EventAt
        <4>4. QED
          BY <1>2, <4>3
      <3>3. QED
        BY <3>1, <3>2
    <2>2. QED
      BY <2>1 DEF NoUnexplainedLoss, Passed
  <1>5. QED
    BY <1>1, <1>3, <1>4 DEF LossInv

\* ingest_batch loses an event of an acknowledged task only to a set of marks each
\* of which a stored event, an open transaction or a rolled back transaction left:
\* retries, rotations, crashes, waits, deadlocks and pruning lose nothing.
THEOREM OnlyMarksLoseEvents == Spec => []NoUnexplainedLoss
  <1> DEFINE IInv == TypeOK /\ LocalInv /\ TablesInv /\ LossInv
  <1>1. Init => IInv
    <2>1. Init => TablesInv
      BY DEF Init, TablesInv, ReferencesCommitted
    <2>2. Init => LossInv
      BY DEF Init, LossInv, FilterInv, ScanOf, NoUnexplainedLoss
    <2>3. QED
      BY <2>1, <2>2, InitLocal
  <1>2. IInv /\ [Next]_vars => IInv'
    BY TypeStep, LocalStep, TablesStep, LossStep
  <1>3. IInv => NoUnexplainedLoss
    BY DEF LossInv
  <1>4. QED
    BY <1>1, <1>2, <1>3, PTL DEF Spec

-----------------------------------------------------------------------------
\* The rows of a delivery are numbered apart from those of every other one.
OfCurrentDelivery(w, r) == r[1] = job[w] /\ r[2] = tries[job[w]]

RowInv ==
  /\ \A r \in stored : r[2] <= tries[r[1]]
  /\ \A w \in Workers, r \in stored :
       /\ pc[w] \notin {"idle", "chain"} => ~OfCurrentDelivery(w, r)
       /\ pc[w] = "chain" /\ OfCurrentDelivery(w, r) => r \in RowsOf(w)
  /\ \A w \in Workers : pc[w] = "chain" => ins[w] # {}

LEMMA RowsAreCurrent ==
  ASSUME NEW w \in Workers, NEW r \in RowsOf(w)
  PROVE  OfCurrentDelivery(w, r)
  BY DEF RowsOf, RowOf, OfCurrentDelivery

\* After the commit the call hands its rows over, or dies.
LEMMA ChainEnds ==
  ASSUME TypeOK, NEW w \in Workers, Act(w), pc[w] = "chain"
  PROVE  Leave(w)
  BY DEF TypeOK, Act, Step, PickUp, Tier1, Tier1End, Tier2, InsertDedup, RotateGet, RotateSet,
         RotateRename, SetBits, UpsertCollaborator, RoleRefused, DeadlockVictim, Deadlocked, WaitsFor,
         Commit, ChainDetection, CallFails, Crash, Rollback, Finish

LEMMA RowStep == TypeOK /\ LocalInv /\ RowInv /\ [Next]_vars => RowInv'
  <1> SUFFICES ASSUME TypeOK, LocalInv, RowInv, [Next]_vars PROVE RowInv'
    OBVIOUS
  <1> USE DEF TypeOK
  <1>1. ASSUME NEW w \in Workers, Act(w), NEW u \in Workers, u # w, pc[u] # "idle"
        PROVE  /\ pc'[u] = pc[u] /\ ins'[u] = ins[u] /\ RowsOf(u)' = RowsOf(u)
               /\ \A r : OfCurrentDelivery(u, r)' <=> OfCurrentDelivery(u, r)
    BY <1>1, Frame DEF RowsOf, RowOf, OfCurrentDelivery
  <1>2. ASSUME NEW w \in Workers, NEW t \in Tasks, PickUp(w, t) PROVE RowInv'
    <2>1. Act(w) /\ stored' = stored
      BY <1>2 DEF Act, Step, PickUp, dbVars
    <2>2. \A r \in stored : r[1] \in Tasks /\ r[2] \in Nat
      BY DEF RowIds
    <2>3. \A r \in stored : r[2] <= tries'[r[1]]
      BY <1>2, <2>2 DEF PickUp, RowInv
    <2>4. \A r \in stored : ~OfCurrentDelivery(w, r)'
      BY <1>2, <2>2 DEF PickUp, RowInv, OfCurrentDelivery
    <2>5. pc'[w] = "tier1"
      BY <1>2 DEF PickUp
    <2>6. ASSUME NEW u \in Workers, u # w, pc'[u] # "idle" PROVE pc[u] # "idle"
      BY <1>2, <2>6 DEF PickUp
    <2>7. QED
      BY <1>1, <2>1, <2>3, <2>4, <2>5, <2>6 DEF RowInv
  <1>3. ASSUME NEW w \in Workers, Commit(w) PROVE RowInv'
    <2>1. Act(w) /\ pc[w] = "tier2" /\ stored' = stored \cup RowsOf(w) /\ tries' = tries
      BY <1>3 DEF Act, Step, Commit
    <2>2. \A r \in RowsOf(w) : r[1] = job[w] /\ r[2] = tries[job[w]] /\ job[w] \in Tasks
      BY <2>1 DEF RowsOf, RowOf, LocalInv, LocalOf
    <2>3. \A r \in stored' : r[2] <= tries'[r[1]]
      BY <2>1, <2>2 DEF RowInv
    <2>4. ASSUME NEW u \in Workers, u # w, pc[u] # "idle", NEW r \in RowsOf(w)
          PROVE  ~OfCurrentDelivery(u, r)
      BY <2>1, <2>2, <2>4 DEF OfCurrentDelivery, LocalInv, OneRunner
    <2>5. ASSUME NEW u \in Workers, u # w, pc'[u] # "idle" PROVE pc[u] # "idle"
      BY <2>1, <2>5, Frame
    <2>6. CASE ins[w] = {}
      <3>1. stored' = stored /\ pc'[w] = "idle"
        BY <1>3, <2>1, <2>6 DEF Commit, RowsOf, Finish, Leave
      <3>2. QED
        BY <1>1, <2>1, <2>3, <2>5, <3>1 DEF RowInv
    <2>7. CASE ins[w] # {}
      <3>1. pc'[w] = "chain" /\ ins' = ins /\ job' = job
        BY <1>3, <2>7 DEF Commit
      <3>2. RowsOf(w)' = RowsOf(w) /\ \A r : OfCurrentDelivery(w, r)' <=> OfCurrentDelivery(w, r)
        BY <2>1, <3>1 DEF RowsOf, RowOf, OfCurrentDelivery
      <3>3. \A r \in stored' : OfCurrentDelivery(w, r) => r \in RowsOf(w)
        BY <2>1 DEF RowInv
      <3>4. ASSUME NEW u \in Workers, u # w PROVE
              /\ \A r \in stored' :
                   /\ pc'[u] \notin {"idle", "chain"} => ~OfCurrentDelivery(u, r)'
                   /\ pc'[u] = "chain" /\ OfCurrentDelivery(u, r)' => r \in RowsOf(u)'
              /\ pc'[u] = "chain" => ins'[u] # {}
        BY <1>1, <2>1, <2>4, <2>5, <3>4 DEF RowInv
      <3>5. QED
        BY <2>1, <2>3, <2>7, <3>1, <3>2, <3>3, <3>4 DEF RowInv
    <2>8. QED
      BY <2>6, <2>7
  <1>4. ASSUME NEW w \in Workers, Act(w), ~Commit(w), ~\E t \in Tasks : PickUp(w, t)
        PROVE  RowInv'
    <2>1. stored' = stored /\ tries' = tries /\ pc'[w] # "chain"
      BY <1>4, TablesKept, GoesOn
    <2>2. pc'[w] # "idle" => pc[w] \notin {"idle", "chain"} /\ job'[w] = job[w]
      BY <1>4, GoesOn, ChainEnds DEF Leave
    <2>3. pc'[w] # "idle" => \A r : OfCurrentDelivery(w, r)' <=> OfCurrentDelivery(w, r)
      BY <2>1, <2>2 DEF OfCurrentDelivery
    <2>4. ASSUME NEW u \in Workers, u # w, pc'[u] # "idle" PROVE pc[u] # "idle"
      BY <1>4, <2>4, Frame
    <2>5. QED
      BY <1>1, <1>4, <2>1, <2>2, <2>3, <2>4 DEF RowInv
  <1>5. CASE KeyExpires \/ PruneDedup \/ UNCHANGED vars
    <2>1. UNCHANGED <<brokerVars, workerVars, stored>>
      BY <1>5 DEF KeyExpires, PruneDedup, vars, dbVars
    <2>2. QED
      BY <2>1 DEF brokerVars, workerVars, RowInv, RowsOf, RowOf, OfCurrentDelivery
  <1>6. QED
    BY <1>2, <1>3, <1>4, <1>5 DEF Next, Act

LEMMA LogStep ==
  ASSUME TypeOK, LocalInv, TablesInv, RowInv, [Next]_vars
  PROVE  [Log!Next]_<<stored, chained>>
  <1> USE DEF TypeOK
  <1>1. ASSUME NEW w \in Workers, Commit(w) PROVE [Log!Next]_<<stored, chained>>
    <2>1. pc[w] = "tier2" /\ stored' = stored \cup RowsOf(w) /\ chained' = chained
      BY <1>1 DEF Commit
    <2>2. \A r \in RowsOf(w) : OfCurrentDelivery(w, r)
      BY RowsAreCurrent
    <2>3. \A r \in stored : ~OfCurrentDelivery(w, r)
      BY <2>1 DEF RowInv
    <2>4. \A r, s \in stored' \ stored : Log!SameDelivery(r, s)
      BY <2>1, <2>2 DEF Log!SameDelivery, OfCurrentDelivery
    <2>5. \A r \in stored' \ stored, s \in stored : ~Log!SameDelivery(r, s)
      BY <2>1, <2>2, <2>3 DEF Log!SameDelivery, OfCurrentDelivery
    <2>6. QED
      BY <2>1, <2>4, <2>5 DEF Log!Next, Log!Append
  <1>2. ASSUME NEW w \in Workers, ChainDetection(w) PROVE [Log!Next]_<<stored, chained>>
    <2>1. pc[w] = "chain" /\ stored' = stored /\ chained' \in {chained, chained \cup RowsOf(w)}
      BY <1>2 DEF ChainDetection, dbVars
    <2>2. PICK p \in ins[w] : RowOf(w, p) \in stored
      BY <2>1 DEF RowInv, TablesInv, RowsOf
    <2>3. ASSUME NEW s PROVE s \in RowsOf(w) <=> s \in stored /\ Log!SameDelivery(RowOf(w, p), s)
      <3>1. Log!SameDelivery(RowOf(w, p), s) <=> OfCurrentDelivery(w, s)
        BY DEF Log!SameDelivery, OfCurrentDelivery, RowOf
      <3>2. s \in RowsOf(w) => s \in stored /\ OfCurrentDelivery(w, s)
        BY <2>1, RowsAreCurrent DEF TablesInv
      <3>3. s \in stored /\ OfCurrentDelivery(w, s) => s \in RowsOf(w)
        BY <2>1 DEF RowInv
      <3>4. QED
        BY <3>1, <3>2, <3>3
    <2>4. RowsOf(w) = {s \in stored : Log!SameDelivery(RowOf(w, p), s)}
      BY <2>3
    <2>5. QED
      BY <2>1, <2>2, <2>4 DEF Log!Next, Log!Handoff
  <1>3. ASSUME NEW w \in Workers, Act(w), ~Commit(w), ~ChainDetection(w)
        PROVE  UNCHANGED <<stored, chained>>
    BY <1>3, TablesKept
  <1>4. CASE KeyExpires \/ PruneDedup \/ UNCHANGED vars
    BY <1>4 DEF KeyExpires, PruneDedup, vars, dbVars
  <1>5. QED
    BY <1>1, <1>2, <1>3, <1>4 DEF Next, Act

\* The pipeline implements EventLog: however often a message is redelivered and
\* whichever process dies, a delivery appends its rows at once and at most once,
\* and hands over all of them or none.
THEOREM Refinement == Spec => ImplementsEventLog
  <1> DEFINE IInv == TypeOK /\ LocalInv /\ TablesInv /\ RowInv
  <1>1. Init => IInv /\ Log!Init
    <2>1. Init => TablesInv
      BY DEF Init, TablesInv, ReferencesCommitted
    <2>2. Init => RowInv /\ Log!Init
      BY DEF Init, RowInv, Log!Init
    <2>3. QED
      BY <2>1, <2>2, InitLocal
  <1>2. IInv /\ [Next]_vars => IInv'
    BY TypeStep, LocalStep, TablesStep, RowStep
  <1>3. IInv /\ [Next]_vars => [Log!Next]_<<stored, chained>>
    BY LogStep
  <1>4. QED
    BY <1>1, <1>2, <1>3, PTL DEF Spec, ImplementsEventLog, Log!Spec
-----------------------------------------------------------------------------
\* How often an event is stored.

Alike(d) == {e \in Events : Hash[e] = d}
Countable(d) == \A e \in Alike(d) : DocumentId[e] = NoDoc /\ Day[e] >= cutoff
Copies(d) == {r \in stored : EventOf(r) \in Alike(d)}

\* What the transaction of a process has inserted, or will insert next.
Pending(w) ==
  IF ~InTransaction(w) THEN {}
  ELSE IF pc[w] = "dedup" THEN ins[w] \cup {pos[w]} ELSE ins[w]
Holds(w, d) == {p \in Pending(w) : Hash[EventAt(w, p)] = d}
Holders(d) == {w \in Workers : Holds(w, d) # {}}
Known(d) == \E r \in dedup : r.doc = d

\* A transaction inserts an event once, and nobody begins to insert it once it is
\* stored: its copies are those of the transactions that began before the first commit.
CopiesOf(d) ==
  /\ Copies(d) # {} => Known(d)
  /\ \A w \in Workers :
       /\ \A p, q \in Holds(w, d) : p = q
       /\ \A p \in Holds(w, d) \cap ins[w] : p \in own[w] \/ Known(d)
  /\ IsFiniteSet(Copies(d))
  /\ Cardinality(Copies(d)) + Cardinality(Holders(d)) <= Cardinality(Workers)
CopyInv == \A d \in {Hash[e] : e \in Events} : Countable(d) => CopiesOf(d)

\* The row of event_dedup that has the hash of an event is of an event with that hash.
LEMMA KeysAreHashes ==
  ASSUME NEW e \in Events, NEW f \in Events, DocKey(f) = Hash[e]
  PROVE  Hash[f] = Hash[e]
  BY IngestAssumption DEF IngestAssumption, DocKey

LEMMA HoldersAreFinite ==
  ASSUME NEW d
  PROVE  /\ IsFiniteSet(Holders(d)) /\ Cardinality(Holders(d)) \in Nat
         /\ IsFiniteSet(Workers) /\ Cardinality(Workers) \in Nat
         /\ Cardinality(Holders(d)) <= Cardinality(Workers)
  <1>1. IsFiniteSet(Workers) /\ Holders(d) \subseteq Workers
    BY IngestAssumption DEF IngestAssumption, Holders
  <1>2. QED
    BY <1>1, FS_Subset, FS_CardinalityType

\* A process gets a position in hand only by letting it through tier 2.
LEMMA HandStep ==
  ASSUME TypeOK, LocalInv, NEW w \in Workers, Act(w), ~(Tier2(w) /\ pc'[w] = "dedup")
  PROVE  \A p \in Pending(w)' : p \in Pending(w) /\ EventAt(w, p)' = EventAt(w, p)
  <1> USE DEF TypeOK, InTransaction
  <1>0. LocalOf(w)
    BY DEF LocalInv
  <1>1. ASSUME NEW t \in Tasks, PickUp(w, t) PROVE Pending(w)' = {}
    BY <1>1 DEF PickUp, Pending
  <1>2. CASE Leave(w)
    BY <1>2 DEF Leave, Pending
  <1>3. CASE Tier1(w)
    BY <1>3 DEF Tier1, Pending
  <1>4. CASE Tier1End(w) /\ fresh[w] # {}
    BY <1>0, <1>4 DEF Tier1End, Pending, LocalOf
  <1>5. CASE Tier2(w)
    BY <1>5 DEF Tier2, Pending, EventAt
  <1>6. CASE InsertDedup(w)
    BY <1>6 DEF InsertDedup, Pending, EventAt
  <1>7. CASE RotateGet(w) \/ RotateSet(w) \/ RotateRename(w) \/ SetBits(w) \/ UpsertCollaborator(w)
    BY <1>7 DEF RotateGet, RotateSet, RotateRename, SetBits, UpsertCollaborator, Pending, EventAt
  <1>8. CASE Commit(w) /\ ins[w] # {}
    BY <1>8 DEF Commit, Pending
  <1>9. QED
    BY <1>1, <1>2, <1>3, <1>4, <1>5, <1>6, <1>7, <1>8
       DEF Act, Step, CallFails, RoleRefused, DeadlockVictim, RaiseToRetry, Crash, Rollback,
           ChainDetection, Finish, Tier1End, Commit

LEMMA OthersHold ==
  ASSUME TypeOK, LocalInv, NEW w \in Workers, Act(w), NEW u \in Workers, u # w, NEW d
  PROVE  Holds(u, d)' = Holds(u, d) /\ ins'[u] = ins[u] /\ own'[u] = own[u]
  <1>1. /\ pc'[u] = pc[u] /\ job'[u] = job[u] /\ pos'[u] = pos[u]
        /\ ins'[u] = ins[u] /\ own'[u] = own[u]
    BY Frame
  <1>2. Pending(u)' = Pending(u) /\ \A p : EventAt(u, p)' = EventAt(u, p)
    BY <1>1 DEF Pending, InTransaction, EventAt
  <1>3. QED
    BY <1>1, <1>2 DEF Holds

LEMMA CutoffGrows ==
  ASSUME TypeOK, [Next]_vars
  PROVE  /\ cutoff \in Nat /\ cutoff' \in Nat /\ cutoff <= cutoff'
         /\ ~PruneDedup => cutoff' = cutoff
  <1>1. ASSUME NEW w \in Workers, Act(w) PROVE cutoff' = cutoff
    BY <1>1 DEF Act, Step, CallFails, Crash, RoleRefused, DeadlockVictim, RaiseToRetry,
       PickUp, Tier1, Tier1End, Tier2, InsertDedup, RotateGet, RotateSet, RotateRename, SetBits,
       UpsertCollaborator, Commit, ChainDetection, dbVars
  <1>2. CASE KeyExpires \/ UNCHANGED vars
    BY <1>2 DEF KeyExpires, vars, dbVars, TypeOK
  <1>3. CASE PruneDedup
    BY <1>3, ConstantTypes DEF PruneDedup, TypeOK
  <1>4. QED
    BY <1>1, <1>2, <1>3 DEF Next, Act, TypeOK

\* Inside the retention window, what event_dedup knows it goes on knowing.
LEMMA KnownStays ==
  ASSUME TypeOK, LocalInv, TablesInv, [Next]_vars, NEW e \in Events, Countable(Hash[e])'
  PROVE  Countable(Hash[e]) /\ (Known(Hash[e]) => Known(Hash[e])')
  <1> DEFINE d == Hash[e]
  <1>0. \A f \in Events : Day[f] \in Nat
    BY IngestAssumption DEF IngestAssumption
  <1>1. Countable(d)
    BY <1>0, CutoffGrows DEF Countable, Alike
  <1>2. ASSUME NEW r \in dedup, r.doc = d PROVE r \in dedup'
    <2>1. EventOf(r.row) \in Events /\ r.doc = DocKey(EventOf(r.row))
      BY RowEvents DEF TypeOK, TablesInv
    <2>2. EventOf(r.row) \in Alike(d)
      BY <1>2, <2>1, KeysAreHashes DEF Alike
    <2>3. Day[EventOf(r.row)] >= cutoff'
      BY <2>2 DEF Countable, Alike
    <2>4. CASE PruneDedup
      BY <2>3, <2>4 DEF PruneDedup
    <2>5. CASE \E w \in Workers : Commit(w)
      BY <2>5 DEF Commit
    <2>6. ASSUME NEW w \in Workers, Act(w), ~Commit(w) PROVE dedup' = dedup
      BY <2>6, TablesKept
    <2>7. CASE KeyExpires \/ UNCHANGED vars
      BY <2>7 DEF KeyExpires, vars, dbVars
    <2>8. QED
      BY <2>4, <2>5, <2>6, <2>7 DEF Next, Act
  <1>3. QED
    BY <1>1, <1>2 DEF Known

LEMMA InHand ==
  ASSUME TypeOK, LocalInv, NEW w \in Workers, NEW p \in Pending(w)
  PROVE  EventAt(w, p) \in Events /\ EventOf(RowOf(w, p)) = EventAt(w, p)
  <1>1. LocalOf(w) /\ InTransaction(w)
    BY DEF LocalInv, Pending
  <1>2. p \in BatchRange(w) /\ job[w] \in Tasks
    BY <1>1 DEF LocalOf, Pending, InTransaction
  <1>3. QED
    BY <1>2, BatchType DEF BatchRange, BatchEvents, EventAt, RowOf, EventOf

\* Tier 2 lets a position through: if it is a copy, it is the first.
LEMMA EntryKeepsCopies ==
  ASSUME TypeOK, LocalInv, NEW w \in Workers, Tier2(w), pc'[w] = "dedup", Act(w),
         NEW e \in Events, Countable(Hash[e]), CopiesOf(Hash[e])
  PROVE  CopiesOf(Hash[e])'
  <1> DEFINE d == Hash[e]
  <1>1. /\ pc[w] = "tier2" /\ UNCHANGED <<job, pos, ins, own, stored, dedup, cutoff>>
        /\ ~SkippedByTier2(w)
    BY DEF Tier2, TypeOK, dbVars
  <1>2. Copies(d)' = Copies(d) /\ (Known(d)' <=> Known(d))
    BY <1>1 DEF Copies, Alike, Known
  <1>3. Pending(w) = ins[w] /\ Pending(w)' = ins[w] \cup {pos[w]} /\ \A p : EventAt(w, p)' = EventAt(w, p)
    BY <1>1 DEF Pending, InTransaction, EventAt
  <1>4. \A u \in Workers \ {w} : Holds(u, d)' = Holds(u, d) /\ ins'[u] = ins[u] /\ own'[u] = own[u]
    BY OthersHold
  <1>5. CASE Hash[Current(w)] # d
    <2>1. Holds(w, d)' = Holds(w, d)
      BY <1>3, <1>5 DEF Holds, Current
    <2>2. Holders(d)' = Holders(d)
      BY <1>4, <2>1 DEF Holders
    <2>3. QED
      BY <1>1, <1>2, <1>4, <2>1, <2>2 DEF CopiesOf
  <1>6. CASE Hash[Current(w)] = d
    <2>1. ~Known(d) /\ \A p \in own[w] : DocKey(EventAt(w, p)) # d
      BY <1>1, <1>6 DEF SkippedByTier2, KnownDoc, Known
    <2>2. Holds(w, d) = {}
      <3> SUFFICES ASSUME NEW p \in Holds(w, d) PROVE FALSE
        OBVIOUS
      <3>1. p \in own[w] /\ p \in Pending(w) /\ Hash[EventAt(w, p)] = d
        BY <1>3, <2>1 DEF CopiesOf, Holds
      <3>2. EventAt(w, p) \in Alike(d)
        BY <3>1, InHand DEF Alike
      <3>3. QED
        BY <2>1, <3>1, <3>2 DEF Countable, DocKey
    <2>3. Holds(w, d)' = {pos[w]}
      BY <1>3, <1>6, <2>2 DEF Holds, Current
    <2>4. pos[w] \notin ins[w]
      BY <1>1 DEF LocalInv, LocalOf, TypeOK
    <2>5. Copies(d) = {} /\ Cardinality(Copies(d)) = 0
      BY <2>1, FS_EmptySet DEF CopiesOf
    <2>6. Cardinality(Copies(d)') + Cardinality(Holders(d)') <= Cardinality(Workers)
      <3>1. Cardinality(Holders(d)') \in Nat /\ Cardinality(Holders(d)') <= Cardinality(Workers)
        BY FS_Subset, FS_CardinalityType, HoldersAreFinite DEF Holders
      <3>2. QED
        BY <1>2, <2>5, <3>1
    <2>7. QED
      BY <1>1, <1>2, <1>4, <2>3, <2>4, <2>5, <2>6 DEF CopiesOf
  <1>7. QED
    BY <1>5, <1>6

\* A commit turns what it holds into a copy, and knows it.
LEMMA CommitKeepsCopies ==
  ASSUME TypeOK, LocalInv, TablesInv, NEW w \in Workers, Commit(w), Act(w),
         NEW e \in Events, Countable(Hash[e]), CopiesOf(Hash[e]), Known(Hash[e]) => Known(Hash[e])'
  PROVE  CopiesOf(Hash[e])'
  <1> DEFINE d == Hash[e]
             H == Holds(w, d)
  <1>1. /\ pc[w] = "tier2" /\ stored' = stored \cup RowsOf(w)
        /\ dedup' = dedup \cup {[doc |-> DocKey(EventAt(w, p)), row |-> RowOf(w, p)] : p \in own[w]}
    BY DEF Commit
  <1>2. Pending(w) = ins[w]
    BY <1>1 DEF Pending, InTransaction
  <1>3. Holds(w, d)' = {}
    <2>1. pc'[w] \in {"idle", "chain"}
      BY DEF Commit, Finish, Leave, TypeOK
    <2>2. QED
      BY <2>1 DEF Holds, Pending, InTransaction
  <1>4. \A u \in Workers \ {w} : Holds(u, d)' = Holds(u, d) /\ ins'[u] = ins[u] /\ own'[u] = own[u]
    BY OthersHold
  <1>5. Holders(d)' = Holders(d) \ {w}
    BY <1>3, <1>4 DEF Holders
  <1>6. \A p \in ins[w] : EventAt(w, p) \in Events /\ EventOf(RowOf(w, p)) = EventAt(w, p)
    BY <1>2, InHand
  <1>7. Copies(d)' = Copies(d) \cup {RowOf(w, p) : p \in H}
    <2>1. Copies(d)' = {r \in stored' : EventOf(r) \in Alike(d)}
      BY DEF Copies, Alike, EventOf
    <2>2. {r \in RowsOf(w) : EventOf(r) \in Alike(d)} = {RowOf(w, p) : p \in H}
      BY <1>2, <1>6 DEF RowsOf, Holds, Alike
    <2>3. QED
      BY <1>1, <2>1, <2>2 DEF Copies
  <1>8. Known(d) \/ H # {} => Known(d)'
    <2>1. ASSUME NEW p \in H, p \in own[w] PROVE Known(d)'
      <3>1. EventAt(w, p) \in Alike(d)
        BY <1>2, <1>6 DEF Holds, Alike
      <3>2. DocKey(EventAt(w, p)) = d
        BY <3>1 DEF Countable, DocKey, Alike
      <3> DEFINE k == [doc |-> DocKey(EventAt(w, p)), row |-> RowOf(w, p)]
      <3>3. k \in dedup' /\ k.doc = d
        BY <1>1, <2>1, <3>2
      <3>4. (\E r \in dedup : r.doc = d)' <=> \E r \in dedup' : r.doc = d
        OBVIOUS
      <3>5. \E r \in dedup' : r.doc = d
        <4> HIDE DEF k
        <4>1. QED
          BY <3>3
      <3>6. QED
        BY <3>4, <3>5 DEF Known
    <2>2. QED
      BY <1>2, <2>1 DEF CopiesOf, Holds
  <1>9. \A u \in Workers :
          /\ \A p, q \in Holds(u, d)' : p = q
          /\ \A p \in Holds(u, d)' \cap ins'[u] : p \in own'[u] \/ Known(d)'
    BY <1>3, <1>4, <1>8 DEF CopiesOf
  <1>10. IsFiniteSet(Copies(d)) /\ Cardinality(Copies(d)) \in Nat
    BY FS_CardinalityType DEF CopiesOf
  <1>11. CASE H = {}
    <2>1. Copies(d)' = Copies(d) /\ Holders(d)' = Holders(d)
      BY <1>5, <1>7, <1>11 DEF Holders
    <2>2. QED
      BY <1>8, <1>9, <2>1 DEF CopiesOf
  <1>12. ASSUME NEW p \in H PROVE CopiesOf(d)'
    <2>1. Copies(d)' = Copies(d) \cup {RowOf(w, p)} /\ w \in Holders(d)
      BY <1>7, <1>12 DEF CopiesOf, Holders
    <2>2. /\ IsFiniteSet(Copies(d)') /\ Cardinality(Copies(d)') \in Nat
          /\ Cardinality(Copies(d)') <= Cardinality(Copies(d)) + 1
      <3> DEFINE S == Copies(d)
                 x == RowOf(w, p)
      <3>1. /\ IsFiniteSet(S \cup {x})
            /\ Cardinality(S \cup {x}) = IF x \in S THEN Cardinality(S) ELSE Cardinality(S) + 1
        <4> HIDE DEF S, x
        <4>1. IsFiniteSet(S)
          BY <1>10 DEF S
        <4>2. QED
          BY <4>1, FS_AddElement
      <3>2. Copies(d)' = S \cup {x}
        BY <2>1
      <3>3. Cardinality(S) \in Nat
        BY <1>10
      <3> HIDE DEF S, x
      <3>4. /\ Cardinality(S \cup {x}) \in Nat
            /\ Cardinality(S \cup {x}) <= Cardinality(S) + 1
        BY <3>1, <3>3
      <3>5. QED
        BY <3>1, <3>2, <3>4 DEF S
    <2>3. /\ Cardinality(Holders(d)') = Cardinality(Holders(d)) - 1
          /\ Cardinality(Holders(d)) \in Nat /\ Cardinality(Workers) \in Nat
      BY <1>5, <2>1, HoldersAreFinite, FS_RemoveElement
    <2>4. Cardinality(Copies(d)) + Cardinality(Holders(d)) <= Cardinality(Workers)
      BY DEF CopiesOf
    <2>5. Cardinality(Copies(d)') + Cardinality(Holders(d)') <= Cardinality(Workers)
      BY <1>10, <2>2, <2>3, <2>4
    <2>6. QED
      BY <1>8, <1>9, <1>12, <2>2, <2>5 DEF CopiesOf
  <1>13. QED
    BY <1>11, <1>12

\* Every other step of a process holds less or the same.
LEMMA OthersKeepCopies ==
  ASSUME TypeOK, LocalInv, NEW w \in Workers, Act(w), ~Commit(w), ~(Tier2(w) /\ pc'[w] = "dedup"),
         NEW e \in Events, Countable(Hash[e]), CopiesOf(Hash[e])
  PROVE  CopiesOf(Hash[e])'
  <1> DEFINE d == Hash[e]
  <1>1. UNCHANGED <<stored, dedup>>
    BY TablesKept
  <1>2. Copies(d)' = Copies(d) /\ (Known(d)' <=> Known(d))
    BY <1>1 DEF Copies, Alike, Known, EventOf
  <1>3. \A u \in Workers \ {w} : Holds(u, d)' = Holds(u, d) /\ ins'[u] = ins[u] /\ own'[u] = own[u]
    BY OthersHold
  <1>4. Holds(w, d)' \subseteq Holds(w, d)
    BY HandStep DEF Holds
  <1>5. Holders(d)' \subseteq Holders(d)
    BY <1>3, <1>4 DEF Holders
  <1>6. Cardinality(Copies(d)') + Cardinality(Holders(d)') <= Cardinality(Workers)
    <2>1. /\ Cardinality(Holders(d)') <= Cardinality(Holders(d)) /\ Cardinality(Holders(d)') \in Nat
          /\ Cardinality(Holders(d)) \in Nat /\ Cardinality(Workers) \in Nat
      BY <1>5, HoldersAreFinite, FS_Subset, FS_CardinalityType
    <2>2. Cardinality(Copies(d)) \in Nat /\ Cardinality(Copies(d)) + Cardinality(Holders(d)) <= Cardinality(Workers)
      BY FS_CardinalityType DEF CopiesOf
    <2>3. QED
      BY <1>2, <2>1, <2>2
  <1>7. ASSUME NEW p \in Holds(w, d)' \cap ins'[w] PROVE p \in own'[w] \/ Known(d)'
    <2>1. p \in Holds(w, d) /\ p \in Pending(w)'
      BY <1>4, <1>7 DEF Holds
    <2>2. CASE InsertDedup(w)
      <3>1. /\ pc[w] = "dedup" /\ ins'[w] = ins[w] \cup {pos[w]}
            /\ own'[w] = IF KnownDoc(w, DocKey(Current(w))) THEN own[w] ELSE own[w] \cup {pos[w]}
        BY <2>2 DEF InsertDedup, TypeOK
      <3>2. pos[w] \in Pending(w) /\ own[w] \subseteq ins[w] /\ ins[w] \subseteq Pending(w)
        BY <3>1 DEF Pending, InTransaction, LocalInv, LocalOf
      <3>3. CASE p \in ins[w]
        BY <1>2, <2>1, <3>1, <3>3 DEF CopiesOf
      <3>4. ASSUME p = pos[w], KnownDoc(w, DocKey(Current(w))) PROVE p \in own[w] \/ Known(d)
        <4>1. Hash[Current(w)] = d /\ Current(w) \in Alike(d)
          BY <2>1, <3>2, <3>4, InHand DEF Holds, Current, Alike
        <4>2. DocKey(Current(w)) = d
          BY <4>1 DEF Countable, DocKey
        <4>3. ASSUME NEW q \in own[w], DocKey(EventAt(w, q)) = d PROVE q = p
          <5>1. q \in Pending(w) /\ EventAt(w, q) \in Events
            BY <3>2, InHand
          <5>2. Hash[EventAt(w, q)] = d
            BY <4>3, <5>1, KeysAreHashes
          <5>3. QED
            BY <2>1, <5>1, <5>2 DEF CopiesOf, Holds
        <4>4. QED
          BY <3>4, <4>2, <4>3 DEF KnownDoc, Known
      <3>5. QED
        BY <1>2, <1>7, <3>1, <3>3, <3>4
    <2>3. CASE ~InsertDedup(w)
      <3>1. ins'[w] = ins[w] /\ own'[w] = own[w]
        <4>1. ASSUME Leave(w) PROVE FALSE
          BY <2>1, <4>1 DEF Leave, Pending, InTransaction, TypeOK
        <4>2. ASSUME NEW t \in Tasks, PickUp(w, t) PROVE UNCHANGED <<ins, own>>
          BY <4>2 DEF PickUp
        <4>3. QED
          BY <2>3, <4>1, <4>2
             DEF Act, Step, CallFails, RoleRefused, DeadlockVictim, RaiseToRetry, Crash, Rollback,
                 ChainDetection, Finish, Tier1, Tier1End, Tier2, RotateGet, RotateSet, RotateRename,
                 SetBits, UpsertCollaborator, Commit
      <3>2. QED
        BY <1>2, <1>7, <2>1, <3>1 DEF CopiesOf
    <2>4. QED
      BY <2>2, <2>3
  <1>8. \A u \in Workers : \A p, q \in Holds(u, d)' : p = q
    BY <1>3, <1>4 DEF CopiesOf
  <1>9. \A u \in Workers : \A p \in Holds(u, d)' \cap ins'[u] : p \in own'[u] \/ Known(d)'
    BY <1>2, <1>3, <1>7 DEF CopiesOf
  <1>10. QED
    BY <1>2, <1>6, <1>8, <1>9 DEF CopiesOf

LEMMA CopyStep == TypeOK /\ LocalInv /\ TablesInv /\ CopyInv /\ [Next]_vars => CopyInv'
  <1> SUFFICES ASSUME TypeOK, LocalInv, TablesInv, CopyInv, [Next]_vars,
                      NEW e \in Events, Countable(Hash[e])'
               PROVE  CopiesOf(Hash[e])'
    BY DEF CopyInv
  <1> DEFINE d == Hash[e]
  <1>1. Countable(d) /\ (Known(d) => Known(d)') /\ CopiesOf(d)
    BY KnownStays DEF CopyInv
  <1>2. ASSUME NEW w \in Workers, Act(w) PROVE CopiesOf(d)'
    BY <1>1, <1>2, EntryKeepsCopies, CommitKeepsCopies, OthersKeepCopies
  <1>3. CASE KeyExpires \/ PruneDedup \/ UNCHANGED vars
    <2>1. UNCHANGED <<stored, pc, job, pos, ins, own>>
      BY <1>3 DEF KeyExpires, PruneDedup, vars, dbVars, workerVars
    <2>2. Copies(d)' = Copies(d)
      BY <2>1 DEF Copies, Alike, EventOf
    <2>3. \A w \in Workers : Holds(w, d)' = Holds(w, d)
      BY <2>1 DEF Holds, Pending, InTransaction, EventAt
    <2>4. Holders(d)' = Holders(d)
      BY <2>3 DEF Holders
    <2>5. QED
      BY <1>1, <2>1, <2>2, <2>3, <2>4 DEF CopiesOf
  <1>4. QED
    BY <1>2, <1>3 DEF Next, Act

\* ingest_batch stores an event known by its hash at most once per process of the pool,
\* however often it is delivered, retried or interrupted.
THEOREM FewDuplicates == Spec => []DuplicatesBoundedByWorkers
  <1> DEFINE IInv == TypeOK /\ LocalInv /\ TablesInv /\ CopyInv
  <1>1. Init => IInv
    <2> SUFFICES ASSUME Init PROVE TablesInv /\ CopyInv
      BY InitLocal
    <2>1. TablesInv
      BY DEF Init, TablesInv, ReferencesCommitted
    <2>2. ASSUME NEW d PROVE CopiesOf(d)
      <3>1. Copies(d) = {} /\ Holders(d) = {}
        BY DEF Init, Copies, Holders, Holds, Pending, InTransaction
      <3>2. \A w \in Workers : Holds(w, d) = {}
        BY DEF Init, Holds, Pending, InTransaction
      <3>3. Cardinality({}) = 0 /\ IsFiniteSet({}) /\ Cardinality(Workers) \in Nat
        BY FS_EmptySet, HoldersAreFinite
      <3>4. QED
        BY <3>1, <3>2, <3>3 DEF CopiesOf
    <2>3. QED
      BY <2>1, <2>2 DEF CopyInv
  <1>2. IInv /\ [Next]_vars => IInv'
    BY TypeStep, LocalStep, TablesStep, CopyStep
  <1>3. IInv => DuplicatesBoundedByWorkers
    <2> SUFFICES ASSUME IInv, NEW e \in Events, Countable(Hash[e])
                 PROVE  Cardinality(Copies(Hash[e])) <= Cardinality(Workers)
      BY DEF DuplicatesBoundedByWorkers, Countable, Copies, Alike
    <2>1. /\ IsFiniteSet(Copies(Hash[e]))
          /\ Cardinality(Copies(Hash[e])) + Cardinality(Holders(Hash[e])) <= Cardinality(Workers)
      BY DEF CopyInv, CopiesOf
    <2>2. /\ Cardinality(Copies(Hash[e])) \in Nat /\ Cardinality(Holders(Hash[e])) \in Nat
          /\ Cardinality(Workers) \in Nat
      BY <2>1, FS_CardinalityType, HoldersAreFinite
    <2>3. QED
      BY <2>1, <2>2
  <1>4. QED
    BY <1>1, <1>2, <1>3, PTL DEF Spec
-----------------------------------------------------------------------------
(* DetectionPipeline beside it *)

\* Detection_proofs of the detection pipeline that MCPipeline calls D.
P == INSTANCE Detection_proofs WITH
  Tasks <- Batches, Events <- Found, Keys <- {"k1", "k2"}, Orgs <- {"o"},
  Issues <- {"i"}, Counted <- Matches,
  Key <- KeyOfEvent, Org <- OrgOfEvent, CreatedAt <- AtOfEvent,
  Opens <- OpensOfEvent, Remedies <- RemediesOfEvent,
  MaxRetries <- RunRetries, MaxCrashes <- MaxKills,
  task <- dTask, retries <- dRetries, tries <- dTries, job <- dJob, pc <- dPc,
  crashes <- kills
-----------------------------------------------------------------------------
(* The definitions of D and those that P proves about are the same.        *)

LEMMA SameDetection ==
  /\ P!DetectionAssumption
  /\ D!Init <=> P!Init
  /\ UNCHANGED (D!vars) <=> UNCHANGED (P!vars)
  /\ D!Next <=> P!Next
  /\ D!TypeOK <=> P!TypeOK
  /\ D!DuplicatesBoundedByWorkers <=> P!DuplicatesBoundedByWorkers
  /\ D!NoMissedCrossing <=> P!NoMissedCrossing
  /\ D!SentIsWritten <=> P!SentIsWritten
<1>1. P!DetectionAssumption
  BY DetectionParameters DEF D!DetectionAssumption, P!DetectionAssumption,
    D!RuleNames, P!RuleNames, D!DetIds, P!DetIds, D!IsFiniteSet, P!IsFiniteSet
<1>2. D!Init <=> P!Init
  BY DEF D!Init, P!Init, D!Nothing, P!Nothing, D!NotFound, P!NotFound
<1>3. UNCHANGED (D!vars) <=> UNCHANGED (P!vars)
  BY DEF D!vars, P!vars, D!brokerVars, P!brokerVars, D!workerVars, P!workerVars,
    D!histVars, P!histVars, D!boundVars, P!boundVars, D!workVars, P!workVars
<1>4. D!Next <=> P!Next
  <2>1. D!Tick <=> P!Tick
    BY DEF D!Tick, P!Tick, D!brokerVars, P!brokerVars, D!workerVars, P!workerVars,
      D!histVars, P!histVars, D!boundVars, P!boundVars, D!workVars, P!workVars
  <2>2. ASSUME NEW t PROVE D!Arrive(t) <=> P!Arrive(t)
    BY DEF D!Arrive, P!Arrive, D!workerVars, P!workerVars, D!histVars, P!histVars,
      D!boundVars, P!boundVars, D!workVars, P!workVars
  <2>3. ASSUME NEW w, NEW t PROVE D!PickUp(w, t) <=> P!PickUp(w, t)
    BY DEF D!PickUp, P!PickUp, D!workVars, P!workVars, D!histVars, P!histVars,
      D!boundVars, P!boundVars
  <2>4. ASSUME NEW w PROVE D!Fetch(w) <=> P!Fetch(w)
    BY DEF D!Fetch, P!Fetch, D!brokerVars, P!brokerVars, D!histVars, P!histVars,
      D!boundVars, P!boundVars
  <2>5. ASSUME NEW w PROVE D!Evaluate(w) <=> P!Evaluate(w)
    BY DEF D!Evaluate, P!Evaluate, D!brokerVars, P!brokerVars, D!histVars,
      P!histVars, D!boundVars, P!boundVars, D!HitsOf, P!HitsOf, D!NextRule,
      P!NextRule, D!Matching, P!Matching, D!Count, P!Count, D!NotFound, P!NotFound,
      D!stored, P!stored, D!InWindow, P!InWindow, D!Cardinality, P!Cardinality
  <2>6. ASSUME NEW w PROVE D!Find(w) <=> P!Find(w)
    BY DEF D!Find, P!Find, D!brokerVars, P!brokerVars, D!histVars, P!histVars,
      D!boundVars, P!boundVars, D!Seen, P!Seen, D!Matching, P!Matching, D!Sequences,
      P!Sequences, D!HitDone, P!HitDone, D!RuleFails, P!RuleFails, D!HitKey, P!HitKey,
      D!Existing, P!Existing, D!NothingToWrite, P!NothingToWrite, D!Ambiguous,
      P!Ambiguous, D!Overlay, P!Overlay, D!stored, P!stored, D!InWindow, P!InWindow,
      D!NotFound, P!NotFound, D!NextRule, P!NextRule, D!KeyOf, P!KeyOf, D!Active,
      P!Active, D!Cardinality, P!Cardinality
  <2>7. ASSUME NEW w PROVE D!Insert(w) <=> P!Insert(w)
    BY DEF D!Insert, P!Insert, D!brokerVars, P!brokerVars, D!histVars, P!histVars,
      D!boundVars, P!boundVars, D!NewId, P!NewId, D!HitDone, P!HitDone, D!Put, P!Put,
      D!NotFound, P!NotFound, D!NextRule, P!NextRule, D!Overlay, P!Overlay
  <2>8. ASSUME NEW w PROVE D!Update(w) <=> P!Update(w)
    BY DEF D!Update, P!Update, D!brokerVars, P!brokerVars, D!histVars, P!histVars,
      D!boundVars, P!boundVars, D!Seen, P!Seen, D!HitDone, P!HitDone, D!Locked,
      P!Locked, D!Put, P!Put, D!Overlay, P!Overlay, D!NotFound, P!NotFound,
      D!NextRule, P!NextRule
  <2>9. ASSUME NEW w PROVE D!FindRemedied(w) <=> P!FindRemedied(w)
    BY DEF D!FindRemedied, P!FindRemedied, D!brokerVars, P!brokerVars, D!histVars,
      P!histVars, D!boundVars, P!boundVars, D!IssueOf, P!IssueOf, D!Active, P!Active,
      D!Seen, P!Seen, D!Overlay, P!Overlay
  <2>10. ASSUME NEW w PROVE D!Resolve(w) <=> P!Resolve(w)
    BY DEF D!Resolve, P!Resolve, D!brokerVars, P!brokerVars, D!histVars, P!histVars,
      D!boundVars, P!boundVars, D!Seen, P!Seen, D!Locked, P!Locked, D!Put, P!Put,
      D!Overlay, P!Overlay
  <2>11. ASSUME NEW w PROVE D!DeadlockVictim(w) <=> P!DeadlockVictim(w)
    BY DEF D!DeadlockVictim, P!DeadlockVictim, D!boundVars, P!boundVars, D!WaitsFor,
      P!WaitsFor, D!CaughtFailure, P!CaughtFailure, D!Locked, P!Locked, D!Targets,
      P!Targets, D!brokerVars, P!brokerVars, D!histVars, P!histVars, D!Nothing,
      P!Nothing, D!RuleFails, P!RuleFails, D!NextRule, P!NextRule, D!NotFound,
      P!NotFound
  <2>12. ASSUME NEW w PROVE D!Refused(w) <=> P!Refused(w)
    BY DEF D!Refused, P!Refused, D!brokerVars, P!brokerVars, D!histVars, P!histVars,
      D!boundVars, P!boundVars, D!Matching, P!Matching, D!NextRule, P!NextRule,
      D!RuleFails, P!RuleFails, D!NotFound, P!NotFound
  <2>13. ASSUME NEW w PROVE D!Commit(w) <=> P!Commit(w)
    BY DEF D!Commit, P!Commit, D!RuleNames, P!RuleNames, D!boundVars, P!boundVars,
      D!Nothing, P!Nothing, D!Overlay, P!Overlay, D!Finish, P!Finish, D!Run, P!Run,
      D!Leave, P!Leave, D!NotFound, P!NotFound
  <2>14. ASSUME NEW w PROVE D!CommitRefused(w) <=> P!CommitRefused(w)
    BY DEF D!CommitRefused, P!CommitRefused, D!histVars, P!histVars, D!boundVars,
      P!boundVars, D!RaiseToRetry, P!RaiseToRetry, D!Leave, P!Leave, D!Nothing,
      P!Nothing, D!NotFound, P!NotFound
  <2>15. ASSUME NEW w PROVE D!Publish(w) <=> P!Publish(w)
    BY DEF D!Publish, P!Publish, D!RuleNames, P!RuleNames, D!workVars, P!workVars,
      D!boundVars, P!boundVars, D!Channels, P!Channels, D!Finish, P!Finish, D!Run,
      P!Run, D!Leave, P!Leave, D!Nothing, P!Nothing, D!NotFound, P!NotFound
  <2>16. ASSUME NEW w PROVE D!Raises(w) <=> P!Raises(w)
    BY DEF D!Raises, P!Raises, D!CaughtFailure, P!CaughtFailure, D!brokerVars,
      P!brokerVars, D!histVars, P!histVars, D!Nothing, P!Nothing, D!RuleFails,
      P!RuleFails, D!NextRule, P!NextRule, D!NotFound, P!NotFound
  <2>17. ASSUME NEW w PROVE D!CallFails(w) <=> P!CallFails(w)
    BY DEF D!CallFails, P!CallFails, D!Overlay, P!Overlay, D!RaiseToRetry,
      P!RaiseToRetry, D!Leave, P!Leave, D!Nothing, P!Nothing, D!NotFound, P!NotFound
  <2>18. ASSUME NEW w PROVE D!Crash(w) <=> P!Crash(w)
    BY DEF D!Crash, P!Crash, D!histVars, P!histVars, D!Leave, P!Leave, D!Nothing,
      P!Nothing, D!NotFound, P!NotFound
  <2>19. ASSUME NEW d, NEW s PROVE D!SetStatus(d, s) <=> P!SetStatus(d, s)
    BY DEF D!SetStatus, P!SetStatus, D!brokerVars, P!brokerVars, D!workerVars,
      P!workerVars, D!histVars, P!histVars, D!Active, P!Active, D!Locked, P!Locked,
      D!Allowed, P!Allowed, D!workVars, P!workVars
  <2>20. ASSUME NEW d PROVE D!Delete(d) <=> P!Delete(d)
    BY DEF D!Delete, P!Delete, D!brokerVars, P!brokerVars, D!workerVars,
      P!workerVars, D!histVars, P!histVars, D!Locked, P!Locked, D!workVars, P!workVars
  <2>21. D!Statuses = P!Statuses
    BY DEF D!Statuses, P!Statuses
  <2> QED
    BY <2>1, <2>2, <2>3, <2>4, <2>5, <2>6, <2>7, <2>8, <2>9, <2>10, <2>11, <2>12,
      <2>13, <2>14, <2>15, <2>16, <2>17, <2>18, <2>19, <2>20, <2>21 DEF D!Next,
      P!Next, D!Step, P!Step
<1>5. D!TypeOK <=> P!TypeOK
  BY DEF D!TypeOK, P!TypeOK, D!RuleNames, P!RuleNames, D!DetIds, P!DetIds, D!RunOf,
    P!RunOf, D!Rows, P!Rows, D!Channels, P!Channels, D!Run, P!Run, D!Statuses,
    P!Statuses
<1>6. D!DuplicatesBoundedByWorkers <=> P!DuplicatesBoundedByWorkers
  BY DEF D!DuplicatesBoundedByWorkers, P!DuplicatesBoundedByWorkers, D!Current,
    P!Current, D!Deduplicated, P!Deduplicated, D!Cardinality, P!Cardinality, D!KeyOf,
    P!KeyOf, D!Active, P!Active, D!InWindow, P!InWindow, D!RuleNames, P!RuleNames
<1>7. D!NoMissedCrossing <=> P!NoMissedCrossing
  BY DEF D!NoMissedCrossing, P!NoMissedCrossing, D!RuleNames, P!RuleNames, D!KeyOf,
    P!KeyOf, D!stored, P!stored, D!InWindow, P!InWindow, D!Cardinality, P!Cardinality
<1>8. D!SentIsWritten <=> P!SentIsWritten
  BY DEF D!SentIsWritten, P!SentIsWritten, D!RunOf, P!RunOf
<1> QED
  BY <1>1, <1>2, <1>3, <1>4, <1>5, <1>6, <1>7, <1>8
-----------------------------------------------------------------------------
(* The two specifications *)

\* A behaviour of the two pipelines is a behaviour of each of them.
LEMMA EachRuns == SpecPipeline => Spec /\ P!Spec
<1>1. InitPipeline => Init /\ P!Init
  BY SameDetection DEF InitPipeline
<1>2. [NextPipeline]_pipelineVars => [Next]_vars /\ [P!Next]_(P!vars)
  <2>1. SUFFICES ASSUME [NextPipeline]_pipelineVars PROVE [Next]_vars /\ [D!Next]_(D!vars)
    BY SameDetection
  <2>2. ASSUME UNCHANGED detectionVars PROVE UNCHANGED (D!vars)
    <3>1. /\ clock' = clock /\ dTask' = dTask /\ dRetries' = dRetries /\ dTries' = dTries
          /\ dJob' = dJob /\ dPc' = dPc /\ tx' = tx /\ began' = began /\ idx' = idx
          /\ hits' = hits /\ found' = found /\ edits' = edits /\ ids' = ids
          /\ failed' = failed /\ goal' = goal /\ det' = det /\ sent' = sent
          /\ written' = written /\ lossy' = lossy /\ dropped' = dropped
          /\ kills' = kills /\ errors' = errors /\ triaged' = triaged
      BY <2>2, SMT DEF detectionVars
    <3> QED
      BY <3>1 DEF D!vars, D!brokerVars, D!workerVars, D!workVars, D!histVars, D!boundVars
  <2>3. UNCHANGED pipelineVars => UNCHANGED vars /\ UNCHANGED detectionVars
    BY DEF pipelineVars
  <2> QED BY <2>1, <2>2, <2>3 DEF NextPipeline
<1> QED
  BY <1>1, <1>2, PTL DEF SpecPipeline, Spec, P!Spec

\* The rows, queues and processes of ingest_batch and run_detection_pipeline keep
\* their types.
THEOREM PipelineTypes == SpecPipeline => []PipelineTypeOK
<1>1. P!Spec => []P!TypeOK
  BY SameDetection, P!PipelineTyped
<1>2. TypeOK /\ P!TypeOK => PipelineTypeOK
  BY SameDetection DEF PipelineTypeOK
<1> QED BY <1>1, <1>2, Typing, EachRuns, PTL

\* What _run_pipeline publishes for notification, SIEM or automation was committed, or
\* belongs to a run whose COMMIT rolled back after a caught SQL error.
THEOREM PublishedOnceCommitted == SpecPipeline => []SentIsWritten
<1>1. P!Spec => []P!SentIsWritten
  BY SameDetection, P!PublishedIsCommitted
<1>2. P!SentIsWritten => SentIsWritten
  BY SameDetection DEF SentIsWritten
<1> QED BY <1>1, <1>2, EachRuns, PTL

\* However the runs of find_existing_detection overlap, a deduplicated rule and a key have
\* no more active detections in the window than there are processes.
THEOREM FewDetections == SpecPipeline => []DetectionsBoundedByWorkers
<1>1. P!Spec => []P!DuplicatesBoundedByWorkers
  BY SameDetection, P!OnePerProcess
<1>2. P!DuplicatesBoundedByWorkers => DetectionsBoundedByWorkers
  BY SameDetection DEF DetectionsBoundedByWorkers
<1> QED BY <1>1, <1>2, EachRuns, PTL

\* However the batches that cross the threshold of a rule are spread over processes,
\* retries and crashes, evaluate_threshold_rule leaves a detection for the crossing,
\* unless the rule failed or is suppressed.
THEOREM EveryCrossingDetected == SpecPipeline => []NoMissedCrossing
<1>1. P!Spec => []P!NoMissedCrossing
  BY SameDetection, P!CrossingsFound
<1>2. P!NoMissedCrossing => NoMissedCrossing
  BY SameDetection DEF NoMissedCrossing
<1> QED BY <1>1, <1>2, EachRuns, PTL
=============================================================================
