----------------------------- MODULE Retention ------------------------------
(***************************************************************************)
(* The retention policies (backend/app/services/retention_service.py) and  *)
(* the daily task that enforces them                                       *)
(* (backend/app/workers/retention_worker.py).  A policy is the number of   *)
(* days that the rows of a data type are kept.  Every process caches the   *)
(* policies for five minutes; an administrator changes one, and the task   *)
(* deletes what is older, one DELETE for each type in one transaction.     *)
(* One clock counts both minutes and days: TimeToLive is the five minutes. *)
(***************************************************************************)
EXTENDS Integers, Sequences, FiniteSets

CONSTANTS
  TypeOrder,   \* the data types that migration 0041 seeds, in the order of the query
  TimeColumn,  \* type -> the column that _TABLE_MAP names
  Columns,     \* type -> the columns that its table has
  MinimumDays, \* type -> minimum_days
  DaysAsked,   \* what an administrator may ask for
  Servers,     \* API processes; the worker is another one
  Enforcer,
  TimeToLive,
  MaxTime,     \* bound: the clock
  MaxUpdates   \* bound: changes of a policy

DataTypes == {TypeOrder[i] : i \in DOMAIN TypeOrder}
Processes == Servers \cup {Enforcer}

ASSUME RetentionAssumption ==
  /\ TypeOrder \in Seq(DataTypes)
  /\ DaysAsked \subseteq Nat /\ MinimumDays \in [DataTypes -> Nat]
  /\ TimeToLive \in Nat /\ MaxTime \in Nat \ {0}

VARIABLES
  time,
  policy,    \* type -> retention_days, committed
  cache,     \* process -> _policy_cache and _policy_cache_ts
  update,    \* process -> the request that changes a policy
  aged,      \* type -> the times of its rows
  enforcing, \* the task: type that is next, rows deleted so far, transaction aborted
  held,      \* history: type, days -> when it was last the committed policy
  updates

retentionVars == <<time, policy, cache, update, aged, enforcing, held, updates>>

NotCached == [days |-> <<>>, at |-> 0]
NoUpdate == [type |-> "", days |-> 0]
NoTask == [i |-> 0, gone |-> {}, aborted |-> FALSE]

InitRetention ==
  /\ time = 1
  /\ policy = MinimumDays
  /\ cache = [p \in Processes |-> NotCached]
  /\ update = [p \in Servers |-> NoUpdate]
  /\ aged = [t \in DataTypes |-> {1, 2}]
  /\ enforcing = NoTask
  /\ held = [t \in DataTypes |-> [d \in DaysAsked \cup {MinimumDays[t]} |-> 0]]
  /\ updates = 0
-----------------------------------------------------------------------------
(* get_retention_policies *)

Cached(p) == cache[p] # NotCached /\ time - cache[p].at < TimeToLive

\* Fault: a hit renews the time stamp.
CacheAfterReadRenewed(p) ==
  [days |-> IF Cached(p) THEN cache[p].days ELSE policy, at |-> time]

\* What the cache holds behind a read.
CacheAfterRead(p) == IF Cached(p) THEN cache[p] ELSE [days |-> policy, at |-> time]

\* A query in an aborted transaction raises; the defaults stand in, and are not cached.
ListPolicies(p) ==
  /\ cache' = [cache EXCEPT ![p] = CacheAfterRead(p)]
  /\ UNCHANGED <<time, policy, update, aged, enforcing, held, updates>>
-----------------------------------------------------------------------------
(* update_retention_policy *)

\* The row is read and written, and the cache dropped, in a transaction that the
\* end of the request commits.
UpdatePolicy(p, t, d) ==
  /\ update[p] = NoUpdate /\ updates < MaxUpdates
  /\ d >= MinimumDays[t]
  /\ \A q \in Servers : update[q].type # t
  /\ updates' = updates + 1
  /\ update' = [update EXCEPT ![p] = [type |-> t, days |-> d]]
  /\ cache' = [cache EXCEPT ![p] = NotCached]
  /\ UNCHANGED <<time, policy, aged, enforcing, held>>

CommitPolicy(p) ==
  /\ update[p] # NoUpdate
  /\ LET u == update[p] IN
     /\ policy' = [policy EXCEPT ![u.type] = u.days]
     /\ held' = [held EXCEPT ![u.type][policy[u.type]] = time]
  /\ update' = [update EXCEPT ![p] = NoUpdate]
  /\ UNCHANGED <<time, cache, aged, enforcing, updates>>

AbortPolicy(p) ==
  /\ update[p] # NoUpdate
  /\ update' = [update EXCEPT ![p] = NoUpdate]
  /\ UNCHANGED <<time, policy, cache, aged, enforcing, held, updates>>
-----------------------------------------------------------------------------
(* enforce_all *)

StartEnforcement ==
  /\ enforcing = NoTask
  /\ cache' = [cache EXCEPT ![Enforcer] = CacheAfterRead(Enforcer)]
  /\ enforcing' = [NoTask EXCEPT !.i = 1]
  /\ UNCHANGED <<time, policy, update, aged, held, updates>>

\* A DELETE that raises is logged and the next type tried; PostgreSQL refuses every
\* statement behind it.
EnforceType ==
  LET t == TypeOrder[enforcing.i]
      days == CacheAfterRead(Enforcer).days[t] IN
  /\ enforcing.i \in DOMAIN TypeOrder
  /\ cache' = IF enforcing.aborted THEN cache
              ELSE [cache EXCEPT ![Enforcer] = CacheAfterRead(Enforcer)]
  /\ enforcing' =
       IF enforcing.aborted \/ TimeColumn[t] \notin Columns[t]
       THEN [enforcing EXCEPT !.i = @ + 1, !.aborted = TRUE]
       ELSE [enforcing EXCEPT !.i = @ + 1,
                              !.gone = @ \cup {<<t, r>> : r \in {q \in aged[t] : q < time - days}}]
  /\ UNCHANGED <<time, policy, update, aged, held, updates>>

\* The COMMIT of an aborted transaction rolls it back.
CommitEnforcement ==
  /\ enforcing.i = Len(TypeOrder) + 1
  /\ aged' = IF enforcing.aborted THEN aged
             ELSE [t \in DataTypes |-> {r \in aged[t] : <<t, r>> \notin enforcing.gone}]
  /\ enforcing' = NoTask
  /\ UNCHANGED <<time, policy, cache, update, held, updates>>

\* The process is lost; the message is delivered again.
LoseEnforcement ==
  /\ enforcing # NoTask
  /\ enforcing' = NoTask
  /\ cache' = [cache EXCEPT ![Enforcer] = NotCached]
  /\ UNCHANGED <<time, policy, update, aged, held, updates>>

TimePasses ==
  /\ time < MaxTime
  /\ time' = time + 1
  /\ UNCHANGED <<aged, policy, cache, update, enforcing, held, updates>>
-----------------------------------------------------------------------------
EnforceStep == StartEnforcement \/ EnforceType \/ CommitEnforcement

NextRetention ==
  \/ \E p \in Servers : ListPolicies(p) \/ CommitPolicy(p) \/ AbortPolicy(p)
  \/ \E p \in Servers, t \in DataTypes, d \in DaysAsked : UpdatePolicy(p, t, d)
  \/ EnforceStep \/ LoseEnforcement \/ TimePasses

SpecRetention == InitRetention /\ [][NextRetention]_retentionVars

\* The beat sends the task every day, and a worker runs it.
FairRetention == SpecRetention /\ WF_retentionVars(EnforceStep)
-----------------------------------------------------------------------------
\* Types.
RetentionTypeOK ==
  /\ time \in 1..MaxTime
  /\ \A t \in DataTypes : policy[t] \in DaysAsked \cup {MinimumDays[t]} /\ aged[t] \subseteq {1, 2}
  /\ \A p \in Processes : cache[p] = NotCached \/ DOMAIN cache[p].days = DataTypes
  /\ enforcing.i \in 0..Len(TypeOrder) + 1

\* get_retention_policies: whichever process answers, and whatever an administrator
\* changes through another one, or through this one while its transaction is open,
\* the number of days it works with was the policy no longer than five minutes ago.
PolicyIsRecent ==
  \A p \in Processes : Cached(p) =>
    \A t \in DataTypes :
      LET d == cache[p].days[t] IN policy[t] = d \/ held[t][d] > time - TimeToLive

\* The claim: what is older than its window is deleted by the daily task.
OldRowsGo ==
  <>[](\A t \in DataTypes : \A r \in aged[t] : r >= time - policy[t])
=============================================================================
