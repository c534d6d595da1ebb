----------------------------- MODULE Automation -----------------------------
(***************************************************************************)
(* Automation targets: webhooks and repository dispatches fired by one     *)
(* detection (backend/app/services/automation_service.py,                  *)
(* workers/automation_worker.py, routers/automation.py).                   *)
(*                                                                         *)
(* A dispatch task posts to every matching target and commits all delivery *)
(* rows at its end; a retry task, started by the beat every five minutes   *)
(* or by an operator, posts the failed ones again and commits at its end.  *)
(* Both are acknowledged late, so a lost process runs its task again.  A   *)
(* row is locked by the transaction that inserted or updated it until that *)
(* commits; a target is held by the transactions that inserted a row of    *)
(* it.                                                                     *)
(***************************************************************************)
EXTENDS Integers, Sequences, FiniteSets

CONSTANTS
  Senders, Api,   \* processes of the notification queue; one of the API among them
  TargetOrder,    \* the targets that match the detection, in the order of the query
  RepoDispatch,   \* those of type repository_dispatch
  MaxAttempts,    \* target -> automation_targets.max_retries
  PerMinute,      \* target -> rate_limit_per_minute
  TaskRetries,    \* max_retries of the dispatch task
  MaxRows,        \* bound: delivery rows
  SendFaults,     \* bound: calls that raise, processes lost
  SendRequests    \* bound: retry tasks, dry runs, changes by administrators

VARIABLES
  deliveries, \* committed and uncommitted rows, in the order of their ids
  targets,    \* target -> "enabled", "disabled" or "deleted"
  alertRow,   \* the detection exists
  sendTasks,  \* messages: <<"dispatch", retries>>, <<"retry", 0>>
  sender,     \* process -> the task it runs
  window,     \* process, target -> sends of the last minute (_rate_windows)
  posted,     \* history: targets that were sent a request for the detection
  changed,    \* history: rows committed by another process since they were selected
  stranded,   \* history: rows an operator retried although they were exhausted
  left,       \* history: targets no longer matched at some moment; tasks given up
  sendFaults, sendRequests

sendVars == <<deliveries, targets, alertRow, sendTasks, sender, window, posted, changed,
              stranded, left, sendFaults, sendRequests>>

Targets == {TargetOrder[i] : i \in DOMAIN TargetOrder}

ASSUME SendAssumption ==
  /\ Api \in Senders /\ "none" \notin Senders /\ DOMAIN TargetOrder \subseteq Nat
  /\ {MaxAttempts[t] : t \in Targets} \cup {PerMinute[t] : t \in Targets} \subseteq Nat
  /\ {TaskRetries, MaxRows, SendFaults, SendRequests} \subseteq Nat

\* What a process has to do: positions in TargetOrder, or ids of rows, whose attempts
\* are those it read.
NoSend == [job |-> "none", used |-> 0, dry |-> FALSE, at |-> "idle", todo |-> {},
           read |-> <<>>, answer |-> "none"]

\* What comes of a request: received and acknowledged, received without an
\* answer, redirected (not followed, and less than 400), refused or not received.
Answers == {"accepted", "unanswered", "redirected", "refused"}
Received(answer) == answer \in {"accepted", "unanswered"}

\* A repository dispatch encodes the time stamps of the detection with the plain
\* JSON encoder, which raises before anything is sent.
Possible(t) == IF t \in RepoDispatch THEN {"refused"} ELSE Answers
Success(answer) == answer \in {"accepted", "redirected"}

Rows(w) == {i \in DOMAIN deliveries : deliveries[i].lock = w}
Unlocked(i) == deliveries[i].lock = "none"
Live(i) == deliveries[i].status # "deleted"

InitSend ==
  /\ deliveries = <<>>
  /\ targets = [t \in Targets |-> "enabled"] /\ alertRow = TRUE
  /\ sendTasks = {<<"dispatch", 0>>}
  /\ sender = [w \in Senders |-> NoSend]
  /\ window = [w \in Senders |-> [t \in Targets |-> 0]]
  /\ posted = {} /\ changed = [w \in Senders |-> {}] /\ stranded = {} /\ left = {}
  /\ sendFaults = 0 /\ sendRequests = 0

Idle(w) == sender[w].job = "none"
FrontOf(w) == CHOOSE i \in sender[w].todo : \A j \in sender[w].todo : i <= j
Advance(w) == sender' = [sender EXCEPT ![w].todo = @ \ {FrontOf(w)}, ![w].at = "send",
                                       ![w].answer = "none"]

-----------------------------------------------------------------------------
(* dispatch_automation *)

Matching == {n \in DOMAIN TargetOrder : alertRow /\ targets[TargetOrder[n]] = "enabled"}

StartDispatch(w) ==
  /\ w # Api /\ Idle(w)
  /\ \E m \in sendTasks :
       /\ m[1] = "dispatch" /\ sendTasks' = sendTasks \ {m}
       /\ sender' = [sender EXCEPT ![w] =
            [NoSend EXCEPT !.job = "dispatch", !.used = m[2], !.at = "send",
                           !.todo = Matching]]
  /\ UNCHANGED <<deliveries, targets, alertRow, window, posted, changed, stranded, left,
                 sendFaults, sendRequests>>

\* The test endpoint with a detection: a dry run in the API process.
StartDryRun ==
  /\ Idle(Api) /\ sendRequests < SendRequests /\ sendRequests' = sendRequests + 1
  /\ sender' = [sender EXCEPT ![Api] =
       [NoSend EXCEPT !.job = "dispatch", !.dry = TRUE, !.at = "send",
                      !.todo = Matching]]
  /\ UNCHANGED <<deliveries, targets, alertRow, sendTasks, window, posted, changed, stranded,
                 left, sendFaults>>

Insertable(t) == targets[t] # "deleted" /\ alertRow /\ Len(deliveries) < MaxRows

\* _record_delivery: the first attempt counts as one.
NewRow(w, t, status) ==
  [target |-> t, status |-> status, attempts |-> 1, dry |-> sender[w].dry, lock |-> w,
   was |-> "absent", tried |-> 0]
Record(w, t, status) == deliveries' = Append(deliveries, NewRow(w, t, status))

CheckRateLimit(w, t) == window[w][t] < PerMinute[t]

\* One target: refused by the rate limit, a dry run, or a request and its answer.
SendFirst(w) ==
  LET t == TargetOrder[FrontOf(w)] IN
  /\ sender[w].job = "dispatch" /\ sender[w].at = "send" /\ sender[w].todo # {}
  /\ Insertable(t)
  /\ IF ~CheckRateLimit(w, t)
     THEN Record(w, t, "rate_limited") /\ UNCHANGED <<window, posted>>
     ELSE /\ window' = [window EXCEPT ![w][t] = @ + 1]
          /\ IF sender[w].dry THEN Record(w, t, "dry_run") /\ UNCHANGED posted
             ELSE \E answer \in Possible(t) :
                    /\ posted' = IF Received(answer) THEN posted \cup {t} ELSE posted
                    /\ Record(w, t, IF Success(answer) THEN "success" ELSE "failed")
  /\ Advance(w)
  /\ UNCHANGED <<targets, alertRow, sendTasks, changed, stranded, left, sendFaults, sendRequests>>

\* The target or the detection has been deleted: the request goes out and the
\* INSERT violates its foreign key.
SendOrphan(w) ==
  LET t == TargetOrder[FrontOf(w)] IN
  /\ sender[w].job = "dispatch" /\ sender[w].at = "send" /\ sender[w].todo # {}
  /\ targets[t] = "deleted" \/ ~alertRow
  /\ IF ~CheckRateLimit(w, t) THEN UNCHANGED <<window, posted>>
     ELSE /\ window' = [window EXCEPT ![w][t] = @ + 1]
          /\ \E answer \in Possible(t) :
               posted' = IF Received(answer) /\ ~sender[w].dry THEN posted \cup {t} ELSE posted
  /\ sender' = [sender EXCEPT ![w].at = "raised"]
  /\ UNCHANGED <<deliveries, targets, alertRow, sendTasks, changed, stranded, left,
                 sendFaults, sendRequests>>

-----------------------------------------------------------------------------
(* retry_failed_deliveries *)

Beat ==
  /\ sendRequests < SendRequests /\ sendRequests' = sendRequests + 1
  /\ sendTasks' = sendTasks \cup {<<"retry", 0>>}
  /\ UNCHANGED <<deliveries, targets, alertRow, sender, window, posted, changed, stranded, left,
                 sendFaults>>

\* What a SELECT of another transaction sees of a row.
Seen(i) == IF Unlocked(i) THEN deliveries[i].status ELSE deliveries[i].was
SeenAttempts(i) == IF Unlocked(i) THEN deliveries[i].attempts ELSE deliveries[i].tried

\* Fault: the status is not asked for.
SelectedAll(i) == Seen(i) # "absent" /\ SeenAttempts(i) < MaxAttempts[deliveries[i].target]
Selected(i) ==
  /\ Seen(i) = "failed" /\ ~deliveries[i].dry
  /\ SeenAttempts(i) < MaxAttempts[deliveries[i].target]

\* The rows that are due, oldest first, with the attempts read.
StartRetry(w) ==
  /\ w # Api /\ Idle(w)
  /\ \E m \in sendTasks, due \in SUBSET {i \in DOMAIN deliveries : Selected(i)} :
       /\ m[1] = "retry" /\ sendTasks' = sendTasks \ {m}
       /\ sender' = [sender EXCEPT ![w] =
            [NoSend EXCEPT !.job = "retry", !.used = m[2], !.at = "send",
                           !.todo = due, !.read = [i \in due |-> SeenAttempts(i)]]]
  /\ changed' = [changed EXCEPT ![w] = {}]
  /\ UNCHANGED <<deliveries, targets, alertRow, window, posted, stranded, left, sendFaults,
                 sendRequests>>

\* Fault: the last attempt leaves the row failed.
FinalStatusLate(attempts, t) == IF attempts <= MaxAttempts[t] THEN "failed" ELSE "exhausted"
FinalStatus(attempts, t) == IF attempts < MaxAttempts[t] THEN "failed" ELSE "exhausted"

Written(w, d, status, attempts) ==
  [d EXCEPT !.status = status, !.attempts = attempts, !.lock = w,
            !.was = IF d.lock = w THEN d.was ELSE d.status,
            !.tried = IF d.lock = w THEN d.tried ELSE d.attempts]

\* One row: the request, and the UPDATE by id with the attempts read at the start.
SendAgain(w) ==
  LET t == deliveries[FrontOf(w)].target IN
  /\ sender[w].job = "retry" /\ sender[w].at = "send" /\ sender[w].todo # {} /\ alertRow
  /\ \E answer \in Possible(t) :
       /\ posted' = IF Received(answer) THEN posted \cup {t} ELSE posted
       /\ sender' = [sender EXCEPT ![w].at = "write", ![w].answer = answer]
  /\ UNCHANGED <<deliveries, targets, alertRow, sendTasks, window, changed, stranded, left,
                 sendFaults, sendRequests>>

\* The UPDATE waits for the row and writes over what it finds.
WriteAttempt(w) ==
  LET i == FrontOf(w)
      attempts == sender[w].read[i] + 1
      status == IF Success(sender[w].answer) THEN "success"
                ELSE FinalStatus(attempts, deliveries[i].target) IN
  /\ sender[w].at = "write" /\ (Unlocked(i) \/ deliveries[i].lock = w)
  /\ deliveries' = IF ~Live(i) THEN deliveries
                   ELSE [deliveries EXCEPT ![i] = Written(w, @, status, attempts)]
  /\ Advance(w)
  /\ UNCHANGED <<targets, alertRow, sendTasks, window, posted, changed, stranded, left,
                 sendFaults, sendRequests>>

SkipGone(w) ==
  /\ sender[w].job = "retry" /\ sender[w].at = "send" /\ sender[w].todo # {} /\ ~alertRow
  /\ Advance(w)
  /\ UNCHANGED <<deliveries, targets, alertRow, sendTasks, window, posted, changed, stranded,
                 left, sendFaults, sendRequests>>

-----------------------------------------------------------------------------
(* The end of a task *)

Unlock(w) ==
  [i \in DOMAIN deliveries |->
     IF deliveries[i].lock = w THEN [deliveries[i] EXCEPT !.lock = "none", !.tried = 0]
     ELSE deliveries[i]]
\* Fault: the exception leaves the transaction open.
RollBackNever(w) == deliveries
RollBack(w) ==
  [i \in DOMAIN deliveries |->
     IF deliveries[i].lock # w THEN deliveries[i]
     ELSE [deliveries[i] EXCEPT !.lock = "none", !.attempts = deliveries[i].tried,
             !.status = IF deliveries[i].was = "absent" THEN "deleted" ELSE deliveries[i].was]]

CommitSends(w) ==
  /\ ~Idle(w) /\ sender[w].at = "send" /\ sender[w].todo = {}
  /\ deliveries' = Unlock(w)
  /\ changed' = [v \in Senders |-> IF v = w THEN {} ELSE changed[v] \cup Rows(w)]
  /\ sender' = [sender EXCEPT ![w].at = "acknowledge"]
  /\ UNCHANGED <<targets, alertRow, sendTasks, window, posted, stranded, left, sendFaults,
                 sendRequests>>

Acknowledge(w) ==
  /\ ~Idle(w) /\ sender[w].at = "acknowledge"
  /\ sender' = [sender EXCEPT ![w] = NoSend]
  /\ UNCHANGED <<deliveries, targets, alertRow, sendTasks, window, posted, changed, stranded,
                 left, sendFaults, sendRequests>>

SendRaises(w) ==
  /\ ~Idle(w) /\ sender[w].at \in {"send", "write"} /\ sendFaults < SendFaults
  /\ sendFaults' = sendFaults + 1 /\ sender' = [sender EXCEPT ![w].at = "raised"]
  /\ UNCHANGED <<deliveries, targets, alertRow, sendTasks, window, posted, changed, stranded,
                 left, sendRequests>>

\* self.retry publishes the task again while retries are left.
RetryLimit(job) == IF job = "dispatch" THEN TaskRetries ELSE 1
RetryTask(w) ==
  LET s == sender[w]
      again == ~s.dry /\ s.used < RetryLimit(s.job) IN
  /\ ~Idle(w) /\ s.at = "raised"
  /\ deliveries' = RollBack(w)
  /\ sendTasks' = IF again THEN sendTasks \cup {<<s.job, s.used + 1>>} ELSE sendTasks
  /\ left' = IF s.job = "dispatch" /\ ~s.dry /\ ~again THEN Targets ELSE left
  /\ sender' = [sender EXCEPT ![w] = NoSend] /\ changed' = [changed EXCEPT ![w] = {}]
  /\ UNCHANGED <<targets, alertRow, window, posted, stranded, sendFaults, sendRequests>>

\* Fault: the message is acknowledged when it is taken.
ReturnedNone(w) == {}
Returned(w) == IF sender[w].dry THEN {} ELSE {<<sender[w].job, sender[w].used>>}

\* A lost process returns its task, and forgets its rate windows.
CrashSender(w) ==
  /\ ~Idle(w) /\ sendFaults < SendFaults /\ sendFaults' = sendFaults + 1
  /\ deliveries' = RollBack(w)
  /\ sendTasks' = sendTasks \cup Returned(w)
  /\ sender' = [sender EXCEPT ![w] = NoSend] /\ changed' = [changed EXCEPT ![w] = {}]
  /\ window' = [window EXCEPT ![w] = [t \in Targets |-> 0]]
  /\ UNCHANGED <<targets, alertRow, posted, stranded, left, sendRequests>>

MinutePasses(w) ==
  /\ \E t \in Targets : window[w][t] > 0
  /\ window' = [window EXCEPT ![w] = [t \in Targets |-> 0]]
  /\ UNCHANGED <<deliveries, targets, alertRow, sendTasks, sender, posted, changed, stranded,
                 left, sendFaults, sendRequests>>

-----------------------------------------------------------------------------
(* Administrators and operators *)

ToggleTarget(t) ==
  /\ targets[t] # "deleted" /\ sendRequests < SendRequests /\ sendRequests' = sendRequests + 1
  /\ targets' = [targets EXCEPT ![t] = IF @ = "enabled" THEN "disabled" ELSE "enabled"]
  /\ left' = left \cup {t}
  /\ UNCHANGED <<deliveries, alertRow, sendTasks, sender, window, posted, changed, stranded,
                 sendFaults>>

\* The rows of the target go with it; the DELETE waits for those that are locked.
DeleteTarget(t) ==
  /\ targets[t] # "deleted" /\ sendRequests < SendRequests /\ sendRequests' = sendRequests + 1
  /\ \A i \in DOMAIN deliveries : deliveries[i].target = t => Unlocked(i)
  /\ targets' = [targets EXCEPT ![t] = "deleted"] /\ left' = left \cup {t}
  /\ deliveries' = [i \in DOMAIN deliveries |->
       IF deliveries[i].target = t THEN [deliveries[i] EXCEPT !.status = "deleted"]
       ELSE deliveries[i]]
  /\ UNCHANGED <<alertRow, sendTasks, sender, window, posted, changed, stranded, sendFaults>>

DeleteAlert ==
  /\ alertRow /\ sendRequests < SendRequests /\ sendRequests' = sendRequests + 1
  /\ \A i \in DOMAIN deliveries : Unlocked(i)
  /\ alertRow' = FALSE /\ left' = Targets
  /\ deliveries' = [i \in DOMAIN deliveries |-> [deliveries[i] EXCEPT !.status = "deleted"]]
  /\ UNCHANGED <<targets, sendTasks, sender, window, posted, changed, stranded, sendFaults>>

\* retry_delivery: the status is reset, the attempts are not.
RetryDelivery(i) ==
  /\ i \in DOMAIN deliveries /\ Unlocked(i) /\ deliveries[i].status \in {"failed", "exhausted"}
  /\ sendRequests < SendRequests /\ sendRequests' = sendRequests + 1
  /\ deliveries' = [deliveries EXCEPT ![i].status = "failed"]
  /\ stranded' = IF deliveries[i].status = "exhausted" THEN stranded \cup {i} ELSE stranded
  /\ changed' = [v \in Senders |-> changed[v] \cup {i}]
  /\ sendTasks' = sendTasks \cup {<<"retry", 0>>}
  /\ UNCHANGED <<targets, alertRow, sender, window, posted, left, sendFaults>>

NextSend ==
  \/ \E w \in Senders :
       \/ StartDispatch(w) \/ SendFirst(w) \/ SendOrphan(w)
       \/ StartRetry(w) \/ SendAgain(w) \/ WriteAttempt(w) \/ SkipGone(w)
       \/ CommitSends(w) \/ Acknowledge(w) \/ SendRaises(w) \/ RetryTask(w)
       \/ CrashSender(w) \/ MinutePasses(w)
  \/ StartDryRun \/ Beat \/ DeleteAlert
  \/ \E t \in Targets : ToggleTarget(t) \/ DeleteTarget(t)
  \/ \E i \in 1..MaxRows : RetryDelivery(i)

SpecSend == InitSend /\ [][NextSend]_sendVars

-----------------------------------------------------------------------------
\* Types, and the shape of a row that a transaction holds.
SendTypeOK ==
  /\ Len(deliveries) <= MaxRows
  /\ \A i \in DOMAIN deliveries :
       LET d == deliveries[i] IN
       /\ d.target \in Targets /\ d.attempts \in 0..MaxAttempts[d.target] + 1
       /\ d.status \in {"success", "failed", "exhausted", "rate_limited", "dry_run", "deleted"}
       /\ d.lock # "none" => d.lock \in Senders /\ sender[d.lock].at \in {"send", "write", "raised"}
  /\ targets \in [Targets -> {"enabled", "disabled", "deleted"}] /\ alertRow \in BOOLEAN
  /\ sendTasks \subseteq {"dispatch", "retry"} \X (0..TaskRetries + 1)
  /\ \A w \in Senders : sender[w].job \in {"none", "dispatch", "retry"}
  /\ window \in [Senders -> [Targets -> Nat]] /\ posted \subseteq Targets
  /\ left \subseteq Targets /\ sendFaults <= SendFaults /\ sendRequests <= SendRequests

\* A delivery that has succeeded stays so, unless a retry that had selected it
\* before writes its older verdict over it.
SuccessIsFinal ==
  [][\A i \in DOMAIN deliveries :
       Seen(i) = "success" /\ Seen(i)' \notin {"success", "deleted"} =>
         \E w \in Senders : deliveries[i].lock = w /\ i \in changed[w]]_sendVars

\* A delivery is not left as failed with no attempt to come, overlapping retries
\* included: but for targets whose only attempt was the first, and for exhausted
\* deliveries that an operator asked to retry.
NoStrandedDelivery ==
  \A i \in DOMAIN deliveries :
    LET t == deliveries[i].target IN
    Seen(i) = "failed" /\ SeenAttempts(i) >= MaxAttempts[t] =>
      MaxAttempts[t] <= 1 \/ i \in stranded

\* What was sent is on record, or a task that will record it is running or waiting,
\* unless the target left the query in between or the task has used its retries.
NoForgottenPost ==
  \A t \in posted \ left :
    \/ \E i \in DOMAIN deliveries : deliveries[i].target = t /\ ~deliveries[i].dry /\ Live(i)
    \/ \E w \in Senders : sender[w].job = "dispatch" /\ ~sender[w].dry
    \/ \E m \in sendTasks : m[1] = "dispatch"
=============================================================================
