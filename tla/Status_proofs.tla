---------------------------- MODULE Status_proofs ----------------------------
(***************************************************************************)
(* Proofs about the rows whose status several transactions change: the     *)
(* deliveries of Automation, and the detections of Posture.                *)
(***************************************************************************)
EXTENDS Automation, Posture, SequenceTheorems, FiniteSetTheorems, WellFoundedInduction, TLAPS

(* Facts about sets of numbers *)

LEMMA LeastExists == ASSUME NEW S \in SUBSET Nat, S # {} PROVE \E n \in S : \A m \in S : n <= m
<1>1. IsWellFoundedOn(OpToRel(<, Nat), Nat)
  BY NatLessThanWellFounded
<1>2. PICK n \in S : \A m \in S : <<m, n>> \notin OpToRel(<, Nat)
  BY <1>1, WFMin
<1>3. \A m \in S : ~(m < n)
  BY <1>2 DEF OpToRel
<1> QED BY <1>3

-----------------------------------------------------------------------------
(* Automation: types *)

Statuses == {"success", "failed", "exhausted", "rate_limited", "dry_run", "deleted"}
RowType == [target : Targets, status : Statuses, attempts : Nat, dry : BOOLEAN,
            lock : Senders \cup {"none"}, was : Statuses \cup {"absent"}, tried : Nat]

Sender(s) ==
  /\ DOMAIN s = {"job", "used", "dry", "at", "todo", "read", "answer"}
  /\ s.job \in {"none", "dispatch", "retry"} /\ s.used \in 0 .. TaskRetries + 1
  /\ s.at \in {"idle", "send", "write", "raised", "acknowledge"}
  /\ s.dry \in BOOLEAN /\ s.todo \subseteq Nat
  /\ s.at = "write" => s.job = "retry" /\ s.todo # {}
  /\ s.at = "acknowledge" => s.todo = {}
  /\ s.job = "dispatch" => s.todo \subseteq DOMAIN TargetOrder
  /\ s.job = "retry" => \A i \in s.todo : s.read[i] \in Nat
  /\ s.job = "none" <=> s.at = "idle"

SendTypes ==
  /\ deliveries \in Seq(RowType) /\ Len(deliveries) <= MaxRows
  /\ targets \in [Targets -> {"enabled", "disabled", "deleted"}] /\ alertRow \in BOOLEAN
  /\ sendTasks \subseteq {"dispatch", "retry"} \X (0 .. TaskRetries + 1)
  /\ DOMAIN sender = Senders /\ \A w \in Senders : Sender(sender[w])
  /\ \A w \in Senders : sender[w].job = "retry" => sender[w].todo \subseteq DOMAIN deliveries
  /\ window \in [Senders -> [Targets -> Nat]] /\ posted \subseteq Targets /\ left \subseteq Targets
  /\ DOMAIN changed = Senders /\ sendFaults <= SendFaults /\ sendRequests <= SendRequests
  /\ {sendFaults, sendRequests} \subseteq Nat

LEMMA FrontIsThere ==
  ASSUME NEW w \in Senders, Sender(sender[w]), sender[w].todo # {}
  PROVE  FrontOf(w) \in sender[w].todo /\ FrontOf(w) \in Nat
<1>1. \E i \in sender[w].todo : \A j \in sender[w].todo : i <= j
  BY LeastExists DEF Sender
<1>2. FrontOf(w) \in sender[w].todo
  BY <1>1, Zenon DEF FrontOf
<1> QED BY <1>2 DEF Sender

LEMMA NoSendIsSender == Sender(NoSend) /\ NoSend.job = "none" /\ NoSend.at = "idle" /\ ~NoSend.dry
<1> DEFINE unread == <<>>
<1>1. NoSend = [job |-> "none", used |-> 0, dry |-> FALSE, at |-> "idle", todo |-> {},
                read |-> unread, answer |-> "none"]
  BY Zenon DEF NoSend
<1> HIDE DEF unread
<1>2. /\ DOMAIN NoSend = {"job", "used", "dry", "at", "todo", "read", "answer"}
      /\ NoSend.job = "none" /\ NoSend.used = 0 /\ NoSend.dry = FALSE /\ NoSend.at = "idle"
      /\ NoSend.todo = {}
  BY <1>1
<1>3. 0 \in 0 .. TaskRetries + 1
  BY SendAssumption
<1> QED BY <1>2, <1>3 DEF Sender

LEMMA RowsHaveFields ==
  ASSUME SendTypes, NEW i \in DOMAIN deliveries
  PROVE  /\ deliveries[i] \in RowType /\ i \in 1 .. Len(deliveries)
         /\ DOMAIN deliveries[i] = {"target", "status", "attempts", "dry", "lock", "was", "tried"}
         /\ deliveries[i].target \in Targets /\ deliveries[i].status \in Statuses
         /\ deliveries[i].attempts \in Nat /\ deliveries[i].tried \in Nat
         /\ deliveries[i].dry \in BOOLEAN /\ deliveries[i].lock \in Senders \cup {"none"}
         /\ deliveries[i].was \in Statuses \cup {"absent"}
<1>1. deliveries \in Seq(RowType)
  BY DEF SendTypes
<1>2. deliveries[i] \in RowType /\ i \in 1 .. Len(deliveries)
  BY <1>1
<1> QED BY <1>2 DEF RowType

-----------------------------------------------------------------------------
(* Automation: what a step makes of a row *)

RowWritten(i, w) ==
  LET d == deliveries[i]
      attempts == sender[w].read[i] + 1 IN
  /\ WriteAttempt(w) /\ i = FrontOf(w) /\ d.status # "deleted" /\ d.lock \in {"none", w}
  /\ deliveries'[i].lock = w
  /\ deliveries'[i].was = (IF d.lock = w THEN d.was ELSE d.status)
  /\ deliveries'[i].tried = (IF d.lock = w THEN d.tried ELSE d.attempts)
  /\ deliveries'[i].attempts = attempts
  /\ deliveries'[i].status = IF Success(sender[w].answer) THEN "success"
                             ELSE FinalStatus(attempts, d.target)

RowSettled(i, w) ==
  /\ CommitSends(w) /\ deliveries[i].lock = w /\ deliveries'[i].lock = "none"
  /\ deliveries'[i].status = deliveries[i].status
  /\ deliveries'[i].attempts = deliveries[i].attempts

RowRolledBack(i, w) ==
  /\ RetryTask(w) \/ CrashSender(w)
  /\ deliveries[i].lock = w /\ deliveries'[i].lock = "none"
  /\ deliveries'[i].attempts = deliveries[i].tried
  /\ deliveries'[i].status = IF deliveries[i].was = "absent" THEN "deleted" ELSE deliveries[i].was

RowDeleted(i) ==
  /\ deliveries[i].lock = "none" /\ deliveries'[i].lock = "none"
  /\ deliveries'[i].status = "deleted" /\ deliveries'[i].attempts = deliveries[i].attempts
  /\ deliveries[i].target \in left'

RowReset(i) ==
  /\ RetryDelivery(i) /\ deliveries[i].lock = "none" /\ deliveries'[i].lock = "none"
  /\ deliveries[i].status \in {"failed", "exhausted"} /\ deliveries'[i].status = "failed"
  /\ deliveries'[i].attempts = deliveries[i].attempts

RowStep(i) ==
  \/ deliveries'[i] = deliveries[i]
  \/ \E w \in Senders : RowWritten(i, w) \/ RowSettled(i, w) \/ RowRolledBack(i, w)
  \/ RowDeleted(i) \/ RowReset(i)

RowRecorded(i) ==
  \E w \in Senders :
    /\ SendFirst(w) /\ i = Len(deliveries) + 1
    /\ deliveries'[i].target = TargetOrder[FrontOf(w)] /\ deliveries'[i].attempts = 1
    /\ deliveries'[i].dry = sender[w].dry /\ deliveries'[i].lock = w
    /\ deliveries'[i].was = "absent" /\ deliveries'[i].tried = 0
    /\ deliveries'[i].status \in {"rate_limited", "dry_run", "success", "failed"}

\* Rows are only added, and their target and kind stay.
RowsStep ==
  /\ deliveries' \in Seq(RowType) /\ Len(deliveries) <= Len(deliveries') /\ Len(deliveries') <= MaxRows
  /\ \A i \in DOMAIN deliveries :
       /\ i \in DOMAIN deliveries' /\ RowStep(i)
       /\ deliveries'[i].target = deliveries[i].target /\ deliveries'[i].dry = deliveries[i].dry
  /\ \A i \in DOMAIN deliveries' : i \notin DOMAIN deliveries => RowRecorded(i)

\* A step that rewrites rows where they are.
LEMMA InPlace ==
  ASSUME SendTypes, DOMAIN deliveries' = DOMAIN deliveries,
         deliveries' = [i \in DOMAIN deliveries |-> deliveries'[i]],
         \A i \in DOMAIN deliveries :
           /\ deliveries'[i] \in RowType /\ RowStep(i)
           /\ deliveries'[i].target = deliveries[i].target /\ deliveries'[i].dry = deliveries[i].dry
  PROVE  RowsStep
<1>1. DOMAIN deliveries = 1 .. Len(deliveries) /\ Len(deliveries) \in Nat /\ Len(deliveries) <= MaxRows
  BY DEF SendTypes
<1>2. deliveries' \in [1 .. Len(deliveries) -> RowType]
  BY <1>1
<1>3. deliveries' \in Seq(RowType)
  BY <1>1, <1>2, IsASeq
<1>4. Len(deliveries') = Len(deliveries)
  BY <1>1, <1>2, <1>3
<1> QED BY <1>1, <1>3, <1>4 DEF RowsStep

LEMMA RowsUntouched == ASSUME SendTypes, UNCHANGED deliveries PROVE RowsStep
BY DEF RowsStep, RowStep, SendTypes

LEMMA RowsSettle ==
  ASSUME SendTypes, NEW w \in Senders, CommitSends(w) PROVE RowsStep
<1>1. deliveries' = Unlock(w)
  BY DEF CommitSends
<1>2. ASSUME NEW i \in DOMAIN deliveries
      PROVE  /\ deliveries'[i] \in RowType /\ RowStep(i)
             /\ deliveries'[i].target = deliveries[i].target /\ deliveries'[i].dry = deliveries[i].dry
  <2>1. CASE deliveries[i].lock = w
    <3>1. deliveries'[i] = [deliveries[i] EXCEPT !.lock = "none", !.tried = 0]
      BY <1>1, <2>1 DEF Unlock
    <3>2. deliveries'[i] \in RowType
      <4>1. deliveries[i] \in RowType /\ "none" \in Senders \cup {"none"} /\ 0 \in Nat
        BY RowsHaveFields
      <4> QED BY <3>1, <4>1 DEF RowType
    <3>3. /\ deliveries'[i].lock = "none" /\ deliveries'[i].status = deliveries[i].status
          /\ deliveries'[i].attempts = deliveries[i].attempts
          /\ deliveries'[i].target = deliveries[i].target /\ deliveries'[i].dry = deliveries[i].dry
      BY <3>1, RowsHaveFields
    <3> QED BY <2>1, <3>2, <3>3 DEF RowStep, RowSettled
  <2>2. CASE deliveries[i].lock # w
    BY <1>1, <2>2, RowsHaveFields DEF Unlock, RowStep
  <2> QED BY <2>1, <2>2
<1>3. DOMAIN deliveries' = DOMAIN deliveries /\ deliveries' = [i \in DOMAIN deliveries |-> deliveries'[i]]
  BY <1>1 DEF Unlock
<1> QED BY <1>2, <1>3, InPlace

LEMMA RowsRollBack ==
  ASSUME SendTypes, NEW w \in Senders, RetryTask(w) \/ CrashSender(w) PROVE RowsStep
<1>1. deliveries' = RollBack(w)
  BY DEF RetryTask, CrashSender
<1>2. ASSUME NEW i \in DOMAIN deliveries
      PROVE  /\ deliveries'[i] \in RowType /\ RowStep(i)
             /\ deliveries'[i].target = deliveries[i].target /\ deliveries'[i].dry = deliveries[i].dry
  <2>1. CASE deliveries[i].lock = w
    <3> DEFINE status == IF deliveries[i].was = "absent" THEN "deleted" ELSE deliveries[i].was
    <3>1. deliveries'[i] = [deliveries[i] EXCEPT !.lock = "none", !.attempts = deliveries[i].tried,
                              !.status = status]
      BY <1>1, <2>1 DEF RollBack
    <3>2. status \in Statuses
      BY RowsHaveFields DEF Statuses
    <3> HIDE DEF status
    <3>3. deliveries'[i] \in RowType
      BY <3>1, <3>2, RowsHaveFields DEF RowType
    <3>4. /\ deliveries'[i].lock = "none" /\ deliveries'[i].status = status
          /\ deliveries'[i].attempts = deliveries[i].tried
          /\ deliveries'[i].target = deliveries[i].target /\ deliveries'[i].dry = deliveries[i].dry
      BY <3>1, RowsHaveFields
    <3> QED BY <2>1, <3>3, <3>4 DEF RowStep, RowRolledBack, status
  <2>2. CASE deliveries[i].lock # w
    BY <1>1, <2>2, RowsHaveFields DEF RollBack, RowStep
  <2> QED BY <2>1, <2>2
<1>3. DOMAIN deliveries' = DOMAIN deliveries /\ deliveries' = [i \in DOMAIN deliveries |-> deliveries'[i]]
  BY <1>1 DEF RollBack
<1> QED BY <1>2, <1>3, InPlace

LEMMA RowsGo ==
  ASSUME SendTypes, DeleteAlert \/ \E t \in Targets : DeleteTarget(t) PROVE RowsStep
<1>1. PICK gone \in SUBSET Targets :
        /\ gone \subseteq left'
        /\ \A i \in DOMAIN deliveries : deliveries[i].target \in gone => deliveries[i].lock = "none"
        /\ deliveries' = [i \in DOMAIN deliveries |->
             IF deliveries[i].target \in gone THEN [deliveries[i] EXCEPT !.status = "deleted"]
             ELSE deliveries[i]]
  <2>1. CASE DeleteAlert
    <3>1. \A i \in DOMAIN deliveries : deliveries[i].target \in Targets
      BY RowsHaveFields
    <3> QED BY <2>1, <3>1 DEF DeleteAlert, Unlocked
  <2>2. CASE \E t \in Targets : DeleteTarget(t)
    <3>1. PICK t \in Targets : DeleteTarget(t)
      BY <2>2
    <3>2. /\ {t} \in SUBSET Targets /\ {t} \subseteq left'
          /\ \A i \in DOMAIN deliveries : deliveries[i].target \in {t} <=> deliveries[i].target = t
      BY <3>1 DEF DeleteTarget
    <3> QED BY <3>1, <3>2 DEF DeleteTarget, Unlocked
  <2> QED BY <2>1, <2>2
<1>2. ASSUME NEW i \in DOMAIN deliveries
      PROVE  /\ deliveries'[i] \in RowType /\ RowStep(i)
             /\ deliveries'[i].target = deliveries[i].target /\ deliveries'[i].dry = deliveries[i].dry
  <2>1. CASE deliveries[i].target \in gone
    <3>1. deliveries'[i] = [deliveries[i] EXCEPT !.status = "deleted"]
      BY <1>1, <2>1
    <3>2. deliveries'[i] \in RowType
      BY <3>1, RowsHaveFields DEF RowType, Statuses
    <3>3. /\ deliveries'[i].lock = "none" /\ deliveries'[i].status = "deleted"
          /\ deliveries'[i].attempts = deliveries[i].attempts
          /\ deliveries'[i].target = deliveries[i].target /\ deliveries'[i].dry = deliveries[i].dry
      BY <1>1, <2>1, <3>1, RowsHaveFields
    <3> QED BY <1>1, <2>1, <3>2, <3>3 DEF RowStep, RowDeleted
  <2>2. CASE deliveries[i].target \notin gone
    BY <1>1, <2>2, RowsHaveFields DEF RowStep
  <2> QED BY <2>1, <2>2
<1>3. DOMAIN deliveries' = DOMAIN deliveries /\ deliveries' = [i \in DOMAIN deliveries |-> deliveries'[i]]
  BY <1>1
<1> QED BY <1>2, <1>3, InPlace

LEMMA RowsReset == ASSUME SendTypes, NEW r, RetryDelivery(r) PROVE RowsStep
<1>1. /\ r \in DOMAIN deliveries /\ deliveries[r].lock = "none"
      /\ deliveries[r].status \in {"failed", "exhausted"}
      /\ deliveries' = [deliveries EXCEPT ![r].status = "failed"]
  BY DEF RetryDelivery, Unlocked
<1>2. deliveries = [i \in DOMAIN deliveries |-> deliveries[i]]
  BY DEF SendTypes
<1>3. DOMAIN deliveries' = DOMAIN deliveries /\ deliveries' = [i \in DOMAIN deliveries |-> deliveries'[i]]
  BY <1>1, <1>2
<1>4. ASSUME NEW i \in DOMAIN deliveries
      PROVE  /\ deliveries'[i] \in RowType /\ RowStep(i)
             /\ deliveries'[i].target = deliveries[i].target /\ deliveries'[i].dry = deliveries[i].dry
  <2>1. CASE i = r
    <3>1. deliveries'[i] = [deliveries[i] EXCEPT !.status = "failed"]
      BY <1>1, <2>1
    <3>2. deliveries'[i] \in RowType
      BY <3>1, RowsHaveFields DEF RowType, Statuses
    <3>3. /\ deliveries'[i].lock = "none" /\ deliveries'[i].status = "failed"
          /\ deliveries'[i].attempts = deliveries[i].attempts
          /\ deliveries'[i].target = deliveries[i].target /\ deliveries'[i].dry = deliveries[i].dry
      BY <1>1, <2>1, <3>1, RowsHaveFields
    <3> QED BY <1>1, <2>1, <3>2, <3>3 DEF RowStep, RowReset
  <2>2. CASE i # r
    BY <1>1, <2>2, RowsHaveFields DEF RowStep
  <2> QED BY <2>1, <2>2
<1> QED BY <1>3, <1>4, InPlace

LEMMA RowsAreWritten ==
  ASSUME SendTypes, NEW w \in Senders, WriteAttempt(w) PROVE RowsStep
<1> DEFINE f == FrontOf(w)
           attempts == sender[w].read[f] + 1
           status == IF Success(sender[w].answer) THEN "success"
                     ELSE FinalStatus(attempts, deliveries[f].target)
           d == deliveries[f]
<1>1. /\ deliveries[f].lock \in {"none", w}
      /\ deliveries' = IF d.status = "deleted" THEN deliveries
                       ELSE [deliveries EXCEPT ![f] = Written(w, d, status, attempts)]
  BY DEF WriteAttempt, Unlocked, Live
<1>2. Sender(sender[w]) /\ sender[w].at = "write"
  BY DEF WriteAttempt, SendTypes
<1>3. attempts \in Nat
  BY <1>2, FrontIsThere DEF Sender
<1>4. status \in Statuses
  BY DEF Statuses, FinalStatus
<1> HIDE DEF f, attempts, status
<1>5. CASE f \in DOMAIN deliveries /\ d.status # "deleted"
  <2>1. deliveries = [i \in DOMAIN deliveries |-> deliveries[i]]
    BY DEF SendTypes
  <2>2. deliveries' = [deliveries EXCEPT ![f] = Written(w, d, status, attempts)]
    BY <1>1, <1>5
  <2>3. DOMAIN deliveries' = DOMAIN deliveries /\ deliveries' = [i \in DOMAIN deliveries |-> deliveries'[i]]
    BY <2>1, <2>2
  <2>4. ASSUME NEW i \in DOMAIN deliveries
        PROVE  /\ deliveries'[i] \in RowType /\ RowStep(i)
               /\ deliveries'[i].target = deliveries[i].target /\ deliveries'[i].dry = deliveries[i].dry
    <3>1. CASE i = f
      <4> DEFINE was == IF d.lock = w THEN d.was ELSE d.status
                 tried == IF d.lock = w THEN d.tried ELSE d.attempts
      <4>1. deliveries'[f] = [d EXCEPT !.status = status, !.attempts = attempts, !.lock = w,
                                       !.was = was, !.tried = tried]
        BY <1>5, <2>2 DEF Written
      <4>2. /\ d \in RowType /\ was \in Statuses \cup {"absent"} /\ tried \in Nat
            /\ w \in Senders \cup {"none"}
            /\ DOMAIN d = {"target", "status", "attempts", "dry", "lock", "was", "tried"}
        BY <1>5, RowsHaveFields
      <4> HIDE DEF was, tried, d
      <4>3. deliveries'[f] \in RowType
        BY <1>3, <1>4, <4>1, <4>2 DEF RowType
      <4>4. /\ deliveries'[f].lock = w /\ deliveries'[f].was = was /\ deliveries'[f].tried = tried
            /\ deliveries'[f].attempts = attempts /\ deliveries'[f].status = status
            /\ deliveries'[f].target = d.target /\ deliveries'[f].dry = d.dry
        BY <4>1, <4>2
      <4>5. RowWritten(f, w)
        BY <1>1, <1>5, <4>4 DEF RowWritten, f, attempts, status, was, tried, d
      <4> QED BY <3>1, <4>3, <4>4, <4>5 DEF RowStep, d
    <3>2. CASE i # f
      BY <2>2, <3>2, RowsHaveFields DEF RowStep
    <3> QED BY <3>1, <3>2
  <2> QED BY <2>3, <2>4, InPlace
<1>6. CASE ~(f \in DOMAIN deliveries /\ d.status # "deleted")
  <2>1. UNCHANGED deliveries
    BY <1>1, <1>6 DEF SendTypes
  <2> QED BY <2>1, RowsUntouched
<1> QED BY <1>5, <1>6

LEMMA RowsAreRecorded ==
  ASSUME SendTypes, NEW w \in Senders, SendFirst(w) PROVE RowsStep
<1> DEFINE t == TargetOrder[FrontOf(w)]
<1>1. /\ t \in Targets /\ Len(deliveries) < MaxRows
  <2>1. sender[w].job = "dispatch" /\ sender[w].todo # {} /\ Sender(sender[w])
    BY DEF SendFirst, SendTypes
  <2>2. FrontOf(w) \in DOMAIN TargetOrder
    BY <2>1, FrontIsThere DEF Sender
  <2> QED BY <2>2 DEF SendFirst, Insertable, Targets
<1>2. PICK status \in {"rate_limited", "dry_run", "success", "failed"} :
        deliveries' = Append(deliveries, NewRow(w, t, status))
  BY DEF SendFirst, Record
<1> DEFINE row == NewRow(w, t, status)
<1>3. /\ row \in RowType
      /\ row.target = t /\ row.attempts = 1 /\ row.dry = sender[w].dry /\ row.lock = w
      /\ row.was = "absent" /\ row.tried = 0 /\ row.status = status
  <2>1. sender[w].dry \in BOOLEAN
    BY DEF SendTypes, Sender
  <2> QED BY <1>1, <2>1 DEF NewRow, RowType, Statuses
<1> HIDE DEF row, t
<1>4. /\ deliveries \in Seq(RowType) /\ DOMAIN deliveries = 1 .. Len(deliveries)
      /\ Len(deliveries) \in Nat
  BY DEF SendTypes
<1>5. /\ deliveries' \in Seq(RowType) /\ Len(deliveries') = Len(deliveries) + 1
      /\ DOMAIN deliveries' = 1 .. Len(deliveries) + 1
      /\ \A i \in DOMAIN deliveries : deliveries'[i] = deliveries[i]
      /\ deliveries'[Len(deliveries) + 1] = row
  BY <1>2, <1>3, <1>4 DEF row
<1>6. \A i \in DOMAIN deliveries' : i \notin DOMAIN deliveries => i = Len(deliveries) + 1
  BY <1>4, <1>5
<1>7. RowRecorded(Len(deliveries) + 1)
  BY <1>3, <1>5 DEF RowRecorded, t
<1>8. MaxRows \in Nat
  BY SendAssumption
<1> QED BY <1>1, <1>4, <1>5, <1>6, <1>7, <1>8 DEF RowsStep, RowStep

LEMMA RowsMove == ASSUME SendTypes, [NextSend]_sendVars PROVE RowsStep
<1>1. ASSUME NEW w \in Senders,
             \/ StartDispatch(w) \/ SendOrphan(w) \/ StartRetry(w) \/ SendAgain(w) \/ SkipGone(w)
             \/ Acknowledge(w) \/ SendRaises(w) \/ MinutePasses(w)
      PROVE  RowsStep
  BY <1>1, RowsUntouched DEF StartDispatch, SendOrphan, StartRetry, SendAgain, SkipGone, Acknowledge,
                             SendRaises, MinutePasses
<1>2. CASE StartDryRun \/ Beat \/ (\E t \in Targets : ToggleTarget(t)) \/ UNCHANGED sendVars
  BY <1>2, RowsUntouched DEF StartDryRun, Beat, ToggleTarget, sendVars
<1> QED BY <1>1, <1>2, RowsAreWritten, RowsAreRecorded, RowsSettle, RowsRollBack, RowsGo, RowsReset
  DEF NextSend

-----------------------------------------------------------------------------
(* Automation: what a step makes of a process *)

SameTask(w) ==
  /\ sender'[w].job = sender[w].job /\ sender'[w].dry = sender[w].dry
  /\ sender'[w].read = sender[w].read

SenderStep(w) ==
  \/ sender'[w] = sender[w]
  \/ /\ sender[w].at = "idle" /\ sender'[w].job = "dispatch" /\ sender'[w].at = "send"
     /\ sender'[w].todo = Matching /\ (sender'[w].dry \/ StartDispatch(w))
  \/ /\ StartRetry(w) /\ sender[w].at = "idle" /\ sender'[w].job = "retry" /\ sender'[w].at = "send"
     /\ ~sender'[w].dry /\ sender'[w].todo \subseteq {i \in DOMAIN deliveries : Selected(i)}
     /\ \A i \in sender'[w].todo : sender'[w].read[i] = SeenAttempts(i)
  \/ /\ SendFirst(w) \/ SkipGone(w) \/ WriteAttempt(w)
     /\ SameTask(w) /\ sender'[w].at = "send" /\ sender'[w].todo = sender[w].todo \ {FrontOf(w)}
  \/ /\ SendOrphan(w) \/ SendRaises(w)
     /\ SameTask(w) /\ sender'[w].at = "raised" /\ sender'[w].todo = sender[w].todo
  \/ /\ SendAgain(w) /\ SameTask(w) /\ sender'[w].at = "write" /\ sender'[w].todo = sender[w].todo
  \/ /\ CommitSends(w) /\ SameTask(w) /\ sender[w].at = "send" /\ sender[w].todo = {}
     /\ sender'[w].at = "acknowledge"
  \/ /\ Acknowledge(w) \/ RetryTask(w) \/ CrashSender(w)
     /\ sender'[w] = NoSend

SendersStep == DOMAIN sender' = Senders /\ \A w \in Senders : Sender(sender'[w]) /\ SenderStep(w)

LEMMA OneSenderSteps ==
  ASSUME SendTypes, NEW w \in Senders, Sender(sender'[w]), SenderStep(w),
         DOMAIN sender' = Senders, \A v \in Senders \ {w} : sender'[v] = sender[v]
  PROVE  SendersStep
BY DEF SendersStep, SenderStep, SendTypes

\* A process without a task takes one.
LEMMA SenderTakes ==
  ASSUME SendTypes, NEW w \in Senders, StartDispatch(w) \/ StartRetry(w) \/ (w = Api /\ StartDryRun)
  PROVE  SendersStep
<1>1. Sender(NoSend)
  BY NoSendIsSender
<1>2. DOMAIN sender = Senders /\ Sender(sender[w])
  BY DEF SendTypes
<1>3. sender[w].at = "idle"
  BY <1>2 DEF StartDispatch, StartRetry, StartDryRun, Idle, Sender
<1>4. Matching \subseteq DOMAIN TargetOrder /\ Matching \subseteq Nat
  BY SendAssumption DEF Matching
<1>5. CASE StartDispatch(w) \/ (w = Api /\ StartDryRun)
  <2>1. /\ DOMAIN sender' = Senders /\ \A v \in Senders \ {w} : sender'[v] = sender[v]
        /\ DOMAIN sender'[w] = {"job", "used", "dry", "at", "todo", "read", "answer"}
        /\ sender'[w].job = "dispatch" /\ sender'[w].used \in 0 .. TaskRetries + 1
        /\ sender'[w].dry \in BOOLEAN /\ (sender'[w].dry \/ StartDispatch(w))
        /\ sender'[w].at = "send" /\ sender'[w].todo = Matching
    <3>1. CASE StartDispatch(w)
      <4>1. PICK m \in sendTasks :
              sender' = [sender EXCEPT ![w] = [NoSend EXCEPT !.job = "dispatch", !.used = m[2],
                                                 !.at = "send", !.todo = Matching]]
        BY <3>1 DEF StartDispatch
      <4>2. m[2] \in 0 .. TaskRetries + 1
        BY DEF SendTypes
      <4> QED BY <1>1, <1>2, <3>1, <4>1, <4>2 DEF Sender
    <3>2. CASE w = Api /\ StartDryRun
      <4>1. sender' = [sender EXCEPT ![w] = [NoSend EXCEPT !.job = "dispatch", !.dry = TRUE,
                                               !.at = "send", !.todo = Matching]]
        BY <3>2 DEF StartDryRun
      <4> QED BY <1>1, <1>2, <4>1 DEF Sender
    <3> QED BY <1>5, <3>1, <3>2
  <2>4. Sender(sender'[w])
    <3>1. sender'[w].todo \subseteq Nat /\ sender'[w].todo \subseteq DOMAIN TargetOrder
      BY <1>4, <2>1
    <3> QED BY <2>1, <3>1 DEF Sender
  <2> QED BY <1>3, <2>1, <2>4, OneSenderSteps DEF SenderStep
<1>6. CASE StartRetry(w)
  <2>1. PICK m \in sendTasks, due \in SUBSET {i \in DOMAIN deliveries : Selected(i)} :
          sender' = [sender EXCEPT ![w] =
            [NoSend EXCEPT !.job = "retry", !.used = m[2], !.at = "send",
                           !.todo = due, !.read = [i \in due |-> SeenAttempts(i)]]]
    BY <1>6 DEF StartRetry
  <2>2. /\ DOMAIN sender' = Senders /\ \A v \in Senders \ {w} : sender'[v] = sender[v]
        /\ sender'[w] = [NoSend EXCEPT !.job = "retry", !.used = m[2], !.at = "send",
                                       !.todo = due, !.read = [i \in due |-> SeenAttempts(i)]]
    BY <1>2, <2>1
  <2>3. /\ DOMAIN sender'[w] = {"job", "used", "dry", "at", "todo", "read", "answer"}
        /\ sender'[w].job = "retry" /\ sender'[w].used = m[2] /\ sender'[w].dry = NoSend.dry
        /\ sender'[w].at = "send" /\ sender'[w].todo = due
        /\ sender'[w].read = [i \in due |-> SeenAttempts(i)]
    BY <1>1, <2>2 DEF Sender
  <2>4. m[2] \in 0 .. TaskRetries + 1
    BY DEF SendTypes
  <2>5. due \subseteq Nat /\ \A i \in due : SeenAttempts(i) \in Nat
    BY RowsHaveFields DEF SeenAttempts, SendTypes
  <2>6. Sender(sender'[w])
    BY <1>1, <2>3, <2>4, <2>5 DEF Sender
  <2>7. sender'[w].todo \subseteq {i \in DOMAIN deliveries : Selected(i)}
    BY <2>3
  <2>8. \A i \in sender'[w].todo : sender'[w].read[i] = SeenAttempts(i)
    BY <2>3
  <2> QED BY <1>3, <1>6, <2>2, <2>3, <2>6, <2>7, <2>8, NoSendIsSender, OneSenderSteps DEF SenderStep
<1> QED BY <1>5, <1>6

LEMMA SenderWorks ==
  ASSUME SendTypes, NEW w \in Senders,
         \/ SendFirst(w) \/ SkipGone(w) \/ WriteAttempt(w) \/ SendOrphan(w) \/ SendRaises(w)
         \/ SendAgain(w) \/ CommitSends(w)
  PROVE  SendersStep
<1>1. DOMAIN sender = Senders /\ Sender(sender[w])
  BY DEF SendTypes
<1>2. CASE SendFirst(w) \/ SkipGone(w) \/ WriteAttempt(w)
  <2>1. sender' = [sender EXCEPT ![w].todo = sender[w].todo \ {FrontOf(w)}, ![w].at = "send",
                                 ![w].answer = "none"]
    BY <1>1, <1>2 DEF SendFirst, SkipGone, WriteAttempt, Advance
  <2>2. /\ DOMAIN sender' = Senders /\ \A v \in Senders \ {w} : sender'[v] = sender[v]
        /\ DOMAIN sender'[w] = DOMAIN sender[w] /\ sender'[w].used = sender[w].used
        /\ SameTask(w) /\ sender'[w].at = "send" /\ sender'[w].todo = sender[w].todo \ {FrontOf(w)}
    BY <1>1, <2>1 DEF Sender, SameTask
  <2>3. sender[w].at # "idle"
    BY <1>2 DEF SendFirst, SkipGone, WriteAttempt
  <2>4. Sender(sender'[w])
    BY <1>1, <2>2, <2>3 DEF Sender, SameTask
  <2> QED BY <1>2, <2>2, <2>4, OneSenderSteps DEF SenderStep
<1>3. CASE SendOrphan(w) \/ SendRaises(w)
  <2>1. sender' = [sender EXCEPT ![w].at = "raised"] /\ sender[w].at # "idle"
    BY <1>3 DEF SendOrphan, SendRaises
  <2>2. /\ DOMAIN sender' = Senders /\ \A v \in Senders \ {w} : sender'[v] = sender[v]
        /\ DOMAIN sender'[w] = DOMAIN sender[w] /\ sender'[w].used = sender[w].used
        /\ SameTask(w) /\ sender'[w].at = "raised" /\ sender'[w].todo = sender[w].todo
    BY <1>1, <2>1 DEF Sender, SameTask
  <2>3. Sender(sender'[w])
    BY <1>1, <2>1, <2>2 DEF Sender, SameTask
  <2> QED BY <1>3, <2>2, <2>3, OneSenderSteps DEF SenderStep
<1>4. CASE SendAgain(w)
  <2>1. /\ \E answer : sender' = [sender EXCEPT ![w].at = "write", ![w].answer = answer]
        /\ sender[w].job = "retry" /\ sender[w].todo # {}
    BY <1>4 DEF SendAgain
  <2>2. /\ DOMAIN sender' = Senders /\ \A v \in Senders \ {w} : sender'[v] = sender[v]
        /\ DOMAIN sender'[w] = DOMAIN sender[w] /\ sender'[w].used = sender[w].used
        /\ SameTask(w) /\ sender'[w].at = "write" /\ sender'[w].todo = sender[w].todo
    BY <1>1, <2>1 DEF Sender, SameTask
  <2>3. Sender(sender'[w])
    BY <1>1, <2>1, <2>2 DEF Sender, SameTask
  <2> QED BY <1>4, <2>2, <2>3, OneSenderSteps DEF SenderStep
<1>5. CASE CommitSends(w)
  <2>1. /\ sender' = [sender EXCEPT ![w].at = "acknowledge"]
        /\ sender[w].at = "send" /\ sender[w].todo = {}
    BY <1>5 DEF CommitSends
  <2>2. /\ DOMAIN sender' = Senders /\ \A v \in Senders \ {w} : sender'[v] = sender[v]
        /\ DOMAIN sender'[w] = DOMAIN sender[w] /\ sender'[w].used = sender[w].used
        /\ SameTask(w) /\ sender'[w].at = "acknowledge" /\ sender'[w].todo = sender[w].todo
    BY <1>1, <2>1 DEF Sender, SameTask
  <2>3. Sender(sender'[w])
    BY <1>1, <2>1, <2>2 DEF Sender, SameTask
  <2> QED BY <1>5, <2>1, <2>2, <2>3, OneSenderSteps DEF SenderStep
<1> QED BY <1>2, <1>3, <1>4, <1>5

LEMMA SendersMove == ASSUME SendTypes, [NextSend]_sendVars PROVE SendersStep
<1>1. DOMAIN sender = Senders /\ \A w \in Senders : Sender(sender[w])
  BY DEF SendTypes
<1>2. ASSUME UNCHANGED sender PROVE SendersStep
  BY <1>1, <1>2 DEF SendersStep, SenderStep
<1>3. ASSUME NEW w \in Senders, Acknowledge(w) \/ RetryTask(w) \/ CrashSender(w) PROVE SendersStep
  <2>1. /\ DOMAIN sender' = Senders /\ \A v \in Senders \ {w} : sender'[v] = sender[v]
        /\ sender'[w] = NoSend
    BY <1>1, <1>3 DEF Acknowledge, RetryTask, CrashSender
  <2> QED BY <1>3, <2>1, NoSendIsSender, OneSenderSteps DEF SenderStep
<1>4. CASE \/ Beat \/ DeleteAlert \/ UNCHANGED sendVars
           \/ \E t \in Targets : ToggleTarget(t) \/ DeleteTarget(t)
           \/ \E i \in 1 .. MaxRows : RetryDelivery(i)
           \/ \E w \in Senders : MinutePasses(w)
  BY <1>2, <1>4 DEF Beat, DeleteAlert, ToggleTarget, DeleteTarget, RetryDelivery, MinutePasses, sendVars
<1>5. CASE StartDryRun
  BY <1>5, SenderTakes, SendAssumption
<1> QED BY <1>3, <1>4, <1>5, SenderTakes, SenderWorks DEF NextSend

-----------------------------------------------------------------------------
(* Automation: types, locks and verdicts *)

LEMMA EndsUnlock ==
  ASSUME SendTypes, NEW w \in Senders, CommitSends(w) \/ RetryTask(w) \/ CrashSender(w)
  PROVE  DOMAIN deliveries' = DOMAIN deliveries /\ \A i \in DOMAIN deliveries : deliveries'[i].lock # w
<1>1. w # "none"
  BY SendAssumption
<1>2. CASE CommitSends(w)
  <2>1. deliveries' = Unlock(w)
    BY <1>2 DEF CommitSends
  <2> QED BY <1>1, <2>1, RowsHaveFields DEF Unlock
<1>3. CASE RetryTask(w) \/ CrashSender(w)
  <2>1. deliveries' = RollBack(w)
    BY <1>3 DEF RetryTask, CrashSender
  <2> QED BY <1>1, <2>1, RowsHaveFields DEF RollBack
<1> QED BY <1>2, <1>3

LEMMA BusyHaveJobs ==
  ASSUME SendTypes, NEW w \in Senders, ~Idle(w)
  PROVE  sender[w].job \in {"dispatch", "retry"} /\ sender[w].used \in 0 .. TaskRetries + 1
BY DEF Idle, SendTypes, Sender

LEMMA SendTypesKeep == ASSUME SendTypes, [NextSend]_sendVars PROVE SendTypes'
<1>1. /\ targets \in [Targets -> {"enabled", "disabled", "deleted"}] /\ alertRow \in BOOLEAN
      /\ sendTasks \subseteq {"dispatch", "retry"} \X (0 .. TaskRetries + 1)
      /\ window \in [Senders -> [Targets -> Nat]] /\ posted \subseteq Targets /\ left \subseteq Targets
      /\ DOMAIN changed = Senders /\ sendFaults <= SendFaults /\ sendRequests <= SendRequests
      /\ {sendFaults, sendRequests} \subseteq Nat
      /\ {SendFaults, SendRequests, TaskRetries} \subseteq Nat
  BY SendAssumption DEF SendTypes
<1> DEFINE Others == /\ targets' \in [Targets -> {"enabled", "disabled", "deleted"}]
                     /\ alertRow' \in BOOLEAN
                     /\ window' \in [Senders -> [Targets -> Nat]]
                     /\ posted' \subseteq Targets /\ left' \subseteq Targets
                     /\ DOMAIN changed' = Senders
           Tasks == sendTasks' \subseteq {"dispatch", "retry"} \X (0 .. TaskRetries + 1)
           Counts == /\ sendFaults' <= SendFaults /\ sendRequests' <= SendRequests
                     /\ {sendFaults', sendRequests'} \subseteq Nat
<1>2. RowsStep /\ SendersStep
  BY RowsMove, SendersMove
<1>3. Counts
  <2> DEFINE Faults == sendFaults' = sendFaults \/ (sendFaults < SendFaults /\ sendFaults' = sendFaults + 1)
             Requests == \/ sendRequests' = sendRequests
                         \/ sendRequests < SendRequests /\ sendRequests' = sendRequests + 1
             Steps == Faults /\ Requests
  <2>1. ASSUME NEW w \in Senders,
               \/ StartDispatch(w) \/ SendFirst(w) \/ SendOrphan(w)
               \/ StartRetry(w) \/ SendAgain(w) \/ WriteAttempt(w) \/ SkipGone(w)
               \/ CommitSends(w) \/ Acknowledge(w) \/ SendRaises(w) \/ RetryTask(w)
               \/ CrashSender(w) \/ MinutePasses(w)
        PROVE  Steps
    BY <2>1 DEF StartDispatch, SendFirst, SendOrphan, StartRetry, SendAgain, WriteAttempt, SkipGone,
                CommitSends, Acknowledge, SendRaises, RetryTask, CrashSender, MinutePasses
  <2>2. ASSUME \/ StartDryRun \/ Beat \/ DeleteAlert \/ UNCHANGED sendVars
               \/ \E t \in Targets : ToggleTarget(t) \/ DeleteTarget(t)
               \/ \E i \in 1 .. MaxRows : RetryDelivery(i)
        PROVE  Steps
    <3>1. CASE StartDryRun \/ Beat \/ DeleteAlert
      BY <3>1 DEF StartDryRun, Beat, DeleteAlert
    <3>2. CASE UNCHANGED sendVars
      BY <3>2 DEF sendVars
    <3>3. ASSUME NEW t \in Targets, ToggleTarget(t) \/ DeleteTarget(t) PROVE Steps
      BY <3>3 DEF ToggleTarget, DeleteTarget
    <3>4. ASSUME NEW i \in 1 .. MaxRows, RetryDelivery(i) PROVE Steps
      BY <3>4 DEF RetryDelivery
    <3> QED BY <2>2, <3>1, <3>2, <3>3, <3>4
  <2>3. Steps
    <3> HIDE DEF Steps
    <3> QED BY <2>1, <2>2 DEF NextSend
  <2> QED BY <1>1, <2>3
<1>4. Tasks
  <2>1. ASSUME NEW w \in Senders, RetryTask(w) PROVE Tasks
    <3>1. sender[w].used < RetryLimit(sender[w].job) =>
            <<sender[w].job, sender[w].used + 1>> \in {"dispatch", "retry"} \X (0 .. TaskRetries + 1)
      BY <1>1, <2>1, BusyHaveJobs DEF RetryTask, RetryLimit
    <3> QED BY <1>1, <2>1, <3>1 DEF RetryTask
  <2>2. ASSUME NEW w \in Senders, CrashSender(w) PROVE Tasks
    <3>1. <<sender[w].job, sender[w].used>> \in {"dispatch", "retry"} \X (0 .. TaskRetries + 1)
      BY <2>2, BusyHaveJobs DEF CrashSender
    <3> QED BY <1>1, <2>2, <3>1 DEF CrashSender, Returned
  <2>3. ASSUME sendTasks' \subseteq sendTasks \cup {<<"retry", 0>>} PROVE Tasks
    <3>1. <<"retry", 0>> \in {"dispatch", "retry"} \X (0 .. TaskRetries + 1)
      BY <1>1
    <3> QED BY <1>1, <2>3, <3>1
  <2>4. sendTasks' \subseteq sendTasks \cup {<<"retry", 0>>} \/ \E w \in Senders : RetryTask(w) \/ CrashSender(w)
    BY DEF NextSend, StartDispatch, SendFirst, SendOrphan, StartRetry, SendAgain, WriteAttempt, SkipGone,
           CommitSends, Acknowledge, SendRaises, MinutePasses, StartDryRun,
           Beat, DeleteAlert, ToggleTarget, DeleteTarget, RetryDelivery, sendVars
  <2> QED BY <2>1, <2>2, <2>3, <2>4
<1>5. Others
  <2>1. ASSUME NEW w \in Senders, SendFirst(w) \/ SendOrphan(w) PROVE Others
    <3> DEFINE t == TargetOrder[FrontOf(w)]
    <3>1. t \in Targets
      <4>1. sender[w].job = "dispatch" /\ sender[w].todo # {} /\ Sender(sender[w])
        BY <2>1 DEF SendFirst, SendOrphan, SendTypes
      <4>2. FrontOf(w) \in DOMAIN TargetOrder
        BY <4>1, FrontIsThere DEF Sender
      <4> QED BY <4>2 DEF Targets
    <3> HIDE DEF t
    <3>2. /\ window' = window \/ window' = [window EXCEPT ![w][t] = @ + 1]
          /\ posted' \subseteq posted \cup {t} /\ UNCHANGED <<targets, alertRow, changed, left>>
      BY <2>1 DEF SendFirst, SendOrphan, t
    <3> QED BY <1>1, <3>1, <3>2
  <2>2. ASSUME NEW w \in Senders, SendAgain(w) PROVE Others
    <3>1. FrontOf(w) \in DOMAIN deliveries
      BY <2>2, FrontIsThere DEF SendAgain, SendTypes
    <3>2. deliveries[FrontOf(w)].target \in Targets
      BY <3>1, RowsHaveFields
    <3> QED BY <1>1, <2>2, <3>2 DEF SendAgain
  <2>3. ASSUME NEW w \in Senders,
               \/ StartDispatch(w) \/ StartRetry(w) \/ WriteAttempt(w) \/ SkipGone(w) \/ CommitSends(w)
               \/ Acknowledge(w) \/ SendRaises(w) \/ RetryTask(w) \/ CrashSender(w) \/ MinutePasses(w)
        PROVE  Others
    <3>1. DOMAIN changed' = Senders
      BY <1>1, <2>3 DEF StartDispatch, StartRetry, WriteAttempt, SkipGone, CommitSends, Acknowledge,
                        SendRaises, RetryTask, CrashSender, MinutePasses
    <3>2. /\ UNCHANGED <<targets, alertRow, posted>>
          /\ left' = left \/ left' = Targets
          /\ window' = window \/ window' = [window EXCEPT ![w] = [t \in Targets |-> 0]]
      BY <2>3 DEF StartDispatch, StartRetry, WriteAttempt, SkipGone, CommitSends, Acknowledge,
                  SendRaises, RetryTask, CrashSender, MinutePasses
    <3> QED BY <1>1, <3>1, <3>2
  <2>4. CASE \/ StartDryRun \/ Beat \/ DeleteAlert \/ UNCHANGED sendVars
             \/ \E t \in Targets : ToggleTarget(t) \/ DeleteTarget(t)
             \/ \E i \in 1 .. MaxRows : RetryDelivery(i)
    BY <1>1, <2>4 DEF StartDryRun, Beat, DeleteAlert, ToggleTarget, DeleteTarget, RetryDelivery, sendVars
  <2> QED BY <2>1, <2>2, <2>3, <2>4 DEF NextSend
<1>6. \A w \in Senders : sender'[w].job = "retry" => sender'[w].todo \subseteq DOMAIN deliveries'
  <2> SUFFICES ASSUME NEW w \in Senders, sender'[w].job = "retry"
               PROVE  sender'[w].todo \subseteq DOMAIN deliveries
    BY <1>2 DEF RowsStep
  <2>1. SenderStep(w) /\ Sender(sender'[w])
    BY <1>2 DEF SendersStep
  <2>2. sender[w].job = "retry" => sender[w].todo \subseteq DOMAIN deliveries
    BY DEF SendTypes
  <2> QED BY <2>1, <2>2, NoSendIsSender DEF SenderStep, SameTask, Sender
<1> QED BY <1>2, <1>3, <1>4, <1>5, <1>6 DEF RowsStep, SendersStep, SendTypes

LEMMA SendTypesInit == ASSUME InitSend PROVE SendTypes
<1>1. deliveries \in Seq(RowType) /\ Len(deliveries) = 0 /\ DOMAIN deliveries = {}
  BY DEF InitSend
<1>2. /\ DOMAIN sender = Senders /\ \A w \in Senders : sender[w] = NoSend
      /\ sendTasks = {<<"dispatch", 0>>} /\ targets = [t \in Targets |-> "enabled"]
      /\ alertRow = TRUE /\ window = [w \in Senders |-> [t \in Targets |-> 0]]
      /\ posted = {} /\ left = {} /\ DOMAIN changed = Senders /\ sendFaults = 0 /\ sendRequests = 0
  BY DEF InitSend
<1>3. {MaxRows, SendFaults, SendRequests, TaskRetries} \subseteq Nat
  BY SendAssumption
<1>4. sendTasks \subseteq {"dispatch", "retry"} \X (0 .. TaskRetries + 1)
  BY <1>2, <1>3
<1>5. \A w \in Senders : Sender(sender[w]) /\ sender[w].job = "none"
  BY <1>2, NoSendIsSender
<1> QED BY <1>1, <1>2, <1>3, <1>4, <1>5 DEF SendTypes

LEMMA LimitsAreNumbers == ASSUME NEW t \in Targets PROVE MaxAttempts[t] \in Nat
BY SendAssumption

\* A row of the next state is one of this state that made a step, or a new one.
LEMMA RowsAfter ==
  ASSUME SendTypes, [NextSend]_sendVars, NEW i \in DOMAIN deliveries'
  PROVE  /\ \/ /\ i \in DOMAIN deliveries /\ RowStep(i) /\ deliveries'[i].target = deliveries[i].target
               /\ deliveries'[i].dry = deliveries[i].dry
            \/ i \notin DOMAIN deliveries /\ RowRecorded(i)
         /\ deliveries'[i] \in RowType
<1>1. deliveries' \in Seq(RowType)
  BY RowsMove DEF RowsStep
<1> QED BY <1>1, RowsMove DEF RowsStep

\* The locks are those of processes at work, and a row that is gone is not locked.
Locks ==
  \A i \in DOMAIN deliveries :
    deliveries[i].lock # "none" =>
      /\ deliveries[i].status # "deleted"
      /\ sender[deliveries[i].lock].at \in {"send", "write", "raised"}

LEMMA LocksKeep == ASSUME SendTypes, Locks, [NextSend]_sendVars PROVE Locks'
<1> SUFFICES ASSUME NEW i \in DOMAIN deliveries', deliveries'[i].lock # "none"
             PROVE  /\ deliveries'[i].status # "deleted"
                    /\ sender'[deliveries'[i].lock].at \in {"send", "write", "raised"}
  BY DEF Locks
<1>1. SendersStep /\ "none" \notin Senders
  BY SendersMove, SendAssumption
<1>2. CASE RowRecorded(i)
  <2>1. PICK w \in Senders : SendFirst(w) /\ deliveries'[i].lock = w
              /\ deliveries'[i].status \in {"rate_limited", "dry_run", "success", "failed"}
    BY <1>2 DEF RowRecorded
  <2>2. sender'[w].at = "send"
    <3>1. w \in DOMAIN sender /\ Sender(sender[w])
      BY DEF SendTypes
    <3> QED BY <2>1, <3>1 DEF SendFirst, Advance, Sender
  <2> QED BY <2>1, <2>2
<1>3. CASE i \in DOMAIN deliveries /\ RowStep(i)
  <2>1. CASE deliveries'[i] = deliveries[i]
    <3> DEFINE w == deliveries[i].lock
    <3>1. w \in Senders /\ sender[w].at \in {"send", "write", "raised"} /\ deliveries[i].status # "deleted"
      BY <1>3, <2>1, RowsHaveFields DEF Locks
    <3>2. ~(CommitSends(w) \/ RetryTask(w) \/ CrashSender(w))
      BY <1>3, <2>1, <3>1, EndsUnlock
    <3>3. ~Acknowledge(w)
      BY <3>1 DEF Acknowledge
    <3>4. sender'[w].at \in {"send", "write", "raised"}
      BY <1>1, <3>1, <3>2, <3>3 DEF SendersStep, SenderStep
    <3> QED BY <2>1, <3>1, <3>4
  <2>2. ASSUME NEW w \in Senders, RowWritten(i, w)
        PROVE  /\ deliveries'[i].status # "deleted"
               /\ sender'[deliveries'[i].lock].at \in {"send", "write", "raised"}
    <3>1. w \in DOMAIN sender /\ Sender(sender[w]) /\ WriteAttempt(w)
      BY <2>2 DEF SendTypes, RowWritten
    <3>2. sender'[w].at = "send"
      BY <3>1 DEF WriteAttempt, Advance, Sender
    <3> QED BY <2>2, <3>2 DEF RowWritten, FinalStatus
  <2> QED BY <1>3, <2>1, <2>2 DEF RowStep, RowSettled, RowRolledBack, RowDeleted, RowReset
<1> QED BY <1>2, <1>3, RowsAfter

\* A failed delivery has an attempt to come, whether its status is committed or not.
Allowed(i, attempts) ==
  LET t == deliveries[i].target IN
  attempts < MaxAttempts[t] \/ MaxAttempts[t] <= 1 \/ i \in stranded
Verdicts ==
  \A i \in DOMAIN deliveries :
    /\ deliveries[i].status = "failed" => Allowed(i, deliveries[i].attempts)
    /\ deliveries[i].lock # "none" /\ deliveries[i].was = "failed" => Allowed(i, deliveries[i].tried)

LEMMA StrandedGrows == ASSUME [NextSend]_sendVars PROVE stranded \subseteq stranded'
BY DEF NextSend, StartDispatch, SendFirst, SendOrphan, StartRetry, SendAgain, WriteAttempt, SkipGone,
       CommitSends, Acknowledge, SendRaises, RetryTask, CrashSender, MinutePasses, StartDryRun,
       Beat, DeleteAlert, ToggleTarget, DeleteTarget, RetryDelivery, sendVars

LEMMA VerdictsKeep == ASSUME SendTypes, Verdicts, [NextSend]_sendVars PROVE Verdicts'
<1> SUFFICES ASSUME NEW i \in DOMAIN deliveries'
             PROVE  /\ deliveries'[i].status = "failed" => Allowed(i, deliveries[i].attempts)'
                    /\ deliveries'[i].lock # "none" /\ deliveries'[i].was = "failed" =>
                         Allowed(i, deliveries[i].tried)'
  BY DEF Verdicts
<1>1. stranded \subseteq stranded' /\ "none" \notin Senders
  BY StrandedGrows, SendAssumption
<1>2. CASE RowRecorded(i)
  <2>1. PICK w \in Senders : SendFirst(w) /\ deliveries'[i].attempts = 1 /\ deliveries'[i].was = "absent"
              /\ deliveries'[i].target = TargetOrder[FrontOf(w)]
    BY <1>2 DEF RowRecorded
  <2>2. deliveries'[i].target \in Targets
    BY RowsAfter DEF RowType
  <2>3. MaxAttempts[deliveries'[i].target] \in Nat
    BY <2>2, LimitsAreNumbers
  <2> QED BY <2>1, <2>3 DEF Allowed
<1>3. CASE i \in DOMAIN deliveries /\ RowStep(i) /\ deliveries'[i].target = deliveries[i].target
  <2>1. /\ deliveries[i].status = "failed" => Allowed(i, deliveries[i].attempts)
        /\ deliveries[i].lock # "none" /\ deliveries[i].was = "failed" => Allowed(i, deliveries[i].tried)
    BY <1>3 DEF Verdicts
  <2>2. ASSUME NEW a, Allowed(i, a)
        PROVE  \/ a < MaxAttempts[deliveries'[i].target] \/ MaxAttempts[deliveries'[i].target] <= 1
               \/ i \in stranded'
    BY <1>1, <1>3, <2>2 DEF Allowed
  <2>3. CASE deliveries'[i] = deliveries[i]
    BY <2>1, <2>2, <2>3 DEF Allowed
  <2>4. ASSUME NEW w \in Senders, RowWritten(i, w)
        PROVE  /\ deliveries'[i].status = "failed" => Allowed(i, deliveries[i].attempts)'
               /\ deliveries'[i].was = "failed" => Allowed(i, deliveries[i].tried)'
    <3>1. deliveries'[i].status = "failed" =>
            deliveries'[i].attempts < MaxAttempts[deliveries'[i].target]
      BY <1>3, <2>4 DEF RowWritten, FinalStatus
    <3>2. /\ deliveries'[i].was = (IF deliveries[i].lock = w THEN deliveries[i].was ELSE deliveries[i].status)
          /\ deliveries'[i].tried = (IF deliveries[i].lock = w THEN deliveries[i].tried
                                     ELSE deliveries[i].attempts)
      BY <2>4 DEF RowWritten
    <3> QED BY <1>1, <2>1, <2>2, <3>1, <3>2 DEF Allowed
  <2>5. ASSUME NEW w \in Senders, RowSettled(i, w) \/ RowRolledBack(i, w)
        PROVE  /\ deliveries'[i].lock = "none"
               /\ deliveries'[i].status = "failed" => Allowed(i, deliveries[i].attempts)'
    BY <1>1, <2>1, <2>2, <2>5 DEF RowSettled, RowRolledBack, Allowed
  <2>6. CASE RowReset(i)
    <3>1. deliveries[i].status = "exhausted" => i \in stranded'
      BY <2>6 DEF RowReset, RetryDelivery
    <3> QED BY <2>1, <2>2, <2>6, <3>1 DEF RowReset, Allowed
  <2>7. CASE RowDeleted(i)
    BY <2>7 DEF RowDeleted
  <2> QED BY <1>3, <2>3, <2>4, <2>5, <2>6, <2>7 DEF RowStep
<1> QED BY <1>2, <1>3, RowsAfter

\* A success that another process committed is among the rows that changed since a
\* retry selected them.
Noticed ==
  /\ \A i \in DOMAIN deliveries :
       deliveries[i].lock # "none" /\ deliveries[i].was = "success" => i \in changed[deliveries[i].lock]
  /\ \A w \in Senders :
       sender[w].job = "retry" =>
         \A i \in sender[w].todo : Seen(i) = "success" => i \in changed[w]

\* The rows that changed are forgotten where a process starts a retry or ends a task.
LEMMA ChangedGrows ==
  ASSUME SendTypes, [NextSend]_sendVars, NEW w \in Senders,
         ~StartRetry(w), ~CommitSends(w), ~RetryTask(w), ~CrashSender(w)
  PROVE  /\ changed[w] \subseteq changed'[w]
         /\ \A v \in Senders : CommitSends(v) => Rows(v) \subseteq changed'[w]
<1>1. DOMAIN changed = Senders
  BY DEF SendTypes
<1>2. ASSUME UNCHANGED changed, \A v \in Senders : ~CommitSends(v)
      PROVE  /\ changed[w] \subseteq changed'[w]
             /\ \A v \in Senders : CommitSends(v) => Rows(v) \subseteq changed'[w]
  BY <1>2
<1>3. ASSUME NEW v \in Senders, CommitSends(v)
      PROVE  changed[w] \subseteq changed'[w] /\ Rows(v) \subseteq changed'[w]
  BY <1>1, <1>3 DEF CommitSends
<1>4. ASSUME NEW v \in Senders, StartRetry(v) \/ RetryTask(v) \/ CrashSender(v) PROVE changed'[w] = changed[w]
  BY <1>1, <1>4 DEF StartRetry, RetryTask, CrashSender
<1>5. ASSUME NEW i, RetryDelivery(i) PROVE changed[w] \subseteq changed'[w]
  BY <1>1, <1>5 DEF RetryDelivery
<1>6. ASSUME NEW v \in Senders,
             \/ StartDispatch(v) \/ SendFirst(v) \/ SendOrphan(v) \/ SendAgain(v) \/ WriteAttempt(v)
             \/ SkipGone(v) \/ Acknowledge(v) \/ SendRaises(v) \/ MinutePasses(v)
      PROVE  UNCHANGED changed
  BY <1>6 DEF StartDispatch, SendFirst, SendOrphan, SendAgain, WriteAttempt, SkipGone, Acknowledge,
              SendRaises, MinutePasses
<1>7. CASE \/ StartDryRun \/ Beat \/ DeleteAlert \/ UNCHANGED sendVars
           \/ \E t \in Targets : ToggleTarget(t) \/ DeleteTarget(t)
  <2>1. UNCHANGED changed
    BY <1>7 DEF StartDryRun, Beat, DeleteAlert, ToggleTarget, DeleteTarget, sendVars
  <2> QED BY <1>3, <2>1
<1>8. changed[w] \subseteq changed'[w]
  BY <1>3, <1>4, <1>5, <1>6, <1>7 DEF NextSend
<1> QED BY <1>3, <1>8

\* What others see of a row turns to success only where a process commits it.
LEMMA SuccessIsCommitted ==
  ASSUME SendTypes, [NextSend]_sendVars, NEW i \in DOMAIN deliveries, Seen(i)' = "success"
  PROVE  Seen(i) = "success" \/ \E v \in Senders : CommitSends(v) /\ i \in Rows(v)
<1>1. RowStep(i) /\ "none" \notin Senders
  BY RowsMove, SendAssumption DEF RowsStep
<1>2. CASE deliveries'[i] = deliveries[i]
  BY <1>2 DEF Seen, Unlocked
<1>3. ASSUME NEW w \in Senders, RowWritten(i, w) PROVE Seen(i) = "success"
  BY <1>1, <1>3 DEF RowWritten, Seen, Unlocked
<1>4. ASSUME NEW w \in Senders, RowSettled(i, w) PROVE CommitSends(w) /\ i \in Rows(w)
  BY <1>4 DEF RowSettled, Rows
<1>5. ASSUME NEW w \in Senders, RowRolledBack(i, w) PROVE Seen(i) = "success"
  BY <1>1, <1>5 DEF RowRolledBack, Seen, Unlocked
<1>6. CASE RowDeleted(i) \/ RowReset(i)
  BY <1>6 DEF RowDeleted, RowReset, Seen, Unlocked
<1> QED BY <1>1, <1>2, <1>3, <1>4, <1>5, <1>6 DEF RowStep

LEMMA NoticedKeep == ASSUME SendTypes, Locks, Noticed, [NextSend]_sendVars PROVE Noticed'
<1>1. "none" \notin Senders /\ SendersStep
  BY SendersMove, SendAssumption
<1>2. ASSUME NEW i \in DOMAIN deliveries', deliveries'[i].lock # "none", deliveries'[i].was = "success"
      PROVE  i \in changed'[deliveries'[i].lock]
  <2>1. ~RowRecorded(i)
    BY <1>2 DEF RowRecorded
  <2>2. i \in DOMAIN deliveries /\ RowStep(i)
    BY <2>1, RowsAfter
  <2>3. CASE deliveries'[i] = deliveries[i]
    <3> DEFINE w == deliveries[i].lock
    <3>1. /\ w \in Senders /\ i \in changed[w] /\ sender[w].at \in {"send", "write", "raised"}
      BY <1>2, <2>2, <2>3, RowsHaveFields DEF Locks, Noticed
    <3>2. ~(CommitSends(w) \/ RetryTask(w) \/ CrashSender(w))
      BY <2>2, <2>3, <3>1, EndsUnlock
    <3>3. ~StartRetry(w)
      BY <3>1 DEF StartRetry, Idle, SendTypes, Sender
    <3> HIDE DEF w
    <3>4. changed[w] \subseteq changed'[w]
      BY <3>1, <3>2, <3>3, ChangedGrows
    <3> QED BY <2>3, <3>1, <3>4 DEF w
  <2>4. ASSUME NEW w \in Senders, RowWritten(i, w) PROVE i \in changed'[deliveries'[i].lock]
    <3>1. /\ WriteAttempt(w) /\ i = FrontOf(w) /\ deliveries'[i].lock = w
          /\ deliveries[i].lock \in {"none", w}
          /\ deliveries'[i].was = IF deliveries[i].lock = w THEN deliveries[i].was ELSE deliveries[i].status
      BY <2>4 DEF RowWritten
    <3>2. sender[w].job = "retry" /\ i \in sender[w].todo
      BY <3>1, FrontIsThere DEF WriteAttempt, SendTypes, Sender
    <3>3. i \in changed[w]
      BY <1>1, <1>2, <2>2, <3>1, <3>2 DEF Noticed, Seen, Unlocked
    <3>4. changed' = changed
      BY <3>1 DEF WriteAttempt
    <3> QED BY <3>1, <3>3, <3>4
  <2> QED BY <1>2, <2>2, <2>3, <2>4 DEF RowStep, RowSettled, RowRolledBack, RowDeleted, RowReset
<1>3. ASSUME NEW w \in Senders, sender'[w].job = "retry", NEW i \in sender'[w].todo, Seen(i)' = "success"
      PROVE  i \in changed'[w]
  <2>1. SenderStep(w) /\ Sender(sender'[w])
    BY <1>1 DEF SendersStep
  <2>2. CASE /\ sender[w].job = "retry" /\ i \in sender[w].todo
             /\ ~StartRetry(w) /\ ~CommitSends(w) /\ ~RetryTask(w) /\ ~CrashSender(w)
    <3>1. i \in DOMAIN deliveries
      BY <2>2 DEF SendTypes
    <3>2. Seen(i) = "success" => i \in changed[w]
      BY <2>2 DEF Noticed
    <3> QED BY <1>3, <2>2, <3>1, <3>2, ChangedGrows, SuccessIsCommitted
  <2>3. CASE /\ StartRetry(w) /\ sender'[w].todo \subseteq {j \in DOMAIN deliveries : Selected(j)}
    <3>1. i \in DOMAIN deliveries /\ Seen(i) = "failed" /\ deliveries' = deliveries
      BY <1>3, <2>3 DEF Selected, StartRetry
    <3> QED BY <1>3, <3>1 DEF Seen, Unlocked
  <2>4. CASE CommitSends(w)
    <3>1. sender'[w].at = "acknowledge"
      BY <2>4 DEF CommitSends, SendTypes, Sender
    <3> QED BY <1>3, <2>1, <3>1 DEF Sender
  <2>5. CASE RetryTask(w) \/ CrashSender(w)
    <3>1. sender'[w] = NoSend
      BY <2>5 DEF RetryTask, CrashSender, SendTypes
    <3> QED BY <1>3, <3>1, NoSendIsSender
  <2>6. CASE StartRetry(w)
    <3>1. sender[w].at = "idle" /\ sender[w].job = "none"
      BY <2>6 DEF StartRetry, Idle, SendTypes, Sender
    <3>2. sender[w].at # "acknowledge" /\ sender'[w].job # "none"
      BY <1>3, <3>1
    <3> QED BY <1>3, <2>1, <2>3, <3>1, <3>2, NoSendIsSender DEF SenderStep, SameTask, SendRaises, Idle,
               SendFirst, SkipGone, WriteAttempt, SendOrphan, SendAgain, CommitSends
  <2> QED BY <1>3, <2>1, <2>2, <2>3, <2>4, <2>5, <2>6, NoSendIsSender DEF SenderStep, SameTask
<1> QED BY <1>2, <1>3 DEF Noticed

\* A delivery that has succeeded stays so, but for a retry that had selected it before.
LEMMA SuccessKeeps ==
  ASSUME SendTypes, Noticed, [NextSend]_sendVars, NEW i \in DOMAIN deliveries,
         Seen(i) = "success", Seen(i)' \notin {"success", "deleted"}
  PROVE  \E w \in Senders : deliveries[i].lock = w /\ i \in changed[w]
<1>1. RowStep(i) /\ "none" \notin Senders
  BY RowsMove, SendAssumption DEF RowsStep
<1>2. deliveries'[i] # deliveries[i]
  BY DEF Seen, Unlocked
<1>3. ASSUME NEW w \in Senders, RowWritten(i, w) PROVE FALSE
  BY <1>1, <1>3 DEF RowWritten, Seen, Unlocked
<1>4. ASSUME NEW w \in Senders, RowSettled(i, w) PROVE deliveries[i].lock = w /\ i \in changed[w]
  BY <1>1, <1>4 DEF RowSettled, Seen, Unlocked, Noticed
<1>5. ASSUME NEW w \in Senders, RowRolledBack(i, w) PROVE FALSE
  BY <1>1, <1>5 DEF RowRolledBack, Seen, Unlocked
<1>6. CASE RowDeleted(i) \/ RowReset(i)
  BY <1>6 DEF RowDeleted, RowReset, Seen, Unlocked
<1> QED BY <1>1, <1>2, <1>3, <1>4, <1>5, <1>6 DEF RowStep

-----------------------------------------------------------------------------
(* Automation: what was posted is on record *)

\* A row that no rollback takes away.
Kept(i) ==
  /\ deliveries[i].status # "deleted" /\ ~deliveries[i].dry
  /\ deliveries[i].lock # "none" => deliveries[i].was \notin {"absent", "deleted"}

LEMMA LeftGrows == ASSUME SendTypes, [NextSend]_sendVars PROVE left \subseteq left'
<1>1. left \subseteq Targets
  BY DEF SendTypes
<1> QED
  BY <1>1 DEF NextSend, StartDispatch, SendFirst, SendOrphan, StartRetry, SendAgain, WriteAttempt, SkipGone,
       CommitSends, Acknowledge, SendRaises, RetryTask, CrashSender, MinutePasses, StartDryRun,
       Beat, DeleteAlert, ToggleTarget, DeleteTarget, RetryDelivery, sendVars

LEMMA KeptStays ==
  ASSUME SendTypes, [NextSend]_sendVars, NEW i \in DOMAIN deliveries, Kept(i)
  PROVE  Kept(i)' \/ deliveries[i].target \in left'
<1>1. /\ RowStep(i) /\ deliveries'[i].target = deliveries[i].target
      /\ deliveries'[i].dry = deliveries[i].dry /\ "none" \notin Senders
  BY RowsMove, SendAssumption DEF RowsStep
<1>2. /\ deliveries[i].status \in Statuses /\ deliveries[i].status # "deleted" /\ ~deliveries[i].dry
      /\ deliveries[i].lock # "none" => deliveries[i].was \notin {"absent", "deleted"}
  BY RowsHaveFields DEF Kept
<1>3. CASE deliveries'[i] = deliveries[i]
  BY <1>2, <1>3 DEF Kept
<1>4. ASSUME NEW w \in Senders, RowWritten(i, w) PROVE Kept(i)'
  <2>1. deliveries'[i].status # "deleted" /\ deliveries[i].lock \in {"none", w}
    BY <1>4 DEF RowWritten, FinalStatus
  <2>2. deliveries'[i].was = IF deliveries[i].lock = w THEN deliveries[i].was ELSE deliveries[i].status
    BY <1>4 DEF RowWritten
  <2> QED BY <1>1, <1>2, <2>1, <2>2 DEF Kept, Statuses
<1>5. ASSUME NEW w \in Senders, RowSettled(i, w) \/ RowRolledBack(i, w) PROVE Kept(i)'
  BY <1>1, <1>2, <1>5 DEF Kept, RowSettled, RowRolledBack
<1>6. CASE RowReset(i)
  BY <1>1, <1>2, <1>6 DEF Kept, RowReset
<1> QED BY <1>1, <1>3, <1>4, <1>5, <1>6 DEF RowStep, RowDeleted

\* A retry has rows to send that are kept, and attempts left.
Retrying ==
  \A w \in Senders :
    sender[w].job = "retry" =>
      \A i \in sender[w].todo :
        /\ ~deliveries[i].dry /\ (Kept(i) \/ deliveries[i].target \in left)
        /\ sender[w].read[i] < MaxAttempts[deliveries[i].target]

LEMMA RetryingKeeps == ASSUME SendTypes, Locks, Retrying, [NextSend]_sendVars PROVE Retrying'
<1> SUFFICES ASSUME NEW w \in Senders, sender'[w].job = "retry", NEW i \in sender'[w].todo
             PROVE  /\ ~deliveries'[i].dry /\ (Kept(i)' \/ deliveries'[i].target \in left')
                    /\ sender'[w].read[i] < MaxAttempts[deliveries'[i].target]
  BY DEF Retrying
<1>1. SenderStep(w) /\ Sender(sender'[w]) /\ left \subseteq left'
  BY SendersMove, LeftGrows DEF SendersStep
<1>2. CASE sender[w].job = "retry" /\ i \in sender[w].todo /\ sender'[w].read = sender[w].read
  <2>1. /\ i \in DOMAIN deliveries /\ ~deliveries[i].dry
        /\ Kept(i) \/ deliveries[i].target \in left
        /\ sender[w].read[i] < MaxAttempts[deliveries[i].target]
    BY <1>2 DEF SendTypes, Retrying
  <2>2. deliveries'[i].target = deliveries[i].target /\ deliveries'[i].dry = deliveries[i].dry
    BY <2>1, RowsMove DEF RowsStep
  <2> QED BY <1>1, <1>2, <2>1, <2>2, KeptStays
<1>3. CASE /\ StartRetry(w) /\ sender'[w].todo \subseteq {j \in DOMAIN deliveries : Selected(j)}
           /\ \A j \in sender'[w].todo : sender'[w].read[j] = SeenAttempts(j)
  <2>1. /\ i \in DOMAIN deliveries /\ ~deliveries[i].dry /\ Seen(i) = "failed" /\ deliveries' = deliveries
        /\ sender'[w].read[i] < MaxAttempts[deliveries[i].target]
    BY <1>3 DEF StartRetry, Selected
  <2>2. Kept(i)
    BY <2>1 DEF Kept, Seen, Unlocked, Locks
  <2> QED BY <2>1, <2>2 DEF Kept
<1>4. CASE sender'[w].at = "acknowledge"
  BY <1>1, <1>4 DEF Sender
<1> QED BY <1>1, <1>2, <1>3, <1>4, NoSendIsSender DEF SenderStep, SameTask

\* The attempts of a row, and those a rollback would restore, exceed the limit of its
\* target by one at most.
Attempts ==
  \A i \in DOMAIN deliveries :
    LET d == deliveries[i] IN
    /\ d.attempts <= MaxAttempts[d.target] + 1
    /\ d.lock # "none" => d.tried <= MaxAttempts[d.target] + 1

LEMMA AttemptsKeep == ASSUME SendTypes, Retrying, Attempts, [NextSend]_sendVars PROVE Attempts'
<1> SUFFICES ASSUME NEW i \in DOMAIN deliveries'
             PROVE  /\ deliveries'[i].attempts <= MaxAttempts[deliveries'[i].target] + 1
                    /\ deliveries'[i].lock # "none" =>
                         deliveries'[i].tried <= MaxAttempts[deliveries'[i].target] + 1
  BY DEF Attempts
<1> DEFINE limit == MaxAttempts[deliveries'[i].target]
<1>1. limit \in Nat /\ deliveries'[i].attempts \in Nat /\ deliveries'[i].tried \in Nat
  <2>1. deliveries'[i] \in RowType
    BY RowsAfter
  <2>2. /\ deliveries'[i].target \in Targets
        /\ deliveries'[i].attempts \in Nat /\ deliveries'[i].tried \in Nat
    BY <2>1 DEF RowType
  <2> QED BY <2>2, LimitsAreNumbers
<1>2. CASE RowRecorded(i)
  BY <1>1, <1>2 DEF RowRecorded
<1>3. CASE i \in DOMAIN deliveries /\ RowStep(i) /\ deliveries'[i].target = deliveries[i].target
  <2>1. /\ deliveries[i].attempts <= limit + 1
        /\ deliveries[i].lock # "none" => deliveries[i].tried <= limit + 1
        /\ deliveries[i].attempts \in Nat /\ deliveries[i].tried \in Nat
    BY <1>3, RowsHaveFields DEF Attempts
  <2>2. CASE deliveries'[i] = deliveries[i]
    BY <2>1, <2>2
  <2>3. ASSUME NEW w \in Senders, RowWritten(i, w)
        PROVE  deliveries'[i].attempts <= limit + 1 /\ deliveries'[i].tried <= limit + 1
    <3>1. WriteAttempt(w) /\ i = FrontOf(w)
      BY <2>3 DEF RowWritten
    <3>2. sender[w].job = "retry" /\ i \in sender[w].todo /\ sender[w].read[i] \in Nat
      BY <3>1, FrontIsThere DEF WriteAttempt, SendTypes, Sender
    <3>3. sender[w].read[i] < limit
      BY <1>3, <3>2 DEF Retrying
    <3>4. /\ deliveries'[i].attempts = sender[w].read[i] + 1
          /\ deliveries'[i].tried = IF deliveries[i].lock = w THEN deliveries[i].tried
                                    ELSE deliveries[i].attempts
      BY <2>3 DEF RowWritten
    <3>5. deliveries[i].lock \in {"none", w} /\ "none" \notin Senders
      BY <2>3, SendAssumption DEF RowWritten
    <3> QED BY <1>1, <2>1, <3>2, <3>3, <3>4, <3>5
  <2>4. ASSUME NEW w \in Senders, RowSettled(i, w) \/ RowRolledBack(i, w)
        PROVE  deliveries'[i].attempts <= limit + 1 /\ deliveries'[i].lock = "none"
    <3>1. w # "none"
      BY SendAssumption
    <3> QED BY <2>1, <2>4, <3>1 DEF RowSettled, RowRolledBack
  <2>5. CASE RowDeleted(i) \/ RowReset(i)
    BY <2>1, <2>5 DEF RowDeleted, RowReset
  <2> QED BY <1>3, <2>2, <2>3, <2>4, <2>5 DEF RowStep
<1> QED BY <1>2, <1>3, RowsAfter

\* A target that never left the query is enabled, and the detection is there.
StillTargets == \A t \in Targets \ left : alertRow /\ targets[t] = "enabled"

LEMMA MatchedKeeps == ASSUME SendTypes, StillTargets, [NextSend]_sendVars PROVE StillTargets'
<1>1. left \subseteq left' /\ DOMAIN targets = Targets
  BY LeftGrows DEF SendTypes
<1>2. CASE UNCHANGED <<alertRow, targets>>
  BY <1>1, <1>2 DEF StillTargets
<1>3. ASSUME NEW t \in Targets, ToggleTarget(t) \/ DeleteTarget(t) PROVE StillTargets'
  <2>1. /\ t \in left' /\ alertRow' = alertRow
        /\ \A u \in Targets \ {t} : targets'[u] = targets[u]
    BY <1>1, <1>3 DEF ToggleTarget, DeleteTarget
  <2> QED BY <1>1, <2>1 DEF StillTargets
<1>4. CASE DeleteAlert
  BY <1>4 DEF DeleteAlert, StillTargets
<1>5. UNCHANGED <<alertRow, targets>> \/ DeleteAlert \/ \E t \in Targets : ToggleTarget(t) \/ DeleteTarget(t)
  BY DEF NextSend, StartDispatch, SendFirst, SendOrphan, StartRetry, SendAgain, WriteAttempt, SkipGone,
       CommitSends, Acknowledge, SendRaises, RetryTask, CrashSender, MinutePasses, StartDryRun,
       Beat, RetryDelivery, sendVars
<1> QED BY <1>2, <1>3, <1>4, <1>5

OnRecord(t) == \E i \in DOMAIN deliveries : deliveries[i].target = t /\ Kept(i)
Held(i, w) ==
  deliveries[i].lock = w /\ ~deliveries[i].dry /\ deliveries[i].status # "deleted"

LEMMA OnRecordStays ==
  ASSUME SendTypes, [NextSend]_sendVars, NEW t, t \notin left', OnRecord(t)
  PROVE  OnRecord(t)'
<1>1. PICK i \in DOMAIN deliveries : deliveries[i].target = t /\ Kept(i)
  BY DEF OnRecord
<1>2. i \in DOMAIN deliveries' /\ deliveries'[i].target = t
  BY <1>1, RowsMove DEF RowsStep
<1>3. Kept(i)'
  BY <1>1, KeptStays
<1> QED BY <1>2, <1>3 DEF OnRecord

LEMMA HeldStays ==
  ASSUME SendTypes, [NextSend]_sendVars, NEW w \in Senders, NEW i \in DOMAIN deliveries, Held(i, w),
         ~RetryTask(w), ~CrashSender(w)
  PROVE  /\ i \in DOMAIN deliveries' /\ deliveries'[i].target = deliveries[i].target
         /\ IF CommitSends(w) THEN Kept(i)' ELSE Held(i, w)'
<1>1. /\ i \in DOMAIN deliveries' /\ RowStep(i) /\ deliveries'[i].target = deliveries[i].target
      /\ deliveries'[i].dry = deliveries[i].dry /\ w # "none"
  BY RowsMove, SendAssumption DEF RowsStep
<1>2. deliveries[i].lock = w /\ ~deliveries[i].dry /\ deliveries[i].status # "deleted"
  BY DEF Held
<1>3. CASE deliveries'[i] = deliveries[i]
  <2>1. ~CommitSends(w)
    BY <1>2, <1>3, EndsUnlock
  <2> QED BY <1>1, <1>2, <1>3, <2>1 DEF Held
<1>4. ASSUME NEW v \in Senders, RowWritten(i, v) PROVE Held(i, w)' /\ ~CommitSends(w)
  <2>1. v = w /\ deliveries'[i].lock = w /\ deliveries'[i].status # "deleted"
    BY <1>1, <1>2, <1>4 DEF RowWritten, FinalStatus
  <2>2. ~CommitSends(w)
    BY <1>2, <2>1, EndsUnlock, RowsMove DEF RowsStep
  <2> QED BY <1>1, <1>2, <2>1, <2>2 DEF Held
<1>5. ASSUME NEW v \in Senders, RowSettled(i, v) PROVE CommitSends(w) /\ Kept(i)'
  BY <1>1, <1>2, <1>5 DEF RowSettled, Kept
<1> QED BY <1>1, <1>2, <1>3, <1>4, <1>5 DEF RowStep, RowRolledBack, RowDeleted, RowReset

LEMMA RecordedIsHeld ==
  ASSUME SendTypes, [NextSend]_sendVars, NEW w \in Senders, SendFirst(w), ~sender[w].dry
  PROVE  \E i \in DOMAIN deliveries' :
           deliveries'[i].target = TargetOrder[FrontOf(w)] /\ Held(i, w)'
<1> DEFINE i == Len(deliveries) + 1
<1>1. PICK row : deliveries' = Append(deliveries, row)
  BY DEF SendFirst, Record
<1>2. deliveries \in Seq(RowType) /\ Len(deliveries) \in Nat
  BY DEF SendTypes
<1>3. i \in DOMAIN deliveries' /\ i \notin DOMAIN deliveries
  BY <1>1, <1>2
<1> HIDE DEF i
<1>4. RowRecorded(i)
  BY <1>3, RowsAfter
<1>5. PICK v \in Senders :
        /\ SendFirst(v) /\ deliveries'[i].lock = v /\ deliveries'[i].dry = sender[v].dry
        /\ deliveries'[i].target = TargetOrder[FrontOf(v)]
        /\ deliveries'[i].status \in {"rate_limited", "dry_run", "success", "failed"}
  BY <1>4 DEF RowRecorded
<1>6. v = w
  <2>1. /\ sender'[v].todo = sender[v].todo \ {FrontOf(v)} /\ FrontOf(v) \in sender[v].todo
        /\ \A u \in Senders \ {w} : sender'[u] = sender[u]
    <3>1. DOMAIN sender = Senders /\ Sender(sender[v]) /\ sender[v].todo # {}
      BY <1>5 DEF SendTypes, SendFirst
    <3> QED BY <1>5, <3>1, FrontIsThere DEF SendFirst, Advance, Sender
  <2> QED BY <2>1
<1> QED BY <1>3, <1>5, <1>6 DEF Held

\* A dispatch has a target to come, holds its row, or finds it on record.
Dispatched ==
  \A w \in Senders, t \in Targets \ left :
    sender[w].job = "dispatch" /\ ~sender[w].dry =>
      /\ sender[w].at = "send" =>
           \/ \E n \in sender[w].todo : TargetOrder[n] = t
           \/ \E i \in DOMAIN deliveries : deliveries[i].target = t /\ Held(i, w)
           \/ OnRecord(t)
      /\ sender[w].at = "acknowledge" => OnRecord(t)

LEMMA DispatchedKeeps == ASSUME SendTypes, StillTargets, Dispatched, [NextSend]_sendVars PROVE Dispatched'
<1> SUFFICES ASSUME NEW w \in Senders, NEW t \in Targets, t \notin left',
                    sender'[w].job = "dispatch", ~sender'[w].dry
             PROVE  /\ sender'[w].at = "send" =>
                         \/ \E n \in sender'[w].todo : TargetOrder[n] = t
                         \/ \E i \in DOMAIN deliveries' : deliveries'[i].target = t /\ Held(i, w)'
                         \/ OnRecord(t)'
                    /\ sender'[w].at = "acknowledge" => OnRecord(t)'
  BY DEF Dispatched
<1>1. /\ SenderStep(w) /\ Sender(sender[w]) /\ Sender(sender'[w]) /\ t \notin left
      /\ DOMAIN sender = Senders
  BY SendersMove, LeftGrows DEF SendersStep, SendTypes
<1>2. ~Acknowledge(w) /\ ~RetryTask(w) /\ ~CrashSender(w)
  <2>1. Acknowledge(w) \/ RetryTask(w) \/ CrashSender(w) => sender'[w] = NoSend
    BY <1>1 DEF Acknowledge, RetryTask, CrashSender
  <2> QED BY <2>1, NoSendIsSender
<1>3. ASSUME sender[w].job = "dispatch", ~sender[w].dry
      PROVE  /\ sender[w].at = "send" =>
                  \/ \E n \in sender[w].todo : TargetOrder[n] = t
                  \/ \E i \in DOMAIN deliveries' :
                       deliveries'[i].target = t /\ IF CommitSends(w) THEN Kept(i)' ELSE Held(i, w)'
                  \/ OnRecord(t)'
             /\ sender[w].at = "acknowledge" => OnRecord(t)'
  <2>1. OnRecord(t) => OnRecord(t)'
    BY OnRecordStays
  <2>2. \A i \in DOMAIN deliveries : deliveries[i].target = t /\ Held(i, w) =>
          \E j \in DOMAIN deliveries' :
            deliveries'[j].target = t /\ IF CommitSends(w) THEN Kept(j)' ELSE Held(j, w)'
    BY <1>2, HeldStays
  <2> QED BY <1>1, <1>3, <2>1, <2>2 DEF Dispatched
<1>4. CASE sender'[w] = sender[w]
  <2>1. ~CommitSends(w)
    <3>1. CommitSends(w) => sender[w].at = "send" /\ sender'[w].at = "acknowledge"
      BY <1>1 DEF CommitSends, Sender
    <3> QED BY <1>4, <3>1
  <2> QED BY <1>3, <1>4, <2>1
<1>5. CASE sender'[w].at = "send" /\ sender'[w].todo = Matching
  <2>1. alertRow /\ targets[t] = "enabled"
    BY <1>1 DEF StillTargets
  <2>2. \E n \in Matching : TargetOrder[n] = t
    BY <2>1 DEF Matching, Targets
  <2> QED BY <1>5, <2>2
<1>6. CASE /\ SendFirst(w) \/ SkipGone(w) \/ WriteAttempt(w)
           /\ SameTask(w) /\ sender'[w].at = "send" /\ sender'[w].todo = sender[w].todo \ {FrontOf(w)}
  <2>1. sender[w].job = "dispatch" /\ ~sender[w].dry
    BY <1>6 DEF SameTask
  <2>2. SendFirst(w) /\ sender[w].at = "send"
    BY <1>1, <1>6, <2>1 DEF SkipGone, WriteAttempt, Sender, SendFirst
  <2>3. ~CommitSends(w)
    BY <1>1, <1>6 DEF CommitSends, Sender
  <2>4. \E i \in DOMAIN deliveries' : deliveries'[i].target = TargetOrder[FrontOf(w)] /\ Held(i, w)'
    BY <2>1, <2>2, RecordedIsHeld
  <2> QED BY <1>3, <1>6, <2>1, <2>2, <2>3, <2>4
<1>7. CASE CommitSends(w) /\ SameTask(w) /\ sender[w].at = "send" /\ sender[w].todo = {}
                          /\ sender'[w].at = "acknowledge"
  <2>1. sender[w].job = "dispatch" /\ ~sender[w].dry
    BY <1>7 DEF SameTask
  <2>2. (\E i \in DOMAIN deliveries' : deliveries'[i].target = t /\ Kept(i)') => OnRecord(t)'
    BY DEF OnRecord
  <2> QED BY <1>3, <1>7, <2>1, <2>2
<1> QED BY <1>1, <1>2, <1>4, <1>5, <1>6, <1>7 DEF SenderStep, SendAgain, SameTask

\* What was posted is on record, or a dispatch that will record it runs or waits.
Promised(t) ==
  \/ OnRecord(t)
  \/ \E w \in Senders : sender[w].job = "dispatch" /\ ~sender[w].dry
  \/ \E m \in sendTasks : m[1] = "dispatch"
Posted == \A t \in posted \ left : Promised(t)

\* A dispatch under way or waiting stays so, until it has put its targets on record.
LEMMA PromiseStays ==
  ASSUME SendTypes, Dispatched, [NextSend]_sendVars,
         NEW t \in Targets, t \notin left', Promised(t)
  PROVE  Promised(t)'
<1>1. SendersStep /\ DOMAIN sender = Senders /\ t \notin left
  BY SendersMove, LeftGrows DEF SendTypes
<1>2. CASE OnRecord(t)
  BY <1>2, OnRecordStays DEF Promised
<1>3. ASSUME NEW w \in Senders, sender[w].job = "dispatch", ~sender[w].dry PROVE Promised(t)'
  <2>1. SenderStep(w) /\ Sender(sender[w])
    BY <1>1 DEF SendersStep, SendTypes
  <2>2. sender[w].at # "idle"
    BY <1>3, <2>1 DEF Sender
  <2>3. CASE Acknowledge(w)
    <3>1. OnRecord(t)
      BY <1>1, <1>3, <2>3 DEF Acknowledge, Dispatched
    <3> QED BY <3>1, OnRecordStays DEF Promised
  <2>4. CASE RetryTask(w)
    <3>1. sender[w].used < RetryLimit(sender[w].job)
      BY <1>3, <2>4 DEF RetryTask
    <3>2. <<sender[w].job, sender[w].used + 1>> \in sendTasks'
      BY <1>3, <2>4, <3>1 DEF RetryTask
    <3> QED BY <1>3, <3>2 DEF Promised
  <2>5. CASE CrashSender(w)
    <3>1. <<sender[w].job, sender[w].used>> \in sendTasks'
      BY <1>3, <2>5 DEF CrashSender, Returned
    <3> QED BY <1>3, <3>1 DEF Promised
  <2>6. CASE ~(Acknowledge(w) \/ RetryTask(w) \/ CrashSender(w))
    <3>1. sender'[w].job = "dispatch" /\ ~sender'[w].dry
      BY <1>3, <2>1, <2>2, <2>6 DEF SenderStep, SameTask
    <3> QED BY <3>1 DEF Promised
  <2> QED BY <2>3, <2>4, <2>5, <2>6
<1>4. ASSUME NEW m \in sendTasks, m[1] = "dispatch" PROVE Promised(t)'
  <2>1. CASE m \in sendTasks'
    BY <1>4, <2>1 DEF Promised
  <2>2. CASE \E w \in Senders : StartDispatch(w)
    <3>1. PICK w \in Senders, k \in sendTasks :
            sender' = [sender EXCEPT ![w] = [NoSend EXCEPT !.job = "dispatch", !.used = k[2],
                                               !.at = "send", !.todo = Matching]]
      BY <2>2 DEF StartDispatch
    <3>2. sender'[w].job = "dispatch" /\ ~sender'[w].dry
      BY <1>1, <3>1, NoSendIsSender DEF Sender
    <3> QED BY <3>2 DEF Promised
  <2>3. m \in sendTasks' \/ \E w \in Senders : StartDispatch(w)
    BY <1>4 DEF NextSend, SendFirst, SendOrphan, StartRetry, SendAgain, WriteAttempt, SkipGone,
       CommitSends, Acknowledge, SendRaises, RetryTask, CrashSender, MinutePasses, StartDryRun,
       Beat, DeleteAlert, ToggleTarget, DeleteTarget, RetryDelivery, sendVars
  <2> QED BY <2>1, <2>2, <2>3
<1> QED BY <1>2, <1>3, <1>4 DEF Promised

LEMMA PostedKeeps ==
  ASSUME SendTypes, Dispatched, Retrying, Posted, [NextSend]_sendVars PROVE Posted'
<1> SUFFICES ASSUME NEW t \in posted', t \notin left' PROVE Promised(t)'
  BY DEF Posted
<1>1. t \notin left /\ SendersStep
  BY SendersMove, LeftGrows
<1>2. CASE t \in posted
  BY <1>1, <1>2, PromiseStays DEF Posted, SendTypes
<1>3. ASSUME NEW w \in Senders, SendFirst(w) \/ SendOrphan(w), ~sender[w].dry PROVE Promised(t)'
  <2>1. SenderStep(w) /\ sender[w].job = "dispatch" /\ sender[w].at = "send" /\ Sender(sender[w])
    BY <1>1, <1>3 DEF SendersStep, SendFirst, SendOrphan, SendTypes
  <2>2. sender'[w].job = "dispatch" /\ ~sender'[w].dry
    <3>1. DOMAIN sender = Senders
      BY DEF SendTypes
    <3> QED BY <1>3, <2>1, <3>1 DEF SendFirst, SendOrphan, Advance, Sender
  <2> QED BY <2>2 DEF Promised
<1>4. ASSUME NEW w \in Senders, SendAgain(w), t = deliveries[FrontOf(w)].target PROVE Promised(t)'
  <2>1. sender[w].job = "retry" /\ FrontOf(w) \in sender[w].todo /\ FrontOf(w) \in DOMAIN deliveries
    BY <1>4, FrontIsThere DEF SendAgain, SendTypes
  <2>2. OnRecord(t)
    BY <1>1, <1>4, <2>1 DEF Retrying, OnRecord
  <2> QED BY <2>2, OnRecordStays DEF Promised
<1>5. \/ t \in posted
      \/ \E w \in Senders : (SendFirst(w) \/ SendOrphan(w)) /\ ~sender[w].dry
      \/ \E w \in Senders : SendAgain(w) /\ t = deliveries[FrontOf(w)].target
  <2>1. ASSUME NEW w \in Senders, SendFirst(w) \/ SendOrphan(w) PROVE t \in posted \/ ~sender[w].dry
    BY <2>1 DEF SendFirst, SendOrphan
  <2>2. ASSUME NEW w \in Senders, SendAgain(w) PROVE t \in posted \/ t = deliveries[FrontOf(w)].target
    BY <2>2 DEF SendAgain
  <2> QED BY <2>1, <2>2 DEF NextSend, StartDispatch, StartRetry, WriteAttempt, SkipGone,
       CommitSends, Acknowledge, SendRaises, RetryTask, CrashSender, MinutePasses, StartDryRun,
       Beat, DeleteAlert, ToggleTarget, DeleteTarget, RetryDelivery, sendVars
<1> QED BY <1>2, <1>3, <1>4, <1>5

-----------------------------------------------------------------------------
(* Automation: theorems *)

SendInv ==
  /\ SendTypes /\ Locks /\ Verdicts /\ Noticed
  /\ Retrying /\ Attempts /\ StillTargets /\ Dispatched /\ Posted

LEMMA SendInvInit == InitSend => SendInv
<1> SUFFICES ASSUME InitSend PROVE SendInv
  OBVIOUS
<1>1. SendTypes
  BY SendTypesInit
<1>2. /\ DOMAIN deliveries = {} /\ posted = {} /\ alertRow = TRUE
      /\ \A t \in Targets : targets[t] = "enabled"
      /\ \A w \in Senders : sender[w].job = "none"
  BY NoSendIsSender DEF InitSend
<1> QED BY <1>1, <1>2 DEF SendInv, Locks, Verdicts, Noticed, Retrying, Attempts, StillTargets, Dispatched,
           Posted

LEMMA SendInvKeeps == SendInv /\ [NextSend]_sendVars => SendInv'
BY SendTypesKeep, LocksKeep, VerdictsKeep, NoticedKeep, RetryingKeeps, AttemptsKeep, MatchedKeeps,
   DispatchedKeeps, PostedKeeps DEF SendInv

LEMMA SendInvHolds == SpecSend => []SendInv
BY SendInvInit, SendInvKeeps, PTL DEF SpecSend

\* The rows of automation_deliveries, the tasks, the rate windows and the processes
\* keep their types; a row is attempted at most once more than its target allows, and
\* locked only by a process at work.
THEOREM SendTypesStay == SpecSend => []SendTypeOK
<1>1. SendInv => SendTypeOK
  <2> SUFFICES ASSUME SendInv PROVE SendTypeOK
    OBVIOUS
  <2>1. SendTypes /\ Locks /\ Attempts
    BY DEF SendInv
  <2>2. ASSUME NEW i \in DOMAIN deliveries
        PROVE  LET d == deliveries[i] IN
               /\ d.target \in Targets /\ d.attempts \in 0 .. MaxAttempts[d.target] + 1
               /\ d.status \in {"success", "failed", "exhausted", "rate_limited", "dry_run", "deleted"}
               /\ d.lock # "none" => d.lock \in Senders /\ sender[d.lock].at \in {"send", "write", "raised"}
    <3>1. deliveries[i].target \in Targets /\ MaxAttempts[deliveries[i].target] \in Nat
      BY <2>1, RowsHaveFields, LimitsAreNumbers
    <3>2. deliveries[i].attempts \in 0 .. MaxAttempts[deliveries[i].target] + 1
      BY <2>1, <3>1, RowsHaveFields DEF Attempts
    <3> QED BY <2>1, <3>1, <3>2, RowsHaveFields DEF Locks, Statuses
  <2>3. \A w \in Senders : sender[w].job \in {"none", "dispatch", "retry"}
    BY <2>1 DEF SendTypes, Sender
  <2> QED BY <2>1, <2>2, <2>3 DEF SendTypeOK, SendTypes
<1> QED BY <1>1, SendInvHolds, PTL

\* No retry changes a delivery that others see as a success, unless it had selected the
\* delivery before the success was committed.
THEOREM SuccessStays == SpecSend => SuccessIsFinal
<1>1. SendInv /\ [NextSend]_sendVars =>
        [\A i \in DOMAIN deliveries :
           Seen(i) = "success" /\ Seen(i)' \notin {"success", "deleted"} =>
             \E w \in Senders : deliveries[i].lock = w /\ i \in changed[w]]_sendVars
  BY SuccessKeeps DEF SendInv
<1> QED BY <1>1, SendInvHolds, PTL DEF SpecSend, SuccessIsFinal

\* No delivery is left as failed with no attempt to come, for any number of retries that
\* overlap, fail or are lost with their process.
THEOREM NothingStranded == SpecSend => []NoStrandedDelivery
<1>1. SendInv => NoStrandedDelivery
  <2> SUFFICES ASSUME SendInv, NEW i \in DOMAIN deliveries, Seen(i) = "failed",
                      SeenAttempts(i) >= MaxAttempts[deliveries[i].target]
               PROVE  MaxAttempts[deliveries[i].target] <= 1 \/ i \in stranded
    BY DEF NoStrandedDelivery
  <2>1. SendTypes /\ Verdicts
    BY DEF SendInv
  <2>2. SeenAttempts(i) \in Nat /\ MaxAttempts[deliveries[i].target] \in Nat
    BY <2>1, RowsHaveFields, LimitsAreNumbers DEF SeenAttempts
  <2>3. Allowed(i, SeenAttempts(i))
    BY <2>1 DEF Verdicts, Seen, SeenAttempts, Unlocked
  <2> QED BY <2>2, <2>3 DEF Allowed
<1> QED BY <1>1, SendInvHolds, PTL

\* What was sent for a detection is on record, or a task that will record it runs or
\* waits, for any number of processes, losses, exceptions and changes of the targets.
THEOREM PostsAreRemembered == SpecSend => []NoForgottenPost
<1>1. SendInv => NoForgottenPost
  BY DEF SendInv, Posted, Promised, OnRecord, Kept, NoForgottenPost, Live
<1> QED BY <1>1, SendInvHolds, PTL

-----------------------------------------------------------------------------
(* Posture: types *)

DetStatuses == {"open", "investigating", "resolved", "false_positive"}
Before == [status : DetStatuses \cup {"absent"}, stamp : BOOLEAN]
FoundType == [key : Keys \ SuppressedKeys, status : DetStatuses \cup {"absent"}, stamp : BOOLEAN,
              lock : Workers \cup {"none"}, was : Before]

Job(s) ==
  /\ DOMAIN s = {"at", "todo", "keys", "row", "status", "stamp", "want"}
  /\ s.at \in {"idle", "write", "resolve", "done", "flush", "commit"}
  /\ s.todo \subseteq Nat /\ s.keys \subseteq Keys /\ s.stamp \in BOOLEAN
  /\ s.at = "write" => s.todo \subseteq DOMAIN KeyOrder
  /\ s.at = "flush" => s.want \in DetStatuses

PostureTypes ==
  /\ setting \in [Keys -> {"secure", "insecure", "unknown"}]
  /\ found \in Seq(FoundType) /\ Len(found) <= MaxFound
  /\ DOMAIN worker = Workers /\ \A w \in Workers : Job(worker[w])
  /\ \A w \in Assessors : worker[w].at \in {"idle", "write", "resolve", "done"}
  /\ worker[Pipeline].at \in {"idle", "resolve"}
  /\ \A a \in Analysts : worker[a].at \in {"idle", "flush", "commit"}
  /\ \A w \in Workers : worker[w].at = "resolve" => worker[w].todo \subseteq DOMAIN found
  /\ \A w \in Workers : worker[w].at = "flush" => worker[w].row \in DOMAIN found
  /\ {pipelines, postureFaults, twice, reopened} \subseteq Nat /\ postureFaults <= PostureFaults
  /\ pipelines <= postureFaults + 2
  /\ alone \subseteq Assessors /\ raced \subseteq DOMAIN found

LEMMA RolesDiffer ==
  /\ \A w \in Assessors : w \in Workers /\ w \notin Analysts /\ w # Pipeline /\ w # "none"
  /\ \A a \in Analysts : a \in Workers /\ a # Pipeline /\ a # "none"
  /\ Pipeline \in Workers /\ Pipeline # "none" /\ "none" \notin Workers
  /\ Workers = Assessors \cup Analysts \cup {Pipeline}
BY PostureAssumption DEF Workers

LEMMA WaitingIsAJob ==
  /\ Job(Waiting) /\ Waiting.at = "idle" /\ Waiting.keys = {} /\ Waiting.todo = {}
  /\ DOMAIN Waiting = {"at", "todo", "keys", "row", "status", "stamp", "want"}
BY DEF Job, Waiting

LEMMA NextIsThere ==
  ASSUME NEW w \in Workers, Job(worker[w]), worker[w].todo # {}
  PROVE  NextOf(w) \in worker[w].todo /\ NextOf(w) \in Nat
<1>1. \E i \in worker[w].todo : \A j \in worker[w].todo : i <= j
  BY LeastExists DEF Job
<1>2. NextOf(w) \in worker[w].todo
  BY <1>1, Zenon DEF NextOf
<1> QED BY <1>2 DEF Job

LEMMA DetectionsHaveFields ==
  ASSUME PostureTypes, NEW i \in DOMAIN found
  PROVE  /\ found[i] \in FoundType /\ i \in 1 .. Len(found)
         /\ DOMAIN found[i] = {"key", "status", "stamp", "lock", "was"}
         /\ found[i].key \in Keys \ SuppressedKeys /\ found[i].status \in DetStatuses \cup {"absent"}
         /\ found[i].stamp \in BOOLEAN /\ found[i].lock \in Workers \cup {"none"}
         /\ found[i].was \in Before
<1>1. found \in Seq(FoundType)
  BY DEF PostureTypes
<1>2. found[i] \in FoundType /\ i \in 1 .. Len(found)
  BY <1>1
<1> QED BY <1>2 DEF FoundType

-----------------------------------------------------------------------------
(* Posture: what a step makes of a detection *)

Kind(i, w) ==
  \/ /\ WriteHit(w) /\ w \in Assessors /\ found[i].status \in Active
     /\ found'[i].status = found[i].status /\ found'[i].stamp = found[i].stamp
  \/ /\ ResolveRow(w) /\ w \in Assessors \cup {Pipeline} /\ i = NextOf(w)
     /\ found'[i].status = "resolved" /\ found'[i].stamp = TRUE
  \/ /\ FlushStatus(w) /\ w \in Analysts /\ i = worker[w].row
     /\ found'[i].status = worker[w].want /\ found'[i].stamp = StampOf(w)

DetUpdated(i, w) ==
  /\ found[i].lock \in {"none", w} /\ found'[i].lock = w /\ Kind(i, w)
  /\ found'[i].was = IF found[i].lock = w THEN found[i].was
                     ELSE [status |-> found[i].status, stamp |-> found[i].stamp]

DetSettled(i, w) ==
  /\ CommitRows(w) \/ EndPatch(w, TRUE)
  /\ found[i].lock = w /\ found'[i].lock = "none"
  /\ found'[i].status = found[i].status /\ found'[i].stamp = found[i].stamp

DetUndone(i, w) ==
  /\ (\E lost \in BOOLEAN : AbortRows(w, lost)) \/ EndPatch(w, FALSE)
  /\ found[i].lock = w /\ found'[i].lock = "none"
  /\ found'[i].status = found[i].was.status /\ found'[i].stamp = found[i].was.stamp

DetStep(i) ==
  \/ found'[i] = found[i]
  \/ \E w \in Workers : DetUpdated(i, w) \/ DetSettled(i, w) \/ DetUndone(i, w)

DetRecorded(i) ==
  \E w \in Assessors :
    /\ WriteHit(w) /\ i = Len(found) + 1 /\ ByKey(ActiveSeen(w), found'[i].key) = {}
    /\ found'[i].status = "open" /\ found'[i].stamp = FALSE /\ found'[i].lock = w
    /\ found'[i].was = [status |-> "absent", stamp |-> FALSE]

DetsStep ==
  /\ found' \in Seq(FoundType) /\ Len(found) <= Len(found') /\ Len(found') <= MaxFound
  /\ \A i \in DOMAIN found : i \in DOMAIN found' /\ DetStep(i) /\ found'[i].key = found[i].key
  /\ \A i \in DOMAIN found' : i \notin DOMAIN found => DetRecorded(i)

LEMMA DetsInPlace ==
  ASSUME PostureTypes, DOMAIN found' = DOMAIN found, found' = [i \in DOMAIN found |-> found'[i]],
         \A i \in DOMAIN found :
           found'[i] \in FoundType /\ DetStep(i) /\ found'[i].key = found[i].key
  PROVE  DetsStep
<1>1. DOMAIN found = 1 .. Len(found) /\ Len(found) \in Nat /\ Len(found) <= MaxFound
  BY DEF PostureTypes
<1>2. found' \in [1 .. Len(found) -> FoundType]
  BY <1>1
<1>3. found' \in Seq(FoundType)
  BY <1>1, <1>2, IsASeq
<1>4. Len(found') = Len(found)
  BY <1>1, <1>2, <1>3
<1> QED BY <1>1, <1>3, <1>4 DEF DetsStep

LEMMA DetsUntouched == ASSUME PostureTypes, UNCHANGED found PROVE DetsStep
BY DEF DetsStep, DetStep, PostureTypes

\* An UPDATE of one row.
LEMMA DetsUpdate ==
  ASSUME PostureTypes, NEW w \in Workers, NEW r \in DOMAIN found, found[r].lock \in {"none", w},
         NEW status \in DetStatuses \cup {"absent"}, NEW stamp \in BOOLEAN,
         found' = Update(w, r, status, stamp),
         found'[r].status = status /\ found'[r].stamp = stamp => Kind(r, w)
  PROVE  DetsStep /\ found'[r].status = status /\ found'[r].stamp = stamp
<1> DEFINE was == IF found[r].lock = w THEN found[r].was
                  ELSE [status |-> found[r].status, stamp |-> found[r].stamp]
<1>1. was \in Before /\ w \in Workers \cup {"none"}
  BY DetectionsHaveFields DEF Before
<1>2. found = [i \in DOMAIN found |-> found[i]]
  BY DEF PostureTypes
<1>3. found' = [found EXCEPT ![r] = [found[r] EXCEPT !.status = status, !.stamp = stamp, !.lock = w,
                                                     !.was = was]]
  BY <1>2, DetectionsHaveFields DEF Update
<1> HIDE DEF was
<1>4. DOMAIN found' = DOMAIN found /\ found' = [i \in DOMAIN found |-> found'[i]]
  BY <1>2, <1>3
<1>5. /\ found'[r] \in FoundType /\ found'[r].key = found[r].key /\ found'[r].lock = w
      /\ found'[r].status = status /\ found'[r].stamp = stamp /\ found'[r].was = was
  <2>1. found'[r] = [found[r] EXCEPT !.status = status, !.stamp = stamp, !.lock = w, !.was = was]
    BY <1>3
  <2> QED BY <1>1, <2>1, DetectionsHaveFields DEF FoundType
<1>6. DetStep(r)
  BY <1>5 DEF DetStep, DetUpdated, was
<1>7. \A i \in DOMAIN found : i # r => found'[i] = found[i]
  BY <1>3
<1>8. \A i \in DOMAIN found :
        found'[i] \in FoundType /\ DetStep(i) /\ found'[i].key = found[i].key
  BY <1>5, <1>6, <1>7, DetectionsHaveFields DEF DetStep
<1> QED BY <1>4, <1>5, <1>8, DetsInPlace

LEMMA DetsSettle ==
  ASSUME PostureTypes, NEW w \in Workers, CommitRows(w) \/ EndPatch(w, TRUE), found' = Settled(w)
  PROVE  DetsStep /\ \A i \in DOMAIN found : found'[i].lock # w
<1>1. w # "none"
  BY RolesDiffer
<1>2. ASSUME NEW i \in DOMAIN found
      PROVE  /\ found'[i] \in FoundType /\ DetStep(i) /\ found'[i].key = found[i].key
             /\ found'[i].lock # w
  <2>1. CASE found[i].lock = w
    <3>1. found'[i] = [found[i] EXCEPT !.lock = "none"]
      BY <2>1 DEF Settled
    <3>2. /\ found'[i] \in FoundType /\ found'[i].lock = "none" /\ found'[i].key = found[i].key
          /\ found'[i].status = found[i].status /\ found'[i].stamp = found[i].stamp
      BY <3>1, DetectionsHaveFields DEF FoundType
    <3> QED BY <1>1, <2>1, <3>2 DEF DetStep, DetSettled
  <2>2. CASE found[i].lock # w
    BY <2>2, DetectionsHaveFields DEF Settled, DetStep
  <2> QED BY <2>1, <2>2
<1>3. DOMAIN found' = DOMAIN found /\ found' = [i \in DOMAIN found |-> found'[i]]
  BY DEF Settled
<1> QED BY <1>2, <1>3, DetsInPlace

LEMMA DetsUndo ==
  ASSUME PostureTypes, NEW w \in Workers, (\E lost \in BOOLEAN : AbortRows(w, lost)) \/ EndPatch(w, FALSE),
         found' = Undone(w)
  PROVE  DetsStep /\ \A i \in DOMAIN found : found'[i].lock # w
<1>1. w # "none"
  BY RolesDiffer
<1>2. ASSUME NEW i \in DOMAIN found
      PROVE  /\ found'[i] \in FoundType /\ DetStep(i) /\ found'[i].key = found[i].key
             /\ found'[i].lock # w
  <2>1. CASE found[i].lock = w
    <3>1. found'[i] = [found[i] EXCEPT !.lock = "none", !.status = found[i].was.status,
                                       !.stamp = found[i].was.stamp]
      BY <2>1 DEF Undone
    <3>2. found[i].was.status \in DetStatuses \cup {"absent"} /\ found[i].was.stamp \in BOOLEAN
      BY DetectionsHaveFields DEF Before
    <3>3. /\ found'[i] \in FoundType /\ found'[i].lock = "none" /\ found'[i].key = found[i].key
          /\ found'[i].status = found[i].was.status /\ found'[i].stamp = found[i].was.stamp
      BY <3>1, <3>2, DetectionsHaveFields DEF FoundType
    <3> QED BY <1>1, <2>1, <3>3 DEF DetStep, DetUndone
  <2>2. CASE found[i].lock # w
    BY <2>2, DetectionsHaveFields DEF Undone, DetStep
  <2> QED BY <2>1, <2>2
<1>3. DOMAIN found' = DOMAIN found /\ found' = [i \in DOMAIN found |-> found'[i]]
  BY DEF Undone
<1> QED BY <1>2, <1>3, DetsInPlace

\* A hit of an assessment: it touches the one active row of the key, or inserts one.
LEMMA DetsWrite ==
  ASSUME PostureTypes, NEW w \in Assessors, WriteHit(w) PROVE DetsStep
<1> DEFINE k == KeyOrder[NextOf(w)]
           same == ByKey(ActiveSeen(w), k)
<1>1. k \in Keys /\ w \in Workers
  <2>1. w \in Workers /\ Job(worker[w]) /\ worker[w].at = "write" /\ worker[w].todo # {}
    BY RolesDiffer DEF WriteHit, PostureTypes
  <2>2. NextOf(w) \in DOMAIN KeyOrder
    BY <2>1, NextIsThere DEF Job
  <2> QED BY <2>1, <2>2 DEF Keys, Range
<1>2. CASE UNCHANGED found
  BY <1>2, DetsUntouched
<1>3. CASE /\ Cardinality(same) = 1
           /\ \A i \in same : Free(w, i) /\ found' = Update(w, i, found[i].status, found[i].stamp)
  <2>1. PICK i \in same : TRUE
    BY <1>3, FS_EmptySet
  <2>2. /\ i \in DOMAIN found /\ found[i].lock \in {"none", w} /\ found[i].status \in Active
        /\ found' = Update(w, i, found[i].status, found[i].stamp)
    BY <1>3, <2>1 DEF ByKey, ActiveSeen, SeenBy, Free
  <2>3. found'[i].status = found[i].status /\ found'[i].stamp = found[i].stamp => Kind(i, w)
    BY <2>2 DEF Kind
  <2> HIDE DEF same
  <2>4. found[i].status \in DetStatuses \cup {"absent"} /\ found[i].stamp \in BOOLEAN
    BY <2>2, DetectionsHaveFields
  <2> QED BY <1>1, <2>2, <2>3, <2>4, DetsUpdate
<1>4. CASE /\ k \notin SuppressedKeys /\ same = {} /\ Len(found) < MaxFound
           /\ found' = Append(found, [key |-> k, status |-> "open", stamp |-> FALSE, lock |-> w,
                                      was |-> [status |-> "absent", stamp |-> FALSE]])
  <2> DEFINE absent == [status |-> "absent", stamp |-> FALSE]
             row == [key |-> k, status |-> "open", stamp |-> FALSE, lock |-> w, was |-> absent]
  <2>1. absent \in Before
    BY DEF Before
  <2> HIDE DEF absent, k, same
  <2>2. /\ row \in FoundType /\ row.key = k /\ row.status = "open" /\ row.stamp = FALSE
        /\ row.lock = w /\ row.was = absent
    BY <1>1, <1>4, <2>1 DEF FoundType, DetStatuses
  <2>3. found' = Append(found, row)
    BY <1>4 DEF absent
  <2> HIDE DEF row
  <2>4. found \in Seq(FoundType) /\ DOMAIN found = 1 .. Len(found) /\ Len(found) \in Nat
    BY DEF PostureTypes
  <2>5. /\ found' \in Seq(FoundType) /\ Len(found') = Len(found) + 1
        /\ DOMAIN found' = 1 .. Len(found) + 1
        /\ \A i \in DOMAIN found : found'[i] = found[i]
        /\ found'[Len(found) + 1] = row
    BY <2>2, <2>3, <2>4
  <2>6. \A i \in DOMAIN found' : i \notin DOMAIN found => i = Len(found) + 1
    BY <2>4, <2>5
  <2>7. DetRecorded(Len(found) + 1)
    BY <1>4, <2>2, <2>5 DEF DetRecorded, absent, k, same
  <2> QED BY <1>4, <2>4, <2>5, <2>6, <2>7, PostureAssumption DEF DetsStep, DetStep
<1> QED BY <1>2, <1>3, <1>4 DEF WriteHit

LEMMA DetsResolve ==
  ASSUME PostureTypes, NEW w \in Assessors \cup {Pipeline}, ResolveRow(w) PROVE DetsStep
<1>1. w \in Workers /\ Job(worker[w]) /\ worker[w].at = "resolve" /\ worker[w].todo # {}
  BY RolesDiffer DEF ResolveRow, PostureTypes
<1>2. NextOf(w) \in DOMAIN found
  BY <1>1, NextIsThere DEF PostureTypes
<1>3. found[NextOf(w)].lock \in {"none", w} /\ found' = Update(w, NextOf(w), "resolved", TRUE)
  BY DEF ResolveRow, Free
<1>4. found'[NextOf(w)].status = "resolved" /\ found'[NextOf(w)].stamp = TRUE => Kind(NextOf(w), w)
  BY DEF Kind
<1>5. "resolved" \in DetStatuses \cup {"absent"} /\ TRUE \in BOOLEAN
  BY DEF DetStatuses
<1> QED BY <1>1, <1>2, <1>3, <1>4, <1>5, DetsUpdate

LEMMA DetsFlush ==
  ASSUME PostureTypes, NEW a \in Analysts, FlushStatus(a) PROVE DetsStep
<1> DEFINE r == worker[a].row
<1>1. a \in Workers /\ Job(worker[a]) /\ worker[a].at = "flush" /\ r \in DOMAIN found
  BY RolesDiffer DEF FlushStatus, PostureTypes
<1>2. found[r].lock \in {"none", a} /\ found' = Update(a, r, worker[a].want, StampOf(a))
  BY DEF FlushStatus, Free
<1>3. worker[a].want \in DetStatuses \cup {"absent"}
  BY <1>1 DEF Job
<1>4. StampOf(a) \in BOOLEAN
  BY <1>1, DetectionsHaveFields DEF StampOf
<1>5. found'[r].status = worker[a].want /\ found'[r].stamp = StampOf(a) => Kind(r, a)
  BY DEF Kind
<1> HIDE DEF r
<1> QED BY <1>1, <1>2, <1>3, <1>4, <1>5, DetsUpdate

LEMMA DetsMove == ASSUME PostureTypes, [NextPosture]_postureVars PROVE DetsStep
<1>1. ASSUME NEW w \in Assessors,
             \/ StartAssessment(w) \/ RuleRaises(w) \/ SelectFixed(w) \/ EndAssessment(w)
      PROVE  DetsStep
  BY <1>1, DetsUntouched DEF StartAssessment, RuleRaises, SelectFixed, EndAssessment
<1>2. ASSUME NEW w \in Assessors \cup {Pipeline}, CommitRows(w) \/ \E lost \in BOOLEAN : AbortRows(w, lost)
      PROVE  DetsStep
  <2>1. w \in Workers
    BY RolesDiffer
  <2>2. CommitRows(w) => found' = Settled(w)
    BY DEF CommitRows
  <2>3. (\E lost \in BOOLEAN : AbortRows(w, lost)) => found' = Undone(w)
    BY DEF AbortRows
  <2> QED BY <1>2, <2>1, <2>2, <2>3, DetsSettle, DetsUndo
<1>3. ASSUME NEW k \in Keys, Remedy(k) \/ \E value \in {"secure", "insecure", "unknown"} : Change(k, value)
      PROVE  DetsStep
  BY <1>3, DetsUntouched DEF Remedy, Change
<1>4. ASSUME NEW a \in Analysts, NEW ok \in BOOLEAN, EndPatch(a, ok) PROVE DetsStep
  <2>1. a \in Workers
    BY RolesDiffer
  <2>2. found' = IF ok THEN Settled(a) ELSE Undone(a)
    BY <1>4 DEF EndPatch
  <2> QED BY <1>4, <2>1, <2>2, DetsSettle, DetsUndo
<1>5. ASSUME NEW a \in Analysts, NEW i \in DOMAIN found, NEW want \in DOMAIN Transitions,
             ReadDetection(a, i, want)
      PROVE  DetsStep
  BY <1>5, DetsUntouched DEF ReadDetection
<1>6. CASE QueueAssessment \/ UNCHANGED postureVars
  BY <1>6, DetsUntouched DEF QueueAssessment, postureVars
<1> QED BY <1>1, <1>2, <1>3, <1>4, <1>5, <1>6, DetsWrite, DetsResolve, DetsFlush DEF NextPosture

-----------------------------------------------------------------------------
(* Posture: what a step makes of a process *)

Role(w, s) ==
  /\ w \in Assessors => s.at \in {"idle", "write", "resolve", "done"}
  /\ w = Pipeline => s.at \in {"idle", "resolve"}
  /\ w \in Analysts => s.at \in {"idle", "flush", "commit"}
  /\ s.at = "resolve" => s.todo \subseteq DOMAIN found
  /\ s.at = "flush" => s.row \in DOMAIN found

Ends(w) ==
  CommitRows(w) \/ (\E lost \in BOOLEAN : AbortRows(w, lost)) \/ \E ok \in BOOLEAN : EndPatch(w, ok)

WorkStep(w) ==
  \/ worker'[w] = worker[w]
  \/ /\ w \in Assessors /\ StartAssessment(w) /\ worker[w].at = "idle"
     /\ worker'[w].at = "write" /\ worker'[w].todo = Hits /\ worker'[w].keys = {}
  \/ /\ w \in Assessors /\ (WriteHit(w) \/ RuleRaises(w))
     /\ worker[w].at = "write" /\ worker'[w].at = "write"
  \/ /\ w \in Assessors /\ SelectFixed(w) /\ worker[w].at = "write" /\ worker[w].todo = {}
     /\ worker'[w].at = "resolve" /\ worker'[w].todo = Fixed(w) /\ worker'[w].keys = worker[w].keys
  \/ /\ w \in Assessors \cup {Pipeline} /\ ResolveRow(w) /\ worker[w].at = "resolve"
     /\ worker'[w].at = "resolve" /\ worker'[w].todo = worker[w].todo \ {NextOf(w)}
     /\ worker'[w].keys = worker[w].keys
  \/ /\ w \in Assessors /\ CommitRows(w) /\ worker[w].at = "resolve" /\ worker[w].todo = {}
     /\ worker'[w].at = "done" /\ worker'[w].keys = worker[w].keys
  \/ /\ worker'[w] = Waiting /\ worker[w].at # "idle"
     /\ Ends(w) \/ (w \in Assessors /\ EndAssessment(w))
  \/ w = Pipeline /\ worker[w].at = "idle" /\ worker'[w].at = "resolve" /\ \E k \in Keys : Remedy(k)
  \/ /\ w \in Analysts /\ worker[w].at = "idle" /\ worker'[w].at = "flush"
     /\ \E i \in DOMAIN found, want \in DOMAIN Transitions : ReadDetection(w, i, want)
  \/ w \in Analysts /\ FlushStatus(w) /\ worker[w].at = "flush" /\ worker'[w].at = "commit"

JobsStep ==
  /\ DOMAIN worker' = Workers
  /\ \A w \in Workers : Job(worker'[w]) /\ Role(w, worker'[w]) /\ WorkStep(w)

LEMMA OneWorks ==
  ASSUME PostureTypes, NEW w \in Workers, NEW new, worker' = [worker EXCEPT ![w] = new],
         Job(new), Role(w, new), worker'[w] = new => WorkStep(w)
  PROVE  JobsStep
<1>1. DOMAIN worker' = Workers /\ worker'[w] = new /\ \A v \in Workers \ {w} : worker'[v] = worker[v]
  BY DEF PostureTypes
<1>2. \A v \in Workers : Job(worker[v]) /\ Role(v, worker[v])
  BY DEF PostureTypes, Role
<1> QED BY <1>1, <1>2 DEF JobsStep, WorkStep

LEMMA AssessorsWork ==
  ASSUME PostureTypes, NEW w \in Assessors,
         StartAssessment(w) \/ WriteHit(w) \/ RuleRaises(w) \/ SelectFixed(w) \/ EndAssessment(w)
  PROVE  JobsStep
<1>1. w \in Workers /\ w # Pipeline /\ w \notin Analysts /\ Job(worker[w])
  BY RolesDiffer DEF PostureTypes
<1>2. CASE StartAssessment(w)
  <2> DEFINE new == [Waiting EXCEPT !.at = "write", !.todo = Hits]
  <2>1. worker' = [worker EXCEPT ![w] = new] /\ worker[w].at = "idle"
    BY <1>2 DEF StartAssessment
  <2>2. Hits \subseteq DOMAIN KeyOrder /\ Hits \subseteq Nat
    BY PostureAssumption DEF Hits
  <2>3. Job(new) /\ new.at = "write" /\ new.todo = Hits /\ new.keys = {}
    BY <2>2, WaitingIsAJob DEF Job
  <2> HIDE DEF new
  <2> QED BY <1>1, <1>2, <2>1, <2>3, OneWorks DEF Role, WorkStep
<1>3. CASE WriteHit(w)
  <2>1. worker[w].at = "write" /\ NextOf(w) \in DOMAIN KeyOrder
    BY <1>1, <1>3, NextIsThere DEF WriteHit, Job
  <2>2. KeyOrder[NextOf(w)] \in Keys
    BY <2>1 DEF Keys, Range
  <2>3. PICK todo \in SUBSET worker[w].todo :
          worker' = [worker EXCEPT ![w] = [worker[w] EXCEPT !.todo = todo,
                                             !.keys = worker[w].keys \cup {KeyOrder[NextOf(w)]}]]
    <3> DEFINE done == [worker[w] EXCEPT !.todo = worker[w].todo \ {NextOf(w)},
                                         !.keys = worker[w].keys \cup {KeyOrder[NextOf(w)]}]
    <3>1. worker' = [worker EXCEPT ![w] = done] \/ worker' = [worker EXCEPT ![w] = [done EXCEPT !.todo = {}]]
      BY <1>3 DEF WriteHit
    <3>2. [done EXCEPT !.todo = {}] = [worker[w] EXCEPT !.todo = {},
                                         !.keys = worker[w].keys \cup {KeyOrder[NextOf(w)]}]
      BY <1>1 DEF Job
    <3>3. {} \in SUBSET worker[w].todo /\ worker[w].todo \ {NextOf(w)} \in SUBSET worker[w].todo
      OBVIOUS
    <3> QED BY <3>1, <3>2, <3>3
  <2> DEFINE new == [worker[w] EXCEPT !.todo = todo, !.keys = worker[w].keys \cup {KeyOrder[NextOf(w)]}]
  <2>4. Job(new) /\ new.at = "write"
    BY <1>1, <2>1, <2>2 DEF Job
  <2>5. worker' = [worker EXCEPT ![w] = new]
    BY <2>3
  <2> HIDE DEF new
  <2> QED BY <1>1, <1>3, <2>1, <2>4, <2>5, OneWorks DEF Role, WorkStep
<1>4. CASE RuleRaises(w)
  <2> DEFINE new == [worker[w] EXCEPT !.todo = {}]
  <2>1. worker' = [worker EXCEPT ![w] = new] /\ worker[w].at = "write"
    BY <1>4 DEF RuleRaises
  <2>2. Job(new) /\ new.at = "write"
    BY <1>1, <2>1 DEF Job
  <2> HIDE DEF new
  <2> QED BY <1>1, <1>4, <2>1, <2>2, OneWorks DEF Role, WorkStep
<1>5. CASE SelectFixed(w)
  <2> DEFINE new == [worker[w] EXCEPT !.at = "resolve", !.todo = Fixed(w)]
  <2>1. worker' = [worker EXCEPT ![w] = new] /\ worker[w].at = "write" /\ worker[w].todo = {}
    BY <1>5 DEF SelectFixed
  <2>2. Fixed(w) \subseteq DOMAIN found /\ DOMAIN found \subseteq Nat
    BY DEF Fixed, ActiveSeen, PostureTypes
  <2>3. Job(new) /\ new.at = "resolve" /\ new.todo = Fixed(w) /\ new.keys = worker[w].keys
    BY <1>1, <2>2 DEF Job
  <2> HIDE DEF new
  <2> QED BY <1>1, <1>5, <2>1, <2>2, <2>3, OneWorks DEF Role, WorkStep
<1>6. CASE EndAssessment(w)
  <2>1. worker' = [worker EXCEPT ![w] = Waiting] /\ worker[w].at # "idle"
    BY <1>6 DEF EndAssessment
  <2> QED BY <1>1, <1>6, <2>1, WaitingIsAJob, OneWorks DEF Role, WorkStep
<1> QED BY <1>2, <1>3, <1>4, <1>5, <1>6

LEMMA TransactionsWork ==
  ASSUME PostureTypes, NEW w \in Assessors \cup {Pipeline},
         ResolveRow(w) \/ CommitRows(w) \/ \E lost \in BOOLEAN : AbortRows(w, lost)
  PROVE  JobsStep
<1>1. w \in Workers /\ w \notin Analysts /\ Job(worker[w]) /\ (w = Pipeline <=> w \notin Assessors)
  BY RolesDiffer DEF PostureTypes
<1>2. CASE ResolveRow(w)
  <2> DEFINE new == [worker[w] EXCEPT !.todo = worker[w].todo \ {NextOf(w)}]
  <2>1. worker' = [worker EXCEPT ![w] = new] /\ worker[w].at = "resolve"
    BY <1>2 DEF ResolveRow
  <2>2. worker[w].todo \subseteq DOMAIN found
    BY <1>1, <2>1 DEF PostureTypes
  <2>3. /\ Job(new) /\ new.at = "resolve" /\ new.todo = worker[w].todo \ {NextOf(w)}
        /\ new.keys = worker[w].keys
    BY <1>1, <2>1 DEF Job
  <2> HIDE DEF new
  <2> QED BY <1>1, <1>2, <2>1, <2>2, <2>3, OneWorks DEF Role, WorkStep
<1>3. CASE CommitRows(w)
  <2>1. worker[w].at = "resolve" /\ worker[w].todo = {} /\ Ends(w)
    BY <1>3 DEF CommitRows, Ends
  <2>2. CASE w = Pipeline
    <3>1. worker' = [worker EXCEPT ![w] = Waiting]
      BY <1>3, <2>2 DEF CommitRows
    <3> QED BY <1>1, <2>1, <2>2, <3>1, WaitingIsAJob, OneWorks DEF Role, WorkStep
  <2>3. CASE w # Pipeline
    <3> DEFINE new == [worker[w] EXCEPT !.at = "done"]
    <3>1. worker' = [worker EXCEPT ![w] = new]
      BY <1>3, <2>3 DEF CommitRows
    <3>2. Job(new) /\ new.at = "done" /\ new.keys = worker[w].keys
      BY <1>1 DEF Job
    <3> HIDE DEF new
    <3> QED BY <1>1, <1>3, <2>1, <2>3, <3>1, <3>2, OneWorks DEF Role, WorkStep
  <2> QED BY <2>2, <2>3
<1>4. CASE \E lost \in BOOLEAN : AbortRows(w, lost)
  <2>1. worker' = [worker EXCEPT ![w] = Waiting] /\ worker[w].at # "idle" /\ Ends(w)
    BY <1>4 DEF AbortRows, Ends
  <2> QED BY <1>1, <2>1, WaitingIsAJob, OneWorks DEF Role, WorkStep
<1> QED BY <1>2, <1>3, <1>4

LEMMA AnalystsWork ==
  ASSUME PostureTypes, NEW a \in Analysts,
         \/ \E i \in DOMAIN found, want \in DOMAIN Transitions : ReadDetection(a, i, want)
         \/ FlushStatus(a) \/ \E ok \in BOOLEAN : EndPatch(a, ok)
  PROVE  JobsStep
<1>1. a \in Workers /\ a \notin Assessors /\ a # Pipeline /\ Job(worker[a])
  BY RolesDiffer DEF PostureTypes
<1>2. ASSUME NEW i \in DOMAIN found, NEW want \in DOMAIN Transitions, ReadDetection(a, i, want)
      PROVE  JobsStep
  <2> DEFINE new == [Waiting EXCEPT !.at = "flush", !.row = i, !.want = want,
                                    !.status = SeenBy(a, i), !.stamp = StampSeen(a, i)]
  <2>1. worker' = [worker EXCEPT ![a] = new] /\ worker[a].at = "idle"
    BY <1>2 DEF ReadDetection
  <2>2. StampSeen(a, i) \in BOOLEAN /\ want \in DetStatuses
    BY DetectionsHaveFields DEF StampSeen, Before, DetStatuses, Transitions
  <2>3. Job(new) /\ new.at = "flush" /\ new.row = i
    BY <2>2, WaitingIsAJob DEF Job
  <2> HIDE DEF new
  <2> QED BY <1>1, <1>2, <2>1, <2>3, OneWorks DEF Role, WorkStep
<1>3. CASE FlushStatus(a)
  <2> DEFINE new == [worker[a] EXCEPT !.at = "commit"]
  <2>1. worker' = [worker EXCEPT ![a] = new] /\ worker[a].at = "flush"
    BY <1>3 DEF FlushStatus
  <2>2. Job(new) /\ new.at = "commit"
    BY <1>1 DEF Job
  <2> HIDE DEF new
  <2> QED BY <1>1, <1>3, <2>1, <2>2, OneWorks DEF Role, WorkStep
<1>4. CASE \E ok \in BOOLEAN : EndPatch(a, ok)
  <2>1. worker' = [worker EXCEPT ![a] = Waiting] /\ worker[a].at # "idle" /\ Ends(a)
    BY <1>4 DEF EndPatch, Ends
  <2> QED BY <1>1, <2>1, WaitingIsAJob, OneWorks DEF Role, WorkStep
<1> QED BY <1>2, <1>3, <1>4

LEMMA WorkersMove == ASSUME PostureTypes, [NextPosture]_postureVars PROVE JobsStep
<1>1. ASSUME UNCHANGED worker PROVE JobsStep
  BY <1>1 DEF JobsStep, WorkStep, Role, PostureTypes
<1>2. ASSUME NEW k \in Keys, Remedy(k) PROVE JobsStep
  <2> DEFINE rows == {i \in ActiveSeen(Pipeline) : found[i].key \in Covers[k]}
             new == [Waiting EXCEPT !.at = "resolve", !.todo = rows]
  <2>1. worker' = [worker EXCEPT ![Pipeline] = new] /\ worker[Pipeline].at = "idle"
    BY <1>2 DEF Remedy
  <2>2. rows \subseteq DOMAIN found /\ rows \subseteq Nat
    BY DEF ActiveSeen, PostureTypes
  <2> HIDE DEF rows
  <2>3. Job(new) /\ new.at = "resolve" /\ new.todo = rows
    BY <2>2, WaitingIsAJob DEF Job
  <2> HIDE DEF new
  <2> QED BY <1>2, <2>1, <2>2, <2>3, RolesDiffer, OneWorks DEF Role, WorkStep
<1>3. CASE \/ QueueAssessment \/ UNCHANGED postureVars
           \/ \E k \in Keys : \E value \in {"secure", "insecure", "unknown"} : Change(k, value)
  BY <1>1, <1>3 DEF QueueAssessment, Change, postureVars
<1> QED BY <1>2, <1>3, AssessorsWork, TransactionsWork, AnalystsWork DEF NextPosture

-----------------------------------------------------------------------------
(* Posture: types, locks and stamps *)

LEMMA PostureTypesInit == ASSUME InitPosture PROVE PostureTypes
<1>1. /\ found \in Seq(FoundType) /\ Len(found) = 0 /\ DOMAIN found = {}
      /\ DOMAIN worker = Workers /\ \A w \in Workers : worker[w] = Waiting
      /\ setting \in [Keys -> {"secure", "insecure", "unknown"}]
      /\ pipelines = 2 /\ alone = {} /\ raced = {} /\ reopened = 0 /\ twice = 0 /\ postureFaults = 0
  BY DEF InitPosture
<1>2. MaxFound \in Nat /\ PostureFaults \in Nat
  BY PostureAssumption
<1> QED BY <1>1, <1>2, RolesDiffer, WaitingIsAJob DEF PostureTypes

LEMMA PostureTypesKeep == ASSUME PostureTypes, [NextPosture]_postureVars PROVE PostureTypes'
<1>1. DetsStep /\ JobsStep
  BY DetsMove, WorkersMove
<1>2. DOMAIN found \subseteq DOMAIN found'
  BY <1>1 DEF DetsStep
<1>3. /\ DOMAIN worker' = Workers /\ \A w \in Workers : Job(worker'[w])
      /\ \A w \in Assessors : worker'[w].at \in {"idle", "write", "resolve", "done"}
      /\ worker'[Pipeline].at \in {"idle", "resolve"}
      /\ \A a \in Analysts : worker'[a].at \in {"idle", "flush", "commit"}
      /\ \A w \in Workers : worker'[w].at = "resolve" => worker'[w].todo \subseteq DOMAIN found'
      /\ \A w \in Workers : worker'[w].at = "flush" => worker'[w].row \in DOMAIN found'
  BY <1>1, <1>2, RolesDiffer DEF JobsStep, Role
<1>4. /\ setting \in [Keys -> {"secure", "insecure", "unknown"}]
      /\ alone \subseteq Assessors /\ raced \subseteq DOMAIN found
      /\ pipelines \in Nat /\ postureFaults \in Nat /\ twice \in Nat /\ reopened \in Nat
      /\ postureFaults <= PostureFaults /\ pipelines <= postureFaults + 2 /\ PostureFaults \in Nat
  BY PostureAssumption DEF PostureTypes
<1> DEFINE Others == /\ setting' \in [Keys -> {"secure", "insecure", "unknown"}]
                     /\ alone' \subseteq Assessors /\ raced' \subseteq DOMAIN found
                     /\ {pipelines', postureFaults', twice', reopened'} \subseteq Nat
                     /\ postureFaults' <= PostureFaults /\ pipelines' <= postureFaults' + 2
<1>5. Others
  <2>1. ASSUME NEW w \in Assessors,
               \/ StartAssessment(w) \/ WriteHit(w) \/ RuleRaises(w) \/ SelectFixed(w) \/ EndAssessment(w)
        PROVE  Others
    <3>1. CASE StartAssessment(w)
      BY <1>4, <3>1 DEF StartAssessment
    <3>2. CASE WriteHit(w)
      BY <1>4, <3>2 DEF WriteHit
    <3>3. CASE RuleRaises(w)
      BY <1>4, <3>3 DEF RuleRaises
    <3>4. CASE SelectFixed(w) \/ EndAssessment(w)
      BY <1>4, <3>4 DEF SelectFixed, EndAssessment
    <3> QED BY <2>1, <3>1, <3>2, <3>3, <3>4
  <2>2. ASSUME NEW w \in Assessors \cup {Pipeline}, ResolveRow(w) \/ CommitRows(w) PROVE Others
    BY <1>4, <2>2 DEF ResolveRow, CommitRows
  <2>3. ASSUME NEW w \in Assessors \cup {Pipeline}, NEW lost \in BOOLEAN, AbortRows(w, lost) PROVE Others
    BY <1>4, <2>3 DEF AbortRows
  <2>4. ASSUME NEW k \in Keys, Remedy(k) PROVE Others
    BY <1>4, <2>4 DEF Remedy
  <2>5. ASSUME NEW k \in Keys, NEW value \in {"secure", "insecure", "unknown"}, Change(k, value) PROVE Others
    BY <1>4, <2>5 DEF Change
  <2>6. ASSUME NEW a \in Analysts, NEW i \in DOMAIN found, NEW want \in DOMAIN Transitions,
               ReadDetection(a, i, want)
        PROVE  Others
    BY <1>4, <2>6 DEF ReadDetection
  <2>7. ASSUME NEW a \in Analysts, FlushStatus(a) PROVE Others
    <3>1. worker[a].row \in DOMAIN found
      BY <2>7, RolesDiffer DEF FlushStatus, PostureTypes
    <3> QED BY <1>4, <2>7, <3>1 DEF FlushStatus
  <2>8. ASSUME NEW a \in Analysts, NEW ok \in BOOLEAN, EndPatch(a, ok) PROVE Others
    BY <1>4, <2>8 DEF EndPatch
  <2>9. CASE QueueAssessment \/ UNCHANGED postureVars
    BY <1>4, <2>9 DEF QueueAssessment, postureVars
  <2> HIDE DEF Others
  <2> QED BY <2>1, <2>2, <2>3, <2>4, <2>5, <2>6, <2>7, <2>8, <2>9 DEF NextPosture
<1> QED BY <1>1, <1>2, <1>3, <1>5 DEF DetsStep, PostureTypes

\* A transaction that ends frees its rows.
LEMMA EndsFree ==
  ASSUME PostureTypes, NEW w \in Workers, Ends(w)
  PROVE  \A i \in DOMAIN found : found'[i].lock # w
<1>1. CASE CommitRows(w)
  BY <1>1, DetsSettle DEF CommitRows
<1>2. CASE \E lost \in BOOLEAN : AbortRows(w, lost)
  <2>1. found' = Undone(w)
    BY <1>2 DEF AbortRows
  <2> QED BY <1>2, <2>1, DetsUndo
<1>3. ASSUME NEW ok \in BOOLEAN, EndPatch(w, ok) PROVE \A i \in DOMAIN found : found'[i].lock # w
  <2>1. found' = IF ok THEN Settled(w) ELSE Undone(w)
    BY <1>3 DEF EndPatch
  <2> QED BY <1>3, <2>1, DetsSettle, DetsUndo
<1> QED BY <1>1, <1>2, <1>3 DEF Ends

DetsAfter(i) ==
  \/ i \in DOMAIN found /\ DetStep(i) /\ found'[i].key = found[i].key
  \/ i \notin DOMAIN found /\ DetRecorded(i)

LEMMA DetsAreAfter ==
  ASSUME PostureTypes, [NextPosture]_postureVars, NEW i \in DOMAIN found'
  PROVE  DetsAfter(i) /\ found'[i] \in FoundType
<1>1. found' \in Seq(FoundType)
  BY DetsMove DEF DetsStep
<1> QED BY <1>1, DetsMove DEF DetsStep, DetsAfter

\* A row is locked by a process whose transaction has written.
RowLocks ==
  \A i \in DOMAIN found :
    found[i].lock # "none" => worker[found[i].lock].at \in {"write", "resolve", "commit"}

LEMMA RowLocksKeep ==
  ASSUME PostureTypes, RowLocks, [NextPosture]_postureVars PROVE RowLocks'
<1> SUFFICES ASSUME NEW i \in DOMAIN found', found'[i].lock # "none"
             PROVE  worker'[found'[i].lock].at \in {"write", "resolve", "commit"}
  BY DEF RowLocks
<1>1. JobsStep /\ DetsAfter(i)
  BY WorkersMove, DetsAreAfter
<1>2. CASE DetRecorded(i)
  <2>1. PICK w \in Assessors : WriteHit(w) /\ found'[i].lock = w
    BY <1>2 DEF DetRecorded
  <2>2. /\ WorkStep(w) /\ worker[w].at = "write" /\ w \notin Analysts /\ w # Pipeline /\ w \in Workers
    BY <1>1, <2>1, RolesDiffer DEF JobsStep, WriteHit
  <2>3. ~Ends(w)
    <3>1. ~CommitRows(w) /\ \A ok \in BOOLEAN : ~EndPatch(w, ok)
      BY <2>2 DEF CommitRows, EndPatch
    <3>2. ASSUME NEW lost \in BOOLEAN, AbortRows(w, lost) PROVE FALSE
      <4>1. /\ worker'[w] = Waiting /\ worker'[w].at = "idle"
        BY <2>2, <3>2, WaitingIsAJob DEF AbortRows, PostureTypes
      <4>2. DOMAIN found' = DOMAIN found
        BY <3>2 DEF AbortRows, Undone
      <4> QED BY <1>2, <4>2, DetsMove DEF DetRecorded, DetsStep, PostureTypes
    <3> QED BY <3>1, <3>2 DEF Ends
  <2>4. ~EndAssessment(w) /\ ~ResolveRow(w)
    BY <2>2 DEF EndAssessment, ResolveRow
  <2> QED BY <2>1, <2>2, <2>3, <2>4 DEF WorkStep
<1>3. CASE i \in DOMAIN found /\ DetStep(i)
  <2>1. CASE found'[i] = found[i]
    <3> DEFINE w == found[i].lock
    <3>1. w \in Workers /\ worker[w].at \in {"write", "resolve", "commit"}
      BY <1>3, <2>1, DetectionsHaveFields DEF RowLocks
    <3>2. WorkStep(w) /\ ~Ends(w)
      BY <1>1, <1>3, <2>1, <3>1, EndsFree DEF JobsStep
    <3>3. ~EndAssessment(w) /\ ~CommitRows(w)
      BY <3>1, <3>2 DEF EndAssessment, Ends
    <3> HIDE DEF w
    <3>4. worker'[w].at \in {"write", "resolve", "commit"}
      BY <3>1, <3>2, <3>3 DEF WorkStep
    <3> QED BY <2>1, <3>4 DEF w
  <2>2. ASSUME NEW w \in Workers, DetUpdated(i, w) PROVE worker'[found'[i].lock].at \in {"write", "resolve", "commit"}
    <3>1. /\ found'[i].lock = w /\ WorkStep(w) /\ Job(worker[w])
          /\ \/ worker[w].at = "write" /\ WriteHit(w) /\ w \in Assessors
             \/ worker[w].at = "resolve" /\ ResolveRow(w) /\ w \in Assessors \cup {Pipeline}
             \/ worker[w].at = "flush" /\ FlushStatus(w) /\ w \in Analysts
      BY <1>1, <2>2 DEF DetUpdated, Kind, JobsStep, PostureTypes, WriteHit, ResolveRow, FlushStatus
    <3>2. ~Ends(w)
      BY <1>3, <2>2, EndsFree DEF DetUpdated
    <3>3. ~EndAssessment(w) /\ ~CommitRows(w)
      BY <3>1, <3>2 DEF EndAssessment, Ends
    <3>4. FlushStatus(w) => worker'[w].at = "commit"
      <4>1. DOMAIN worker = Workers
        BY DEF PostureTypes
      <4> QED BY <3>1, <4>1 DEF FlushStatus, Job
    <3> QED BY <3>1, <3>2, <3>3, <3>4, RolesDiffer DEF WorkStep
  <2> QED BY <1>3, <2>1, <2>2 DEF DetStep, DetSettled, DetUndone
<1> QED BY <1>1, <1>2, <1>3 DEF DetsAfter

\* The stamp belongs to the status, in a row and in what a rollback would restore.
Stamped(i, status, stamp) ==
  /\ status = "resolved" => stamp
  /\ stamp /\ status # "resolved" => i \in raced
Stamps ==
  \A i \in DOMAIN found :
    /\ Stamped(i, found[i].status, found[i].stamp)
    /\ found[i].lock # "none" => Stamped(i, found[i].was.status, found[i].was.stamp)

LEMMA RacedGrows == ASSUME [NextPosture]_postureVars PROVE raced \subseteq raced'
<1>1. ASSUME NEW a \in Analysts, FlushStatus(a) PROVE raced \subseteq raced'
  BY <1>1 DEF FlushStatus
<1>2. raced' = raced \/ \E a \in Analysts : FlushStatus(a)
  BY DEF NextPosture, QueueAssessment, StartAssessment, WriteHit, RuleRaises, SelectFixed, EndAssessment,
         ResolveRow, CommitRows, AbortRows, Remedy, Change, ReadDetection, EndPatch, postureVars
<1> QED BY <1>1, <1>2

LEMMA StampsKeep == ASSUME PostureTypes, Stamps, [NextPosture]_postureVars PROVE Stamps'
<1> DEFINE Right(i, status, stamp) == /\ status = "resolved" => stamp
                                      /\ stamp /\ status # "resolved" => i \in raced'
<1> SUFFICES ASSUME NEW i \in DOMAIN found'
             PROVE  /\ Right(i, found'[i].status, found'[i].stamp)
                    /\ found'[i].lock # "none" => Right(i, found'[i].was.status, found'[i].was.stamp)
  BY DEF Stamps, Stamped
<1>1. DetsAfter(i) /\ raced \subseteq raced'
  BY DetsAreAfter, RacedGrows
<1>2. CASE DetRecorded(i)
  BY <1>2 DEF DetRecorded
<1>3. CASE i \in DOMAIN found /\ DetStep(i)
  <2>1. /\ Right(i, found[i].status, found[i].stamp)
        /\ found[i].lock # "none" => Right(i, found[i].was.status, found[i].was.stamp)
    BY <1>1, <1>3 DEF Stamps, Stamped
  <2>2. CASE found'[i] = found[i]
    BY <2>1, <2>2
  <2>3. ASSUME NEW w \in Workers, DetUpdated(i, w)
        PROVE  /\ Right(i, found'[i].status, found'[i].stamp)
               /\ Right(i, found'[i].was.status, found'[i].was.stamp)
    <3>1. Right(i, found'[i].was.status, found'[i].was.stamp)
      <4>1. w # "none"
        BY RolesDiffer
      <4> QED BY <2>1, <2>3, <4>1 DEF DetUpdated
    <3>2. Right(i, found'[i].status, found'[i].stamp)
      <4>1. CASE found'[i].status = found[i].status /\ found'[i].stamp = found[i].stamp
        BY <2>1, <4>1
      <4>2. CASE found'[i].status = "resolved" /\ found'[i].stamp = TRUE
        BY <4>2
      <4>3. CASE FlushStatus(w) /\ i = worker[w].row
                 /\ found'[i].status = worker[w].want /\ found'[i].stamp = StampOf(w)
        <5>1. CASE worker[w].want = "resolved"
          BY <4>3, <5>1 DEF StampOf
        <5>2. CASE worker[w].want # "resolved" /\ worker[w].status = "resolved"
          BY <4>3, <5>2 DEF StampOf
        <5>3. CASE worker[w].want # "resolved" /\ worker[w].status # "resolved"
          <6>1. found'[i].stamp = found[i].stamp
            BY <4>3, <5>3 DEF StampOf
          <6>2. found[i].status = "resolved" => i \in raced'
            BY <4>3, <5>3 DEF FlushStatus
          <6> QED BY <1>1, <2>1, <4>3, <5>3, <6>1, <6>2
        <5> QED BY <5>1, <5>2, <5>3
      <4> QED BY <2>3, <4>1, <4>2, <4>3 DEF DetUpdated, Kind
    <3> QED BY <3>1, <3>2
  <2>4. ASSUME NEW w \in Workers, DetSettled(i, w) \/ DetUndone(i, w)
        PROVE  found'[i].lock = "none" /\ Right(i, found'[i].status, found'[i].stamp)
    <3>1. w # "none"
      BY RolesDiffer
    <3> QED BY <2>1, <2>4, <3>1 DEF DetSettled, DetUndone
  <2> QED BY <1>3, <2>2, <2>3, <2>4 DEF DetStep
<1> QED BY <1>1, <1>2, <1>3 DEF DetsAfter

-----------------------------------------------------------------------------
(* Posture: an assessment that nothing disturbed *)

Insecure == {k \in Keys : setting[k] = "insecure"}
HasActive(k) == \E i \in DOMAIN found : found[i].key = k /\ found[i].status \in Active

\* It runs alone; what it has marked active and what it has still to mark are the
\* insecure keys; what it will resolve is every other active row.
Alone ==
  \A w \in alone :
    /\ \A v \in Workers \ {w} : worker[v].at = "idle"
    /\ worker[w].at \in {"write", "resolve", "done"}
    /\ \A k \in worker[w].keys \ SuppressedKeys : HasActive(k)
    /\ worker[w].at = "write" =>
         worker[w].keys \cup {KeyOrder[n] : n \in worker[w].todo} = Insecure
    /\ worker[w].at \in {"resolve", "done"} => worker[w].keys = Insecure
    /\ worker[w].at = "resolve" =>
         \A i \in DOMAIN found :
           IF i \in worker[w].todo THEN found[i].key \notin worker[w].keys
           ELSE found[i].status \in Active => found[i].key \in worker[w].keys
    /\ worker[w].at = "done" =>
         \A i \in DOMAIN found : found[i].status \in Active => found[i].key \in worker[w].keys

\* A step after which a run is still undisturbed is its own, or queues a task.
LEMMA AloneSteps ==
  ASSUME PostureTypes, Alone, [NextPosture]_postureVars, NEW w \in alone'
  PROVE  /\ setting' = setting /\ w \in Assessors
         /\ \/ StartAssessment(w) /\ \A v \in Workers : worker[v].at = "idle"
            \/ w \in alone /\ UNCHANGED <<found, worker>>
            \/ w \in alone /\ (WriteHit(w) \/ SelectFixed(w) \/ ResolveRow(w) \/ CommitRows(w))
<1>1. w \in Assessors /\ alone \subseteq Assessors
  BY PostureTypesKeep DEF PostureTypes
<1>2. \A u \in alone, v \in Workers : u # v => worker[v].at = "idle"
  BY <1>1, RolesDiffer DEF Alone
<1>3. ASSUME NEW v \in Assessors, StartAssessment(v)
      PROVE  /\ setting' = setting
             /\ v = w /\ \A u \in Workers : worker[u].at = "idle"
  BY <1>3 DEF StartAssessment
<1>4. ASSUME NEW v \in Assessors, RuleRaises(v) \/ EndAssessment(v) PROVE FALSE
  <2>1. alone' = alone \ {v} /\ worker[v].at # "idle"
    BY <1>4 DEF RuleRaises, EndAssessment
  <2> QED BY <1>2, <2>1, RolesDiffer
<1>5. ASSUME NEW v \in Assessors \cup {Pipeline}, NEW lost \in BOOLEAN, AbortRows(v, lost) PROVE FALSE
  <2>1. alone' = alone \ {v} /\ worker[v].at # "idle"
    BY <1>5 DEF AbortRows
  <2> QED BY <1>2, <2>1, RolesDiffer
<1>6. ASSUME NEW v \in Assessors \cup {Pipeline},
             (v \in Assessors /\ (WriteHit(v) \/ SelectFixed(v))) \/ ResolveRow(v) \/ CommitRows(v)
      PROVE  setting' = setting /\ v = w /\ w \in alone
  <2>1. worker[v].at # "idle" /\ alone' \subseteq alone /\ setting' = setting
    BY <1>6 DEF WriteHit, SelectFixed, ResolveRow, CommitRows
  <2> QED BY <1>2, <2>1, RolesDiffer
<1>7. ASSUME NEW a \in Analysts, FlushStatus(a) \/ \E ok \in BOOLEAN : EndPatch(a, ok) PROVE FALSE
  <2>1. worker[a].at # "idle" /\ alone' = alone
    BY <1>7 DEF FlushStatus, EndPatch
  <2> QED BY <1>1, <1>2, <2>1, RolesDiffer
<1>8. ASSUME \/ \E k \in Keys : Remedy(k) \/ \E value \in {"secure", "insecure", "unknown"} : Change(k, value)
             \/ \E a \in Analysts, i \in DOMAIN found, want \in DOMAIN Transitions : ReadDetection(a, i, want)
      PROVE  FALSE
  <2>1. alone' = {}
    BY <1>8 DEF Remedy, Change, ReadDetection
  <2> QED BY <2>1
<1>9. CASE QueueAssessment \/ UNCHANGED postureVars
  BY <1>1, <1>9 DEF QueueAssessment, postureVars
<1> QED BY <1>1, <1>3, <1>4, <1>5, <1>6, <1>7, <1>8, <1>9 DEF NextPosture

\* Its rows change by its own hand only.
LEMMA AloneRows ==
  ASSUME PostureTypes, Alone, [NextPosture]_postureVars, NEW w \in alone, w \in alone'
  PROVE  /\ \A i \in DOMAIN found : i \in DOMAIN found'
         /\ \A i \in DOMAIN found' :
              \/ /\ i \in DOMAIN found /\ found'[i].key = found[i].key
                 /\ found'[i] = found[i] \/ DetUpdated(i, w) \/ DetSettled(i, w)
              \/ i \notin DOMAIN found /\ DetRecorded(i) /\ WriteHit(w)
<1>1. \A v \in Workers : v # w => worker[v].at = "idle"
  BY DEF Alone
<1>2. w \in Assessors /\ w \notin Analysts /\ w \in Workers
  BY RolesDiffer DEF PostureTypes
<1>3. ASSUME NEW v \in Workers, worker[v].at # "idle" PROVE v = w
  BY <1>1, <1>3
<1>4. ASSUME NEW i, NEW v \in Workers, DetUpdated(i, v) \/ DetSettled(i, v) PROVE v = w
  <2>1. worker[v].at # "idle"
    BY <1>4 DEF DetUpdated, DetSettled, Kind, WriteHit, ResolveRow, FlushStatus, CommitRows, EndPatch
  <2> QED BY <1>3, <2>1
<1>5. ASSUME NEW i, NEW v \in Workers, DetUndone(i, v) PROVE FALSE
  <2>1. worker[v].at # "idle"
    BY <1>5 DEF DetUndone, AbortRows, EndPatch
  <2>2. v = w
    BY <1>3, <2>1
  <2>3. worker[w].at # "commit"
    BY <1>2 DEF PostureTypes
  <2> QED BY <1>5, <2>2, <2>3 DEF DetUndone, AbortRows, EndPatch
<1>6. ASSUME NEW i, DetRecorded(i) PROVE WriteHit(w)
  <2>1. PICK v \in Assessors : WriteHit(v)
    BY <1>6 DEF DetRecorded
  <2>2. v \in Workers /\ worker[v].at # "idle"
    BY <2>1, RolesDiffer DEF WriteHit
  <2> QED BY <1>3, <2>1, <2>2
<1>7. \A i \in DOMAIN found : i \in DOMAIN found'
  BY DetsMove DEF DetsStep
<1> QED BY <1>4, <1>5, <1>6, <1>7, DetsAreAfter DEF DetsAfter, DetStep

LEMMA AloneKeeps ==
  ASSUME PostureTypes, RowLocks, Alone, [NextPosture]_postureVars PROVE Alone'
<1> SUFFICES ASSUME NEW w \in alone'
             PROVE  /\ \A v \in Workers \ {w} : worker'[v].at = "idle"
                    /\ worker'[w].at \in {"write", "resolve", "done"}
                    /\ \A k \in worker'[w].keys \ SuppressedKeys : HasActive(k)'
                    /\ worker'[w].at = "write" =>
                         worker'[w].keys \cup {KeyOrder[n] : n \in worker'[w].todo} = Insecure
                    /\ worker'[w].at \in {"resolve", "done"} => worker'[w].keys = Insecure
                    /\ worker'[w].at = "resolve" =>
                         \A i \in DOMAIN found' :
                           IF i \in worker'[w].todo THEN found'[i].key \notin worker'[w].keys
                           ELSE found'[i].status \in Active => found'[i].key \in worker'[w].keys
                    /\ worker'[w].at = "done" =>
                         \A i \in DOMAIN found' :
                           found'[i].status \in Active => found'[i].key \in worker'[w].keys
  <2>1. ASSUME NEW w \in alone' PROVE Insecure' = Insecure
    BY <2>1, AloneSteps DEF Insecure
  <2> QED BY <2>1 DEF Alone
<1>1. /\ w \in Assessors /\ w \in Workers /\ w # Pipeline /\ Job(worker[w]) /\ DOMAIN worker = Workers
      /\ DOMAIN worker[w] = {"at", "todo", "keys", "row", "status", "stamp", "want"}
  BY AloneSteps, RolesDiffer DEF PostureTypes, Job
<1>2. CASE StartAssessment(w) /\ \A v \in Workers : worker[v].at = "idle"
  <2>1. worker' = [worker EXCEPT ![w] = [Waiting EXCEPT !.at = "write", !.todo = Hits]]
    BY <1>2 DEF StartAssessment
  <2>2. /\ worker'[w].at = "write" /\ worker'[w].todo = Hits /\ worker'[w].keys = {}
        /\ \A v \in Workers \ {w} : worker'[v].at = "idle"
    BY <1>1, <1>2, <2>1, WaitingIsAJob
  <2>3. {KeyOrder[n] : n \in Hits} = Insecure
    BY DEF Hits, Insecure, Keys, Range
  <2> QED BY <2>2, <2>3
<1>3. CASE w \in alone /\ UNCHANGED <<found, worker>>
  BY <1>3 DEF Alone, HasActive
<1>4. CASE w \in alone /\ WriteHit(w)
  <2>1. PICK f, k : f = NextOf(w) /\ k = KeyOrder[f] /\ worker[w].at = "write" /\ f \in worker[w].todo
    BY <1>1, <1>4, NextIsThere DEF WriteHit
  <2> DEFINE same == ByKey(ActiveSeen(w), k)
  <2>2. worker' = [worker EXCEPT ![w] = [worker[w] EXCEPT !.todo = worker[w].todo \ {f},
                                                         !.keys = worker[w].keys \cup {k}]]
    BY <1>4, <2>1 DEF WriteHit
  <2>3. /\ worker'[w].at = "write" /\ worker'[w].todo = worker[w].todo \ {f}
        /\ worker'[w].keys = worker[w].keys \cup {k}
        /\ \A v \in Workers \ {w} : worker'[v].at = "idle"
    BY <1>1, <1>4, <2>1, <2>2 DEF Alone
  <2>4. worker'[w].keys \cup {KeyOrder[n] : n \in worker'[w].todo} = Insecure
    BY <1>4, <2>1, <2>3 DEF Alone
  <2>5. \A i \in DOMAIN found :
          i \in DOMAIN found' /\ found'[i].key = found[i].key /\ found'[i].status = found[i].status
    <3> SUFFICES ASSUME NEW i \in DOMAIN found
                 PROVE  i \in DOMAIN found' /\ found'[i].key = found[i].key
                        /\ found'[i].status = found[i].status
      OBVIOUS
    <3>1. /\ i \in DOMAIN found' /\ found'[i].key = found[i].key
          /\ found'[i] = found[i] \/ DetUpdated(i, w) \/ DetSettled(i, w)
      BY <1>4, AloneRows
    <3> QED BY <2>1, <3>1 DEF DetUpdated, Kind, ResolveRow, FlushStatus, DetSettled
  <2>6. k \notin SuppressedKeys => HasActive(k)'
    <3>1. CASE Cardinality(same) = 1 /\ \A i \in same : Free(w, i)
      <4>1. PICK i \in same : Free(w, i)
        BY <3>1, FS_EmptySet
      <4>2. i \in DOMAIN found /\ found[i].key = k /\ found[i].status \in Active
        BY <4>1 DEF ByKey, ActiveSeen, SeenBy, Free
      <4> QED BY <2>5, <4>2 DEF HasActive
    <3>2. ASSUME NEW was, found' = Append(found, [key |-> k, status |-> "open", stamp |-> FALSE, lock |-> w,
                                        was |-> was])
          PROVE  HasActive(k)'
      <4>1. found \in Seq(FoundType) /\ Len(found) \in Nat
        BY DEF PostureTypes
      <4>2. /\ Len(found) + 1 \in DOMAIN found' /\ found'[Len(found) + 1].key = k
            /\ found'[Len(found) + 1].status = "open"
        BY <3>2, <4>1
      <4> QED BY <4>2 DEF HasActive, Active
    <3>3. alone' # alone \ {w}
      OBVIOUS
    <3> HIDE DEF same
    <3> QED BY <1>4, <2>1, <3>1, <3>2, <3>3 DEF WriteHit, same
  <2>7. \A j \in worker[w].keys \ SuppressedKeys : HasActive(j)'
    BY <1>4, <2>5 DEF Alone, HasActive
  <2> HIDE DEF same
  <2> QED BY <2>3, <2>4, <2>6, <2>7
<1>5. CASE w \in alone /\ SelectFixed(w)
  <2>1. /\ worker' = [worker EXCEPT ![w] = [worker[w] EXCEPT !.at = "resolve", !.todo = Fixed(w)]]
        /\ worker[w].at = "write" /\ worker[w].todo = {} /\ found' = found
    BY <1>5 DEF SelectFixed
  <2>2. /\ worker'[w].at = "resolve" /\ worker'[w].todo = Fixed(w) /\ worker'[w].keys = worker[w].keys
        /\ \A v \in Workers \ {w} : worker'[v].at = "idle"
    BY <1>1, <1>5, <2>1 DEF Alone
  <2>3. worker[w].keys = Insecure
    <3>1. {KeyOrder[n] : n \in worker[w].todo} = {}
      BY <2>1
    <3> QED BY <1>5, <2>1, <3>1 DEF Alone
  <2>4. \A i \in DOMAIN found : SeenBy(w, i) = found[i].status
    <3>1. \A i \in DOMAIN found : found[i].lock \in {"none", w}
      BY <1>5, DetectionsHaveFields DEF RowLocks, Alone
    <3> QED BY <3>1 DEF SeenBy
  <2>5. \A i \in DOMAIN found : i \in Fixed(w) <=> found[i].status \in Active /\ found[i].key \notin worker[w].keys
    BY <2>4 DEF Fixed, ActiveSeen
  <2>6. \A k \in worker[w].keys \ SuppressedKeys : HasActive(k)'
    BY <1>5, <2>1 DEF Alone, HasActive
  <2> QED BY <2>1, <2>2, <2>3, <2>5, <2>6
<1>6. CASE w \in alone /\ ResolveRow(w)
  <2> DEFINE f == NextOf(w)
  <2>1. /\ worker' = [worker EXCEPT ![w].todo = worker[w].todo \ {f}]
        /\ worker[w].at = "resolve" /\ f \in worker[w].todo
    BY <1>1, <1>6, NextIsThere DEF ResolveRow
  <2>2. /\ worker'[w].at = "resolve" /\ worker'[w].todo = worker[w].todo \ {f}
        /\ worker'[w].keys = worker[w].keys /\ worker[w].keys = Insecure
        /\ \A v \in Workers \ {w} : worker'[v].at = "idle"
    BY <1>1, <1>6, <2>1 DEF Alone
  <2>3. \A i \in DOMAIN found' :
          /\ i \in DOMAIN found /\ found'[i].key = found[i].key
          /\ i # f => found'[i].status = found[i].status
          /\ i = f => found'[i].status = "resolved"
    <3>1. ASSUME NEW i \in DOMAIN found'
          PROVE  /\ i \in DOMAIN found /\ found'[i].key = found[i].key
                 /\ found'[i] = found[i] \/ DetUpdated(i, w)
      <4>1. ~WriteHit(w)
        BY <2>1 DEF WriteHit
      <4>2. ~DetSettled(i, w)
        <5>1. worker[w].todo # {}
          BY <2>1
        <5> QED BY <2>1, <5>1 DEF DetSettled, CommitRows, EndPatch
      <4> QED BY <1>6, <4>1, <4>2, AloneRows
    <3>2. ASSUME NEW i \in DOMAIN found', DetUpdated(i, w) PROVE i = f /\ found'[i].status = "resolved"
      BY <2>1, <3>2 DEF DetUpdated, Kind, WriteHit, FlushStatus
    <3>3. f \in DOMAIN found
      BY <1>1, <2>1 DEF PostureTypes
    <3>4. found'[f].status = "resolved"
      <4>1. found[f].lock \in {"none", w} /\ found' = Update(w, f, "resolved", TRUE)
        BY <1>6 DEF ResolveRow, Free
      <4>2. "resolved" \in DetStatuses \cup {"absent"} /\ TRUE \in BOOLEAN
        BY DEF DetStatuses
      <4>3. found'[f].status = "resolved" /\ found'[f].stamp = TRUE => Kind(f, w)
        BY <1>1, <1>6 DEF Kind
      <4> HIDE DEF f
      <4> QED BY <1>1, <3>3, <4>1, <4>2, <4>3, DetsUpdate
    <3> HIDE DEF f
    <3> QED BY <3>1, <3>2, <3>4
  <2>4. \A k \in worker[w].keys \ SuppressedKeys : HasActive(k)'
    <3> SUFFICES ASSUME NEW k \in worker[w].keys \ SuppressedKeys PROVE HasActive(k)'
      OBVIOUS
    <3>1. PICK i \in DOMAIN found : found[i].key = k /\ found[i].status \in Active
      BY <1>6 DEF Alone, HasActive
    <3>2. found[f].key \notin worker[w].keys
      <4>1. f \in DOMAIN found
        BY <1>1, <2>1 DEF PostureTypes
      <4> QED BY <1>6, <2>1, <4>1 DEF Alone
    <3>3. i # f /\ i \in DOMAIN found'
      BY <1>6, <3>1, <3>2, AloneRows
    <3> QED BY <2>3, <3>1, <3>3 DEF HasActive
  <2>5. \A i \in DOMAIN found :
          IF i \in worker[w].todo THEN found[i].key \notin worker[w].keys
          ELSE found[i].status \in Active => found[i].key \in worker[w].keys
    BY <1>6, <2>1 DEF Alone
  <2> HIDE DEF f
  <2> QED BY <2>1, <2>2, <2>3, <2>4, <2>5 DEF Active
<1>7. CASE w \in alone /\ CommitRows(w)
  <2>1. /\ worker' = [worker EXCEPT ![w] = [worker[w] EXCEPT !.at = "done"]]
        /\ worker[w].at = "resolve" /\ worker[w].todo = {} /\ found' = Settled(w)
    BY <1>1, <1>7 DEF CommitRows
  <2>2. /\ worker'[w].at = "done" /\ worker'[w].keys = worker[w].keys /\ worker[w].keys = Insecure
        /\ \A v \in Workers \ {w} : worker'[v].at = "idle"
    BY <1>1, <1>7, <2>1 DEF Alone
  <2>3. DOMAIN found' = DOMAIN found /\ \A i \in DOMAIN found :
          found'[i].key = found[i].key /\ found'[i].status = found[i].status
    BY <2>1, DetectionsHaveFields DEF Settled
  <2>4. \A k \in worker[w].keys \ SuppressedKeys : HasActive(k)'
    BY <1>7, <2>3 DEF Alone, HasActive
  <2>5. \A i \in DOMAIN found : found[i].status \in Active => found[i].key \in worker[w].keys
    BY <1>7, <2>1 DEF Alone
  <2> QED BY <2>2, <2>3, <2>4, <2>5
<1> QED BY <1>2, <1>3, <1>4, <1>5, <1>6, <1>7, AloneSteps

-----------------------------------------------------------------------------
(* Posture: how many active detections a key has *)

\* Rows that are active now, or would be after a rollback; and those that are active
\* by the doing of a transaction that is not committed.
Taken(k) ==
  {i \in DOMAIN found :
     /\ found[i].key = k
     /\ found[i].status \in Active \/ (found[i].lock # "none" /\ found[i].was.status \in Active)}
Added(i) == found[i].status \in Active /\ found[i].was.status \notin Active
Regained == {i \in DOMAIN found : found[i].lock \in Analysts /\ Added(i)}

\* An assessment that is about to insert holds active rows only, and one of a key that
\* it inserted; the remedies insert none; each row that an analyst makes active counts.
Inserted ==
  /\ \A i \in DOMAIN found :
       /\ found[i].lock = Pipeline => ~Added(i)
       /\ \A w \in Assessors :
            worker[w].at = "write" /\ found[i].lock = w => found[i].status \in Active
  /\ \A i, j \in DOMAIN found :
       /\ found[i].lock = found[j].lock /\ found[i].lock \in Assessors
       /\ found[i].key = found[j].key /\ Added(i) /\ Added(j)
       => i = j

LEMMA AddedBefore ==
  ASSUME PostureTypes, [NextPosture]_postureVars, NEW i \in DOMAIN found',
         Added(i)', found'[i].lock \in Assessors \cup {Pipeline}
  PROVE  \/ /\ i \in DOMAIN found /\ Added(i) /\ found[i].lock = found'[i].lock
            /\ found'[i].key = found[i].key
         \/ i \notin DOMAIN found /\ DetRecorded(i)
<1>1. found'[i].status \in Active /\ found'[i].was.status \notin Active
  BY DEF Added
<1>2. ASSUME i \in DOMAIN found, found'[i].key = found[i].key, DetStep(i)
      PROVE  Added(i) /\ found[i].lock = found'[i].lock
  <2>1. CASE found'[i] = found[i]
    BY <1>1, <2>1 DEF Added
  <2>2. ASSUME NEW w \in Workers, DetUpdated(i, w) PROVE Added(i) /\ found[i].lock = found'[i].lock
    <3>1. found'[i].lock = w /\ found[i].lock \in {"none", w} /\ w \notin Analysts
      BY <2>2, RolesDiffer DEF DetUpdated
    <3>2. found'[i].status = found[i].status
      BY <1>1, <2>2, <3>1 DEF DetUpdated, Kind, Active
    <3>3. found[i].lock = w
      <4>1. found'[i].was = IF found[i].lock = w THEN found[i].was
                            ELSE [status |-> found[i].status, stamp |-> found[i].stamp]
        BY <2>2 DEF DetUpdated
      <4> QED BY <1>1, <3>2, <4>1
    <3> QED BY <1>1, <2>2, <3>1, <3>2, <3>3 DEF DetUpdated, Added
  <2>3. found'[i].lock # "none"
    BY RolesDiffer
  <2> QED BY <1>2, <2>1, <2>2, <2>3 DEF DetStep, DetSettled, DetUndone
<1> QED BY <1>2, DetsAreAfter DEF DetsAfter

LEMMA InsertedKeeps ==
  ASSUME PostureTypes, RowLocks, Inserted, [NextPosture]_postureVars PROVE Inserted'
<1>1. ASSUME NEW i \in DOMAIN found', found'[i].lock = Pipeline, Added(i)' PROVE FALSE
  <2>1. ~DetRecorded(i)
    BY <1>1, RolesDiffer DEF DetRecorded
  <2> QED BY <1>1, <2>1, AddedBefore DEF Inserted
<1>2. ASSUME NEW i \in DOMAIN found', NEW w \in Assessors, worker'[w].at = "write", found'[i].lock = w
      PROVE  found'[i].status \in Active
  <2>1. WorkStep(w) /\ w \in Workers /\ w # "none" /\ DetsAfter(i)
    BY WorkersMove, DetsAreAfter, RolesDiffer DEF JobsStep
  <2>2. worker[w].at = "write" \/ (StartAssessment(w) /\ worker[w].at = "idle")
    BY <1>2, <2>1, WaitingIsAJob, RolesDiffer DEF WorkStep
  <2>3. CASE DetRecorded(i)
    BY <2>3 DEF DetRecorded, Active
  <2>4. CASE i \in DOMAIN found /\ found'[i] = found[i]
    <3>1. worker[w].at # "idle"
      BY <1>2, <2>1, <2>4 DEF RowLocks
    <3> QED BY <1>2, <2>2, <2>4, <3>1 DEF Inserted
  <2>5. ASSUME NEW v \in Workers, DetUpdated(i, v) PROVE found'[i].status \in Active
    <3>1. v = w
      BY <1>2, <2>5 DEF DetUpdated
    <3> QED BY <2>2, <2>5, <3>1, RolesDiffer DEF DetUpdated, Kind, ResolveRow, FlushStatus
  <2> QED BY <1>2, <2>1, <2>3, <2>4, <2>5 DEF DetsAfter, DetStep, DetSettled, DetUndone
<1>3. ASSUME NEW i \in DOMAIN found', NEW j \in DOMAIN found', found'[i].lock = found'[j].lock,
             found'[i].lock \in Assessors, found'[i].key = found'[j].key, Added(i)', Added(j)'
      PROVE  i = j
  <2>1. ASSUME NEW a \in DOMAIN found, NEW b \in DOMAIN found', DetRecorded(b), Added(a),
               found[a].lock = found'[b].lock, found[a].key = found'[b].key
        PROVE  FALSE
    <3>1. PICK w \in Assessors : ByKey(ActiveSeen(w), found'[b].key) = {} /\ found'[b].lock = w
      BY <2>1 DEF DetRecorded
    <3>2. a \in ByKey(ActiveSeen(w), found'[b].key)
      BY <2>1, <3>1 DEF ByKey, ActiveSeen, SeenBy, Added
    <3> QED BY <3>1, <3>2
  <2>2. CASE i \in DOMAIN found /\ j \in DOMAIN found
    BY <1>3, <2>2, AddedBefore DEF Inserted
  <2>3. CASE i \notin DOMAIN found /\ j \notin DOMAIN found
    BY <1>3, <2>3, AddedBefore DEF DetRecorded
  <2>4. CASE i \in DOMAIN found /\ j \notin DOMAIN found
    BY <1>3, <2>1, <2>4, AddedBefore
  <2>5. CASE i \notin DOMAIN found /\ j \in DOMAIN found
    BY <1>3, <2>1, <2>5, AddedBefore
  <2> QED BY <2>2, <2>3, <2>4, <2>5
<1> QED BY <1>1, <1>2, <1>3 DEF Inserted

LEMMA RowsAreFinite == ASSUME PostureTypes, NEW S \in SUBSET DOMAIN found PROVE IsFiniteSet(S) /\ Cardinality(S) \in Nat
<1>1. DOMAIN found = 1 .. Len(found) /\ Len(found) \in Int /\ 1 \in Int
  BY DEF PostureTypes
<1>2. IsFiniteSet(DOMAIN found)
  BY <1>1, FS_Interval
<1> QED BY <1>2, FS_Subset, FS_CardinalityType

\* Where an assessment sees no active row of a key, the rows that are taken are held by
\* other assessments, one each, or made active by analysts.
LEMMA OthersHold ==
  ASSUME PostureTypes, RowLocks, Inserted, Cardinality(Busy) <= 1 + twice,
         Cardinality(Regained) <= reopened,
         NEW w \in Assessors, worker[w].at = "write", NEW k, ByKey(ActiveSeen(w), k) = {}
  PROVE  Cardinality(Taken(k)) <= twice + reopened
<1> DEFINE U == {i \in Taken(k) : found[i].lock \in Assessors /\ Added(i)}
           lockOf == [i \in U |-> found[i].lock]
<1>1. ASSUME NEW i \in Taken(k)
      PROVE  /\ Added(i) /\ found[i].lock \in Assessors \cup Analysts /\ found[i].lock # w
  <2>1. /\ i \in DOMAIN found /\ found[i].key = k
        /\ found[i].status \in Active \/ (found[i].lock # "none" /\ found[i].was.status \in Active)
    BY DEF Taken
  <2>2. SeenBy(w, i) \notin Active
    BY <2>1 DEF ByKey, ActiveSeen
  <2>3. found[i].lock \notin {"none", w}
    BY <2>1, <2>2 DEF SeenBy, Inserted
  <2>4. Added(i)
    BY <2>1, <2>2, <2>3 DEF SeenBy, Added
  <2>5. found[i].lock # Pipeline
    BY <2>1, <2>4 DEF Inserted
  <2> QED BY <2>1, <2>3, <2>4, <2>5, DetectionsHaveFields, RolesDiffer
<1>2. Taken(k) \subseteq U \cup Regained /\ U \subseteq DOMAIN found /\ Regained \subseteq DOMAIN found
  BY <1>1 DEF Taken, Regained
<1>3. lockOf \in Injection(U, Busy \ {w})
  <2>1. ASSUME NEW i \in U PROVE found[i].lock \in Busy \ {w}
    <3>1. found[i].lock \in Assessors /\ i \in DOMAIN found /\ found[i].lock # "none"
      BY <1>2, RolesDiffer
    <3> QED BY <1>1, <3>1 DEF RowLocks, Busy
  <2>2. ASSUME NEW i \in U, NEW j \in U, found[i].lock = found[j].lock PROVE i = j
    BY <1>2, <2>2 DEF Inserted, Taken
  <2> HIDE DEF U
  <2> QED BY <2>1, <2>2 DEF Injection, IsInjective
<1>4. IsFiniteSet(Busy) /\ Cardinality(Busy) \in Nat /\ w \in Busy
  BY PostureAssumption, FS_Subset, FS_CardinalityType DEF Busy
<1>5. IsFiniteSet(Busy \ {w}) /\ Cardinality(Busy \ {w}) = Cardinality(Busy) - 1
  BY <1>4, FS_RemoveElement
<1> HIDE DEF U, lockOf
<1>6. IsFiniteSet(U) /\ Cardinality(U) <= Cardinality(Busy \ {w})
  BY <1>3, <1>5, FS_Injection
<1>7. /\ IsFiniteSet(Regained) /\ Cardinality(Regained) \in Nat /\ Cardinality(U) \in Nat
      /\ Cardinality(U \cap Regained) \in Nat
  <2>1. U \in SUBSET DOMAIN found /\ Regained \in SUBSET DOMAIN found /\ U \cap Regained \in SUBSET DOMAIN found
    BY <1>2
  <2> QED BY <2>1, RowsAreFinite
<1>8. /\ IsFiniteSet(U \cup Regained)
      /\ Cardinality(U \cup Regained) = Cardinality(U) + Cardinality(Regained) - Cardinality(U \cap Regained)
  BY <1>6, <1>7, FS_Union
<1>9. Cardinality(Taken(k)) <= Cardinality(U \cup Regained)
  BY <1>2, <1>8, FS_Subset
<1>10. Cardinality(Taken(k)) \in Nat
  <2>1. Taken(k) \in SUBSET DOMAIN found
    BY DEF Taken
  <2> QED BY <2>1, RowsAreFinite
<1>11. twice \in Nat /\ reopened \in Nat
  BY DEF PostureTypes
<1> QED BY <1>4, <1>5, <1>6, <1>7, <1>8, <1>9, <1>10, <1>11

LEMMA CountsGrow ==
  ASSUME PostureTypes, [NextPosture]_postureVars
  PROVE  /\ twice <= twice' /\ reopened <= reopened' /\ twice \in Nat /\ reopened \in Nat
         /\ twice' \in Nat /\ reopened' \in Nat
<1>1. twice \in Nat /\ reopened \in Nat /\ twice' \in Nat /\ reopened' \in Nat
  BY PostureTypesKeep DEF PostureTypes
<1>2. twice' = twice \/ twice' = twice + 1
  BY DEF NextPosture, QueueAssessment, StartAssessment, WriteHit, RuleRaises, SelectFixed, EndAssessment,
         ResolveRow, CommitRows, AbortRows, Remedy, Change, ReadDetection, FlushStatus, EndPatch, postureVars
<1>3. reopened' = reopened \/ reopened' = reopened + 1
  BY DEF NextPosture, QueueAssessment, StartAssessment, WriteHit, RuleRaises, SelectFixed, EndAssessment,
         ResolveRow, CommitRows, AbortRows, Remedy, Change, ReadDetection, FlushStatus, EndPatch, postureVars
<1> QED BY <1>1, <1>2, <1>3

\* Each assessment that begins beside another one counts.
LEMMA BusyKeeps ==
  ASSUME PostureTypes, Cardinality(Busy) <= 1 + twice, [NextPosture]_postureVars
  PROVE  Cardinality(Busy)' <= 1 + twice'
<1>1. IsFiniteSet(Busy) /\ Cardinality(Busy) \in Nat
  BY PostureAssumption, FS_Subset, FS_CardinalityType DEF Busy
<1>2. CASE \E w \in Assessors : StartAssessment(w)
  <2>1. PICK w \in Assessors : StartAssessment(w)
    BY <1>2
  <2>2. Busy' \subseteq Busy \cup {w}
    <3>1. \A v \in Assessors \ {w} : worker'[v] = worker[v]
      BY <2>1, RolesDiffer DEF StartAssessment, PostureTypes
    <3> QED BY <3>1 DEF Busy
  <2>3. IsFiniteSet(Busy \cup {w}) /\ Cardinality(Busy \cup {w}) <= Cardinality(Busy) + 1
    BY <1>1, FS_AddElement
  <2>4. Cardinality(Busy') <= Cardinality(Busy) + 1 /\ Cardinality(Busy') \in Nat
    BY <1>1, <2>2, <2>3, FS_Subset, FS_CardinalityType
  <2>5. Busy = {} => Cardinality(Busy) = 0
    BY FS_EmptySet
  <2>6. twice' = IF Busy # {} THEN twice + 1 ELSE twice
    BY <2>1 DEF StartAssessment
  <2> QED BY <1>1, <2>4, <2>5, <2>6, CountsGrow
<1>3. CASE ~\E w \in Assessors : StartAssessment(w)
  <2>1. Busy' \subseteq Busy
    <3>1. ASSUME NEW w \in Assessors, worker[w].at = "idle" PROVE worker'[w].at = "idle"
      BY <1>3, <3>1, WorkersMove, WaitingIsAJob, RolesDiffer DEF JobsStep, WorkStep
    <3> QED BY <3>1 DEF Busy
  <2>2. Cardinality(Busy') <= Cardinality(Busy) /\ Cardinality(Busy') \in Nat
    BY <1>1, <2>1, FS_Subset, FS_CardinalityType
  <2> QED BY <1>1, <2>2, CountsGrow
<1> QED BY <1>2, <1>3

\* A request that makes a row active.
Reopens(a) ==
  /\ FlushStatus(a) /\ worker[a].want \in Active /\ found[worker[a].row].status \notin Active

LEMMA OneReopens ==
  ASSUME PostureTypes, NEW a \in Analysts, NEW b \in Analysts, Reopens(a), Reopens(b)
  PROVE  a = b /\ reopened' = reopened + 1
<1>1. /\ worker' = [worker EXCEPT ![a].at = "commit"] /\ worker' = [worker EXCEPT ![b].at = "commit"]
      /\ worker[a].at = "flush" /\ worker[b].at = "flush"
  BY DEF Reopens, FlushStatus
<1>2. a \in DOMAIN worker /\ b \in DOMAIN worker /\ DOMAIN worker = Workers /\ Job(worker[a])
  BY RolesDiffer DEF PostureTypes
<1>3. a # b => worker'[a].at = "flush"
  BY <1>1, <1>2
<1>4. worker'[a].at = "commit"
  BY <1>1, <1>2 DEF Job
<1> QED BY <1>3, <1>4 DEF Reopens, FlushStatus

LEMMA RegainedKeeps ==
  ASSUME PostureTypes, Cardinality(Regained) <= reopened, [NextPosture]_postureVars
  PROVE  Cardinality(Regained)' <= reopened'
<1>1. ASSUME NEW i \in Regained', i \notin Regained
      PROVE  \E a \in Analysts : Reopens(a) /\ i = worker[a].row
  <2>1. i \in DOMAIN found' /\ found'[i].lock \in Analysts /\ Added(i)'
    BY <1>1 DEF Regained
  <2>2. i \in DOMAIN found /\ DetStep(i) /\ found'[i].lock # "none"
    BY <2>1, DetsAreAfter, RolesDiffer DEF DetsAfter, DetRecorded
  <2>3. CASE found'[i] = found[i]
    BY <1>1, <2>1, <2>2, <2>3 DEF Regained, Added
  <2>4. ASSUME NEW a \in Workers, DetUpdated(i, a) PROVE a \in Analysts /\ Reopens(a) /\ i = worker[a].row
    <3>1. found'[i].lock = a /\ a \in Analysts /\ found[i].lock \in {"none", a}
      BY <2>1, <2>4 DEF DetUpdated
    <3>2. FlushStatus(a) /\ i = worker[a].row /\ found'[i].status = worker[a].want
      BY <2>4, <3>1, RolesDiffer DEF DetUpdated, Kind
    <3>3. found[i].status \notin Active
      <4>1. found'[i].was = IF found[i].lock = a THEN found[i].was
                            ELSE [status |-> found[i].status, stamp |-> found[i].stamp]
        BY <2>4 DEF DetUpdated
      <4> QED BY <1>1, <2>1, <2>2, <3>1, <4>1 DEF Added, Regained
    <3> QED BY <2>1, <3>1, <3>2, <3>3 DEF Reopens, Added
  <2> QED BY <2>2, <2>3, <2>4 DEF DetStep, DetSettled, DetUndone
<1>2. Regained \in SUBSET DOMAIN found
  BY DEF Regained
<1>3. IsFiniteSet(Regained) /\ Cardinality(Regained) \in Nat
  BY <1>2, RowsAreFinite
<1>4. CASE Regained' \subseteq Regained
  <2>1. Cardinality(Regained') <= Cardinality(Regained) /\ Cardinality(Regained') \in Nat
    BY <1>3, <1>4, FS_Subset, FS_CardinalityType
  <2> QED BY <1>3, <2>1, CountsGrow
<1>5. CASE ~(Regained' \subseteq Regained)
  <2>1. PICK i \in Regained', a \in Analysts : Reopens(a) /\ i = worker[a].row
    BY <1>1, <1>5
  <2>2. Regained' \subseteq Regained \cup {i}
    BY <1>1, <2>1, OneReopens
  <2>3. IsFiniteSet(Regained \cup {i}) /\ Cardinality(Regained \cup {i}) <= Cardinality(Regained) + 1
    <3>1. /\ IsFiniteSet(Regained \cup {i})
          /\ Cardinality(Regained \cup {i}) =
               IF i \in Regained THEN Cardinality(Regained) ELSE Cardinality(Regained) + 1
      BY <1>3, FS_AddElement
    <3> QED BY <1>3, <3>1
  <2>4. Cardinality(Regained') <= Cardinality(Regained) + 1 /\ Cardinality(Regained') \in Nat
    BY <1>3, <2>2, <2>3, FS_Subset, FS_CardinalityType
  <2>5. reopened' = reopened + 1
    BY <2>1, OneReopens
  <2> QED BY <1>3, <2>4, <2>5, CountsGrow
<1> QED BY <1>4, <1>5

TakenBound == \A k \in Keys : Cardinality(Taken(k)) <= 1 + twice + reopened

LEMMA TakenBoundKeeps ==
  ASSUME PostureTypes, RowLocks, Inserted, Cardinality(Busy) <= 1 + twice,
         Cardinality(Regained) <= reopened, TakenBound, [NextPosture]_postureVars
  PROVE  TakenBound'
<1> SUFFICES ASSUME NEW k \in Keys PROVE Cardinality(Taken(k)') <= 1 + twice' + reopened'
  BY DEF TakenBound
<1>1. ASSUME NEW i \in Taken(k)', i \notin Taken(k), ~DetRecorded(i)
      PROVE  \E a \in Analysts : Reopens(a) /\ i = worker[a].row
  <2>1. /\ i \in DOMAIN found' /\ found'[i].key = k
        /\ found'[i].status \in Active \/ (found'[i].lock # "none" /\ found'[i].was.status \in Active)
    BY <1>1 DEF Taken
  <2>2. i \in DOMAIN found /\ DetStep(i) /\ found[i].key = k /\ "none" \notin Workers
    BY <1>1, <2>1, DetsAreAfter, RolesDiffer DEF DetsAfter
  <2>3. ~(found[i].status \in Active \/ (found[i].lock # "none" /\ found[i].was.status \in Active))
    BY <1>1, <2>2 DEF Taken
  <2>4. found'[i] # found[i]
    BY <2>1, <2>3
  <2>5. ASSUME NEW w \in Workers, DetSettled(i, w) \/ DetUndone(i, w) PROVE FALSE
    BY <2>1, <2>2, <2>3, <2>5 DEF DetSettled, DetUndone
  <2>6. ASSUME NEW a \in Workers, DetUpdated(i, a) PROVE a \in Analysts /\ Reopens(a) /\ i = worker[a].row
    <3>1. found'[i].was.status \notin Active
      <4>1. found'[i].was = IF found[i].lock = a THEN found[i].was
                            ELSE [status |-> found[i].status, stamp |-> found[i].stamp]
        BY <2>6 DEF DetUpdated
      <4> QED BY <2>2, <2>3, <4>1
    <3>2. found'[i].status \in Active
      BY <2>1, <3>1
    <3> QED BY <2>3, <2>6, <3>2 DEF DetUpdated, Kind, Reopens, Active
  <2> QED BY <2>2, <2>4, <2>5, <2>6 DEF DetStep
<1>2. Taken(k) \in SUBSET DOMAIN found
  BY DEF Taken
<1>3. IsFiniteSet(Taken(k)) /\ Cardinality(Taken(k)) \in Nat /\ Cardinality(Taken(k)) <= 1 + twice + reopened
  BY <1>2, RowsAreFinite DEF TakenBound
<1>4. ASSUME NEW i, Taken(k)' \subseteq Taken(k) \cup {i}
      PROVE  Cardinality(Taken(k)') <= Cardinality(Taken(k)) + 1 /\ Cardinality(Taken(k)') \in Nat
  <2>1. IsFiniteSet(Taken(k) \cup {i}) /\ Cardinality(Taken(k) \cup {i}) <= Cardinality(Taken(k)) + 1
    BY <1>3, FS_AddElement
  <2>2. Cardinality(Taken(k) \cup {i}) \in Nat
    BY <2>1, FS_CardinalityType
  <2>3. Cardinality(Taken(k)') <= Cardinality(Taken(k) \cup {i}) /\ Cardinality(Taken(k)') \in Nat
    BY <1>4, <2>1, FS_Subset, FS_CardinalityType
  <2> QED BY <1>3, <2>1, <2>2, <2>3
<1>5. CASE Taken(k)' \subseteq Taken(k)
  <2>1. Cardinality(Taken(k)') <= Cardinality(Taken(k)) /\ Cardinality(Taken(k)') \in Nat
    BY <1>3, <1>5, FS_Subset, FS_CardinalityType
  <2> QED BY <1>3, <2>1, CountsGrow
<1>6. ASSUME NEW i \in Taken(k)', DetRecorded(i) PROVE Cardinality(Taken(k)') <= 1 + twice' + reopened'
  <2>1. PICK w \in Assessors : WriteHit(w) /\ i = Len(found) + 1 /\ ByKey(ActiveSeen(w), found'[i].key) = {}
    BY <1>6 DEF DetRecorded
  <2>2. found'[i].key = k /\ worker[w].at = "write" /\ reopened' = reopened
    BY <1>6, <2>1 DEF Taken, WriteHit
  <2>3. Cardinality(Taken(k)) <= twice + reopened
    BY <2>1, <2>2, OthersHold
  <2>4. \A a \in Analysts : ~Reopens(a)
    BY <2>2, OneReopens, CountsGrow
  <2>5. Taken(k)' \subseteq Taken(k) \cup {i}
    BY <1>1, <2>1, <2>4 DEF DetRecorded
  <2>6. Cardinality(Taken(k)') <= Cardinality(Taken(k)) + 1 /\ Cardinality(Taken(k)') \in Nat
    BY <1>4, <2>5
  <2>7. /\ twice <= twice' /\ reopened <= reopened' /\ twice \in Nat /\ reopened \in Nat
        /\ twice' \in Nat /\ reopened' \in Nat
    BY CountsGrow
  <2> QED BY <1>3, <2>3, <2>6, <2>7
<1>7. CASE ~(Taken(k)' \subseteq Taken(k)) /\ \A i \in Taken(k)' : ~DetRecorded(i)
  <2>1. PICK i \in Taken(k)', a \in Analysts : Reopens(a) /\ i = worker[a].row
    BY <1>1, <1>7
  <2>2. Taken(k)' \subseteq Taken(k) \cup {i} /\ reopened' = reopened + 1
    BY <1>1, <1>7, <2>1, OneReopens
  <2> QED BY <1>3, <1>4, <2>2, CountsGrow
<1> QED BY <1>5, <1>6, <1>7

-----------------------------------------------------------------------------
(* Posture: theorems *)

PostureInv ==
  /\ PostureTypes /\ RowLocks /\ Stamps /\ Alone
  /\ Inserted /\ Cardinality(Busy) <= 1 + twice /\ Cardinality(Regained) <= reopened /\ TakenBound

LEMMA PostureInvInit == InitPosture => PostureInv
<1> SUFFICES ASSUME InitPosture PROVE PostureInv
  OBVIOUS
<1>1. PostureTypes
  BY PostureTypesInit
<1>2. /\ DOMAIN found = {} /\ alone = {} /\ twice = 0 /\ reopened = 0
      /\ \A w \in Workers : worker[w].at = "idle"
  BY WaitingIsAJob DEF InitPosture
<1>3. Busy = {} /\ Regained = {} /\ \A k \in Keys : Taken(k) = {}
  BY <1>2, RolesDiffer DEF Busy, Regained, Taken
<1>4. Cardinality(Busy) <= 1 + twice /\ Cardinality(Regained) <= reopened /\ TakenBound
  <2>1. Cardinality(Busy) = 0 /\ Cardinality(Regained) = 0 /\ \A k \in Keys : Cardinality(Taken(k)) = 0
    BY <1>3, FS_EmptySet
  <2> QED BY <1>2, <2>1 DEF TakenBound
<1> QED BY <1>1, <1>2, <1>4 DEF PostureInv, RowLocks, Stamps, Alone, Inserted

LEMMA PostureInvKeeps == PostureInv /\ [NextPosture]_postureVars => PostureInv'
BY PostureTypesKeep, RowLocksKeep, StampsKeep, AloneKeeps, InsertedKeeps, BusyKeeps, RegainedKeeps,
   TakenBoundKeeps DEF PostureInv

LEMMA PostureInvHolds == SpecPosture => []PostureInv
BY PostureInvInit, PostureInvKeeps, PTL DEF SpecPosture

\* The detections, the mirrored settings and the processes keep their types, and a
\* row is locked only by a process at work.
THEOREM PostureTypesStay == SpecPosture => []PostureTypeOK
<1>1. PostureInv => PostureTypeOK
  <2> SUFFICES ASSUME PostureInv PROVE PostureTypeOK
    OBVIOUS
  <2>1. PostureTypes /\ RowLocks
    BY DEF PostureInv
  <2>2. DOMAIN Transitions = {"open", "investigating", "resolved", "false_positive"}
    BY DEF Transitions
  <2>3. ASSUME NEW i \in DOMAIN found
        PROVE  /\ found[i].key \in Keys \ SuppressedKeys
               /\ found[i].status \in DOMAIN Transitions \cup {"absent"}
               /\ found[i].lock # "none" => worker[found[i].lock].at # "idle"
    BY <2>1, <2>2, DetectionsHaveFields DEF RowLocks, DetStatuses
  <2>4. pipelines \in 0 .. PostureFaults + 2
    BY <2>1, PostureAssumption DEF PostureTypes
  <2>5. \A w \in Workers : worker[w].at \in {"idle", "write", "resolve", "done", "flush", "commit"}
    BY <2>1 DEF PostureTypes, Job
  <2> QED BY <2>1, <2>3, <2>4, <2>5 DEF PostureTypeOK, PostureTypes
<1> QED BY <1>1, PostureInvHolds, PTL

\* resolved_at is set on the detections that are resolved, and on another only where a
\* request wrote over a change that it had not read.
THEOREM StampsFollow == SpecPosture => []StampFollowsStatus
<1>1. PostureInv => StampFollowsStatus
  <2> SUFFICES ASSUME PostureInv, NEW i \in DOMAIN found
               PROVE  /\ Committed(i) = "resolved" => StampSeen("none", i)
                      /\ StampSeen("none", i) /\ Committed(i) # "resolved" => i \in raced
    BY DEF StampFollowsStatus
  <2>1. Stamps
    BY DEF PostureInv
  <2> QED BY <2>1 DEF Stamps, Stamped, Committed, SeenBy, StampSeen
<1> QED BY <1>1, PostureInvHolds, PTL

\* An assessment that nothing disturbed leaves exactly the insecure entities with an
\* active detection, for any number of entities and of detections before it.
THEOREM QuietAssessments == SpecPosture => []QuietAssessmentAgrees
<1>1. PostureInv => QuietAssessmentAgrees
  <2> SUFFICES ASSUME PostureInv, NEW w \in Assessors, worker[w].at = "done", w \in alone
               PROVE  {found[i].key : i \in {j \in DOMAIN found : Committed(j) \in Active}}
                        = {k \in Keys \ SuppressedKeys : setting[k] = "insecure"}
    BY DEF QuietAssessmentAgrees
  <2>1. PostureTypes /\ RowLocks /\ Alone
    BY DEF PostureInv
  <2>2. \A i \in DOMAIN found : Committed(i) = found[i].status
    <3>1. \A i \in DOMAIN found : found[i].lock = "none"
      BY <2>1, DetectionsHaveFields DEF RowLocks, Alone
    <3> QED BY <3>1 DEF Committed, SeenBy
  <2>3. /\ worker[w].keys = Insecure
        /\ \A k \in worker[w].keys \ SuppressedKeys : HasActive(k)
        /\ \A i \in DOMAIN found : found[i].status \in Active => found[i].key \in worker[w].keys
    BY <2>1 DEF Alone
  <2>4. \A i \in DOMAIN found : found[i].key \in Keys \ SuppressedKeys
    BY <2>1, DetectionsHaveFields
  <2>5. ASSUME NEW i \in DOMAIN found, Committed(i) \in Active
        PROVE  found[i].key \in {k \in Keys \ SuppressedKeys : setting[k] = "insecure"}
    BY <2>2, <2>3, <2>4, <2>5 DEF Insecure
  <2>6. ASSUME NEW k \in Keys \ SuppressedKeys, setting[k] = "insecure"
        PROVE  \E i \in DOMAIN found : found[i].key = k /\ Committed(i) \in Active
    BY <2>2, <2>3, <2>6 DEF Insecure, HasActive
  <2> QED BY <2>5, <2>6
<1> QED BY <1>1, PostureInvHolds, PTL

\* A key has one active detection, but for each assessment that began beside another
\* one and each detection that an analyst made active again, for any number of either.
THEOREM FewActivePerKey == SpecPosture => []OneActivePerKey
<1>1. PostureInv => OneActivePerKey
  <2> SUFFICES ASSUME PostureInv, NEW k \in Keys
               PROVE  Cardinality({i \in DOMAIN found : found[i].key = k /\ Committed(i) \in Active})
                        <= 1 + twice + reopened
    BY DEF OneActivePerKey
  <2> DEFINE S == {i \in DOMAIN found : found[i].key = k /\ Committed(i) \in Active}
  <2>1. PostureTypes /\ TakenBound
    BY DEF PostureInv
  <2>2. S \subseteq Taken(k)
    BY DEF Taken, Committed, SeenBy
  <2> HIDE DEF S
  <2>3. Taken(k) \in SUBSET DOMAIN found
    BY DEF Taken
  <2>4. IsFiniteSet(Taken(k)) /\ Cardinality(Taken(k)) \in Nat
    BY <2>1, <2>3, RowsAreFinite
  <2>5. Cardinality(S) <= Cardinality(Taken(k)) /\ Cardinality(S) \in Nat
    BY <2>2, <2>4, FS_Subset, FS_CardinalityType
  <2>6. twice \in Nat /\ reopened \in Nat /\ Cardinality(Taken(k)) <= 1 + twice + reopened
    BY <2>1 DEF PostureTypes, TakenBound
  <2>7. Cardinality(S) <= 1 + twice + reopened
    BY <2>4, <2>5, <2>6
  <2> QED BY <2>7 DEF S
<1> QED BY <1>1, PostureInvHolds, PTL
=============================================================================
