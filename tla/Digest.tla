------------------------------- MODULE Digest -------------------------------
(***************************************************************************)
(* The digest mail of one configuration (build_and_send_digest, services/  *)
(* notification_service.py), against the transactions that write           *)
(* detections.  triggered_at is the NOW() of the transaction that inserts  *)
(* a detection, which others see when it commits; the digest covers what   *)
(* was triggered after digest:last_sent, a mark kept in Valkey.            *)
(***************************************************************************)
EXTENDS Integers, FiniteSets

CONSTANTS
  Alerts,      \* detections
  Window,       \* 24 hours, in ticks
  MaxTick,      \* bound: ticks of the clock
  DigestFaults  \* bound: mails that fail, marks that are not stored, processes lost

ASSUME DigestAssumption ==
  /\ Window \in Nat /\ MaxTick \in Nat /\ Window < MaxTick
  /\ DigestFaults \in Nat

VARIABLES
  tick,     \* the clock
  txn,      \* detection -> its transaction, and its triggered_at
  mark,     \* digest:last_sent; 0: not set
  digest,   \* what the task does
  covered,  \* history: detections that a digest mail listed
  repeated, \* history: ... more than one
  unmarked, \* history: listed by a mail whose mark was not stored
  passed,   \* history: committed after a SELECT that looked for them, or older than
            \* the window of a digest that had no mark
  digestFaults

digestVars == <<tick, txn, mark, digest, covered, repeated, unmarked, passed, digestFaults>>

NoDigest == [at |-> "idle", began |-> 0, since |-> 0, seen |-> {}, upto |-> 0]

InitDigest ==
  /\ tick = Window + 1 /\ mark = 0 /\ digest = NoDigest
  /\ txn = [d \in Alerts |-> [is |-> "none", at |-> 0]]
  /\ covered = {} /\ repeated = {} /\ unmarked = {} /\ passed = {} /\ digestFaults = 0

Failing == digestFaults < DigestFaults /\ digestFaults' = digestFaults + 1

Tick ==
  /\ tick < MaxTick /\ tick' = tick + 1
  /\ UNCHANGED <<txn, mark, digest, covered, repeated, unmarked, passed, digestFaults>>

BeginWrite(d) ==
  /\ txn[d].is = "none" /\ txn' = [txn EXCEPT ![d] = [is |-> "running", at |-> tick]]
  /\ UNCHANGED <<tick, mark, digest, covered, repeated, unmarked, passed, digestFaults>>

\* Passed: a digest has read the detections, or will move the mark past this one.
EndWrite(d, ok) ==
  /\ txn[d].is = "running"
  /\ txn' = [txn EXCEPT ![d] = IF ok THEN [@ EXCEPT !.is = "committed"]
                               ELSE [is |-> "none", at |-> 0]]
  /\ passed' = IF /\ ok
                   /\ \/ digest.at = "send" \/ txn[d].at <= mark
                      \/ digest.at = "mark" /\ txn[d].at <= digest.upto
               THEN passed \cup {d} ELSE passed
  /\ UNCHANGED <<tick, mark, digest, covered, repeated, unmarked, digestFaults>>

\* send_digest_task is queued once a day, and again when its process is lost.
StartDigest ==
  /\ digest.at = "idle"
  /\ digest' = [NoDigest EXCEPT !.at = "query", !.began = tick,
                                !.since = IF mark > 0 THEN mark ELSE tick - Window]
  /\ UNCHANGED <<tick, txn, mark, covered, repeated, unmarked, passed, digestFaults>>

\* The end of the period is the clock after the SELECT.  Fault: the clock when
\* the task began.
PeriodEndAtStart == digest.began
PeriodEnd == tick

SelectDetections ==
  LET there == {d \in Alerts : txn[d].is = "committed"}
      seen == {d \in there : txn[d].at > digest.since} IN
  /\ digest.at = "query"
  /\ passed' = IF mark = 0 THEN passed \cup (there \ (seen \cup covered)) ELSE passed
  /\ digest' = IF seen = {} THEN NoDigest
               ELSE [digest EXCEPT !.at = "send", !.seen = seen]
  /\ UNCHANGED <<tick, txn, mark, covered, repeated, unmarked, digestFaults>>

\* now() and the mail.  A mail that raises leaves the mark: _send_digests goes on.
SendMail(answer) ==
  /\ digest.at = "send"
  /\ IF answer = "ok" THEN UNCHANGED digestFaults ELSE Failing
  /\ repeated' = IF answer = "refused" THEN repeated ELSE repeated \cup (covered \cap digest.seen)
  /\ covered' = IF answer = "refused" THEN covered ELSE covered \cup digest.seen
  /\ unmarked' = IF answer = "unanswered" THEN unmarked \cup digest.seen ELSE unmarked
  /\ digest' = IF answer = "ok" THEN [digest EXCEPT !.at = "mark", !.upto = PeriodEnd]
               ELSE NoDigest
  /\ UNCHANGED <<tick, txn, mark, passed>>

\* Fault: the mark is the clock when it is stored.
MarkNow == tick
MarkOf == digest.upto

StoreMark ==
  /\ digest.at = "mark" /\ mark' = MarkOf /\ digest' = NoDigest
  /\ UNCHANGED <<tick, txn, covered, repeated, unmarked, passed, digestFaults>>

\* The mark cannot be stored, or the process is lost.
LoseDigest ==
  /\ digest.at # "idle" /\ Failing /\ digest' = NoDigest
  /\ unmarked' = IF digest.at = "mark" THEN unmarked \cup digest.seen ELSE unmarked
  /\ UNCHANGED <<tick, txn, mark, covered, repeated, passed>>

NextDigest ==
  \/ Tick \/ StartDigest \/ SelectDetections \/ StoreMark \/ LoseDigest
  \/ \E d \in Alerts : BeginWrite(d) \/ \E ok \in BOOLEAN : EndWrite(d, ok)
  \/ \E answer \in {"ok", "refused", "unanswered"} : SendMail(answer)

SpecDigest == InitDigest /\ [][NextDigest]_digestVars

-----------------------------------------------------------------------------
\* Types.
DigestTypeOK ==
  /\ tick \in 1..MaxTick /\ mark \in 0..MaxTick
  /\ \A d \in Alerts : /\ txn[d].is \in {"none", "running", "committed"}
                        /\ txn[d].at \in 0..tick
  /\ digest.at \in {"idle", "query", "send", "mark"} /\ digest.seen \subseteq Alerts
  /\ repeated \subseteq covered /\ covered \cup passed \cup unmarked \subseteq Alerts

\* A committed detection that the mark has passed is in a digest mail, unless it was
\* committed after the SELECT had looked for it, or before the first window; and a
\* detection is in two digest mails only if the mark of the first was not stored
\* (_send_digest, its period and its mark).
DigestExplained ==
  /\ \A d \in Alerts :
       txn[d].is = "committed" /\ txn[d].at <= mark /\ d \notin covered =>
         d \in passed
  /\ repeated \subseteq unmarked
=============================================================================
