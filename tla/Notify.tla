------------------------------- MODULE Notify -------------------------------
(***************************************************************************)
(* Alerts of detections and the PagerDuty incidents they open.             *)
(*   - send_detection_notifications_task (workers/notification_worker.py)  *)
(*     and send_detection_notifications (services/notification_service.py):*)
(*     one key per rule, actor, org and hour is claimed in Valkey, then    *)
(*     each routed channel is tried once and its failure swallowed;        *)
(*   - send_pagerduty_notification opens an incident, then stores its key; *)
(*   - update_detection_status (routers/detections.py) resolves the        *)
(*     incident through that key before it commits.                        *)
(* Some notification configuration is enabled (with none a task ends at    *)
(* once) and PagerDuty's auto_resolve is on.                               *)
(***************************************************************************)
EXTENDS Integers, Sequences, FiniteSets, SequencesExt

CONSTANTS
  Notifiers,    \* processes of the notification queue
  Responders,   \* requests of analysts
  Raised,       \* detections
  SubjectOf,    \* detection -> its rule, actor and org
  ConfigOrder,  \* the enabled configurations, as they are read
  CatchAll,     \* those that only answer when no other matches
  Accepts,      \* pairs of a configuration and a detection that its filters let through
  TypeOf,       \* configuration -> channel type
  Globals,      \* the channels of the settings that are on
  MaxHour,      \* bound: hours
  NotifyRetries,\* max_retries of the task (3 in the code)
  NotifyFaults, \* bound: requests that fail, processes lost
  MaxCloses     \* bound: changes of status

VARIABLES
  hour,      \* the clock, in hours
  claimed,   \* the deduplication keys in Valkey
  alertTask, \* detection -> copies queued, retries so far
  mailer,    \* process -> what it does
  told,      \* history: channel, key pairs that an alert was posted for
  toldTwice, \* history: ... more than once
  state,     \* detection -> committed status
  incident,  \* detection -> "none", "triggered" or "resolved" in PagerDuty
  pdKey,     \* detection -> pagerduty:dedup:<id> in Valkey: "none", "dedup" or "routing"
  resolver,  \* request -> what it does
  excuse,    \* history: detection -> why its incident may stay open
  notifyFaults, closes

notifyVars == <<hour, claimed, alertTask, mailer, told, toldTwice, state, incident, pdKey,
                resolver, excuse, notifyFaults, closes>>

alertVars == <<hour, claimed, alertTask, told, toldTwice>>
incidentVars == <<state, incident, pdKey, resolver, excuse, closes>>

-----------------------------------------------------------------------------
(* Routing *)

GlobalOrder == <<"slack", "pagerduty", "teams">>
ChannelOrder == GlobalOrder \o ConfigOrder
Configs == Range(ConfigOrder)

ASSUME NotifyAssumption ==
  /\ ConfigOrder \in Seq(Configs) /\ CatchAll \subseteq Configs
  /\ Globals \subseteq Range(GlobalOrder) /\ Configs \cap Range(GlobalOrder) = {}
  /\ DOMAIN SubjectOf = Raised
  /\ {MaxHour, NotifyRetries, NotifyFaults, MaxCloses} \subseteq Nat

Configured(S, d) == {c \in S : <<c, d>> \in Accepts}
Matched(d) ==
  LET specific == Configured(Configs \ CatchAll, d) IN
  IF specific # {} THEN specific ELSE Configured(CatchAll, d)

\* A global channel is used unless a matched configuration is of its type.
Routes(d) == (Globals \ {TypeOf[c] : c \in Matched(d)}) \cup Matched(d)

\* The channels of the settings come first, then the configurations as they are read.
Place(c) == CHOOSE n \in DOMAIN ChannelOrder : ChannelOrder[n] = c
First(todo) == CHOOSE c \in todo : \A q \in todo : Place(c) <= Place(q)
Rest(todo) == todo \ {First(todo)}

Channels == Globals \cup Configs
OpensIncident(c) == c = "pagerduty" \/ (c \notin Globals /\ TypeOf[c] = "pagerduty")

-----------------------------------------------------------------------------
Resting == [at |-> "idle", det |-> "none", hour |-> 0, todo |-> {}]
Unasked == [at |-> "idle", det |-> "none", key |-> "none"]

InitNotify ==
  /\ hour = 0 /\ claimed = {} /\ told = {} /\ toldTwice = {}
  /\ alertTask = [d \in Raised |-> [queued |-> 1, tries |-> 0]]
  /\ mailer = [w \in Notifiers |-> Resting]
  /\ state = [d \in Raised |-> "open"] /\ incident = [d \in Raised |-> "none"]
  /\ pdKey = [d \in Raised |-> "none"] /\ resolver = [a \in Responders |-> Unasked]
  /\ excuse = [d \in Raised |-> {}] /\ notifyFaults = 0 /\ closes = 0

Fault == notifyFaults < NotifyFaults /\ notifyFaults' = notifyFaults + 1

TakeAlert(w, d) ==
  /\ mailer[w].at = "idle" /\ alertTask[d].queued > 0
  /\ alertTask' = [alertTask EXCEPT ![d].queued = @ - 1]
  /\ mailer' = [mailer EXCEPT ![w] = [Resting EXCEPT !.at = "claim", !.det = d]]
  /\ UNCHANGED <<hour, claimed, told, toldTwice, incidentVars, notifyFaults>>

\* _is_duplicate: SET NX with a time to live of one hour.
IsDuplicate(key) == key \in claimed
Key(w) == <<SubjectOf[mailer[w].det], mailer[w].hour>>

Claim(w) ==
  LET key == <<SubjectOf[mailer[w].det], hour>> IN
  /\ mailer[w].at = "claim"
  /\ \/ IsDuplicate(key) /\ mailer' = [mailer EXCEPT ![w] = Resting] /\ UNCHANGED claimed
     \/ /\ ~IsDuplicate(key) /\ claimed' = claimed \cup {key}
        /\ mailer' = [mailer EXCEPT ![w].at = "route", ![w].hour = hour]
  /\ UNCHANGED <<hour, alertTask, told, toldTwice, incidentVars, notifyFaults>>

Go(m, todo) == IF todo = {} THEN Resting ELSE [m EXCEPT !.at = "send", !.todo = todo]

Route(w) ==
  /\ mailer[w].at = "route"
  /\ mailer' = [mailer EXCEPT ![w] = Go(@, Routes(@.det))]
  /\ UNCHANGED <<alertVars, incidentVars, notifyFaults>>

\* A SELECT or Valkey fails, before the key is claimed or after it.
FailAlert(w) ==
  LET d == mailer[w].det IN
  /\ mailer[w].at \in {"claim", "route"} /\ Fault
  /\ mailer' = [mailer EXCEPT ![w] = Resting]
  /\ alertTask' = IF alertTask[d].tries >= NotifyRetries THEN alertTask
                  ELSE [alertTask EXCEPT ![d].queued = @ + 1, ![d].tries = @ + 1]
  /\ UNCHANGED <<hour, claimed, told, toldTwice, incidentVars>>

\* One channel: its answer is "ok", an error, or none although it was accepted.
\* Only a service that answers "ok" lets send_pagerduty_notification go on.
Post(w, answer) ==
  LET c == First(mailer[w].todo)
      d == mailer[w].det
      triggers == OpensIncident(c) /\ answer # "refused" IN
  /\ mailer[w].at = "send"
  /\ IF answer = "ok" THEN UNCHANGED notifyFaults ELSE Fault
  /\ told' = IF answer = "refused" THEN told ELSE told \cup {<<c, Key(w)>>}
  /\ toldTwice' = IF <<c, Key(w)>> \in told /\ answer # "refused"
                  THEN toldTwice \cup {<<c, Key(w)>>} ELSE toldTwice
  /\ incident' = IF triggers THEN [incident EXCEPT ![d] = "triggered"] ELSE incident
  /\ excuse' = IF ~triggers THEN excuse ELSE
       [excuse EXCEPT ![d] = @
          \cup (IF state[d] = "resolved" \/ \E a \in Responders :
                     resolver[a].det = d /\ resolver[a].at # "get" THEN {"late"} ELSE {})
          \cup (IF answer # "ok" THEN {"unstored"} ELSE {})
          \cup (IF c # "pagerduty" THEN {"legacy"} ELSE {})]
  /\ mailer' = [mailer EXCEPT ![w] =
       IF OpensIncident(c) /\ answer = "ok" THEN [@ EXCEPT !.at = "store"]
       ELSE Go(@, Rest(@.todo))]
  /\ UNCHANGED <<hour, claimed, alertTask, state, pdKey, resolver, closes>>

\* What is stored for the resolver: a configuration of its own stores its routing
\* key there.  Fault: the channel of the settings does too.
StoredRouting(c) == "routing"
StoredKey(c) == IF c = "pagerduty" THEN "dedup" ELSE "routing"

StoreKey(w, ok) ==
  LET d == mailer[w].det IN
  /\ mailer[w].at = "store"
  /\ IF ok THEN UNCHANGED <<notifyFaults, excuse>>
     ELSE Fault /\ excuse' = [excuse EXCEPT ![d] = @ \cup {"unstored"}]
  /\ pdKey' = IF ok THEN [pdKey EXCEPT ![d] = StoredKey(First(mailer[w].todo))] ELSE pdKey
  /\ mailer' = [mailer EXCEPT ![w] = Go(@, Rest(@.todo))]
  /\ UNCHANGED <<alertVars, state, incident, resolver, closes>>

\* The process is lost; the task, acknowledged late, is delivered again.
LoseNotifier(w) ==
  LET d == mailer[w].det IN
  /\ mailer[w].at # "idle" /\ Fault
  /\ alertTask' = [alertTask EXCEPT ![d].queued = @ + 1]
  /\ excuse' = IF mailer[w].at = "store" THEN [excuse EXCEPT ![d] = @ \cup {"unstored"}]
               ELSE excuse
  /\ mailer' = [mailer EXCEPT ![w] = Resting]
  /\ UNCHANGED <<hour, claimed, told, toldTwice, state, incident, pdKey, resolver, closes>>

NextHour ==
  /\ hour < MaxHour /\ hour' = hour + 1
  /\ UNCHANGED <<claimed, alertTask, mailer, told, toldTwice, incidentVars, notifyFaults>>

\* _DEDUP_TTL_DEFAULT is the length of a bucket: a key outlives its hour.  Fault:
\* a shorter time to live.
MayExpireSoon(key) == TRUE
MayExpire(key) == key[2] < hour
Expire(key) ==
  /\ key \in claimed /\ MayExpire(key) /\ claimed' = claimed \ {key}
  /\ UNCHANGED <<hour, alertTask, mailer, told, toldTwice, incidentVars, notifyFaults>>

-----------------------------------------------------------------------------
(* update_detection_status to "resolved", and resolve_detection_incident *)

BeginClose(a, d) ==
  /\ resolver[a].at = "idle" /\ state[d] = "open"
  /\ closes < MaxCloses /\ closes' = closes + 1
  /\ resolver' = [resolver EXCEPT ![a] = [Unasked EXCEPT !.at = "get", !.det = d]]
  /\ UNCHANGED <<alertVars, mailer, state, incident, pdKey, excuse, notifyFaults>>

\* Fault: the key is taken out when it is read.
LookedUpTaken(d) == [pdKey EXCEPT ![d] = "none"]
LookedUp(d) == pdKey

GetKey(a) ==
  LET d == resolver[a].det IN
  /\ resolver[a].at = "get" /\ pdKey' = LookedUp(d)
  /\ resolver' = [resolver EXCEPT ![a].key = pdKey[d],
                                  ![a].at = IF pdKey[d] = "none" THEN "commit" ELSE "post"]
  /\ excuse' = IF pdKey[d] = "none" /\ \E w \in Notifiers :
                     mailer[w].at = "store" /\ mailer[w].det = d
               THEN [excuse EXCEPT ![d] = @ \cup {"late"}] ELSE excuse
  /\ UNCHANGED <<alertVars, mailer, state, incident, closes, notifyFaults>>

\* PagerDuty accepts a resolve event for a key it does not know, and ignores it.
PostResolve(a, answer) ==
  LET d == resolver[a].det
      closed == answer # "refused" /\ resolver[a].key = "dedup" IN
  /\ resolver[a].at = "post"
  /\ IF answer = "ok" THEN UNCHANGED notifyFaults ELSE Fault
  /\ incident' = IF closed THEN [incident EXCEPT ![d] = "resolved"] ELSE incident
  /\ excuse' = IF closed THEN [excuse EXCEPT ![d] = {}]
               ELSE IF answer = "refused" THEN [excuse EXCEPT ![d] = @ \cup {"refused"}]
               ELSE excuse
  /\ resolver' = [resolver EXCEPT ![a].at = IF answer = "ok" THEN "delete" ELSE "commit"]
  /\ UNCHANGED <<alertVars, mailer, state, pdKey, closes>>

DeleteKey(a) ==
  /\ resolver[a].at = "delete" /\ pdKey' = [pdKey EXCEPT ![resolver[a].det] = "none"]
  /\ resolver' = [resolver EXCEPT ![a].at = "commit"]
  /\ UNCHANGED <<alertVars, mailer, state, incident, excuse, closes, notifyFaults>>

\* The request ends: its transaction commits, or log_action raises.
CommitClose(a, ok) ==
  /\ resolver[a].at = "commit"
  /\ IF ok THEN UNCHANGED notifyFaults ELSE Fault
  /\ state' = IF ok THEN [state EXCEPT ![resolver[a].det] = "resolved"] ELSE state
  /\ resolver' = [resolver EXCEPT ![a] = Unasked]
  /\ UNCHANGED <<alertVars, mailer, incident, pdKey, excuse, closes>>

Reopen(d) ==
  /\ state[d] = "resolved" /\ closes < MaxCloses
  /\ closes' = closes + 1 /\ state' = [state EXCEPT ![d] = "open"]
  /\ UNCHANGED <<alertVars, mailer, incident, pdKey, resolver, excuse, notifyFaults>>

\* _auto_resolve_from_events and the posture assessment do not ask PagerDuty.
PipelineCloses(d) ==
  /\ state[d] = "open" /\ closes < MaxCloses
  /\ closes' = closes + 1 /\ state' = [state EXCEPT ![d] = "resolved"]
  /\ excuse' = [excuse EXCEPT ![d] = @ \cup {"unasked"}]
  /\ UNCHANGED <<alertVars, mailer, incident, pdKey, resolver, notifyFaults>>

NotifyAnswers == {"ok", "refused", "unanswered"}

NextNotify ==
  \/ \E w \in Notifiers :
       \/ \E d \in Raised : TakeAlert(w, d)
       \/ Claim(w) \/ Route(w) \/ FailAlert(w) \/ LoseNotifier(w)
       \/ \E answer \in NotifyAnswers : Post(w, answer)
       \/ \E ok \in BOOLEAN : StoreKey(w, ok)
  \/ NextHour \/ \E key \in claimed : Expire(key)
  \/ \E a \in Responders :
       \/ \E d \in Raised : BeginClose(a, d)
       \/ GetKey(a) \/ DeleteKey(a)
       \/ \E answer \in NotifyAnswers : PostResolve(a, answer)
       \/ \E ok \in BOOLEAN : CommitClose(a, ok)
  \/ \E d \in Raised : Reopen(d) \/ PipelineCloses(d)

SpecNotify == InitNotify /\ [][NextNotify]_notifyVars

-----------------------------------------------------------------------------
Hours == 0..MaxHour

\* Types.
NotifyTypeOK ==
  /\ hour \in Hours /\ claimed \subseteq Range(SubjectOf) \X Hours
  /\ \A d \in Raised : alertTask[d].queued >= 0 /\ alertTask[d].tries \in 0..NotifyRetries
  /\ \A w \in Notifiers : mailer[w].at \in {"idle", "claim", "route", "send", "store"}
  /\ told \subseteq Channels \X (Range(SubjectOf) \X Hours) /\ toldTwice \subseteq told
  /\ state \in [Raised -> {"open", "resolved"}]
  /\ incident \in [Raised -> {"none", "triggered", "resolved"}]
  /\ pdKey \in [Raised -> {"none", "dedup", "routing"}]
  /\ \A a \in Responders : resolver[a].at \in {"idle", "get", "post", "delete", "commit"}

\* However often its task is retried or delivered again, and whichever detections
\* share a rule, an actor and an org, a channel gets one alert of them per hour.
AtMostOneAlert == toldTwice = {}

Attended(d) ==
  \/ \E w \in Notifiers : mailer[w].det = d
  \/ \E a \in Responders : resolver[a].det = d

\* The incident of a resolved detection stays open only if the alert came after
\* the request looked for its key, the key could not be stored, PagerDuty refused,
\* nobody asked, or a configuration of its own opened it.
OpenIncidentExplained ==
  \A d \in Raised :
    state[d] = "resolved" /\ incident[d] = "triggered" /\ ~Attended(d) => excuse[d] # {}

\* An open incident keeps its key until a resolve event is accepted: a refused one
\* can be repeated by reopening the detection and resolving it again.  (Not so for an
\* incident of a configuration: the event that names its routing key is accepted and
\* ignored, and the key is deleted.)
OpenIncidentKeepsKey ==
  \A d \in Raised :
    incident[d] = "triggered" /\ ~Attended(d) /\ excuse[d] \cap {"late", "unstored", "legacy"} = {} =>
      pdKey[d] # "none"

\* docs/security-and-deployment.md:633 ("guaranteeing at-least-one notification per
\* detection firing"): when the tasks of the detections are done, each subject that
\* has a route was told about on some channel.
AtLeastOneAlert ==
  \A d \in Raised :
    (\A e \in Raised : SubjectOf[e] = SubjectOf[d] =>
        alertTask[e].queued = 0 /\ \A w \in Notifiers : mailer[w].det # e) /\ Routes(d) # {}
      => \E t \in told : t[2][1] = SubjectOf[d]
=============================================================================
