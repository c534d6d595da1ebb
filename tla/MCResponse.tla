----------------------------- MODULE MCResponse -----------------------------
(***************************************************************************)
(* What follows a detection, and what else makes or closes one, on small   *)
(* instances: Automation, Notify, Digest, Posture and ThreatIntel.  A      *)
(* behaviour runs one of them (`part`) while the others rest in an initial *)
(* state, so that one run explores the sum of their state spaces.          *)
(***************************************************************************)
EXTENDS Automation, Notify, Digest, Posture, ThreatIntel
CONSTANT Parts
ASSUME ResponseParts ==
  Parts \subseteq {"automation", "notify", "digest", "posture", "intel"}
VARIABLE part
-----------------------------------------------------------------------------
\* Two targets, of which the second is of type repository_dispatch.
MCTargetOrder == <<"hook", "repo">>
MCMaxAttempts == [hook |-> 2, repo |-> 1]
MCPerMinute == [hook |-> 1, repo |-> 1]

\* Two detections of one rule and actor; a PagerDuty configuration takes the first, so
\* that the PagerDuty of the settings does not, and the catch-all the second.
MCSubjectOf == [d1 |-> "s", d2 |-> "s"]
MCConfigOrder == <<"page", "any">>
MCTypeOf == [page |-> "pagerduty", any |-> "teams"]
MCAccepts == {<<"page", "d1">>, <<"any", "d2">>}

\* Three dedup keys, of which one starts with another.
MCKeyOrder == <<"web", "api", "api2">>
MCPairOrder == <<"api", "api2">>
MCCovers == [api |-> {"api", "api2"}, api2 |-> {"api2"}, web |-> {"web"}]

\* An address and an actor of the feed, each named by one event.
MCKindOf == [i1 |-> "ip", i2 |-> "actor"]
MCNamedBy == <<"i1", "i2">>
-----------------------------------------------------------------------------
InitResponse ==
  /\ part \in Parts
  /\ InitSend /\ InitNotify /\ InitDigest /\ InitPosture /\ InitIntel
  /\ part # "posture" => setting = [k \in Keys |-> "secure"]

NextResponse ==
  /\ UNCHANGED part
  /\ \/ /\ part = "automation" /\ NextSend
        /\ UNCHANGED <<notifyVars, digestVars, postureVars, intelVars>>
     \/ /\ part = "notify" /\ NextNotify
        /\ UNCHANGED <<sendVars, digestVars, postureVars, intelVars>>
     \/ /\ part = "digest" /\ NextDigest
        /\ UNCHANGED <<sendVars, notifyVars, postureVars, intelVars>>
     \/ /\ part = "posture" /\ NextPosture
        /\ UNCHANGED <<sendVars, notifyVars, digestVars, intelVars>>
     \/ /\ part = "intel" /\ NextIntel
        /\ UNCHANGED <<sendVars, notifyVars, digestVars, postureVars>>

responseVars == <<part, sendVars, notifyVars, digestVars, postureVars, intelVars>>
SpecResponse == InitResponse /\ [][NextResponse]_responseVars

\* The variables of the five modules keep their shapes: delivery rows and detection
\* rows have a status their CHECK constraints allow, attempts stay in bounds.
ResponseTypeOK ==
  CASE part = "automation" -> SendTypeOK [] part = "notify" -> NotifyTypeOK
    [] part = "digest" -> DigestTypeOK [] part = "posture" -> PostureTypeOK
    [] part = "intel" -> IntelTypeOK
=============================================================================
