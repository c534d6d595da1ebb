----------------------------- MODULE ThreatIntel ----------------------------
(***************************************************************************)
(* A threat intelligence feed, the rules made from it, and the search for  *)
(* what it names, among new events and old ones:                           *)
(*   - refresh_threat_intel_feeds_task (workers/threat_intel_worker.py)    *)
(*     and fetch_feed_indicators (services/threat_intel_service.py) commit *)
(*     the indicators, then a rule for each of their types, then queue     *)
(*     retro_scan_campaign_task;                                           *)
(*   - the retro scan (workers/retro_scan_worker.py) walks the stored      *)
(*     events by id, a transaction per batch;                              *)
(*   - the detection pipeline evaluates an event when it is ingested;      *)
(*   - analysts delete indicators, archive the campaign and promote it.    *)
(* One feed with one campaign and auto_rule_generation; batches of one     *)
(* event; events within the lookback of a scan.                            *)
(***************************************************************************)
EXTENDS Integers, FiniteSets, FiniteSetsExt

CONSTANTS
  Refreshers,   \* processes that may refresh the feed
  Scanners,     \* processes that may run a retro scan
  Indicators,
  KindOf,       \* indicator -> its indicator_type
  MaxEvent,     \* bound: events, their ids are 1..MaxEvent
  NamedBy,      \* event -> the indicator that matches it
  Edits,        \* bound: publications of the feed and requests of analysts
  IntelFaults   \* bound: steps that fail, processes lost; at most max_retries (2)

VARIABLES
  offered,   \* what the feed lists now
  due,       \* its refresh interval has passed
  known,     \* indicator -> its row: "absent", "active" or "deleted"
  source,    \* indicator type -> source of its rule: "none", "feed" or "promoted"
  on,        \* indicator type -> the rule is enabled
  archived,  \* the campaign is
  refresher, \* process -> what it does
  scans,     \* retro scans queued
  scanner,   \* process -> what it does
  live,      \* event -> where its ingestion and its detection task are
  retro,     \* event -> detections that retro scans committed
  caught,    \* events whose detection task committed a detection
  missed,    \* history: indicators that were made active without a scan behind them
  overlapped,\* history: events that two scans evaluated before either committed
  edits, intelFaults

intelVars == <<offered, due, known, source, on, archived, refresher, scans, scanner, live,
               retro, caught, missed, overlapped, edits, intelFaults>>
feedVars == <<offered, due, known, source, on, archived, refresher, edits>>
foundVars == <<scanner, live, retro, caught, overlapped>>

EventIds == 1..MaxEvent

ASSUME IntelAssumption ==
  /\ MaxEvent \in Nat /\ NamedBy \in [EventIds -> Indicators]
  /\ Edits \in Nat /\ IntelFaults \in 0..2

Kinds == {KindOf[i] : i \in Indicators}
KindOfEvent(e) == KindOf[NamedBy[e]]

Still == [at |-> "idle", content |-> {}, new |-> {}]
NoScan == [at |-> "idle", rules |-> {}, last |-> 0, hit |-> 0]

InitIntel ==
  /\ offered = {} /\ due = TRUE /\ known = [i \in Indicators |-> "absent"]
  /\ source = [k \in Kinds |-> "none"] /\ on = [k \in Kinds |-> FALSE] /\ archived = FALSE
  /\ refresher = [w \in Refreshers |-> Still] /\ scans = 0
  /\ scanner = [s \in Scanners |-> NoScan]
  /\ live = [e \in EventIds |-> "absent"] /\ retro = [e \in EventIds |-> 0] /\ caught = {}
  /\ missed = {} /\ overlapped = {} /\ edits = 0 /\ intelFaults = 0

Edit == edits < Edits /\ edits' = edits + 1
Faulty == intelFaults < IntelFaults /\ intelFaults' = intelFaults + 1

-----------------------------------------------------------------------------
(* The feed *)

Publish(i) ==
  /\ i \notin offered /\ Edit /\ offered' = offered \cup {i}
  /\ UNCHANGED <<due, known, source, on, archived, refresher, scans, foundVars, missed, intelFaults>>

IntervalPasses ==
  /\ ~due /\ offered # {} /\ due' = TRUE
  /\ UNCHANGED <<offered, known, source, on, archived, refresher, edits, scans, foundVars,
                 missed, intelFaults>>

\* The feed is due; its GET answers, or fails and its row says so.
StartRefresh(w) ==
  /\ refresher[w].at = "idle" /\ due /\ offered # {}
  /\ refresher' = [refresher EXCEPT ![w] = [Still EXCEPT !.at = "upsert", !.content = offered]]
  /\ UNCHANGED <<offered, due, known, source, on, archived, edits, scans, foundVars, missed,
                 intelFaults>>

\* INSERT ... ON CONFLICT DO UPDATE SET active = TRUE, and a COMMIT with
\* last_fetched_at.  Only rows that were inserted count as new: a row that was
\* deleted is active again, with no scan to follow.
UpsertIndicators(w) ==
  LET content == refresher[w].content
      new == {i \in content : known[i] = "absent"} IN
  /\ refresher[w].at = "upsert" /\ due' = FALSE
  /\ known' = [i \in Indicators |-> IF i \in content THEN "active" ELSE known[i]]
  /\ missed' = missed \cup {i \in content : known[i] = "deleted"}
  /\ refresher' = [refresher EXCEPT ![w] = IF new = {} THEN Still
                                           ELSE [@ EXCEPT !.at = "synthesize", !.new = new]]
  /\ UNCHANGED <<offered, source, on, archived, edits, scans, foundVars, intelFaults>>

\* synthesize_rules_for_campaign: a rule for each type of the content.  One that
\* exists is only re-enabled if it had expired.
SynthesizeRules(w) ==
  LET made == {KindOf[i] : i \in refresher[w].content} \cap {k \in Kinds : source[k] = "none"} IN
  /\ refresher[w].at = "synthesize"
  /\ source' = [k \in Kinds |-> IF k \in made THEN "feed" ELSE source[k]]
  /\ on' = [k \in Kinds |-> on[k] \/ k \in made]
  /\ refresher' = [refresher EXCEPT ![w].at = "queue"]
  /\ UNCHANGED <<offered, due, known, archived, edits, scans, foundVars, missed, intelFaults>>

QueueScan(w) ==
  /\ refresher[w].at = "queue" /\ scans' = scans + 1
  /\ refresher' = [refresher EXCEPT ![w] = Still]
  /\ UNCHANGED <<offered, due, known, source, on, archived, edits, foundVars, missed, intelFaults>>

\* A step raises or the process is lost.  Before the first COMMIT nothing is kept
\* (the row may say "error" and wait for the interval); after it the indicators
\* are, and the next refresh does not find them new.
FailRefresh(w, waits) ==
  /\ refresher[w].at # "idle" /\ Faulty
  /\ due' = (due /\ ~waits)
  /\ missed' = missed \cup refresher[w].new
  /\ refresher' = [refresher EXCEPT ![w] = Still]
  /\ UNCHANGED <<offered, known, source, on, archived, edits, scans, foundVars>>

-----------------------------------------------------------------------------
(* Analysts *)

DeleteIndicator(i) ==
  /\ known[i] = "active" /\ Edit /\ known' = [known EXCEPT ![i] = "deleted"]
  /\ UNCHANGED <<offered, due, source, on, archived, refresher, scans, foundVars, missed, intelFaults>>

ArchiveCampaign ==
  /\ ~archived /\ \E k \in Kinds : source[k] # "none"
  /\ Edit /\ archived' = TRUE
  /\ on' = [k \in Kinds |-> on[k] /\ source[k] # "feed"]
  /\ UNCHANGED <<offered, due, known, source, refresher, scans, foundVars, missed, intelFaults>>

PromoteRules ==
  /\ \E k \in Kinds : source[k] = "feed"
  /\ Edit /\ source' = [k \in Kinds |-> IF source[k] = "feed" THEN "promoted" ELSE source[k]]
  /\ UNCHANGED <<offered, due, known, on, archived, refresher, scans, foundVars, missed, intelFaults>>

-----------------------------------------------------------------------------
(* Events and their detection task (run_detection_pipeline) *)

\* Events need not commit in the order of their ids.
Ingest(e) ==
  /\ live[e] = "absent" /\ live' = [live EXCEPT ![e] = "queued"]
  /\ UNCHANGED <<feedVars, scans, scanner, retro, caught, missed, overlapped, intelFaults>>

LoadRules(e) ==
  /\ live[e] = "queued"
  /\ live' = [live EXCEPT ![e] = IF on[KindOfEvent(e)] THEN "evaluate" ELSE "done"]
  /\ UNCHANGED <<feedVars, scans, scanner, retro, caught, missed, overlapped, intelFaults>>

Evaluate(e) ==
  /\ live[e] = "evaluate"
  /\ live' = [live EXCEPT ![e] = IF known[NamedBy[e]] = "active" THEN "write" ELSE "done"]
  /\ UNCHANGED <<feedVars, scans, scanner, retro, caught, missed, overlapped, intelFaults>>

CommitDetection(e) ==
  /\ live[e] = "write" /\ live' = [live EXCEPT ![e] = "done"] /\ caught' = caught \cup {e}
  /\ UNCHANGED <<feedVars, scans, scanner, retro, missed, overlapped, intelFaults>>

-----------------------------------------------------------------------------
(* _retro_scan *)

\* _load_campaign_rules: enabled rules that are still the feed's; with none the
\* task ends.
StartScan(s) ==
  LET rules == {k \in Kinds : on[k] /\ source[k] = "feed"} IN
  /\ scanner[s].at = "idle" /\ scans > 0 /\ scans' = scans - 1
  /\ scanner' = [scanner EXCEPT ![s] =
       IF rules = {} THEN NoScan ELSE [NoScan EXCEPT !.at = "fetch", !.rules = rules]]
  /\ UNCHANGED <<feedVars, live, retro, caught, missed, overlapped, intelFaults>>

\* _fetch_event_batch.  Fault: off by one.
BeyondNext(s) == {e \in EventIds : live[e] # "absent" /\ e > scanner[s].last + 1}
Beyond(s) == {e \in EventIds : live[e] # "absent" /\ e > scanner[s].last}

\* _detection_exists.  Fault: only detections of the pipeline count.
DetectionExistsLive(e) == e \in caught
DetectionExists(e) == e \in caught \/ retro[e] > 0

ScanBatch(s) ==
  LET e == Min(Beyond(s))
      hit == KindOfEvent(e) \in scanner[s].rules /\ known[NamedBy[e]] = "active"
               /\ ~DetectionExists(e) IN
  /\ scanner[s].at = "fetch" /\ Beyond(s) # {}
  /\ scanner' = [scanner EXCEPT ![s].at = "commit", ![s].last = e,
                                ![s].hit = IF hit THEN e ELSE 0]
  /\ overlapped' = IF hit /\ \E t \in Scanners : scanner[t].hit = e
                   THEN overlapped \cup {e} ELSE overlapped
  /\ UNCHANGED <<feedVars, scans, live, retro, caught, missed, intelFaults>>

CommitBatch(s) ==
  LET e == scanner[s].hit IN
  /\ scanner[s].at = "commit"
  /\ retro' = IF e = 0 THEN retro ELSE [retro EXCEPT ![e] = @ + 1]
  /\ scanner' = [scanner EXCEPT ![s].at = "fetch", ![s].hit = 0]
  /\ UNCHANGED <<feedVars, scans, live, caught, missed, overlapped, intelFaults>>

EndScan(s) ==
  /\ scanner[s].at = "fetch" /\ Beyond(s) = {}
  /\ scanner' = [scanner EXCEPT ![s] = NoScan]
  /\ UNCHANGED <<feedVars, scans, live, retro, caught, missed, overlapped, intelFaults>>

\* The task raises and is retried, or its process is lost and it is delivered again:
\* it starts over.
FailScan(s) ==
  /\ scanner[s].at # "idle" /\ Faulty
  /\ scanner' = [scanner EXCEPT ![s] = NoScan] /\ scans' = scans + 1
  /\ UNCHANGED <<feedVars, live, retro, caught, missed, overlapped>>

NextIntel ==
  \/ \E i \in Indicators : Publish(i) \/ DeleteIndicator(i)
  \/ IntervalPasses \/ ArchiveCampaign \/ PromoteRules
  \/ \E w \in Refreshers :
       \/ StartRefresh(w) \/ UpsertIndicators(w) \/ SynthesizeRules(w) \/ QueueScan(w)
       \/ \E waits \in BOOLEAN : FailRefresh(w, waits)
  \/ \E e \in EventIds : Ingest(e) \/ LoadRules(e) \/ Evaluate(e) \/ CommitDetection(e)
  \/ \E s \in Scanners :
       StartScan(s) \/ ScanBatch(s) \/ CommitBatch(s) \/ EndScan(s) \/ FailScan(s)

SpecIntel == InitIntel /\ [][NextIntel]_intelVars

-----------------------------------------------------------------------------
\* Types.
IntelTypeOK ==
  /\ offered \subseteq Indicators /\ known \in [Indicators -> {"absent", "active", "deleted"}]
  /\ source \in [Kinds -> {"none", "feed", "promoted"}] /\ on \in [Kinds -> BOOLEAN]
  /\ \A w \in Refreshers : /\ refresher[w].at \in {"idle", "upsert", "synthesize", "queue"}
                           /\ refresher[w].new \subseteq refresher[w].content
  /\ \A s \in Scanners : /\ scanner[s].at \in {"idle", "fetch", "commit"}
                         /\ scanner[s].last \in 0..MaxEvent /\ scanner[s].hit \in 0..MaxEvent
  /\ live \in [EventIds -> {"absent", "queued", "evaluate", "write", "done"}]
  /\ \A e \in EventIds : retro[e] \in Nat
  /\ scans \in Nat /\ caught \cup overlapped \subseteq EventIds /\ missed \subseteq Indicators

QuietIntel ==
  /\ scans = 0 /\ \A w \in Refreshers : refresher[w].at = "idle"
  /\ \A s \in Scanners : scanner[s].at = "idle"

\* Whatever the order in which an event, its indicator and the rule are committed,
\* once the scans are done the event is detected, by its own task or by a scan:
\* nothing falls between the two.  (Not so for an indicator whose refresh failed
\* after it was committed, or that a refresh took back from its deletion.)
NothingFallsBetween ==
  QuietIntel => \A e \in EventIds :
    LET i == NamedBy[e] IN
    live[e] = "done" /\ known[i] = "active" /\ i \notin missed =>
      /\ source[KindOf[i]] # "none"
      /\ on[KindOf[i]] /\ source[KindOf[i]] = "feed" => DetectionExists(e)

\* Scans write one detection for an event, unless two of them looked for it before
\* either had committed.
RetroOnce == \A e \in EventIds \ overlapped : retro[e] <= 1

\* services/threat_intel_service.py:985 ("Archives deactivate feed-derived rules"):
\* an archived campaign has no enabled rule that is still the feed's.
ArchivedStaysOff == archived => \A k \in Kinds : ~(on[k] /\ source[k] = "feed")
=============================================================================
