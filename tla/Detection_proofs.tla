-------------------------- MODULE Detection_proofs --------------------------
(***************************************************************************)
(* Proofs about DetectionPipeline for every pool, batch, rule set, window, *)
(* number of faults and of analyst changes: its types, that what is        *)
(* published is committed, that the active detections of a rule and key    *)
(* are at most one per process, and that no threshold crossing is missed.  *)
(***************************************************************************)
EXTENDS DetectionPipeline, FiniteSetTheorems, TLAPS
-----------------------------------------------------------------------------
(* Types *)

\* Where a process is in the loop over the rules, and after it.
Loop == {"rule", "find", "save"}
After == {"remedies", "resolve", "commit"}
Pcs == {"idle", "fetch"} \cup Loop \cup After \cup Channels
Txs == {"none", "open", "aborted", "broken"}

\* Detections by their id, as the table and the overlay of a transaction hold them.
Maps == UNION {[S -> Rows] : S \in SUBSET DetIds}
Hits == [hit : Events \cup Keys \cup {NoDet}, id : DetIds \cup {NoDet}, events : SUBSET Events]

BrokerT ==
  /\ clock \in Nat
  /\ task \in [Tasks -> {"unsent", "queued", "running", "done", "failed"}]
  /\ retries \in [Tasks -> 0..MaxRetries] /\ tries \in [Tasks -> Nat]
ProcT ==
  /\ job \in [Workers -> Tasks \cup {NoTask}] /\ pc \in [Workers -> Pcs]
  /\ tx \in [Workers -> Txs] /\ began \in [Workers -> Nat] /\ idx \in [Workers -> Nat]
WorkT ==
  /\ hits \in [Workers -> SUBSET (Events \cup Keys)] /\ found \in [Workers -> Hits]
  /\ ids \in [Workers -> SUBSET DetIds] /\ failed \in [Workers -> SUBSET RuleNames]
  /\ goal \in [Workers -> SUBSET DetIds]
EditT == edits \in [Workers -> Maps]
TableT ==
  /\ det \in Maps /\ sent \subseteq DetIds /\ written \subseteq DetIds
  /\ dropped \subseteq RuleNames
  /\ crashes \in Nat /\ errors \in Nat /\ triaged \in Nat
Types == BrokerT /\ ProcT /\ WorkT /\ EditT /\ TableT

\* Pattern rules hit events, the others aggregation keys.
HitRange(r) == IF Kind[r] = "pattern" THEN Events ELSE Keys

\* What the transaction of a process and its locals say at each call ...
PlaceOf(w) ==
  /\ pc[w] # "idle" => job[w] \in Tasks /\ task[job[w]] = "running"
  /\ pc[w] \in {"idle", "fetch"} => ids[w] = {} /\ failed[w] = {}
  /\ pc[w] \in {"idle", "fetch"} \cup Channels => tx[w] = "none"
  /\ pc[w] \in Loop \cup After => tx[w] # "none"
  /\ pc[w] \in {"find", "save", "resolve"} => tx[w] = "open"
  /\ tx[w] # "open" => DOMAIN edits[w] = {}
  /\ pc[w] \in Loop => idx[w] \in 1..Len(Rules)
  /\ pc[w] \in After => idx[w] = Len(Rules) + 1
  /\ pc[w] \in {"find", "save"} => hits[w] \subseteq HitRange(Rules[idx[w]])
  /\ pc[w] = "save" => found[w].hit \in hits[w]

\* ... and the broker gives a batch to one process at a time.
OneRunner ==
  \A w, u \in Workers : w # u /\ pc[w] # "idle" /\ pc[u] # "idle" => job[w] # job[u]
Places == (\A w \in Workers : PlaceOf(w)) /\ OneRunner

\* A step of a process.
Act(w) == Step(w) \/ Raises(w) \/ CallFails(w) \/ Crash(w)
\* The variables of another process.
Kept(u) ==
  /\ job'[u] = job[u] /\ pc'[u] = pc[u] /\ tx'[u] = tx[u] /\ began'[u] = began[u]
  /\ idx'[u] = idx[u] /\ hits'[u] = hits[u] /\ found'[u] = found[u] /\ edits'[u] = edits[u]
  /\ ids'[u] = ids[u] /\ failed'[u] = failed[u] /\ goal'[u] = goal[u]

LEMMA MapIs ==
  ASSUME NEW m \in Maps
  PROVE  /\ DOMAIN m \subseteq DetIds /\ \A d \in DOMAIN m : m[d] \in Rows
         /\ m = [d \in DOMAIN m |-> m[d]]
  BY DEF Maps

\* The overlay of two maps is a map (what a transaction sees, and what it commits).
LEMMA OverlayIs ==
  ASSUME NEW m \in Maps, NEW n \in Maps
  PROVE  /\ Overlay(m, n) \in Maps /\ DOMAIN Overlay(m, n) = DOMAIN m \cup DOMAIN n
         /\ \A d \in DOMAIN m : Overlay(m, n)[d] = m[d]
         /\ \A d \in DOMAIN n \ DOMAIN m : Overlay(m, n)[d] = n[d]
  <1>1. DOMAIN m \cup DOMAIN n \in SUBSET DetIds
    BY MapIs
  <1>2. \A d \in DOMAIN m \cup DOMAIN n : (IF d \in DOMAIN m THEN m[d] ELSE n[d]) \in Rows
    BY MapIs
  <1>3. Overlay(m, n) \in [DOMAIN m \cup DOMAIN n -> Rows]
    BY <1>2 DEF Overlay
  <1>4. Overlay(m, n) \in Maps
    BY <1>1, <1>3 DEF Maps
  <1>5. QED
    BY <1>4 DEF Overlay

LEMMA SingletonIs ==
  ASSUME NEW d \in DetIds, NEW row \in Rows
  PROVE  [x \in {d} |-> row] \in Maps
  <1>1. {d} \in SUBSET DetIds
    OBVIOUS
  <1>2. [x \in {d} |-> row] \in [{d} -> Rows]
    OBVIOUS
  <1>3. QED
    BY <1>1, <1>2 DEF Maps

LEMMA NothingIs == Nothing \in Maps /\ DOMAIN Nothing = {}
  <1>1. Nothing \in [{} -> Rows]
    BY DEF Nothing
  <1>2. QED
    BY <1>1 DEF Maps, Nothing

\* An INSERT or UPDATE adds a row to the overlay of its transaction.
LEMMA PutIs ==
  ASSUME EditT, NEW w \in Workers, NEW d \in DetIds, NEW row \in Rows, Put(w, d, row)
  PROVE  /\ EditT' /\ \A u \in Workers \ {w} : edits'[u] = edits[u]
         /\ DOMAIN edits'[w] = DOMAIN edits[w] \cup {d} /\ edits'[w][d] = row
         /\ \A x \in DOMAIN edits[w] \ {d} : edits'[w][x] = edits[w][x]
  <1> DEFINE one == [x \in {d} |-> row]
  <1>1. one \in Maps /\ DOMAIN one = {d} /\ one[d] = row
    BY SingletonIs
  <1>2. edits[w] \in Maps
    BY DEF EditT
  <1>3. edits' = [edits EXCEPT ![w] = Overlay(one, edits[w])]
    BY DEF Put
  <1> HIDE DEF one
  <1>4. /\ Overlay(one, edits[w]) \in Maps
        /\ DOMAIN Overlay(one, edits[w]) = DOMAIN edits[w] \cup {d}
        /\ Overlay(one, edits[w])[d] = row
        /\ \A x \in DOMAIN edits[w] \ {d} : Overlay(one, edits[w])[x] = edits[w][x]
    BY <1>1, <1>2, OverlayIs
  <1>5. QED
    BY <1>3, <1>4 DEF EditT

\* What a statement of a transaction reads.
LEMMA SeenIs ==
  ASSUME EditT, TableT, NEW w \in Workers
  PROVE  /\ Seen(w) \in Maps /\ DOMAIN Seen(w) = DOMAIN edits[w] \cup DOMAIN det
         /\ \A d \in DOMAIN edits[w] : Seen(w)[d] = edits[w][d]
         /\ \A d \in DOMAIN det \ DOMAIN edits[w] : Seen(w)[d] = det[d]
         /\ \A d \in DOMAIN Seen(w) : d \in DetIds /\ Seen(w)[d] \in Rows
  <1>1. edits[w] \in Maps /\ det \in Maps
    BY DEF EditT, TableT
  <1>2. /\ Seen(w) \in Maps /\ DOMAIN Seen(w) = DOMAIN edits[w] \cup DOMAIN det
        /\ \A d \in DOMAIN edits[w] : Seen(w)[d] = edits[w][d]
        /\ \A d \in DOMAIN det \ DOMAIN edits[w] : Seen(w)[d] = det[d]
    <2>1. Seen(w) = Overlay(edits[w], det)
      BY DEF Seen
    <2>2. ASSUME NEW m \in Maps, NEW n \in Maps
          PROVE  /\ Overlay(m, n) \in Maps /\ DOMAIN Overlay(m, n) = DOMAIN m \cup DOMAIN n
                 /\ \A d \in DOMAIN m : Overlay(m, n)[d] = m[d]
                 /\ \A d \in DOMAIN n \ DOMAIN m : Overlay(m, n)[d] = n[d]
      BY OverlayIs
    <2> DEFINE m == edits[w]
    <2>3. Seen(w) = Overlay(m, det) /\ m \in Maps
      BY <1>1, <2>1
    <2>4. /\ Seen(w) \in Maps
          /\ DOMAIN Seen(w) = DOMAIN m \cup DOMAIN det
          /\ \A d \in DOMAIN m : Seen(w)[d] = m[d]
          /\ \A d \in DOMAIN det \ DOMAIN m : Seen(w)[d] = det[d]
      <3> HIDE DEF m
      <3>1. QED
        BY <1>1, <2>2, <2>3
    <2>5. QED
      BY <2>4
  <1>3. QED
    BY <1>2, MapIs

\* The rows that the statements write have the shape of a row.
LEMMA NewRow ==
  ASSUME NEW events \in SUBSET Events, NEW at \in Nat
  PROVE  [events |-> events, status |-> "open", at |-> at, by |-> "", reopened |-> FALSE] \in Rows
  <1> DEFINE none == ""
  <1>1. none \in {none, "system", "analyst"}
    OBVIOUS
  <1>2. Rows = [events : SUBSET Events, status : Statuses, at : Nat,
                by : {none, "system", "analyst"}, reopened : BOOLEAN]
    BY Zenon DEF Rows
  <1> HIDE DEF none
  <1>3. [events |-> events, status |-> "open", at |-> at, by |-> none, reopened |-> FALSE] \in Rows
    BY <1>1, <1>2 DEF Statuses
  <1>4. QED
    BY <1>3, Zenon DEF none

LEMMA ChangedRow ==
  ASSUME NEW row \in Rows, NEW events \in SUBSET Events
  PROVE  /\ [row EXCEPT !.events = events] \in Rows
         /\ [row EXCEPT !.status = "resolved", !.by = "system"] \in Rows
         /\ [row EXCEPT !.events = events].at = row.at
         /\ [row EXCEPT !.events = events].status = row.status
         /\ [row EXCEPT !.events = events].reopened = row.reopened
         /\ [row EXCEPT !.status = "resolved", !.by = "system"].at = row.at
         /\ [row EXCEPT !.status = "resolved", !.by = "system"].reopened = row.reopened
         /\ [row EXCEPT !.status = "resolved", !.by = "system"].status = "resolved"
  <1> DEFINE By == {"", "system", "analyst"}
  <1>1. Rows = [events : SUBSET Events, status : Statuses, at : Nat, by : By, reopened : BOOLEAN]
    BY Zenon DEF Rows
  <1>2. "system" \in By
    OBVIOUS
  <1> HIDE DEF By
  <1>3. QED
    BY <1>1, <1>2 DEF Statuses

-----------------------------------------------------------------------------
(* What a step leaves alone *)

LEMMA LeaveIs ==
  ASSUME ProcT, WorkT, EditT, NEW w \in Workers, Leave(w)
  PROVE  /\ ProcT' /\ WorkT' /\ EditT' /\ \A u \in Workers \ {w} : Kept(u)
         /\ pc'[w] = "idle" /\ tx'[w] = "none" /\ DOMAIN edits'[w] = {}
         /\ ids'[w] = {} /\ failed'[w] = {} /\ hits'[w] = {} /\ goal'[w] = {}
  <1>1. NotFound \in Hits
    BY DEF NotFound, Hits
  <1>2. ProcT'
    BY DEF Leave, ProcT, Pcs, Txs
  <1>3. WorkT'
    BY <1>1 DEF Leave, WorkT
  <1>4. edits' = [edits EXCEPT ![w] = Nothing]
    BY DEF Leave
  <1>5. EditT' /\ edits'[w] = Nothing /\ DOMAIN edits'[w] = {}
    BY <1>4, NothingIs DEF EditT
  <1>6. \A u \in Workers \ {w} : edits'[u] = edits[u]
    BY <1>4 DEF EditT
  <1>7. \A u \in Workers \ {w} : Kept(u)
    BY <1>6 DEF Leave, Kept, ProcT, WorkT
  <1>8. /\ pc'[w] = "idle" /\ tx'[w] = "none"
        /\ ids'[w] = {} /\ failed'[w] = {} /\ hits'[w] = {} /\ goal'[w] = {}
    BY DEF Leave, ProcT, WorkT
  <1>9. QED
    BY <1>2, <1>3, <1>5, <1>7, <1>8

\* The loop goes on.
LEMMA NextRuleIs ==
  ASSUME ProcT, WorkT, NEW w \in Workers, NextRule(w), pc[w] \in Loop, PlaceOf(w)
  PROVE  /\ idx' \in [Workers -> Nat] /\ pc' \in [Workers -> Pcs]
         /\ hits' \in [Workers -> SUBSET (Events \cup Keys)] /\ found' \in [Workers -> Hits]
         /\ idx'[w] = idx[w] + 1 /\ hits'[w] = {}
         /\ pc'[w] = IF idx[w] = Len(Rules) THEN "remedies" ELSE "rule"
         /\ \A u \in Workers \ {w} :
              idx'[u] = idx[u] /\ pc'[u] = pc[u] /\ hits'[u] = hits[u] /\ found'[u] = found[u]
  <1>1. NotFound \in Hits
    BY DEF NotFound, Hits
  <1>2. QED
    BY <1>1 DEF NextRule, ProcT, WorkT, Pcs, Loop, After

\* A rule in the loop is one of the active rules.
LEMMA CurrentRule ==
  ASSUME DetectionAssumption, NEW w \in Workers, PlaceOf(w), pc[w] \in Loop
  PROVE  /\ idx[w] \in 1..Len(Rules) /\ Rules[idx[w]] \in RuleNames /\ Len(Rules) \in Nat
         /\ job[w] \in Tasks /\ EventsOf[job[w]] \subseteq Events /\ Matching(w) \subseteq Events
  <1>1. EventsOf \in [Tasks -> SUBSET Events] /\ Rules \in Seq(STRING)
    BY DEF DetectionAssumption
  <1>2. QED
    BY <1>1 DEF PlaceOf, Loop, RuleNames, Matching

LEMMA RuleFailsIs ==
  ASSUME DetectionAssumption, ProcT, WorkT, NEW w \in Workers, RuleFails(w), pc[w] \in Loop, PlaceOf(w)
  PROVE  /\ failed' \in [Workers -> SUBSET RuleNames]
         /\ failed'[w] = failed[w] \cup {Rules[idx[w]]}
         /\ \A u \in Workers \ {w} : failed'[u] = failed[u]
         /\ NextRule(w)
  BY CurrentRule DEF RuleFails, WorkT

\* A hit is dealt with.
LEMMA HitDoneIs ==
  ASSUME ProcT, WorkT, NEW w \in Workers, NEW h \in hits[w], HitDone(w, h), pc[w] \in Loop, PlaceOf(w)
  PROVE  /\ idx' \in [Workers -> Nat] /\ pc' \in [Workers -> Pcs]
         /\ hits' \in [Workers -> SUBSET (Events \cup Keys)] /\ found' \in [Workers -> Hits]
         /\ \/ hits[w] = {h} /\ NextRule(w)
            \/ hits'[w] = hits[w] \ {h} /\ pc'[w] = "find" /\ idx'[w] = idx[w]
         /\ \A u \in Workers \ {w} :
              idx'[u] = idx[u] /\ pc'[u] = pc[u] /\ hits'[u] = hits[u] /\ found'[u] = found[u]
  <1>1. CASE hits[w] = {h}
    <2>1. NextRule(w)
      BY <1>1 DEF HitDone
    <2>2. QED
      BY <1>1, <2>1, NextRuleIs
  <1>2. CASE hits[w] # {h}
    <2>1. NotFound \in Hits
      BY DEF NotFound, Hits
    <2>2. QED
      BY <1>2, <2>1 DEF HitDone, ProcT, WorkT, Pcs, Loop
  <1>3. QED
    BY <1>1, <1>2

-----------------------------------------------------------------------------
(* Types and places, step by step *)

\* A step of w keeps types, the place of w, and the variables of the others.
Orderly(w) == Types' /\ PlaceOf(w)' /\ \A u \in Workers \ {w} : Kept(u)

LEMMA PickUpOrderly ==
  ASSUME Types, NEW w \in Workers, PlaceOf(w), NEW t \in Tasks, PickUp(w, t)
  PROVE  Orderly(w)
  <1>1. /\ task' = [task EXCEPT ![t] = "running"] /\ tries' = [tries EXCEPT ![t] = @ + 1]
        /\ job' = [job EXCEPT ![w] = t] /\ pc' = [pc EXCEPT ![w] = "fetch"]
        /\ pc[w] = "idle"
        /\ UNCHANGED <<clock, retries, tx, began, idx, hits, found, edits, ids, failed, goal,
                       det, sent, written, lossy, dropped, crashes, errors, triaged>>
    BY DEF PickUp, workVars, histVars, boundVars
  <1>2. Types'
    BY <1>1 DEF Types, BrokerT, ProcT, WorkT, EditT, TableT, Pcs
  <1>3. PlaceOf(w)'
    BY <1>1 DEF Types, BrokerT, ProcT, PlaceOf, Loop, After, Channels
  <1>4. QED
    BY <1>1, <1>2, <1>3 DEF Orderly, Kept, Types, ProcT

LEMMA FetchOrderly ==
  ASSUME DetectionAssumption, Types, NEW w \in Workers, PlaceOf(w), Fetch(w)
  PROVE  Orderly(w)
  <1>1. /\ pc[w] = "fetch" /\ pc' = [pc EXCEPT ![w] = IF Rules = <<>> THEN "commit" ELSE "rule"]
        /\ tx' = [tx EXCEPT ![w] = "open"] /\ began' = [began EXCEPT ![w] = clock]
        /\ idx' = [idx EXCEPT ![w] = 1]
        /\ UNCHANGED <<clock, task, retries, tries, job, hits, found, edits, ids, failed, goal,
                       det, sent, written, lossy, dropped, crashes, errors, triaged>>
    BY DEF Fetch, brokerVars, histVars, boundVars
  <1>2. Types'
    BY <1>1 DEF Types, BrokerT, ProcT, WorkT, EditT, TableT, Pcs, Txs, Loop, After
  <1>3. /\ Rules \in Seq(STRING) /\ Len(Rules) \in Nat /\ (Rules = <<>> <=> Len(Rules) = 0)
    BY DEF DetectionAssumption
  <1>4. PlaceOf(w)'
    <2>1. pc'[w] = (IF Rules = <<>> THEN "commit" ELSE "rule") /\ tx'[w] = "open" /\ idx'[w] = 1
      BY <1>1 DEF Types, ProcT
    <2>2. QED
      BY <1>1, <1>3, <2>1 DEF PlaceOf, Loop, After, Channels
  <1>5. QED
    BY <1>1, <1>2, <1>4 DEF Orderly, Kept, Types, ProcT

LEMMA HitsAre ==
  ASSUME DetectionAssumption, NEW w \in Workers, PlaceOf(w), pc[w] \in Loop
  PROVE  /\ HitsOf(w, Rules[idx[w]]) \subseteq HitRange(Rules[idx[w]])
         /\ HitRange(Rules[idx[w]]) \subseteq Events \cup Keys
  <1> DEFINE r == Rules[idx[w]]
  <1>1. r \in RuleNames /\ Matching(w) \subseteq Events
    BY CurrentRule
  <1>2. Kind[r] \in {"pattern", "threshold", "sequence"} /\ \A e \in Matching(w) : Key[e] \in Keys
    BY <1>1 DEF DetectionAssumption
  <1> HIDE DEF r
  <1>3. CASE Kind[r] = "pattern"
    BY <1>1, <1>3 DEF HitsOf, HitRange, r
  <1>4. CASE Kind[r] = "threshold"
    BY <1>2, <1>4 DEF HitsOf, HitRange, r
  <1>5. CASE Kind[r] = "sequence"
    BY <1>2, <1>5 DEF HitsOf, HitRange, r
  <1>6. QED
    BY <1>2, <1>3, <1>4, <1>5

LEMMA EvaluateOrderly ==
  ASSUME DetectionAssumption, Types, NEW w \in Workers, PlaceOf(w), Evaluate(w)
  PROVE  Orderly(w)
  <1> DEFINE h == HitsOf(w, Rules[idx[w]])
  <1>0. pc[w] = "rule" /\ pc[w] \in Loop /\ tx[w] = "open" /\ ProcT /\ WorkT
    BY DEF Evaluate, Loop, Types
  <1>1. UNCHANGED <<clock, task, retries, tries, job, tx, began, edits, ids, failed, goal,
                    det, sent, written, lossy, dropped, crashes, errors, triaged>>
    BY DEF Evaluate, brokerVars, histVars, boundVars
  <1>2. CASE h = {}
    <2>1. NextRule(w)
      BY <1>2 DEF Evaluate
    <2>2. Types'
      BY <1>0, <1>1, <2>1, NextRuleIs DEF Types, BrokerT, ProcT, WorkT, EditT, TableT
    <2>3. PlaceOf(w)'
      BY <1>0, <1>1, <2>1, NextRuleIs, CurrentRule DEF PlaceOf, Loop, After, Channels
    <2>4. QED
      BY <1>0, <1>1, <2>1, <2>2, <2>3, NextRuleIs DEF Orderly, Kept
  <1>3. CASE h # {}
    <2>1. /\ hits' = [hits EXCEPT ![w] = h] /\ pc' = [pc EXCEPT ![w] = "find"]
          /\ UNCHANGED <<idx, found>>
      BY <1>3 DEF Evaluate
    <2>2. h \subseteq Events \cup Keys /\ h \subseteq HitRange(Rules[idx[w]])
      BY <1>0, HitsAre
    <2> HIDE DEF h
    <2>3. Types'
      BY <1>1, <2>1, <2>2 DEF Types, BrokerT, ProcT, WorkT, EditT, TableT, Pcs, Loop
    <2>4. PlaceOf(w)'
      <3>1. hits'[w] = h /\ pc'[w] = "find" /\ idx'[w] = idx[w]
        BY <1>0, <2>1 DEF ProcT, WorkT
      <3>2. (HitRange(Rules[idx[w]]))' = HitRange(Rules[idx[w]])
        BY <2>1 DEF HitRange
      <3>3. QED
        BY <1>0, <1>1, <2>2, <3>1, <3>2 DEF PlaceOf, Loop, After, Channels
    <2>5. QED
      BY <1>0, <1>1, <2>1, <2>3, <2>4 DEF Orderly, Kept, ProcT, WorkT
  <1>4. QED
    BY <1>2, <1>3

\* The event_ids of what Find writes are events.
LEMMA EvidenceIs ==
  ASSUME DetectionAssumption, NEW w \in Workers, PlaceOf(w), pc[w] = "find", NEW h \in hits[w],
         NEW evs \in CASE Kind[Rules[idx[w]]] = "pattern"   -> {{h}}
                       [] Kind[Rules[idx[w]]] = "threshold" -> {Matching(w)}
                       [] Kind[Rules[idx[w]]] = "sequence"  ->
                            {{s[i] : i \in DOMAIN s} : s \in Sequences(Rules[idx[w]], h)}
  PROVE  evs \in SUBSET Events
  <1> DEFINE r == Rules[idx[w]]
  <1>0. pc[w] \in Loop
    BY DEF Loop
  <1>1. r \in RuleNames /\ Matching(w) \subseteq Events /\ h \in HitRange(r)
    BY <1>0, CurrentRule DEF PlaceOf
  <1>2. Kind[r] \in {"pattern", "threshold", "sequence"} /\ stored \subseteq Events
    BY <1>1 DEF DetectionAssumption, stored
  <1> HIDE DEF r
  <1>3. CASE Kind[r] = "pattern"
    BY <1>1, <1>3 DEF HitRange, r
  <1>4. CASE Kind[r] = "threshold"
    BY <1>1, <1>4 DEF r
  <1>5. CASE Kind[r] = "sequence"
    <2>1. PICK s \in Sequences(r, h) : evs = {s[i] : i \in DOMAIN s}
      BY <1>5 DEF r
    <2>2. \A i \in DOMAIN s : s[i] \in stored
      BY DEF Sequences
    <2>3. QED
      BY <1>2, <2>1, <2>2
  <1>6. QED
    BY <1>2, <1>3, <1>4, <1>5

\* Find stays in the loop: the hit ends, the rule fails, or there is something to write.
LEMMA FindIs ==
  ASSUME DetectionAssumption, Types, NEW w \in Workers, PlaceOf(w), Find(w)
  PROVE  /\ pc[w] = "find" /\ pc[w] \in Loop /\ tx[w] = "open" /\ ProcT /\ WorkT
         /\ UNCHANGED <<clock, task, retries, tries, job, tx, began, edits, ids, goal,
                        det, sent, written, lossy, dropped, crashes, errors, triaged>>
         /\ \/ /\ \E h \in hits[w] : HitDone(w, h) /\ NothingToWrite(w, Rules[idx[w]], h)
               /\ UNCHANGED failed
            \/ RuleFails(w)
            \/ /\ UNCHANGED <<idx, hits, failed>> /\ pc' = [pc EXCEPT ![w] = "save"]
               /\ \E h \in hits[w], d \in {NoDet} \cup DOMAIN Seen(w), evs \in SUBSET Events :
                    /\ found' = [found EXCEPT ![w] = [hit |-> h, id |-> d, events |-> evs]]
                    /\ \/ d = NoDet /\ Existing(w, Rules[idx[w]], HitKey(Rules[idx[w]], h)) = {}
                       \/ d \in Existing(w, Rules[idx[w]], HitKey(Rules[idx[w]], h))
  <1>1. /\ pc[w] = "find" /\ pc[w] \in Loop /\ tx[w] = "open" /\ ProcT /\ WorkT
        /\ UNCHANGED <<clock, task, retries, tries, job, tx, began, edits, ids, goal,
                       det, sent, written, lossy, dropped, crashes, errors, triaged>>
    BY DEF Find, brokerVars, histVars, boundVars, Loop, Types
  <1> DEFINE r == Rules[idx[w]]
  <1>2. PICK h \in hits[w] :
       \/ NothingToWrite(w, r, h) /\ HitDone(w, h) /\ UNCHANGED failed
       \/ ~NothingToWrite(w, r, h) /\ Ambiguous(w, r, h) /\ RuleFails(w)
       \/ /\ ~NothingToWrite(w, r, h) /\ ~Ambiguous(w, r, h)
          /\ \/ /\ Existing(w, r, HitKey(r, h)) = {}
                /\ \E evs \in CASE Kind[r] = "pattern"   -> {{h}}
                                [] Kind[r] = "threshold" -> {Matching(w)}
                                [] Kind[r] = "sequence"  -> {{s[i] : i \in DOMAIN s} : s \in Sequences(r, h)} :
                     found' = [found EXCEPT ![w] = [hit |-> h, id |-> NoDet, events |-> evs]]
             \/ \E d \in Existing(w, r, HitKey(r, h)) :
                  found' = [found EXCEPT ![w] =
                    [hit |-> h, id |-> d, events |-> Seen(w)[d].events \cup Matching(w)]]
          /\ pc' = [pc EXCEPT ![w] = "save"]
          /\ UNCHANGED <<idx, hits, failed>>
    BY DEF Find
  <1>3. Existing(w, r, HitKey(r, h)) \subseteq DOMAIN Seen(w)
    BY DEF Existing
  <1>4. \A d \in DOMAIN Seen(w) : Seen(w)[d].events \cup Matching(w) \in SUBSET Events
    <2>1. \A d \in DOMAIN Seen(w) : Seen(w)[d] \in Rows
      BY SeenIs DEF Types
    <2>2. Matching(w) \subseteq Events
      BY <1>1, CurrentRule
    <2>3. QED
      BY <2>1, <2>2 DEF Rows
  <1>5. CASE NothingToWrite(w, r, h) /\ HitDone(w, h) /\ UNCHANGED failed
    BY <1>1, <1>5
  <1>6. CASE RuleFails(w)
    BY <1>1, <1>6
  <1>7. CASE /\ ~NothingToWrite(w, r, h) /\ ~Ambiguous(w, r, h)
             /\ pc' = [pc EXCEPT ![w] = "save"] /\ UNCHANGED <<idx, hits, failed>>
    <2>1. CASE /\ Existing(w, r, HitKey(r, h)) = {}
               /\ \E evs \in CASE Kind[r] = "pattern"   -> {{h}}
                                [] Kind[r] = "threshold" -> {Matching(w)}
                                [] Kind[r] = "sequence"  -> {{s[i] : i \in DOMAIN s} : s \in Sequences(r, h)} :
                     found' = [found EXCEPT ![w] = [hit |-> h, id |-> NoDet, events |-> evs]]
      BY <1>1, <1>7, <2>1, EvidenceIs
    <2>2. CASE \E d \in Existing(w, r, HitKey(r, h)) :
                  found' = [found EXCEPT ![w] =
                    [hit |-> h, id |-> d, events |-> Seen(w)[d].events \cup Matching(w)]]
      <3> HIDE DEF r
      <3>1. QED
        BY <1>1, <1>3, <1>4, <1>7, <2>2 DEF r
    <2>3. QED
      BY <1>2, <1>7, <2>1, <2>2
  <1>8. QED
    BY <1>2, <1>5, <1>6, <1>7

LEMMA FindOrderly ==
  ASSUME DetectionAssumption, Types, NEW w \in Workers, PlaceOf(w), Find(w)
  PROVE  Orderly(w)
  <1>0. /\ pc[w] = "find" /\ pc[w] \in Loop /\ tx[w] = "open" /\ ProcT /\ WorkT
        /\ UNCHANGED <<clock, task, retries, tries, job, tx, began, edits, ids, goal,
                       det, sent, written, lossy, dropped, crashes, errors, triaged>>
    BY FindIs
  <1>1. (HitRange(Rules[idx[w]]))' = HitRange(Rules[idx'[w]])
    BY DEF HitRange
  <1>2. ASSUME NEW h \in hits[w], HitDone(w, h), UNCHANGED failed PROVE Orderly(w)
    <2>1. Types'
      BY <1>0, <1>2, HitDoneIs DEF Types, BrokerT, ProcT, WorkT, EditT, TableT
    <2>2. PlaceOf(w)'
      <3>1. CASE hits[w] = {h} /\ NextRule(w)
        BY <1>0, <3>1, NextRuleIs, CurrentRule DEF PlaceOf, Loop, After, Channels
      <3>2. CASE hits'[w] = hits[w] \ {h} /\ pc'[w] = "find" /\ idx'[w] = idx[w]
        BY <1>0, <1>1, <3>2 DEF PlaceOf, Loop, After, Channels
      <3>3. QED
        BY <1>0, <1>2, <3>1, <3>2, HitDoneIs
    <2>3. QED
      BY <1>0, <1>2, <2>1, <2>2, HitDoneIs DEF Orderly, Kept
  <1>3. ASSUME RuleFails(w) PROVE Orderly(w)
    <2>1. Types'
      BY <1>0, <1>3, RuleFailsIs, NextRuleIs DEF Types, BrokerT, ProcT, WorkT, EditT, TableT
    <2>2. PlaceOf(w)'
      BY <1>0, <1>3, RuleFailsIs, NextRuleIs, CurrentRule DEF PlaceOf, Loop, After, Channels
    <2>3. QED
      BY <1>0, <1>3, <2>1, <2>2, RuleFailsIs, NextRuleIs DEF Orderly, Kept
  <1>4. ASSUME UNCHANGED <<idx, hits, failed>>, pc' = [pc EXCEPT ![w] = "save"],
               NEW h \in hits[w], NEW d \in {NoDet} \cup DOMAIN Seen(w), NEW evs \in SUBSET Events,
               found' = [found EXCEPT ![w] = [hit |-> h, id |-> d, events |-> evs]]
        PROVE  Orderly(w)
    <2>1. [hit |-> h, id |-> d, events |-> evs] \in Hits
      <3>1. d \in DetIds \cup {NoDet} /\ h \in Events \cup Keys
        BY <1>0, SeenIs DEF Types, WorkT
      <3>2. QED
        BY <3>1 DEF Hits
    <2>2. Types'
      BY <1>0, <1>4, <2>1 DEF Types, BrokerT, ProcT, WorkT, EditT, TableT, Pcs, Loop
    <2>3. PlaceOf(w)'
      <3>1. pc'[w] = "save" /\ found'[w].hit = h
        BY <1>0, <1>4 DEF ProcT, WorkT
      <3>2. QED
        BY <1>0, <1>1, <1>4, <3>1 DEF PlaceOf, Loop, After, Channels
    <2>4. QED
      BY <1>0, <1>4, <2>2, <2>3 DEF Orderly, Kept, ProcT, WorkT
  <1>5. QED
    BY <1>2, <1>3, <1>4, FindIs

\* Insert and Update write a row and are done with the hit.
SaveStep(w) ==
  /\ pc[w] = "save" /\ HitDone(w, found[w].hit)
  /\ UNCHANGED <<clock, task, retries, tries, job, tx, began, failed, goal,
                 det, sent, written, lossy, dropped, crashes, errors, triaged>>

LEMMA SaveOrderly ==
  ASSUME DetectionAssumption, Types, NEW w \in Workers, PlaceOf(w), SaveStep(w), EditT',
         \A u \in Workers \ {w} : edits'[u] = edits[u] /\ ids'[u] = ids[u],
         ids' \in [Workers -> SUBSET DetIds]
  PROVE  Orderly(w)
  <1>0. /\ pc[w] = "save" /\ pc[w] \in Loop /\ tx[w] = "open" /\ ProcT /\ WorkT
        /\ found[w].hit \in hits[w]
    BY DEF SaveStep, PlaceOf, Loop, Types
  <1> DEFINE h == found[w].hit
  <1>1. UNCHANGED <<clock, task, retries, tries, job, tx, began, failed, goal,
                    det, sent, written, lossy, dropped, crashes, errors, triaged>>
        /\ HitDone(w, h)
    BY DEF SaveStep
  <1> HIDE DEF h
  <1>2. /\ idx' \in [Workers -> Nat] /\ pc' \in [Workers -> Pcs]
        /\ hits' \in [Workers -> SUBSET (Events \cup Keys)] /\ found' \in [Workers -> Hits]
        /\ \/ hits[w] = {h} /\ NextRule(w)
           \/ hits'[w] = hits[w] \ {h} /\ pc'[w] = "find" /\ idx'[w] = idx[w]
        /\ \A u \in Workers \ {w} :
             idx'[u] = idx[u] /\ pc'[u] = pc[u] /\ hits'[u] = hits[u] /\ found'[u] = found[u]
    BY <1>0, <1>1, HitDoneIs DEF h
  <1>3. Types'
    BY <1>1, <1>2 DEF Types, BrokerT, ProcT, WorkT, TableT
  <1>4. PlaceOf(w)'
    <2>1. (HitRange(Rules[idx[w]]))' = HitRange(Rules[idx'[w]])
      BY DEF HitRange
    <2>2. CASE hits[w] = {h} /\ NextRule(w)
      BY <1>0, <1>1, <2>2, NextRuleIs, CurrentRule DEF PlaceOf, Loop, After, Channels
    <2>3. CASE hits'[w] = hits[w] \ {h} /\ pc'[w] = "find" /\ idx'[w] = idx[w]
      BY <1>0, <1>1, <2>1, <2>3 DEF PlaceOf, Loop, After, Channels
    <2>4. QED
      BY <1>2, <2>2, <2>3
  <1>5. \A u \in Workers \ {w} : Kept(u)
    BY <1>1, <1>2 DEF Kept
  <1>6. QED
    BY <1>3, <1>4, <1>5 DEF Orderly

\* The row of a new detection, and its id.
LEMMA InsertIs ==
  ASSUME DetectionAssumption, Types, NEW w \in Workers, PlaceOf(w), Insert(w)
  PROVE  /\ SaveStep(w) /\ found[w].id = NoDet /\ NewId(w, found[w].hit) \in DetIds /\ EditT'
         /\ \A u \in Workers \ {w} : edits'[u] = edits[u] /\ ids'[u] = ids[u]
         /\ DOMAIN edits'[w] = DOMAIN edits[w] \cup {NewId(w, found[w].hit)}
         /\ edits'[w][NewId(w, found[w].hit)].at = began[w]
         /\ edits'[w][NewId(w, found[w].hit)].reopened = FALSE
         /\ \A d \in DOMAIN edits[w] \ {NewId(w, found[w].hit)} : edits'[w][d] = edits[w][d]
         /\ ids' \in [Workers -> SUBSET DetIds]
         /\ ids'[w] \subseteq ids[w] \cup {NewId(w, found[w].hit)} /\ ids[w] \subseteq ids'[w]
  <1> DEFINE d == NewId(w, found[w].hit)
             row == [events |-> found[w].events, status |-> "open", at |-> began[w],
                     by |-> "", reopened |-> FALSE]
  <1>1. pc[w] = "save" /\ pc[w] \in Loop /\ found[w].id = NoDet /\ Put(w, d, row) /\ SaveStep(w)
    BY DEF Insert, SaveStep, brokerVars, histVars, boundVars, Loop
  <1>2. d \in DetIds
    <2>1. job[w] \in Tasks /\ tries[job[w]] \in Nat /\ Rules[idx[w]] \in RuleNames
      BY <1>1, CurrentRule DEF Types, BrokerT
    <2>2. found[w].hit \in Events \cup Keys
      BY <1>1 DEF PlaceOf, Types, WorkT
    <2>3. QED
      BY <2>1, <2>2 DEF NewId, DetIds
  <1>3. row \in Rows /\ row.at = began[w] /\ row.reopened = FALSE
    <2>1. found[w].events \in SUBSET Events /\ began[w] \in Nat
      BY DEF Types, WorkT, ProcT, Hits
    <2>2. row \in Rows
      BY <2>1, NewRow
    <2>3. QED
      BY <2>2
  <1>4. ids' = [ids EXCEPT ![w] = IF Kind[Rules[idx[w]]] = "sequence" THEN ids[w] ELSE ids[w] \cup {d}]
    BY DEF Insert
  <1> HIDE DEF row, d
  <1>5. /\ EditT' /\ \A u \in Workers \ {w} : edits'[u] = edits[u]
        /\ DOMAIN edits'[w] = DOMAIN edits[w] \cup {d} /\ edits'[w][d] = row
        /\ \A x \in DOMAIN edits[w] \ {d} : edits'[w][x] = edits[w][x]
    BY <1>1, <1>2, <1>3, PutIs DEF Types
  <1>6. /\ ids' \in [Workers -> SUBSET DetIds] /\ \A u \in Workers \ {w} : ids'[u] = ids[u]
        /\ ids'[w] \subseteq ids[w] \cup {d} /\ ids[w] \subseteq ids'[w]
    BY <1>2, <1>4 DEF Types, WorkT
  <1>7. QED
    BY <1>1, <1>2, <1>3, <1>5, <1>6 DEF d

LEMMA UpdateIs ==
  ASSUME DetectionAssumption, Types, NEW w \in Workers, PlaceOf(w), Update(w)
  PROVE  /\ SaveStep(w) /\ found[w].id # NoDet /\ EditT' /\ ids' = ids
         /\ Locked(found[w].id) \subseteq {w}
         /\ \A u \in Workers \ {w} : edits'[u] = edits[u]
         /\ \/ found[w].id \notin DOMAIN Seen(w) /\ edits' = edits
            \/ /\ found[w].id \in DOMAIN Seen(w)
               /\ DOMAIN edits'[w] = DOMAIN edits[w] \cup {found[w].id}
               /\ edits'[w][found[w].id].at = Seen(w)[found[w].id].at
               /\ edits'[w][found[w].id].reopened = Seen(w)[found[w].id].reopened
               /\ edits'[w][found[w].id].status = Seen(w)[found[w].id].status
               /\ \A d \in DOMAIN edits[w] \ {found[w].id} : edits'[w][d] = edits[w][d]
  <1> DEFINE d == found[w].id
             row == [Seen(w)[d] EXCEPT !.events = found[w].events]
  <1>1. /\ pc[w] = "save" /\ d # NoDet /\ SaveStep(w) /\ Locked(d) \subseteq {w} /\ ids' = ids
        /\ IF d \in DOMAIN Seen(w) THEN Put(w, d, row) ELSE UNCHANGED edits
    BY DEF Update, SaveStep, brokerVars, histVars, boundVars
  <1>2. CASE d \notin DOMAIN Seen(w)
    BY <1>1, <1>2 DEF Types, EditT
  <1>3. CASE d \in DOMAIN Seen(w)
    <2>1. d \in DetIds /\ Seen(w)[d] \in Rows
      BY <1>3, SeenIs DEF Types
    <2>2. found[w].events \in SUBSET Events
      BY DEF Types, WorkT, Hits
    <2>3. /\ row \in Rows /\ row.at = Seen(w)[d].at /\ row.reopened = Seen(w)[d].reopened
          /\ row.status = Seen(w)[d].status
      BY <2>1, <2>2, ChangedRow
    <2> HIDE DEF row
    <2>4. /\ EditT' /\ \A u \in Workers \ {w} : edits'[u] = edits[u]
          /\ DOMAIN edits'[w] = DOMAIN edits[w] \cup {d} /\ edits'[w][d] = row
          /\ \A x \in DOMAIN edits[w] \ {d} : edits'[w][x] = edits[w][x]
      BY <1>1, <1>3, <2>1, <2>3, PutIs DEF Types
    <2>5. QED
      BY <1>1, <1>3, <2>3, <2>4
  <1>4. QED
    BY <1>2, <1>3

LEMMA WriteOrderly ==
  ASSUME DetectionAssumption, Types, NEW w \in Workers, PlaceOf(w), Insert(w) \/ Update(w)
  PROVE  Orderly(w)
  <1>1. CASE Insert(w)
    BY <1>1, InsertIs, SaveOrderly
  <1>2. CASE Update(w)
    BY <1>2, UpdateIs, SaveOrderly DEF Types, WorkT
  <1>3. QED
    BY <1>1, <1>2

\* _auto_resolve_from_events keeps to the calls after the loop.
LEMMA FindRemediedOrderly ==
  ASSUME DetectionAssumption, Types, NEW w \in Workers, PlaceOf(w), FindRemedied(w)
  PROVE  /\ Orderly(w) /\ pc[w] = "remedies" /\ tx[w] = "open" /\ pc'[w] \in {"commit", "resolve"}
         /\ UNCHANGED <<clock, task, retries, tries, job, tx, began, idx, hits, found, edits, ids, failed,
                        det, sent, written, lossy, dropped, crashes, errors, triaged>>
  <1> DEFINE remedied ==
        {d \in DOMAIN Seen(w) : /\ Seen(w)[d].status \in Active
                                /\ IssueOf(d) \in UNION {Remedies[e] : e \in EventsOf[job[w]]}}
  <1>1. /\ pc[w] = "remedies" /\ tx[w] = "open"
        /\ goal' = [goal EXCEPT ![w] = remedied]
        /\ pc' = [pc EXCEPT ![w] = IF remedied = {} THEN "commit" ELSE "resolve"]
        /\ UNCHANGED <<clock, task, retries, tries, job, tx, began, idx, hits, found, edits, ids, failed,
                       det, sent, written, lossy, dropped, crashes, errors, triaged>>
    BY DEF FindRemedied, brokerVars, histVars, boundVars
  <1>2. remedied \in SUBSET DetIds
    BY SeenIs DEF Types
  <1> HIDE DEF remedied
  <1>3. Types'
    BY <1>1, <1>2 DEF Types, BrokerT, ProcT, WorkT, EditT, TableT, Pcs, After
  <1>4. pc'[w] \in {"commit", "resolve"}
    BY <1>1 DEF Types, ProcT
  <1>5. PlaceOf(w)'
    BY <1>1, <1>4 DEF PlaceOf, Loop, After, Channels
  <1>6. \A u \in Workers \ {w} : Kept(u)
    BY <1>1 DEF Kept, Types, ProcT, WorkT
  <1>7. QED
    BY <1>1, <1>3, <1>4, <1>5, <1>6 DEF Orderly

LEMMA ResolveIs ==
  ASSUME DetectionAssumption, Types, NEW w \in Workers, PlaceOf(w), Resolve(w)
  PROVE  /\ Orderly(w) /\ pc[w] = "resolve" /\ tx[w] = "open" /\ pc'[w] \in {"commit", "resolve"}
         /\ UNCHANGED <<clock, task, retries, tries, job, tx, began, idx, hits, found, ids, failed,
                        det, sent, written, lossy, dropped, crashes, errors, triaged>>
         /\ \/ edits' = edits
            \/ \E d \in DOMAIN Seen(w) :
                 /\ Locked(d) \subseteq {w} /\ DOMAIN edits'[w] = DOMAIN edits[w] \cup {d}
                 /\ edits'[w][d].at = Seen(w)[d].at /\ edits'[w][d].reopened = Seen(w)[d].reopened
                 /\ edits'[w][d].status = "resolved"
                 /\ \A x \in DOMAIN edits[w] \ {d} : edits'[w][x] = edits[w][x]
  <1>1. PICK d \in goal[w] :
          /\ Locked(d) \subseteq {w}
          /\ IF d \in DOMAIN Seen(w)
             THEN Put(w, d, [Seen(w)[d] EXCEPT !.status = "resolved", !.by = "system"])
             ELSE UNCHANGED edits
          /\ goal' = [goal EXCEPT ![w] = @ \ {d}]
          /\ pc' = [pc EXCEPT ![w] = IF goal[w] = {d} THEN "commit" ELSE "resolve"]
    BY DEF Resolve
  <1>2. /\ pc[w] = "resolve" /\ tx[w] = "open"
        /\ UNCHANGED <<clock, task, retries, tries, job, tx, began, idx, hits, found, ids, failed,
                       det, sent, written, lossy, dropped, crashes, errors, triaged>>
    BY DEF Resolve, PlaceOf, brokerVars, histVars, boundVars
  <1>3. pc'[w] \in {"commit", "resolve"} /\ pc' \in [Workers -> Pcs]
        /\ goal' \in [Workers -> SUBSET DetIds]
        /\ \A u \in Workers \ {w} : pc'[u] = pc[u] /\ goal'[u] = goal[u]
    BY <1>1 DEF Types, ProcT, WorkT, Pcs, After
  <1>4. /\ EditT' /\ \A u \in Workers \ {w} : edits'[u] = edits[u]
        /\ \/ edits' = edits
           \/ /\ d \in DOMAIN Seen(w) /\ DOMAIN edits'[w] = DOMAIN edits[w] \cup {d}
              /\ edits'[w][d].at = Seen(w)[d].at /\ edits'[w][d].reopened = Seen(w)[d].reopened
              /\ edits'[w][d].status = "resolved"
              /\ \A x \in DOMAIN edits[w] \ {d} : edits'[w][x] = edits[w][x]
    <2>1. CASE d \notin DOMAIN Seen(w)
      BY <1>1, <2>1 DEF Types, EditT
    <2>2. CASE d \in DOMAIN Seen(w)
      <3> DEFINE row == [Seen(w)[d] EXCEPT !.status = "resolved", !.by = "system"]
      <3>1. d \in DetIds /\ Seen(w)[d] \in Rows
        BY <2>2, SeenIs DEF Types
      <3>2. /\ row \in Rows /\ row.at = Seen(w)[d].at /\ row.reopened = Seen(w)[d].reopened
            /\ row.status = "resolved"
        BY <3>1, ChangedRow
      <3>3. Put(w, d, row)
        BY <1>1, <2>2
      <3> HIDE DEF row
      <3>4. /\ EditT' /\ \A u \in Workers \ {w} : edits'[u] = edits[u]
            /\ DOMAIN edits'[w] = DOMAIN edits[w] \cup {d} /\ edits'[w][d] = row
            /\ \A x \in DOMAIN edits[w] \ {d} : edits'[w][x] = edits[w][x]
        BY <3>1, <3>2, <3>3, PutIs DEF Types
      <3>5. QED
        BY <2>2, <3>2, <3>4
    <2>3. QED
      BY <2>1, <2>2
  <1>5. Types'
    BY <1>2, <1>3, <1>4 DEF Types, BrokerT, ProcT, WorkT, TableT
  <1>6. PlaceOf(w)'
    BY <1>2, <1>3 DEF PlaceOf, Loop, After, Channels
  <1>7. \A u \in Workers \ {w} : Kept(u)
    BY <1>2, <1>3, <1>4 DEF Kept
  <1>8. QED
    BY <1>1, <1>2, <1>3, <1>4, <1>5, <1>6, <1>7 DEF Orderly

\* An exception caught in the loop or in the auto-resolution.
LEMMA CaughtOrderly ==
  ASSUME DetectionAssumption, Types, NEW w \in Workers, PlaceOf(w), tx[w] = "open",
         NEW how \in {"open", "aborted", "broken"}, CaughtFailure(w, how),
         errors' \in Nat, UNCHANGED <<crashes, triaged>>
  PROVE  /\ Orderly(w) /\ tx'[w] = how
         /\ UNCHANGED <<clock, task, retries, tries, job, began, ids, det, sent, written, lossy, dropped>>
         /\ \/ how = "open" /\ edits' = edits
            \/ how # "open" /\ DOMAIN edits'[w] = {}
         /\ \/ pc[w] \in Loop /\ RuleFails(w)
            \/ pc[w] \in {"remedies", "resolve"} /\ pc'[w] = "commit" /\ UNCHANGED <<idx, hits, found, failed>>
  <1>1. /\ tx' = [tx EXCEPT ![w] = how]
        /\ edits' = [edits EXCEPT ![w] = IF how = "open" THEN @ ELSE Nothing]
        /\ UNCHANGED <<clock, task, retries, tries, job, began, ids, det, sent, written, lossy, dropped>>
    BY DEF CaughtFailure, brokerVars, histVars
  <1>2. /\ EditT' /\ \A u \in Workers \ {w} : edits'[u] = edits[u]
        /\ \/ how = "open" /\ edits' = edits
           \/ how # "open" /\ DOMAIN edits'[w] = {}
    <2>1. CASE how = "open"
      BY <1>1, <2>1 DEF Types, EditT
    <2>2. CASE how # "open"
      <3>1. edits' = [edits EXCEPT ![w] = Nothing]
        BY <1>1, <2>2
      <3>2. QED
        BY <2>2, <3>1, NothingIs DEF Types, EditT
    <2>3. QED
      BY <2>1, <2>2
  <1>3. tx' \in [Workers -> Txs] /\ tx'[w] = how /\ \A u \in Workers \ {w} : tx'[u] = tx[u]
    BY <1>1 DEF Types, ProcT, Txs
  <1>4. ASSUME pc[w] \in Loop, RuleFails(w), UNCHANGED goal PROVE Orderly(w)
    <2>1. /\ failed' \in [Workers -> SUBSET RuleNames] /\ NextRule(w)
          /\ \A u \in Workers \ {w} : failed'[u] = failed[u]
      BY <1>4, RuleFailsIs DEF Types
    <2>2. Types'
      BY <1>1, <1>2, <1>3, <1>4, <2>1, NextRuleIs DEF Types, BrokerT, ProcT, WorkT, TableT
    <2>3. PlaceOf(w)'
      BY <1>1, <1>2, <1>3, <1>4, <2>1, NextRuleIs, CurrentRule
      DEF Types, PlaceOf, Loop, After, Channels
    <2>4. \A u \in Workers \ {w} : Kept(u)
      BY <1>1, <1>2, <1>3, <1>4, <2>1, NextRuleIs DEF Types, Kept
    <2>5. QED
      BY <2>2, <2>3, <2>4 DEF Orderly
  <1>5. ASSUME pc[w] \in {"remedies", "resolve"}, pc' = [pc EXCEPT ![w] = "commit"],
               goal' = [goal EXCEPT ![w] = {}], UNCHANGED <<idx, hits, found, failed>>
        PROVE  Orderly(w) /\ pc'[w] = "commit"
    <2>1. Types'
      BY <1>1, <1>2, <1>3, <1>5 DEF Types, BrokerT, ProcT, WorkT, TableT, Pcs, After
    <2>2. pc'[w] = "commit"
      BY <1>5 DEF Types, ProcT
    <2>3. PlaceOf(w)'
      BY <1>1, <1>2, <1>3, <1>5, <2>2 DEF PlaceOf, Loop, After, Channels
    <2>4. \A u \in Workers \ {w} : Kept(u)
      BY <1>1, <1>2, <1>3, <1>5 DEF Types, ProcT, WorkT, Kept
    <2>5. QED
      BY <2>1, <2>2, <2>3, <2>4 DEF Orderly
  <1>6. \/ pc[w] \in Loop /\ RuleFails(w) /\ UNCHANGED goal
        \/ /\ pc[w] \in {"remedies", "resolve"}
           /\ pc' = [pc EXCEPT ![w] = "commit"]
           /\ goal' = [goal EXCEPT ![w] = {}]
           /\ UNCHANGED <<idx, hits, found, failed>>
    BY DEF CaughtFailure, Loop
  <1>7. QED
    BY <1>1, <1>2, <1>3, <1>4, <1>5, <1>6

\* Both ways it is raised: the victim of a deadlock waits for a row in an open transaction.
LEMMA RaisedIs ==
  ASSUME DetectionAssumption, Types, NEW w \in Workers, PlaceOf(w), Raises(w) \/ DeadlockVictim(w)
  PROVE  /\ Orderly(w) /\ tx[w] = "open" /\ tx'[w] \in {"open", "aborted", "broken"}
         /\ UNCHANGED <<clock, task, retries, tries, job, began, ids, det, sent, written, lossy, dropped>>
         /\ \/ tx'[w] = "open" /\ edits' = edits
            \/ tx'[w] # "open" /\ DOMAIN edits'[w] = {}
         /\ \/ pc[w] \in Loop /\ RuleFails(w)
            \/ pc[w] \in {"remedies", "resolve"} /\ pc'[w] = "commit" /\ UNCHANGED <<idx, hits, found, failed>>
  <1>1. CASE Raises(w)
    <2>1. PICK how \in {"open", "aborted", "broken"} : CaughtFailure(w, how)
      BY <1>1 DEF Raises
    <2>2. tx[w] = "open" /\ errors' \in Nat /\ UNCHANGED <<crashes, triaged>>
      BY <1>1 DEF Raises, Types, TableT
    <2>3. QED
      BY <2>1, <2>2, CaughtOrderly
  <1>2. CASE DeadlockVictim(w)
    <2>1. CaughtFailure(w, "aborted") /\ errors' \in Nat /\ UNCHANGED <<crashes, triaged>>
      BY <1>2 DEF DeadlockVictim, boundVars, Types, TableT
    <2>2. PICK v \in Workers : WaitsFor(w, v)
      BY <1>2 DEF DeadlockVictim
    <2>3. Targets(w) # {}
      BY <2>2 DEF WaitsFor
    <2>4. pc[w] \in {"save", "resolve"}
      BY <2>3 DEF Targets
    <2>5. tx[w] = "open"
      BY <2>4 DEF PlaceOf
    <2>6. QED
      BY <2>1, <2>5, CaughtOrderly
  <1>3. QED
    BY <1>1, <1>2

\* A statement that an aborted transaction refuses.
LEMMA RefusedIs ==
  ASSUME DetectionAssumption, Types, NEW w \in Workers, PlaceOf(w), Refused(w)
  PROVE  /\ Orderly(w) /\ tx[w] # "open" /\ pc[w] \in {"rule", "remedies"} /\ pc'[w] \notin Channels
         /\ pc'[w] \in {"rule", "remedies", "commit"}
         /\ UNCHANGED <<clock, task, retries, tries, job, tx, began, edits, ids, goal,
                        det, sent, written, lossy, dropped, crashes, errors, triaged>>
  <1>1. /\ tx[w] # "open"
        /\ UNCHANGED <<clock, task, retries, tries, job, tx, began, edits, ids, goal,
                       det, sent, written, lossy, dropped, crashes, errors, triaged>>
    BY DEF Refused, brokerVars, histVars, boundVars
  <1>2. CASE pc[w] = "rule" /\ NextRule(w) /\ failed' \in [Workers -> SUBSET RuleNames]
             /\ \A u \in Workers \ {w} : failed'[u] = failed[u]
    <2>0. pc[w] \in Loop
      BY <1>2 DEF Loop
    <2>1. Types'
      BY <1>1, <1>2, <2>0, NextRuleIs DEF Types, BrokerT, ProcT, WorkT, EditT, TableT
    <2>2. pc'[w] \in {"rule", "remedies"}
      BY <1>2, <2>0, NextRuleIs DEF Types
    <2>3. PlaceOf(w)'
      BY <1>1, <1>2, <2>0, NextRuleIs, CurrentRule DEF Types, PlaceOf, Loop, After, Channels
    <2>4. \A u \in Workers \ {w} : Kept(u)
      BY <1>1, <1>2, <2>0, NextRuleIs DEF Types, Kept, ProcT, WorkT
    <2>5. QED
      BY <1>1, <1>2, <2>1, <2>2, <2>3, <2>4 DEF Orderly, Channels
  <1>3. CASE pc[w] = "remedies" /\ pc' = [pc EXCEPT ![w] = "commit"]
             /\ UNCHANGED <<idx, hits, found, failed>>
    <2>1. Types'
      BY <1>1, <1>3 DEF Types, BrokerT, ProcT, WorkT, EditT, TableT, Pcs, After
    <2>2. pc'[w] = "commit"
      BY <1>3 DEF Types, ProcT
    <2>3. PlaceOf(w)'
      BY <1>1, <1>3, <2>2 DEF PlaceOf, Loop, After, Channels
    <2>4. \A u \in Workers \ {w} : Kept(u)
      BY <1>1, <1>3 DEF Types, Kept, ProcT, WorkT
    <2>5. QED
      BY <1>1, <1>3, <2>1, <2>2, <2>3, <2>4 DEF Orderly, Channels
  <1>4. \/ pc[w] = "rule" /\ NextRule(w) /\ UNCHANGED failed
        \/ pc[w] = "rule" /\ RuleFails(w)
        \/ pc[w] = "remedies" /\ pc' = [pc EXCEPT ![w] = "commit"] /\ UNCHANGED <<idx, hits, found, failed>>
    BY DEF Refused
  <1>5. CASE pc[w] = "rule" /\ RuleFails(w)
    <2>1. pc[w] \in Loop
      BY <1>5 DEF Loop
    <2>2. QED
      BY <1>2, <1>5, <2>1, RuleFailsIs DEF Types
  <1>6. QED
    BY <1>2, <1>3, <1>4, <1>5 DEF Types, WorkT

-----------------------------------------------------------------------------
(* The ends of a call *)

\* The process leaves, and its batch is done, failed or queued again.
LEMMA LeftOrderly ==
  ASSUME Types, NEW w \in Workers, PlaceOf(w), Leave(w), BrokerT', TableT'
  PROVE  Orderly(w) /\ pc'[w] = "idle"
  <1>1. /\ ProcT' /\ WorkT' /\ EditT' /\ \A u \in Workers \ {w} : Kept(u)
        /\ pc'[w] = "idle" /\ tx'[w] = "none" /\ DOMAIN edits'[w] = {}
        /\ ids'[w] = {} /\ failed'[w] = {}
    BY LeaveIs DEF Types
  <1>2. Types'
    BY <1>1 DEF Types
  <1>3. PlaceOf(w)'
    BY <1>1 DEF PlaceOf, Loop, After, Channels
  <1>4. QED
    BY <1>1, <1>2, <1>3 DEF Orderly

\* What a COMMIT makes of the table and of the record of its rows.
LEMMA CommittedIs ==
  ASSUME EditT, TableT, NEW w \in Workers, det' = Overlay(edits[w], det),
         written' = written \cup DOMAIN edits[w]
  PROVE  /\ det' \in Maps /\ written' \subseteq DetIds
         /\ DOMAIN det' = DOMAIN edits[w] \cup DOMAIN det
         /\ \A d \in DOMAIN edits[w] : det'[d] = edits[w][d]
         /\ \A d \in DOMAIN det \ DOMAIN edits[w] : det'[d] = det[d]
  <1>1. det' = Seen(w)
    BY DEF Seen
  <1>2. /\ Seen(w) \in Maps /\ DOMAIN Seen(w) = DOMAIN edits[w] \cup DOMAIN det
        /\ \A d \in DOMAIN edits[w] : Seen(w)[d] = edits[w][d]
        /\ \A d \in DOMAIN det \ DOMAIN edits[w] : Seen(w)[d] = det[d]
    BY SeenIs
  <1>3. edits[w] \in Maps
    BY DEF EditT
  <1>4. DOMAIN edits[w] \subseteq DetIds
    <2> DEFINE m == edits[w]
    <2>1. m \in Maps
      BY <1>3
    <2> HIDE DEF m
    <2>2. DOMAIN m \subseteq DetIds
      BY <2>1, MapIs
    <2>3. QED
      BY <2>2 DEF m
  <1>5. QED
    BY <1>1, <1>2, <1>4 DEF TableT

\* The end of a call that is acknowledged.
LEMMA FinishOrderly ==
  ASSUME Types, NEW w \in Workers, PlaceOf(w), pc[w] # "idle",
         NEW lost \in SUBSET RuleNames, Finish(w, lost),
         UNCHANGED <<clock, retries, tries, crashes, errors, triaged>>,
         det' \in Maps, sent' \subseteq DetIds, written' \subseteq DetIds
  PROVE  /\ Orderly(w) /\ pc'[w] = "idle" /\ dropped' = dropped \cup lost
         /\ \A t \in Tasks : task'[t] = IF t = job[w] THEN "done" ELSE task[t]
  <1>1. /\ Leave(w) /\ task' = [task EXCEPT ![job[w]] = "done"] /\ dropped' = dropped \cup lost
    BY DEF Finish
  <1>2. job[w] \in Tasks
    BY DEF PlaceOf
  <1>3. BrokerT' /\ \A t \in Tasks : task'[t] = IF t = job[w] THEN "done" ELSE task[t]
    BY <1>1, <1>2 DEF Types, BrokerT
  <1>4. TableT'
    BY <1>1 DEF Types, TableT
  <1>5. QED
    BY <1>1, <1>3, <1>4, LeftOrderly

\* The rows of the transaction are committed, and their dispatch follows, if there is one.
LEMMA CommitIs ==
  ASSUME DetectionAssumption, Types, NEW w \in Workers, PlaceOf(w), Commit(w)
  PROVE  /\ Orderly(w) /\ pc[w] = "commit" /\ tx[w] \in {"open", "aborted"}
         /\ UNCHANGED <<clock, tries, sent>>
         /\ det' = Overlay(edits[w], det) /\ written' = written \cup DOMAIN edits[w]
         /\ lossy' = IF tx[w] = "aborted" THEN lossy \cup {Run(w)} ELSE lossy
         /\ DOMAIN edits'[w] = {}
         /\ \/ /\ pc'[w] = "idle" /\ ids'[w] = {}
               /\ dropped' = dropped \cup (IF tx[w] = "aborted" THEN RuleNames ELSE failed[w])
               /\ \A t \in Tasks : task'[t] = IF t = job[w] THEN "done" ELSE task[t]
            \/ /\ pc'[w] = "notify" /\ tx'[w] = "none"
               /\ UNCHANGED <<task, job, began, idx, hits, found, ids, failed, goal, dropped>>
  <1>1. /\ pc[w] = "commit" /\ tx[w] # "broken"
        /\ det' = Overlay(edits[w], det) /\ written' = written \cup DOMAIN edits[w]
        /\ lossy' = IF tx[w] = "aborted" THEN lossy \cup {Run(w)} ELSE lossy
        /\ UNCHANGED <<clock, retries, tries, sent, crashes, errors, triaged>>
    BY DEF Commit, boundVars
  <1>2. tx[w] \in {"open", "aborted"}
    BY <1>1 DEF PlaceOf, After, Types, ProcT, Txs
  <1>3. det' \in Maps /\ written' \subseteq DetIds
    BY <1>1, CommittedIs DEF Types
  <1>4. CASE ids[w] = {}
    <2> DEFINE lost == IF tx[w] = "aborted" THEN RuleNames ELSE failed[w]
    <2>1. Finish(w, lost) /\ lost \in SUBSET RuleNames
      BY <1>4 DEF Commit, Types, WorkT
    <2> HIDE DEF lost
    <2>2. /\ Orderly(w) /\ pc'[w] = "idle" /\ dropped' = dropped \cup lost
          /\ \A t \in Tasks : task'[t] = IF t = job[w] THEN "done" ELSE task[t]
      BY <1>1, <1>3, <2>1, FinishOrderly DEF Types, TableT
    <2>3. DOMAIN edits'[w] = {} /\ ids'[w] = {}
      BY <2>1, LeaveIs DEF Finish, Types
    <2>4. QED
      BY <1>1, <1>2, <2>2, <2>3 DEF lost
  <1>5. CASE ids[w] # {}
    <2>1. /\ pc' = [pc EXCEPT ![w] = "notify"] /\ tx' = [tx EXCEPT ![w] = "none"]
          /\ edits' = [edits EXCEPT ![w] = Nothing]
          /\ UNCHANGED <<task, job, began, idx, hits, found, ids, failed, goal, dropped>>
      BY <1>5 DEF Commit
    <2>2. /\ pc' \in [Workers -> Pcs] /\ tx' \in [Workers -> Txs] /\ pc'[w] = "notify" /\ tx'[w] = "none"
          /\ \A u \in Workers \ {w} : pc'[u] = pc[u] /\ tx'[u] = tx[u]
      BY <2>1 DEF Types, ProcT, Pcs, Txs, Channels
    <2>3. EditT' /\ DOMAIN edits'[w] = {} /\ \A u \in Workers \ {w} : edits'[u] = edits[u]
      BY <2>1, NothingIs DEF Types, EditT
    <2>4. Types'
      BY <1>1, <1>3, <2>1, <2>2, <2>3 DEF Types, BrokerT, ProcT, WorkT, TableT
    <2>5. PlaceOf(w)'
      BY <1>1, <2>1, <2>2, <2>3 DEF PlaceOf, Loop, After, Channels
    <2>6. \A u \in Workers \ {w} : Kept(u)
      BY <2>1, <2>2, <2>3 DEF Kept
    <2>7. QED
      BY <1>1, <1>2, <2>1, <2>2, <2>3, <2>4, <2>5, <2>6 DEF Orderly
  <1>6. QED
    BY <1>4, <1>5

LEMMA PublishIs ==
  ASSUME DetectionAssumption, Types, NEW w \in Workers, PlaceOf(w), Publish(w)
  PROVE  /\ Orderly(w) /\ pc[w] \in Channels /\ sent \subseteq sent' /\ sent' \subseteq sent \cup ids[w]
         /\ UNCHANGED <<clock, tries, det, written, lossy>>
         /\ DOMAIN edits'[w] = {}
         /\ \/ /\ pc'[w] = "idle" /\ ids'[w] = {}
               /\ dropped' = dropped \cup (IF Run(w) \in lossy THEN RuleNames ELSE failed[w])
               /\ \A t \in Tasks : task'[t] = IF t = job[w] THEN "done" ELSE task[t]
            \/ /\ pc'[w] \in Channels
               /\ UNCHANGED <<task, job, tx, began, idx, hits, found, edits, ids, failed, goal, dropped>>
  <1>1. /\ pc[w] \in Channels /\ sent \subseteq sent' /\ sent' \subseteq sent \cup ids[w]
        /\ UNCHANGED <<clock, retries, tries, det, written, lossy, crashes, errors, triaged>>
    BY DEF Publish, boundVars
  <1>2. sent' \subseteq DetIds /\ det' \in Maps /\ written' \subseteq DetIds
    BY <1>1 DEF Types, TableT, WorkT
  <1>3. CASE pc[w] = "automate"
    <2> DEFINE lost == IF Run(w) \in lossy THEN RuleNames ELSE failed[w]
    <2>1. Finish(w, lost) /\ lost \in SUBSET RuleNames
      BY <1>3 DEF Publish, Types, WorkT
    <2> HIDE DEF lost
    <2>2. /\ Orderly(w) /\ pc'[w] = "idle" /\ dropped' = dropped \cup lost
          /\ \A t \in Tasks : task'[t] = IF t = job[w] THEN "done" ELSE task[t]
      BY <1>1, <1>2, <1>3, <2>1, FinishOrderly
    <2>3. DOMAIN edits'[w] = {} /\ ids'[w] = {}
      BY <2>1, LeaveIs DEF Finish, Types
    <2>4. QED
      BY <1>1, <2>2, <2>3 DEF lost
  <1>4. CASE pc[w] # "automate"
    <2>1. /\ pc' = [pc EXCEPT ![w] = IF @ = "notify" THEN "siem" ELSE "automate"]
          /\ UNCHANGED <<task, job, tx, began, idx, hits, found, edits, ids, failed, goal, dropped>>
      BY <1>4 DEF Publish, workVars
    <2>2. /\ pc' \in [Workers -> Pcs] /\ pc'[w] \in {"siem", "automate"}
          /\ \A u \in Workers \ {w} : pc'[u] = pc[u]
      BY <2>1 DEF Types, ProcT, Pcs, Channels
    <2>3. Types'
      BY <1>1, <1>2, <2>1, <2>2 DEF Types, BrokerT, ProcT, WorkT, EditT, TableT
    <2>4. tx[w] = "none" /\ DOMAIN edits[w] = {}
      BY <1>1 DEF PlaceOf
    <2>5. PlaceOf(w)'
      BY <1>1, <2>1, <2>2, <2>4 DEF PlaceOf, Loop, After, Channels
    <2>6. \A u \in Workers \ {w} : Kept(u)
      BY <2>1, <2>2 DEF Kept
    <2>7. QED
      BY <1>1, <2>1, <2>2, <2>3, <2>4, <2>5, <2>6 DEF Orderly, Channels
  <1>5. QED
    BY <1>3, <1>4

\* The call ends without an acknowledgement: the COMMIT is refused, a call fails (after
\* the COMMIT took effect, or not), or the process dies.
LEMMA RetryIs ==
  ASSUME DetectionAssumption, Types, NEW w \in Workers, PlaceOf(w), CommitRefused(w) \/ CallFails(w) \/ Crash(w)
  PROVE  /\ Orderly(w) /\ pc[w] # "idle" /\ pc'[w] = "idle" /\ ids'[w] = {} /\ DOMAIN edits'[w] = {}
         /\ UNCHANGED <<clock, tries, sent, lossy, dropped>>
         /\ \/ UNCHANGED <<det, written>>
            \/ /\ pc[w] = "commit" /\ tx[w] = "open"
               /\ det' = Overlay(edits[w], det) /\ written' = written \cup DOMAIN edits[w]
         /\ \A t \in Tasks : t # job[w] => task'[t] = task[t]
         /\ task'[job[w]] \in {"queued", "failed"}
  <1>1. /\ pc[w] # "idle" /\ Leave(w)
        /\ UNCHANGED <<clock, tries, sent, lossy, dropped>>
        /\ \/ UNCHANGED <<det, written>>
           \/ /\ pc[w] = "commit" /\ tx[w] = "open"
              /\ det' = Overlay(edits[w], det) /\ written' = written \cup DOMAIN edits[w]
        /\ triaged' = triaged /\ errors' \in Nat /\ crashes' \in Nat
    BY DEF CommitRefused, CallFails, Crash, RaiseToRetry, histVars, boundVars, Types, TableT
  <1>2. job[w] \in Tasks
    BY <1>1 DEF PlaceOf
  <1>3. \/ task' = [task EXCEPT ![job[w]] = "queued"] /\ retries' = retries
        \/ /\ task' = [task EXCEPT ![job[w]] = "queued"] /\ retries[job[w]] < MaxRetries
           /\ retries' = [retries EXCEPT ![job[w]] = @ + 1]
        \/ task' = [task EXCEPT ![job[w]] = "failed"] /\ retries' = retries
    BY DEF CommitRefused, CallFails, Crash, RaiseToRetry
  <1>4. /\ \A t \in Tasks : t # job[w] => task'[t] = task[t]
        /\ task'[job[w]] \in {"queued", "failed"}
    BY <1>2, <1>3 DEF Types, BrokerT
  <1>5. BrokerT'
    <2>1. MaxRetries \in Nat
      BY DEF DetectionAssumption
    <2>2. retries' \in [Tasks -> 0..MaxRetries]
      BY <1>2, <1>3, <2>1 DEF Types, BrokerT
    <2>3. QED
      BY <1>1, <1>2, <1>3, <2>2 DEF Types, BrokerT
  <1>6. TableT'
    BY <1>1, CommittedIs DEF Types, TableT
  <1>7. Orderly(w) /\ pc'[w] = "idle"
    BY <1>1, <1>5, <1>6, LeftOrderly
  <1>8. ids'[w] = {} /\ DOMAIN edits'[w] = {}
    BY <1>1, LeaveIs DEF Types
  <1>9. QED
    BY <1>1, <1>4, <1>7, <1>8

-----------------------------------------------------------------------------
(* Types and places *)

\* What a step of w does to the broker.
LEMMA TaskFrame ==
  ASSUME DetectionAssumption, Types, NEW w \in Workers, PlaceOf(w), Act(w)
  PROVE  \/ \E t \in Tasks : PickUp(w, t)
         \/ /\ pc[w] # "idle" /\ tries' = tries /\ (pc'[w] = "idle" \/ job'[w] = job[w])
            /\ \A t \in Tasks : t # job[w] => task'[t] = task[t]
            /\ task'[job[w]] # "unsent"
  <1>0. /\ pc[w] # "idle" => job[w] \in Tasks /\ task[job[w]] # "unsent"
        /\ "idle" \notin Loop /\ "idle" \notin Channels
    BY DEF PlaceOf, Loop, Channels
  <1>1. CASE \E t \in Tasks : PickUp(w, t)
    BY <1>1
  <1>2. CASE Fetch(w) \/ Evaluate(w)
    BY <1>0, <1>2 DEF Fetch, Evaluate, brokerVars
  <1>3. CASE Find(w)
    BY <1>0, <1>3, FindIs
  <1>4. CASE Insert(w) \/ Update(w)
    BY <1>0, <1>4, InsertIs, UpdateIs DEF SaveStep
  <1>5. CASE FindRemedied(w) \/ Resolve(w)
    BY <1>0, <1>5, FindRemediedOrderly, ResolveIs
  <1>6. CASE Raises(w) \/ DeadlockVictim(w)
    BY <1>0, <1>6, RaisedIs
  <1>7. CASE Refused(w)
    BY <1>0, <1>7, RefusedIs
  <1>8. CASE Commit(w) \/ Publish(w)
    BY <1>0, <1>8, CommitIs, PublishIs
  <1>9. CASE CommitRefused(w) \/ CallFails(w) \/ Crash(w)
    BY <1>0, <1>9, RetryIs
  <1>10. QED
    BY <1>1, <1>2, <1>3, <1>4, <1>5, <1>6, <1>7, <1>8, <1>9 DEF Act, Step

LEMMA ActOrderly ==
  ASSUME DetectionAssumption, Types, NEW w \in Workers, PlaceOf(w), Act(w)
  PROVE  Orderly(w)
  <1>1. CASE \E t \in Tasks : PickUp(w, t)
    BY <1>1, PickUpOrderly
  <1>2. CASE Fetch(w) \/ Evaluate(w) \/ Find(w)
    BY <1>2, FetchOrderly, EvaluateOrderly, FindOrderly
  <1>3. CASE Insert(w) \/ Update(w)
    BY <1>3, WriteOrderly
  <1>4. CASE FindRemedied(w) \/ Resolve(w)
    BY <1>4, FindRemediedOrderly, ResolveIs
  <1>5. CASE Raises(w) \/ DeadlockVictim(w) \/ Refused(w)
    BY <1>5, RaisedIs, RefusedIs
  <1>6. CASE Commit(w) \/ Publish(w)
    BY <1>6, CommitIs, PublishIs
  <1>7. CASE CommitRefused(w) \/ CallFails(w) \/ Crash(w)
    BY <1>7, RetryIs
  <1>8. QED
    BY <1>1, <1>2, <1>3, <1>4, <1>5, <1>6, <1>7 DEF Act, Step

\* What time, the ingest workers and the analysts leave alone.
EnvKept ==
  /\ tries' = tries /\ job' = job /\ pc' = pc /\ tx' = tx /\ began' = began /\ idx' = idx
  /\ hits' = hits /\ found' = found /\ edits' = edits /\ ids' = ids /\ failed' = failed
  /\ goal' = goal /\ sent' = sent /\ written' = written /\ lossy' = lossy /\ dropped' = dropped

LEMMA TickIs ==
  ASSUME Types, Tick
  PROVE  Types' /\ EnvKept /\ clock' = clock + 1 /\ UNCHANGED <<task, det>>
  <1>1. /\ clock' = clock + 1
        /\ UNCHANGED <<task, retries, tries, job, pc, tx, began, idx, hits, found, edits, ids, failed, goal,
                       det, sent, written, lossy, dropped, crashes, errors, triaged>>
    BY DEF Tick, brokerVars, workerVars, workVars, histVars, boundVars
  <1>2. QED
    BY <1>1 DEF Types, BrokerT, ProcT, WorkT, EditT, TableT, EnvKept

LEMMA ArriveIs ==
  ASSUME Types, NEW t \in Tasks, Arrive(t)
  PROVE  /\ Types' /\ EnvKept /\ UNCHANGED <<clock, det>>
         /\ task[t] = "unsent" /\ task' = [task EXCEPT ![t] = "queued"]
  <1>1. /\ task[t] = "unsent" /\ task' = [task EXCEPT ![t] = "queued"]
        /\ UNCHANGED <<clock, retries, tries, job, pc, tx, began, idx, hits, found, edits, ids, failed, goal,
                       det, sent, written, lossy, dropped, crashes, errors, triaged>>
    BY DEF Arrive, workerVars, workVars, histVars, boundVars
  <1>2. QED
    BY <1>1 DEF Types, BrokerT, ProcT, WorkT, EditT, TableT, EnvKept

\* An analyst changes a row that no transaction has updated; out of a closed status
\* comes a reopened row.
LEMMA SetStatusIs ==
  ASSUME Types, NEW d \in DOMAIN det, NEW s \in Statuses, SetStatus(d, s)
  PROVE  /\ Types' /\ EnvKept /\ UNCHANGED <<clock, task>> /\ Locked(d) = {}
         /\ DOMAIN det' = DOMAIN det /\ \A x \in DOMAIN det \ {d} : det'[x] = det[x]
         /\ det'[d].at = det[d].at
         /\ det'[d].status \in Active /\ ~det'[d].reopened =>
              det[d].status \in Active /\ ~det[d].reopened
  <1> DEFINE By == {"", "system", "analyst"}
             b == IF s = "resolved" THEN "analyst"
                  ELSE IF det[d].status = "resolved" THEN "" ELSE det[d].by
             row == [det[d] EXCEPT !.status = s, !.by = b,
                                   !.reopened = @ \/ det[d].status \notin Active]
  <1>1. /\ Locked(d) = {} /\ triaged' = triaged + 1
        /\ UNCHANGED <<clock, task, retries, tries, job, pc, tx, began, idx, hits, found, edits, ids, failed,
                       goal, sent, written, lossy, dropped, crashes, errors>>
    BY DEF SetStatus, brokerVars, workerVars, workVars, histVars
  <1>2. det' = [det EXCEPT ![d].status = s,
       ![d].by = IF s = "resolved" THEN "analyst"
                 ELSE IF det[d].status = "resolved" THEN "" ELSE @,
       ![d].reopened = @ \/ det[d].status \notin Active]
    BY DEF SetStatus
  <1>3. Rows = [events : SUBSET Events, status : Statuses, at : Nat, by : By, reopened : BOOLEAN]
    BY Zenon DEF Rows
  <1>4. det \in Maps /\ DOMAIN det \subseteq DetIds /\ \A x \in DOMAIN det : det[x] \in Rows
    BY MapIs DEF Types, TableT
  <1>5. det[d] \in [events : SUBSET Events, status : Statuses, at : Nat, by : By, reopened : BOOLEAN]
    BY <1>3, <1>4
  <1>6. "analyst" \in By /\ "" \in By
    OBVIOUS
  <1>7. b \in By
    <2> DEFINE none == ""
    <2>1. b = IF s = "resolved" THEN "analyst" ELSE IF det[d].status = "resolved" THEN none ELSE det[d].by
      BY Zenon
    <2>2. none \in By
      BY <1>6
    <2> HIDE DEF none, b, By
    <2>3. QED
      BY <1>5, <1>6, <2>1, <2>2
  <1>8. det' = [det EXCEPT ![d] = row]
    BY <1>2, Zenon
  <1> HIDE DEF b, By
  <1>9. /\ row \in [events : SUBSET Events, status : Statuses, at : Nat, by : By, reopened : BOOLEAN]
        /\ row.at = det[d].at /\ (row.reopened <=> det[d].reopened \/ det[d].status \notin Active)
    BY <1>5, <1>7
  <1> HIDE DEF row
  <1>10. DOMAIN det' = DOMAIN det /\ \A x \in DOMAIN det : det'[x] = IF x = d THEN row ELSE det[x]
    BY <1>4, <1>8 DEF Maps
  <1>11. det' \in [DOMAIN det -> Rows]
    BY <1>3, <1>4, <1>8, <1>9 DEF Maps
  <1>12. det' \in Maps
    BY <1>4, <1>11 DEF Maps
  <1>13. Types'
    BY <1>1, <1>12 DEF Types, BrokerT, ProcT, WorkT, EditT, TableT
  <1>14. QED
    BY <1>1, <1>9, <1>10, <1>13 DEF EnvKept

LEMMA DeleteIs ==
  ASSUME Types, NEW d \in DOMAIN det, Delete(d)
  PROVE  /\ Types' /\ EnvKept /\ UNCHANGED <<clock, task>> /\ Locked(d) = {}
         /\ DOMAIN det' = DOMAIN det \ {d} /\ \A x \in DOMAIN det \ {d} : det'[x] = det[x]
  <1>1. /\ Locked(d) = {} /\ triaged' = triaged + 1 /\ det' = [x \in DOMAIN det \ {d} |-> det[x]]
        /\ UNCHANGED <<clock, task, retries, tries, job, pc, tx, began, idx, hits, found, edits, ids, failed,
                       goal, sent, written, lossy, dropped, crashes, errors>>
    BY DEF Delete, brokerVars, workerVars, workVars, histVars
  <1>2. det \in Maps /\ DOMAIN det \subseteq DetIds /\ \A x \in DOMAIN det : det[x] \in Rows
    BY MapIs DEF Types, TableT
  <1>3. det' \in [DOMAIN det \ {d} -> Rows] /\ DOMAIN det \ {d} \in SUBSET DetIds
    BY <1>1, <1>2
  <1>4. det' \in Maps
    BY <1>3 DEF Maps
  <1>5. Types'
    BY <1>1, <1>4 DEF Types, BrokerT, ProcT, WorkT, EditT, TableT
  <1>6. QED
    BY <1>1, <1>5 DEF EnvKept

\* Everything that is not a step of a process.
Env ==
  \/ Tick
  \/ \E t \in Tasks : Arrive(t)
  \/ \E d \in DOMAIN det : Delete(d) \/ \E s \in Statuses : SetStatus(d, s)

LEMMA EnvPlaces ==
  ASSUME Types, Places, Env
  PROVE  Types' /\ Places' /\ EnvKept
  <1>1. /\ Types' /\ EnvKept
        /\ \A t \in Tasks : task[t] = "running" => task'[t] = "running"
    <2>1. CASE Tick
      BY <2>1, TickIs
    <2>2. CASE \E t \in Tasks : Arrive(t)
      BY <2>2, ArriveIs DEF Types, BrokerT
    <2>3. CASE \E d \in DOMAIN det : Delete(d) \/ \E s \in Statuses : SetStatus(d, s)
      BY <2>3, DeleteIs, SetStatusIs
    <2>4. QED
      BY <2>1, <2>2, <2>3 DEF Env
  <1>2. ASSUME NEW w \in Workers PROVE PlaceOf(w)'
    <2>1. PlaceOf(w) /\ HitRange(Rules[idx[w]])' = HitRange(Rules[idx[w]])
      BY <1>1 DEF Places, HitRange, EnvKept
    <2>2. QED
      BY <1>1, <2>1 DEF PlaceOf, EnvKept
  <1>3. OneRunner'
    BY <1>1 DEF Places, OneRunner, EnvKept
  <1>4. QED
    BY <1>1, <1>2, <1>3 DEF Places

LEMMA ActPlaces ==
  ASSUME DetectionAssumption, Types, Places, NEW w \in Workers, Act(w)
  PROVE  Types' /\ Places'
  <1>1. PlaceOf(w) /\ OneRunner
    BY DEF Places
  <1>2. Types' /\ PlaceOf(w)' /\ \A u \in Workers \ {w} : Kept(u)
    BY <1>1, ActOrderly DEF Orderly
  <1>3. \/ \E t \in Tasks : PickUp(w, t)
        \/ /\ pc[w] # "idle" /\ tries' = tries /\ (pc'[w] = "idle" \/ job'[w] = job[w])
           /\ \A t \in Tasks : t # job[w] => task'[t] = task[t]
    BY <1>1, TaskFrame
  <1>4. \A u \in Workers \ {w} : pc[u] # "idle" =>
          /\ task'[job[u]] = "running" /\ (pc'[w] # "idle" => job'[w] # job[u])
    <2> SUFFICES ASSUME NEW u \in Workers \ {w}, pc[u] # "idle"
                 PROVE  /\ task'[job[u]] = "running" /\ (pc'[w] # "idle" => job'[w] # job[u])
      OBVIOUS
    <2>1. job[u] \in Tasks /\ task[job[u]] = "running"
      BY DEF Places, PlaceOf
    <2>2. CASE \E t \in Tasks : PickUp(w, t)
      BY <2>1, <2>2 DEF PickUp, Types, BrokerT, ProcT
    <2>3. CASE /\ pc[w] # "idle" /\ (pc'[w] = "idle" \/ job'[w] = job[w])
               /\ \A t \in Tasks : t # job[w] => task'[t] = task[t]
      BY <1>1, <2>1, <2>3 DEF OneRunner
    <2>4. QED
      BY <1>3, <2>2, <2>3
  <1>5. ASSUME NEW u \in Workers \ {w} PROVE PlaceOf(u)'
    <2>1. PlaceOf(u) /\ Kept(u)
      BY <1>2 DEF Places
    <2>2. (HitRange(Rules[idx[u]]))' = HitRange(Rules[idx[u]])
      BY <2>1 DEF HitRange, Kept
    <2>3. QED
      BY <1>4, <2>1, <2>2 DEF PlaceOf, Kept
  <1>6. OneRunner'
    BY <1>1, <1>2, <1>4 DEF OneRunner, Kept
  <1>7. QED
    BY <1>2, <1>5, <1>6 DEF Places

\* The steps of the specification.
LEMMA NextIs == ASSUME Next PROVE Env \/ \E w \in Workers : Act(w)
  BY DEF Next, Env, Act

LEMMA PlacesInit == ASSUME DetectionAssumption, Init PROVE Types /\ Places
  <1>1. NotFound \in Hits /\ MaxRetries \in Nat
    BY DEF NotFound, Hits, DetectionAssumption
  <1>2. BrokerT /\ ProcT /\ WorkT
    BY <1>1 DEF Init, BrokerT, ProcT, WorkT, Pcs, Txs
  <1>3. EditT /\ TableT /\ \A w \in Workers : DOMAIN edits[w] = {}
    BY NothingIs DEF Init, EditT, TableT
  <1>4. Places
    BY <1>3 DEF Init, Places, PlaceOf, OneRunner, Loop, After, Channels
  <1>5. QED
    BY <1>2, <1>3, <1>4 DEF Types

-----------------------------------------------------------------------------
(* What a transaction has written and what is committed *)

\* A delivery commits once: the rows it has not committed are its own ...
Unwritten(w) == pc[w] \in {"fetch"} \cup Loop \cup After
EditsOf(w) ==
  /\ Unwritten(w) => \A d \in written : RunOf(d) # Run(w)
  /\ \A d \in DOMAIN edits[w] : d \in DOMAIN det \/ RunOf(d) = Run(w)
  /\ \A d \in DOMAIN edits[w] \cap DOMAIN det :
       /\ edits[w][d].at = det[d].at /\ edits[w][d].reopened = det[d].reopened
       /\ edits[w][d].status \in Active \/ pc[w] \in Loop => edits[w][d].status = det[d].status
  /\ pc[w] = "save" /\ found[w].id # NoDet =>
       /\ found[w].id \in written \cup DOMAIN edits[w]
       /\ found[w].id.rule = Rules[idx[w]]
       /\ KeyOf(found[w].id) = HitKey(Rules[idx[w]], found[w].hit)
\* ... and a committed row is edited by one transaction at a time.
LockInv ==
  \A w, u \in Workers : w # u => DOMAIN edits[w] \cap DOMAIN edits[u] \cap DOMAIN det = {}
Ledger ==
  /\ \A d \in written : d.try <= tries[d.task]
  /\ DOMAIN det \subseteq written
  /\ \A w \in Workers : EditsOf(w)
  /\ LockInv

\* A statement of w wrote the row d.
Wrote(w, d) ==
  /\ d \in DOMAIN Seen(w) \/ (pc[w] = "save" /\ found[w].id = NoDet /\ d = NewId(w, found[w].hit))
  /\ Locked(d) \subseteq {w} /\ DOMAIN edits'[w] = DOMAIN edits[w] \cup {d}
  /\ d \in DOMAIN det =>
       /\ edits'[w][d].at = Seen(w)[d].at /\ edits'[w][d].reopened = Seen(w)[d].reopened
       /\ \/ edits'[w][d].status = Seen(w)[d].status
          \/ edits'[w][d].status = "resolved" /\ pc'[w] \notin Loop
  /\ \A x \in DOMAIN edits[w] \ {d} : edits'[w][x] = edits[w][x]

\* A step inside a transaction, and a step that ends it.
Quiet(w) ==
  /\ UNCHANGED <<clock, tries, job, det, written, lossy>>
  /\ Unwritten(w) /\ pc'[w] \in Loop \cup After
  /\ pc'[w] \in Loop => pc[w] \in Loop \/ DOMAIN edits[w] = {}
  /\ edits' = edits \/ DOMAIN edits'[w] = {} \/ \E d \in DetIds : Wrote(w, d)
  /\ pc'[w] = "save" =>
       /\ edits' = edits /\ idx' = idx /\ pc[w] \in Loop
       /\ found'[w].id # NoDet =>
            found'[w].id \in Existing(w, Rules[idx[w]], HitKey(Rules[idx[w]], found'[w].hit))
       /\ found'[w].id = NoDet =>
            Existing(w, Rules[idx[w]], HitKey(Rules[idx[w]], found'[w].hit)) = {}
Ends(w) ==
  /\ clock' = clock /\ tries' = tries
  /\ pc'[w] \in {"idle"} \cup Channels /\ DOMAIN edits'[w] = {}
  /\ \/ UNCHANGED <<det, written>>
     \/ det' = Overlay(edits[w], det) /\ written' = written \cup DOMAIN edits[w] /\ pc[w] = "commit"

\* A detection that an INSERT names is not a committed one.
LEMMA InsertIsNew ==
  ASSUME DetectionAssumption, Types, Places, Ledger, NEW w \in Workers, Insert(w)
  PROVE  /\ RunOf(NewId(w, found[w].hit)) = Run(w)
         /\ NewId(w, found[w].hit) \notin written /\ NewId(w, found[w].hit) \notin DOMAIN det
  <1>1. RunOf(NewId(w, found[w].hit)) = Run(w)
    BY DEF NewId, RunOf, Run
  <1>2. Unwritten(w)
    BY DEF Insert, Unwritten, Loop
  <1>3. QED
    BY <1>1, <1>2 DEF Ledger, EditsOf

LEMMA ActIs ==
  ASSUME DetectionAssumption, Types, Places, Ledger, NEW w \in Workers, Act(w)
  PROVE  \/ \E t \in Tasks : PickUp(w, t)
         \/ Quiet(w)
         \/ Ends(w) /\ (Commit(w) \/ Publish(w) \/ CommitRefused(w) \/ CallFails(w) \/ Crash(w))
  <1>0. PlaceOf(w) /\ EditsOf(w)
    BY DEF Places, Ledger
  <1> USE DEF Quiet, Unwritten
  <1>1. CASE Fetch(w)
    <2>1. /\ pc[w] = "fetch" /\ pc'[w] \in {"commit", "rule"}
          /\ UNCHANGED <<clock, tries, job, det, written, lossy, edits>>
      BY <1>1 DEF Fetch, brokerVars, histVars, Types, ProcT
    <2>2. DOMAIN edits[w] = {}
      BY <1>0, <2>1 DEF PlaceOf
    <2>3. QED
      BY <2>1, <2>2 DEF Loop, After
  <1>2. CASE Evaluate(w)
    <2>1. /\ pc[w] = "rule" /\ pc[w] \in Loop
          /\ UNCHANGED <<clock, tries, job, det, written, lossy, edits>>
      BY <1>2 DEF Evaluate, brokerVars, histVars, Loop
    <2>2. pc'[w] \in {"find", "remedies", "rule"}
      BY <1>0, <1>2, <2>1, NextRuleIs DEF Evaluate, Types, ProcT
    <2>3. QED
      BY <2>1, <2>2 DEF Loop, After
  <1>3. CASE Find(w)
    <2>1. pc[w] = "find" /\ pc[w] \in Loop /\ UNCHANGED <<clock, tries, job, det, written, lossy, edits>>
      BY <1>0, <1>3, FindIs
    <2>2. CASE \E h \in hits[w] : HitDone(w, h)
      <3>1. pc'[w] \in {"find", "remedies", "rule"}
        BY <1>0, <2>1, <2>2, HitDoneIs, NextRuleIs DEF Types
      <3>2. QED
        BY <2>1, <3>1 DEF Loop, After
    <2>3. CASE RuleFails(w)
      <3>1. pc'[w] \in {"remedies", "rule"}
        BY <1>0, <2>1, <2>3, RuleFailsIs, NextRuleIs DEF Types
      <3>2. QED
        BY <2>1, <3>1 DEF Loop, After
    <2>4. ASSUME UNCHANGED <<idx, hits, failed>>, pc' = [pc EXCEPT ![w] = "save"],
                 NEW h \in hits[w], NEW d \in {NoDet} \cup DOMAIN Seen(w), NEW evs \in SUBSET Events,
                 found' = [found EXCEPT ![w] = [hit |-> h, id |-> d, events |-> evs]],
                 \/ d = NoDet /\ Existing(w, Rules[idx[w]], HitKey(Rules[idx[w]], h)) = {}
                 \/ d \in Existing(w, Rules[idx[w]], HitKey(Rules[idx[w]], h))
          PROVE  Quiet(w)
      <3>1. pc'[w] = "save" /\ found'[w].hit = h /\ found'[w].id = d
        BY <2>4 DEF Types, ProcT, WorkT
      <3>2. d = NoDet => d \notin Existing(w, Rules[idx[w]], HitKey(Rules[idx[w]], h))
        BY SeenIs DEF Existing, Types, DetectionAssumption
      <3>3. QED
        BY <2>1, <2>4, <3>1, <3>2 DEF Loop, After
    <2>5. QED
      BY <1>0, <1>3, <2>2, <2>3, <2>4, FindIs
  <1>4. ASSUME SaveStep(w), edits' = edits \/ \E d \in DetIds : Wrote(w, d) PROVE Quiet(w)
    <2>1. /\ pc[w] = "save" /\ pc[w] \in Loop /\ HitDone(w, found[w].hit) /\ found[w].hit \in hits[w]
          /\ UNCHANGED <<clock, tries, job, det, written, lossy>>
      BY <1>0, <1>4 DEF SaveStep, PlaceOf, Loop
    <2>2. pc'[w] \in {"find", "remedies", "rule"}
      BY <1>0, <2>1, HitDoneIs, NextRuleIs DEF Types
    <2>3. QED
      BY <1>4, <2>1, <2>2 DEF Loop, After
  <1>5. CASE Insert(w)
    <2>1. Wrote(w, NewId(w, found[w].hit)) /\ NewId(w, found[w].hit) \in DetIds /\ SaveStep(w)
      BY <1>0, <1>5, InsertIs, InsertIsNew DEF Wrote, Locked, SaveStep
    <2>2. QED
      BY <1>4, <2>1
  <1>6. CASE Update(w)
    <2>1. SaveStep(w)
      BY <1>0, <1>6, UpdateIs
    <2>2. CASE edits' = edits
      BY <1>4, <2>1, <2>2
    <2>3. CASE edits' # edits
      <3>1. found[w].id \in DOMAIN Seen(w)
        BY <1>0, <1>6, <2>3, UpdateIs
      <3>2. found[w].id \in DetIds
        BY <3>1, SeenIs DEF Types
      <3>3. Wrote(w, found[w].id)
        BY <1>0, <1>6, <2>3, <3>1, UpdateIs DEF Wrote
      <3>4. QED
        BY <1>4, <2>1, <3>2, <3>3
    <2>4. QED
      BY <2>2, <2>3
  <1>7. CASE FindRemedied(w)
    BY <1>0, <1>7, FindRemediedOrderly DEF Loop, After
  <1>8. CASE Resolve(w)
    <2>1. /\ pc[w] = "resolve" /\ pc'[w] \in {"commit", "resolve"}
          /\ UNCHANGED <<clock, tries, job, det, written, lossy>>
      BY <1>0, <1>8, ResolveIs
    <2>2. ASSUME NEW d \in DOMAIN Seen(w),
                 Locked(d) \subseteq {w}, DOMAIN edits'[w] = DOMAIN edits[w] \cup {d},
                 edits'[w][d].at = Seen(w)[d].at, edits'[w][d].reopened = Seen(w)[d].reopened,
                 edits'[w][d].status = "resolved",
                 \A x \in DOMAIN edits[w] \ {d} : edits'[w][x] = edits[w][x]
          PROVE  d \in DetIds /\ Wrote(w, d)
      <3>1. d \in DetIds
        BY SeenIs DEF Types
      <3>2. QED
        BY <2>1, <2>2, <3>1 DEF Wrote, Loop
    <2>3. edits' = edits \/ \E d \in DetIds : Wrote(w, d)
      BY <1>0, <1>8, <2>2, ResolveIs
    <2>4. QED
      BY <2>1, <2>3 DEF Loop, After
  <1>9. CASE Raises(w) \/ DeadlockVictim(w)
    <2>1. /\ UNCHANGED <<clock, tries, job, det, written, lossy>>
          /\ edits' = edits \/ DOMAIN edits'[w] = {}
          /\ \/ pc[w] \in Loop /\ RuleFails(w)
             \/ pc[w] \in {"remedies", "resolve"} /\ pc'[w] = "commit"
      BY <1>0, <1>9, RaisedIs
    <2>2. pc[w] \in Loop /\ RuleFails(w) => pc'[w] \in {"remedies", "rule"}
      BY <1>0, RuleFailsIs, NextRuleIs DEF Types
    <2>3. QED
      BY <2>1, <2>2 DEF Loop, After
  <1>10. CASE Refused(w)
    <2>1. /\ UNCHANGED <<clock, tries, job, det, written, lossy, edits>>
          /\ tx[w] # "open" /\ pc[w] \in {"rule", "remedies"} /\ pc'[w] \in {"rule", "remedies", "commit"}
      BY <1>0, <1>10, RefusedIs
    <2>2. DOMAIN edits[w] = {}
      BY <1>0, <2>1 DEF PlaceOf
    <2>3. QED
      BY <2>1, <2>2 DEF Loop, After
  <1>11. CASE Commit(w) \/ Publish(w) \/ CommitRefused(w) \/ CallFails(w) \/ Crash(w)
    BY <1>0, <1>11, CommitIs, PublishIs, RetryIs DEF Ends, Channels
  <1>12. CASE \E t \in Tasks : PickUp(w, t)
    BY <1>12
  <1>13. QED
    BY <1>1, <1>2, <1>3, <1>5, <1>6, <1>7, <1>8, <1>9, <1>10, <1>11, <1>12 DEF Act, Step

\* Between two processes: what one has not committed carries its own run.
LEMMA RunsDiffer ==
  ASSUME Places, NEW w \in Workers, NEW u \in Workers, w # u, pc[w] # "idle", pc[u] # "idle"
  PROVE  Run(w) # Run(u)
  BY DEF Places, OneRunner, Run

LEMMA EditsOpen ==
  ASSUME Types, Places, NEW w \in Workers, NEW d \in DOMAIN edits[w]
  PROVE  tx[w] = "open" /\ Unwritten(w) /\ pc[w] # "idle"
  <1>1. pc[w] \in Pcs
    BY DEF Types, ProcT
  <1>2. QED
    BY <1>1 DEF Places, PlaceOf, Unwritten, Pcs, Loop, After, Channels

\* A row that nobody else has locked is edited by nobody else.
LEMMA LockedIs ==
  ASSUME Types, Places, NEW d \in DOMAIN det, NEW u \in Workers, u \notin Locked(d)
  PROVE  d \notin DOMAIN edits[u]
  BY EditsOpen DEF Locked

LEMMA QuietLedger ==
  ASSUME DetectionAssumption, Types, Places, Ledger, NEW w \in Workers, Quiet(w),
         \A u \in Workers \ {w} : Kept(u)
  PROVE  Ledger'
  <1>1. UNCHANGED <<tries, job, det, written>> /\ Unwritten(w) /\ EditsOf(w)
    BY DEF Quiet, Ledger
  <1>2. \A u \in Workers : Run(u)' = Run(u)
    BY <1>1 DEF Run
  <1>3. \A d \in DOMAIN det : d \in written
    BY DEF Ledger
  <1>4. ASSUME NEW u \in Workers \ {w} PROVE EditsOf(u)'
    <2>1. EditsOf(u) /\ Kept(u) /\ (Run(u))' = Run(u)
      BY <1>2 DEF Ledger
    <2>2. HitKey(Rules[idx[u]], found[u].hit)' = HitKey(Rules[idx[u]], found[u].hit)
      BY <2>1 DEF HitKey, Kept
    <2>3. KeyOf(found[u].id)' = KeyOf(found[u].id)
      BY <2>1 DEF KeyOf, Kept
    <2>4. QED
      BY <1>1, <2>1, <2>2, <2>3 DEF EditsOf, Kept, Unwritten
  <1>5. CASE edits' = edits
    <2>1. LockInv'
      BY <1>1, <1>5 DEF Ledger, LockInv
    <2>2. EditsOf(w)'
      <3>1. pc'[w] \in Loop => pc[w] \in Loop \/ DOMAIN edits[w] = {}
        BY DEF Quiet
      <3>2. \A d \in DOMAIN edits[w] \cap DOMAIN det :
              /\ edits[w][d].at = det[d].at /\ edits[w][d].reopened = det[d].reopened
              /\ edits[w][d].status \in Active \/ pc'[w] \in Loop => edits[w][d].status = det[d].status
        BY <1>1, <3>1 DEF EditsOf
      <3>3. pc'[w] = "save" /\ found'[w].id # NoDet =>
               /\ found'[w].id \in written \cup DOMAIN edits[w]
               /\ found'[w].id.rule = Rules[idx'[w]]
               /\ KeyOf(found[w].id)' = HitKey(Rules[idx[w]], found[w].hit)'
        <4> SUFFICES ASSUME pc'[w] = "save", found'[w].id # NoDet
                     PROVE  /\ found'[w].id \in written \cup DOMAIN edits[w]
                            /\ found'[w].id.rule = Rules[idx'[w]]
                            /\ KeyOf(found[w].id)' = HitKey(Rules[idx[w]], found[w].hit)'
          OBVIOUS
        <4>1. idx' = idx /\ found'[w].id \in Existing(w, Rules[idx[w]], HitKey(Rules[idx[w]], found'[w].hit))
          BY DEF Quiet
        <4>2. /\ found'[w].id \in DOMAIN Seen(w) /\ found'[w].id.rule = Rules[idx[w]]
              /\ KeyOf(found'[w].id) = HitKey(Rules[idx[w]], found'[w].hit)
          BY <4>1 DEF Existing
        <4>3. found'[w].id \in written \cup DOMAIN edits[w]
          BY <1>3, <4>2, SeenIs DEF Types
        <4>4. /\ KeyOf(found[w].id)' = KeyOf(found'[w].id)
              /\ HitKey(Rules[idx[w]], found[w].hit)' = HitKey(Rules[idx'[w]], found'[w].hit)
          BY DEF KeyOf, HitKey
        <4>5. QED
          BY <4>1, <4>2, <4>3, <4>4
      <3>4. QED
        BY <1>1, <1>2, <1>5, <3>2, <3>3 DEF EditsOf, Unwritten
    <2>3. QED
      BY <1>1, <1>4, <2>1, <2>2 DEF Ledger
  <1>6. CASE DOMAIN edits'[w] = {} /\ edits' # edits
    <2>1. LockInv'
      BY <1>1, <1>6 DEF Ledger, LockInv, Kept
    <2>2. pc'[w] # "save"
      BY <1>6 DEF Quiet
    <2>3. EditsOf(w)'
      BY <1>1, <1>2, <1>6, <2>2 DEF EditsOf, Unwritten
    <2>4. QED
      BY <1>1, <1>4, <2>1, <2>3 DEF Ledger
  <1>7. ASSUME NEW d \in DetIds, Wrote(w, d), edits' # edits PROVE Ledger'
    <2>1. LockInv'
      <3> SUFFICES ASSUME NEW u \in Workers \ {w}, NEW x \in DOMAIN edits'[w],
                          x \in DOMAIN edits[u], x \in DOMAIN det
                   PROVE  FALSE
        BY <1>1 DEF Ledger, LockInv, Kept
      <3>1. x = d
        BY <1>7 DEF Ledger, LockInv, Wrote
      <3>2. u \notin Locked(d)
        BY <1>7 DEF Wrote
      <3>3. QED
        BY <3>1, <3>2, LockedIs
    <2>2. pc'[w] # "save"
      BY <1>7 DEF Quiet
    <2>3. \A x \in DOMAIN edits'[w] : x \in DOMAIN det \/ RunOf(x) = Run(w)
      <3>1. d \in DOMAIN det \/ d \in DOMAIN edits[w] \/ RunOf(d) = Run(w)
        <4>1. CASE d \in DOMAIN Seen(w)
          BY <4>1, SeenIs DEF Types
        <4>2. CASE d = NewId(w, found[w].hit)
          BY <4>2 DEF NewId, RunOf, Run
        <4>3. QED
          BY <1>7, <4>1, <4>2 DEF Wrote
      <3>2. QED
        BY <1>1, <1>7, <3>1 DEF Wrote, EditsOf
    <2>4. ASSUME NEW x \in DOMAIN edits'[w], x \in DOMAIN det
          PROVE  /\ edits'[w][x].at = det[x].at /\ edits'[w][x].reopened = det[x].reopened
                 /\ edits'[w][x].status \in Active \/ pc'[w] \in Loop => edits'[w][x].status = det[x].status
      <3>1. pc'[w] \in Loop => pc[w] \in Loop \/ DOMAIN edits[w] = {}
        BY DEF Quiet
      <3>2. CASE x = d
        <4>1. CASE d \in DOMAIN edits[w]
          <5>1. Seen(w)[d] = edits[w][d]
            BY <4>1, SeenIs DEF Types
          <5>2. QED
            BY <1>1, <1>7, <2>4, <3>1, <3>2, <4>1, <5>1 DEF Wrote, EditsOf, Active
        <4>2. CASE d \notin DOMAIN edits[w]
          <5>1. Seen(w)[d] = det[d]
            BY <2>4, <3>2, <4>2, SeenIs DEF Types
          <5>2. QED
            BY <1>7, <2>4, <3>2, <5>1 DEF Wrote, Active
        <4>3. QED
          BY <4>1, <4>2
      <3>3. CASE x # d
        BY <1>1, <1>7, <2>4, <3>1, <3>3 DEF Wrote, EditsOf
      <3>4. QED
        BY <3>2, <3>3
    <2>5. EditsOf(w)'
      BY <1>1, <1>2, <2>2, <2>3, <2>4 DEF EditsOf, Unwritten
    <2>6. QED
      BY <1>1, <1>4, <2>1, <2>5 DEF Ledger
  <1>8. QED
    BY <1>5, <1>6, <1>7 DEF Quiet

\* The variables of EditsOf: they keep it while det and written change elsewhere.
LEMMA EditsKept ==
  ASSUME NEW u \in Workers, EditsOf(u), Kept(u), (Run(u))' = Run(u) \/ ~Unwritten(u),
         Unwritten(u) => \A d \in written' : RunOf(d) # Run(u),
         DOMAIN edits[u] # {} => Unwritten(u), written \subseteq written',
         \A d \in DOMAIN edits[u] : d \in DOMAIN det => d \in DOMAIN det',
         \A d \in DOMAIN edits[u] : d \in DOMAIN det' => d \in DOMAIN det /\ det'[d] = det[d]
  PROVE  EditsOf(u)'
  <1>1. HitKey(Rules[idx[u]], found[u].hit)' = HitKey(Rules[idx[u]], found[u].hit)
    BY DEF HitKey, Kept
  <1>2. KeyOf(found[u].id)' = KeyOf(found[u].id)
    BY DEF KeyOf, Kept
  <1>3. Unwritten(u)' = Unwritten(u)
    BY DEF Unwritten, Kept
  <1>4. /\ edits'[u] = edits[u] /\ found'[u] = found[u] /\ pc'[u] = pc[u] /\ idx'[u] = idx[u]
    BY DEF Kept
  <1>5. Unwritten(u)' => \A d \in written' : RunOf(d) # (Run(u))'
    BY <1>3
  <1>6. \A d \in DOMAIN edits'[u] : d \in DOMAIN det' \/ RunOf(d) = (Run(u))'
    BY <1>4 DEF EditsOf
  <1>7. \A d \in DOMAIN edits'[u] \cap DOMAIN det' :
          /\ edits'[u][d].at = det'[d].at /\ edits'[u][d].reopened = det'[d].reopened
          /\ edits'[u][d].status \in Active \/ pc'[u] \in Loop => edits'[u][d].status = det'[d].status
    BY <1>4 DEF EditsOf
  <1>8. pc'[u] = "save" /\ found'[u].id # NoDet =>
       /\ found'[u].id \in written' \cup DOMAIN edits'[u]
       /\ found'[u].id.rule = Rules[idx'[u]]
       /\ KeyOf(found[u].id)' = HitKey(Rules[idx[u]], found[u].hit)'
    BY <1>1, <1>2, <1>4 DEF EditsOf
  <1>9. QED
    BY <1>5, <1>6, <1>7, <1>8 DEF EditsOf

LEMMA PickUpLedger ==
  ASSUME DetectionAssumption, Types, Places, Ledger, NEW w \in Workers, NEW t \in Tasks, PickUp(w, t)
  PROVE  Ledger'
  <1>1. /\ tries' = [tries EXCEPT ![t] = @ + 1] /\ job'[w] = t /\ pc'[w] = "fetch" /\ pc[w] = "idle"
        /\ task[t] = "queued" /\ UNCHANGED <<edits, found, det, written>>
        /\ \A u \in Workers \ {w} : Kept(u)
        /\ tries \in [Tasks -> Nat] /\ written \subseteq DetIds
    BY DEF PickUp, workVars, histVars, Types, ProcT, BrokerT, TableT, Kept
  <1>2. \A d \in written : d.try <= tries[d.task] /\ d.task \in Tasks /\ d.try \in Nat
    BY <1>1 DEF Ledger, DetIds
  <1>3. \A d \in written : d.try <= tries'[d.task]
    BY <1>1, <1>2
  <1>4. \A d \in written : RunOf(d) # <<t, tries[t] + 1>>
    BY <1>1, <1>2 DEF RunOf
  <1>5. Run(w)' = <<t, tries[t] + 1>>
    BY <1>1 DEF Run
  <1>6. DOMAIN edits[w] = {}
    BY <1>1 DEF Places, PlaceOf
  <1>7. EditsOf(w)'
    BY <1>1, <1>4, <1>5, <1>6 DEF EditsOf
  <1>8. ASSUME NEW u \in Workers \ {w} PROVE EditsOf(u)'
    <2>1. EditsOf(u) /\ Kept(u)
      BY <1>1 DEF Ledger
    <2>2. Unwritten(u) => (Run(u))' = Run(u)
      <3> SUFFICES ASSUME Unwritten(u) PROVE (Run(u))' = Run(u)
        OBVIOUS
      <3>1. pc[u] # "idle" /\ job[u] \in Tasks /\ task[job[u]] = "running"
        BY DEF Unwritten, Places, PlaceOf, Loop, After
      <3>2. QED
        BY <1>1, <2>1, <3>1 DEF Run, Kept
    <2>3. QED
      BY <1>1, <2>1, <2>2, EditsKept, EditsOpen DEF EditsOf
  <1>9. LockInv'
    BY <1>1 DEF Ledger, LockInv
  <1>10. QED
    BY <1>1, <1>3, <1>7, <1>8, <1>9 DEF Ledger

LEMMA EndsLedger ==
  ASSUME DetectionAssumption, Types, Places, Ledger, NEW w \in Workers, Ends(w),
         \A u \in Workers \ {w} : Kept(u), pc[w] # "idle"
  PROVE  Ledger'
  <1>1. tries' = tries /\ DOMAIN edits'[w] = {} /\ pc'[w] \in {"idle"} \cup Channels
    BY DEF Ends
  <1>2. EditsOf(w)'
    BY <1>1 DEF EditsOf, Unwritten, Loop, After, Channels
  <1>3. CASE UNCHANGED <<det, written>>
    <2>1. ASSUME NEW u \in Workers \ {w} PROVE EditsOf(u)'
      BY <1>1, <1>3, EditsKept, EditsOpen DEF Ledger, EditsOf, Run, Kept
    <2>2. LockInv'
      BY <1>1, <1>3 DEF Ledger, LockInv, Kept
    <2>3. QED
      BY <1>1, <1>2, <1>3, <2>1, <2>2 DEF Ledger
  <1>4. CASE det' = Overlay(edits[w], det) /\ written' = written \cup DOMAIN edits[w]
    <2>1. /\ DOMAIN det' = DOMAIN edits[w] \cup DOMAIN det
          /\ \A d \in DOMAIN det \ DOMAIN edits[w] : det'[d] = det[d]
      BY <1>4, CommittedIs DEF Types
    <2>2. \A d \in DOMAIN edits[w] : d \in DOMAIN det \/ RunOf(d) = Run(w)
      BY DEF Ledger, EditsOf
    <2>3. ASSUME NEW d \in DOMAIN edits[w] PROVE d.try <= tries[d.task]
      <3>1. CASE d \in DOMAIN det
        BY <3>1 DEF Ledger
      <3>2. CASE RunOf(d) = Run(w)
        <4>1. d.task = job[w] /\ d.try = tries[job[w]]
          BY <3>2 DEF RunOf, Run
        <4>2. job[w] \in Tasks /\ tries[job[w]] \in Nat
          BY DEF Places, PlaceOf, Types, BrokerT
        <4>3. QED
          BY <4>1, <4>2
      <3>3. QED
        BY <2>2, <3>1, <3>2
    <2>4. ASSUME NEW u \in Workers \ {w} PROVE EditsOf(u)'
      <3>1. EditsOf(u) /\ Kept(u) /\ (Run(u))' = Run(u)
        BY <1>1 DEF Ledger, Run, Kept
      <3>2. Unwritten(u) => \A d \in written' : RunOf(d) # Run(u)
        <4> SUFFICES ASSUME Unwritten(u), NEW d \in written' PROVE RunOf(d) # Run(u)
          OBVIOUS
        <4>1. Run(w) # Run(u)
          BY RunsDiffer DEF Unwritten, Loop, After
        <4>2. CASE d \in written
          BY <3>1, <4>2 DEF EditsOf
        <4>3. CASE d \in DOMAIN edits[w] \ DOMAIN det
          BY <2>2, <4>1, <4>3
        <4>4. QED
          BY <1>4, <4>2, <4>3 DEF Ledger
      <3>3. \A d \in DOMAIN edits[u] : d \in DOMAIN det' => d \in DOMAIN det /\ det'[d] = det[d]
        <4> SUFFICES ASSUME NEW d \in DOMAIN edits[u], d \in DOMAIN det'
                     PROVE  d \in DOMAIN det /\ det'[d] = det[d]
          OBVIOUS
        <4>1. d \in DOMAIN det
          <5>1. CASE d \in DOMAIN edits[w] \ DOMAIN det
            <6>1. Run(w) # Run(u)
              BY EditsOpen, RunsDiffer
            <6>2. RunOf(d) = Run(w) /\ RunOf(d) = Run(u)
              BY <2>2, <3>1, <5>1 DEF EditsOf
            <6>3. QED
              BY <6>1, <6>2
          <5>2. QED
            BY <2>1, <5>1
        <4>2. d \notin DOMAIN edits[w]
          BY <4>1 DEF Ledger, LockInv
        <4>3. QED
          BY <2>1, <4>1, <4>2
      <3>4. QED
        BY <1>4, <2>1, <3>1, <3>2, <3>3, EditsKept, EditsOpen
    <2>5. LockInv'
      <3> SUFFICES ASSUME NEW u \in Workers \ {w}, NEW v \in Workers \ {w}, u # v, NEW d,
                          d \in DOMAIN edits[u], d \in DOMAIN edits[v], d \in DOMAIN det'
                   PROVE  FALSE
        BY <1>1 DEF LockInv, Kept
      <3>1. d \notin DOMAIN det
        BY DEF Ledger, LockInv
      <3>2. RunOf(d) = Run(u) /\ RunOf(d) = Run(v)
        BY <3>1 DEF Ledger, EditsOf
      <3>3. QED
        BY <3>2, EditsOpen, RunsDiffer
    <2>6. DOMAIN det' \subseteq written'
      BY <1>4, <2>1 DEF Ledger
    <2>7. QED
      BY <1>1, <1>2, <1>4, <2>3, <2>4, <2>5, <2>6 DEF Ledger
  <1>5. QED
    BY <1>3, <1>4 DEF Ends

LEMMA EnvLedger ==
  ASSUME DetectionAssumption, Types, Places, Ledger, Env
  PROVE  Ledger'
  <1>1. /\ EnvKept /\ DOMAIN det' \subseteq DOMAIN det
        /\ \A u \in Workers, d \in DOMAIN det :
             d \in DOMAIN edits[u] => d \in DOMAIN det' /\ det'[d] = det[d]
    <2>1. CASE Tick \/ \E t \in Tasks : Arrive(t)
      BY <2>1, TickIs, ArriveIs
    <2>2. ASSUME NEW d \in DOMAIN det, Delete(d) \/ \E s \in Statuses : SetStatus(d, s)
          PROVE  /\ EnvKept /\ DOMAIN det' \subseteq DOMAIN det
                 /\ \A u \in Workers, x \in DOMAIN det :
                      x \in DOMAIN edits[u] => x \in DOMAIN det' /\ det'[x] = det[x]
      <3>1. /\ EnvKept /\ Locked(d) = {} /\ DOMAIN det' \subseteq DOMAIN det
            /\ \A x \in DOMAIN det \ {d} : x \in DOMAIN det' /\ det'[x] = det[x]
        BY <2>2, DeleteIs, SetStatusIs
      <3>2. \A u \in Workers : d \notin DOMAIN edits[u]
        BY <3>1, LockedIs
      <3>3. QED
        BY <3>1, <3>2
    <2>3. QED
      BY <2>1, <2>2 DEF Env
  <1>2. ASSUME NEW u \in Workers PROVE EditsOf(u)'
    <2>1. EditsOf(u) /\ Kept(u) /\ (Run(u))' = Run(u)
      BY <1>1 DEF Ledger, EnvKept, Kept, Run
    <2>2. QED
      BY <1>1, <2>1, EditsKept, EditsOpen DEF EnvKept, EditsOf
  <1>3. LockInv'
    BY <1>1 DEF Ledger, LockInv, EnvKept
  <1>4. QED
    BY <1>1, <1>2, <1>3 DEF Ledger, EnvKept

\* The inductive invariant that the properties share.
Base == Types /\ Places /\ Ledger

LEMMA BaseInit == ASSUME DetectionAssumption, Init PROVE Base
  <1>1. Types /\ Places
    BY PlacesInit
  <1>2. Ledger
    BY NothingIs DEF Init, Ledger, EditsOf, LockInv, Unwritten, Loop, After
  <1>3. QED
    BY <1>1, <1>2 DEF Base

LEMMA ActBase ==
  ASSUME DetectionAssumption, Base, NEW w \in Workers, Act(w)
  PROVE  Base' /\ \A u \in Workers \ {w} : Kept(u)
  <1>1. Types' /\ Places' /\ \A u \in Workers \ {w} : Kept(u)
    BY ActPlaces, ActOrderly DEF Base, Places, Orderly
  <1>2. CASE \E t \in Tasks : PickUp(w, t)
    BY <1>1, <1>2, PickUpLedger DEF Base
  <1>3. CASE Quiet(w)
    BY <1>1, <1>3, QuietLedger DEF Base
  <1>4. CASE Ends(w) /\ ~\E t \in Tasks : PickUp(w, t)
    <2>1. pc[w] # "idle"
      BY <1>4, TaskFrame DEF Base, Places
    <2>2. QED
      BY <1>1, <1>4, <2>1, EndsLedger DEF Base
  <1>5. QED
    BY <1>2, <1>3, <1>4, ActIs DEF Base

LEMMA EnvBase == ASSUME DetectionAssumption, Base, Env PROVE Base' /\ EnvKept
  BY EnvPlaces, EnvLedger DEF Base

LEMMA BaseNext == ASSUME DetectionAssumption, Base, [Next]_vars PROVE Base'
  <1>1. CASE Next
    BY <1>1, NextIs, ActBase, EnvBase
  <1>2. CASE UNCHANGED vars
    <2>1. Types' /\ Places'
      <3>1. /\ UNCHANGED <<clock, task, retries, tries, job, pc, tx, began, idx, hits, found, edits, ids,
                           failed, goal, det, sent, written, lossy, dropped, crashes, errors, triaged>>
        BY <1>2 DEF vars, brokerVars, workerVars, workVars, histVars, boundVars
      <3>2. \A w \in Workers : HitRange(Rules[idx[w]])' = HitRange(Rules[idx[w]])
        BY <3>1 DEF HitRange
      <3>3. QED
        BY <3>1, <3>2 DEF Base, Types, BrokerT, ProcT, WorkT, EditT, TableT, Places, PlaceOf, OneRunner
    <2>2. Ledger'
      <3>1. UNCHANGED <<tries, job, pc, tx, idx, found, edits, det, written>>
        BY <1>2 DEF vars, brokerVars, workerVars, workVars, histVars, boundVars
      <3>2. \A w \in Workers : Run(w)' = Run(w) /\ Unwritten(w)' = Unwritten(w)
        BY <3>1 DEF Run, Unwritten
      <3>3. \A w \in Workers : /\ KeyOf(found[w].id)' = KeyOf(found[w].id)
                               /\ HitKey(Rules[idx[w]], found[w].hit)' = HitKey(Rules[idx[w]], found[w].hit)
        BY <3>1 DEF KeyOf, HitKey
      <3>4. \A w \in Workers : EditsOf(w)'
        BY <3>1, <3>2, <3>3 DEF Base, Ledger, EditsOf
      <3>5. QED
        BY <3>1, <3>4 DEF Base, Ledger, LockInv
    <2>3. QED
      BY <2>1, <2>2 DEF Base
  <1>3. QED
    BY <1>1, <1>2

\* Every variable keeps its type, and what a transaction has edited is its own or still
\* there (Insert, Update, Resolve, Commit, update_detection_status, delete_detection).
THEOREM PipelineTyped == ASSUME DetectionAssumption PROVE Spec => []TypeOK
  <1>1. Init => Base
    BY BaseInit
  <1>2. Base /\ [Next]_vars => Base'
    BY BaseNext
  <1>3. Base => TypeOK
    <2> SUFFICES ASSUME Base PROVE TypeOK
      OBVIOUS
    <2>1. Types /\ Ledger
      BY DEF Base
    <2>2. \A w \in Workers : /\ \A d \in DOMAIN edits[w] :
                                  /\ d \in DetIds /\ edits[w][d] \in Rows
                                  /\ d \in DOMAIN det \/ RunOf(d) = Run(w)
                             /\ found[w].id \in DetIds \cup {NoDet} /\ found[w].events \subseteq Events
      <3> SUFFICES ASSUME NEW w \in Workers
                   PROVE  /\ \A d \in DOMAIN edits[w] :
                                  /\ d \in DetIds /\ edits[w][d] \in Rows
                                  /\ d \in DOMAIN det \/ RunOf(d) = Run(w)
                          /\ found[w].id \in DetIds \cup {NoDet} /\ found[w].events \subseteq Events
        OBVIOUS
      <3>1. found[w] \in Hits
        BY <2>1 DEF Types, WorkT
      <3>2. \A d \in DOMAIN edits[w] : d \in DOMAIN Seen(w) /\ Seen(w)[d] = edits[w][d]
        BY <2>1, SeenIs DEF Types
      <3>3. \A d \in DOMAIN edits[w] : d \in DetIds /\ edits[w][d] \in Rows
        BY <2>1, <3>2, SeenIs DEF Types
      <3>4. QED
        BY <2>1, <3>1, <3>3 DEF Ledger, EditsOf, Hits
    <2>3. \A d \in DOMAIN det : d \in DetIds /\ det[d] \in Rows
      BY <2>1, MapIs DEF Types, TableT
    <2>4. QED
      BY <2>1, <2>2, <2>3
      DEF TypeOK, Types, BrokerT, ProcT, WorkT, TableT, Ledger, Pcs, Txs, Loop, After
  <1>4. QED
    BY <1>1, <1>2, <1>3, PTL DEF Spec

-----------------------------------------------------------------------------
(* What is published is committed *)

\* The ids that a call is about to publish are those of its own rows: still in its
\* transaction, or lost with it, and once it publishes committed, or lost at the COMMIT.
IdsOf(w) ==
  \A d \in ids[w] :
    /\ RunOf(d) = Run(w)
    /\ pc[w] \in Channels => d \in written \/ Run(w) \in lossy
    /\ pc[w] \notin Channels => d \in DOMAIN edits[w] \/ tx[w] # "open"
SentInv == SentIsWritten /\ \A w \in Workers : IdsOf(w)

\* The records of what happened only grow, and the run of another process is the same.
LEMMA ActMono ==
  ASSUME DetectionAssumption, Base, NEW w \in Workers, Act(w)
  PROVE  /\ clock' = clock
         /\ written \subseteq written' /\ dropped \subseteq dropped'
         /\ lossy \subseteq lossy' /\ lossy' \subseteq lossy \cup {Run(w)}
         /\ \A u \in Workers \ {w} : pc[u] # "idle" => (Run(u))' = Run(u)
  <1>0. Types /\ Places /\ PlaceOf(w) /\ \A u \in Workers \ {w} : Kept(u)
    BY ActBase DEF Base, Places
  <1>1. /\ clock' = clock
        /\ written \subseteq written' /\ dropped \subseteq dropped'
        /\ lossy \subseteq lossy' /\ lossy' \subseteq lossy \cup {Run(w)}
    <2>1. CASE (\E t \in Tasks : PickUp(w, t)) \/ Fetch(w) \/ Evaluate(w)
      BY <2>1 DEF PickUp, Fetch, Evaluate, histVars
    <2>2. CASE Find(w) \/ Insert(w) \/ Update(w)
      BY <1>0, <2>2, FindIs, InsertIs, UpdateIs DEF SaveStep
    <2>3. CASE FindRemedied(w) \/ Resolve(w) \/ Raises(w) \/ DeadlockVictim(w) \/ Refused(w)
      BY <1>0, <2>3, FindRemediedOrderly, ResolveIs, RaisedIs, RefusedIs
    <2>4. CASE Commit(w)
      BY <1>0, <2>4, CommitIs
    <2>5. CASE Publish(w)
      BY <1>0, <2>5, PublishIs
    <2>6. CASE CommitRefused(w) \/ CallFails(w) \/ Crash(w)
      BY <1>0, <2>6, RetryIs
    <2>7. QED
      BY <2>1, <2>2, <2>3, <2>4, <2>5, <2>6 DEF Act, Step
  <1>2. ASSUME NEW u \in Workers \ {w}, pc[u] # "idle" PROVE (Run(u))' = Run(u)
    <2>1. job'[u] = job[u] /\ job[u] \in Tasks /\ task[job[u]] = "running"
      BY <1>0, <1>2 DEF Kept, Places, PlaceOf
    <2>2. tries'[job[u]] = tries[job[u]]
      <3>1. CASE \E t \in Tasks : PickUp(w, t)
        BY <1>0, <2>1, <3>1 DEF PickUp, Types, BrokerT
      <3>2. QED
        BY <1>0, <3>1, TaskFrame
    <2>3. QED
      BY <2>1, <2>2 DEF Run
  <1>3. QED
    BY <1>1, <1>2

\* Inside a transaction an id comes with its row.
LEMMA QuietIds ==
  ASSUME DetectionAssumption, Base, NEW w \in Workers, Act(w), Quiet(w), IdsOf(w),
         ~\E t \in Tasks : PickUp(w, t)
  PROVE  IdsOf(w)' /\ sent' = sent
  <1>0. Types /\ Places /\ Ledger /\ PlaceOf(w)
    BY DEF Base, Places
  <1>1. /\ pc[w] \notin Channels /\ pc'[w] \notin Channels /\ (Run(w))' = Run(w)
    BY DEF Quiet, Unwritten, Loop, After, Channels, Run
  <1>2. \A d \in ids[w] : RunOf(d) = Run(w) /\ (d \in DOMAIN edits[w] \/ tx[w] # "open")
    BY <1>1 DEF IdsOf
  <1>3. sent' = sent /\ \A d \in ids'[w] :
          RunOf(d) = Run(w) /\ (d \in DOMAIN edits'[w] \/ tx'[w] # "open")
    <2>1. CASE Fetch(w)
      BY <1>0, <2>1 DEF Fetch, PlaceOf
    <2>2. CASE Evaluate(w)
      BY <1>2, <2>2 DEF Evaluate
    <2>3. CASE Find(w) \/ FindRemedied(w) \/ Refused(w)
      BY <1>0, <1>2, <2>3, FindIs, FindRemediedOrderly, RefusedIs
    <2>4. CASE Insert(w)
      BY <1>0, <1>2, <2>4, InsertIs, InsertIsNew DEF SaveStep
    <2>5. CASE Update(w)
      BY <1>0, <1>2, <2>5, UpdateIs DEF SaveStep
    <2>6. CASE Resolve(w)
      BY <1>0, <1>2, <2>6, ResolveIs
    <2>7. CASE Raises(w) \/ DeadlockVictim(w)
      BY <1>0, <1>2, <2>7, RaisedIs
    <2>8. CASE Commit(w) \/ Publish(w) \/ CommitRefused(w) \/ CallFails(w) \/ Crash(w)
      BY <1>0, <2>8, CommitIs, PublishIs, RetryIs DEF Quiet, Loop, After, Channels
    <2>9. QED
      BY <2>1, <2>2, <2>3, <2>4, <2>5, <2>6, <2>7, <2>8 DEF Act, Step
  <1>4. QED
    BY <1>1, <1>3 DEF IdsOf

LEMMA ActSent ==
  ASSUME DetectionAssumption, Base, SentInv, NEW w \in Workers, Act(w)
  PROVE  SentInv'
  <1>0. Types /\ Places /\ Ledger /\ PlaceOf(w) /\ SentIsWritten /\ IdsOf(w)
    BY DEF Base, Places, SentInv
  <1>1. /\ written \subseteq written' /\ lossy \subseteq lossy'
        /\ \A u \in Workers \ {w} : Kept(u) /\ (pc[u] # "idle" => (Run(u))' = Run(u))
    BY ActMono, ActBase
  <1>2. ASSUME NEW u \in Workers \ {w} PROVE IdsOf(u)'
    <2>1. IdsOf(u) /\ Kept(u) /\ (ids[u] = {} \/ (Run(u))' = Run(u))
      BY <1>0, <1>1 DEF SentInv, Places, PlaceOf
    <2>2. QED
      BY <1>1, <2>1 DEF IdsOf, Kept
  <1>3. ASSUME sent' = sent, IdsOf(w)' PROVE SentInv'
    BY <1>0, <1>1, <1>2, <1>3 DEF SentInv, SentIsWritten
  <1>4. CASE \E t \in Tasks : PickUp(w, t)
    <2>1. sent' = sent /\ ids' = ids /\ pc[w] = "idle"
      BY <1>4 DEF PickUp, workVars
    <2>2. QED
      BY <1>0, <1>3, <2>1 DEF PlaceOf, IdsOf
  <1>5. CASE Quiet(w) /\ ~\E t \in Tasks : PickUp(w, t)
    BY <1>0, <1>3, <1>5, QuietIds
  <1>6. CASE Commit(w)
    <2>1. IdsOf(w)'
      <3>1. CASE ids'[w] = {}
        BY <3>1 DEF IdsOf
      <3>2. CASE ids' = ids /\ pc'[w] = "notify" /\ job' = job
        <4>1. \A d \in ids[w] : RunOf(d) = Run(w) /\ (d \in DOMAIN edits[w] \/ tx[w] # "open")
          BY <1>0, <1>6, CommitIs DEF IdsOf, Channels
        <4>2. tries' = tries /\ (Run(w))' = Run(w)
          BY <1>0, <1>6, <3>2, CommitIs DEF Run
        <4>3. \A d \in ids[w] : d \in written' \/ Run(w) \in lossy'
          BY <1>0, <1>6, <4>1, CommitIs
        <4>4. QED
          BY <3>2, <4>1, <4>2, <4>3 DEF IdsOf, Channels
      <3>3. QED
        BY <1>0, <1>6, <3>1, <3>2, CommitIs
    <2>2. QED
      BY <1>0, <1>3, <1>6, <2>1, CommitIs
  <1>7. CASE Publish(w)
    <2>1. /\ pc[w] \in Channels /\ sent' \subseteq sent \cup ids[w]
          /\ UNCHANGED <<tries, written, lossy>>
          /\ \/ ids'[w] = {}
             \/ pc'[w] \in Channels /\ UNCHANGED <<job, ids>>
      BY <1>0, <1>7, PublishIs
    <2>2. SentIsWritten'
      BY <1>0, <2>1 DEF SentIsWritten, IdsOf
    <2>3. IdsOf(w)'
      BY <1>0, <2>1 DEF IdsOf, Run
    <2>4. QED
      BY <1>2, <2>2, <2>3 DEF SentInv
  <1>8. CASE CommitRefused(w) \/ CallFails(w) \/ Crash(w)
    <2>1. sent' = sent /\ ids'[w] = {}
      BY <1>0, <1>8, RetryIs
    <2>2. QED
      BY <1>3, <2>1 DEF IdsOf
  <1>9. Quiet(w) \/ (\E t \in Tasks : PickUp(w, t)) \/ Commit(w) \/ Publish(w)
        \/ CommitRefused(w) \/ CallFails(w) \/ Crash(w)
    BY <1>0, ActIs
  <1>10. QED
    BY <1>4, <1>5, <1>6, <1>7, <1>8, <1>9

LEMMA EnvSent == ASSUME SentInv, EnvKept PROVE SentInv'
  <1>1. SentIsWritten'
    BY DEF SentInv, SentIsWritten, EnvKept
  <1>2. ASSUME NEW w \in Workers PROVE IdsOf(w)'
    BY DEF SentInv, IdsOf, EnvKept, Run
  <1>3. QED
    BY <1>1, <1>2 DEF SentInv

\* Notification, SIEM export and automation are told of committed rows only, or of those of
\* a run whose COMMIT rolled back (session.commit of an aborted transaction).
THEOREM PublishedIsCommitted == ASSUME DetectionAssumption PROVE Spec => []SentIsWritten
  <1>1. Init => Base /\ SentInv
    <2>1. Init => SentInv
      BY DEF Init, SentInv, SentIsWritten, IdsOf
    <2>2. QED
      BY <2>1, BaseInit
  <1>2. Base /\ SentInv /\ [Next]_vars => (Base /\ SentInv)'
    <2> SUFFICES ASSUME Base, SentInv, [Next]_vars PROVE (Base /\ SentInv)'
      OBVIOUS
    <2>1. CASE Next
      BY <2>1, BaseNext, NextIs, ActSent, EnvBase, EnvSent
    <2>2. CASE UNCHANGED vars
      <3>1. UNCHANGED <<tries, job, pc, tx, edits, ids, sent, written, lossy>>
        BY <2>2 DEF vars, brokerVars, workerVars, workVars, histVars
      <3>2. \A w \in Workers : IdsOf(w)'
        BY <3>1 DEF SentInv, IdsOf, Run
      <3>3. SentInv'
        BY <3>1, <3>2 DEF SentInv, SentIsWritten
      <3>4. QED
        BY <3>3, BaseNext
    <2>3. QED
      BY <2>1, <2>2
  <1>3. SentInv => SentIsWritten
    BY DEF SentInv
  <1>4. QED
    BY <1>1, <1>2, <1>3, PTL DEF Spec

-----------------------------------------------------------------------------
(* The active detections of a rule and key *)

\* A process is about to add a detection of r and k: it has looked for one and found
\* none, or the row it wrote is not committed yet.
Holds(w, r, k) ==
  \/ pc[w] = "save" /\ found[w].id = NoDet /\ Rules[idx[w]] = r /\ found[w].hit = k
  \/ \E d \in DOMAIN edits[w] \ DOMAIN det : d.rule = r /\ KeyOf(d) = k
Holders(r, k) == {w \in Workers : Holds(w, r, k)}

\* One that has found none has seen that there is none, so it takes the place of the
\* detection of another one: rows and processes that will add one are at most one per process.
CountOf(r, k) ==
  /\ IsFiniteSet(Current(r, k))
  /\ Cardinality(Current(r, k)) + Cardinality(Holders(r, k)) <= Cardinality(Workers)
CountInv == \A r \in Deduplicated, k \in Keys : CountOf(r, k)

LEMMA HoldersFinite ==
  ASSUME DetectionAssumption, NEW r, NEW k
  PROVE  /\ IsFiniteSet(Holders(r, k)) /\ Cardinality(Holders(r, k)) \in Nat
         /\ Cardinality(Holders(r, k)) <= Cardinality(Workers) /\ Cardinality(Workers) \in Nat
  <1>1. IsFiniteSet(Workers) /\ Holders(r, k) \subseteq Workers
    BY DEF DetectionAssumption, Holders
  <1>2. QED
    BY <1>1, FS_Subset, FS_CardinalityType

\* Neither kind grows.
LEMMA CountShrinks ==
  ASSUME NEW W, IsFiniteSet(W), NEW C, IsFiniteSet(C), NEW H \in SUBSET W,
         Cardinality(C) + Cardinality(H) <= Cardinality(W),
         NEW D \in SUBSET C, NEW G \in SUBSET H
  PROVE  IsFiniteSet(D) /\ Cardinality(D) + Cardinality(G) <= Cardinality(W)
  <1>1. IsFiniteSet(H) /\ IsFiniteSet(D)
    BY FS_Subset
  <1>2. Cardinality(D) <= Cardinality(C) /\ Cardinality(G) <= Cardinality(H)
    BY <1>1, FS_Subset
  <1>3. /\ Cardinality(D) \in Nat /\ Cardinality(C) \in Nat /\ Cardinality(W) \in Nat
        /\ Cardinality(G) \in Nat /\ Cardinality(H) \in Nat
    BY <1>1, FS_CardinalityType, FS_Subset
  <1>4. QED
    BY <1>1, <1>2, <1>3

\* One process commits its row.
LEMMA CountMoves ==
  ASSUME NEW W, IsFiniteSet(W), NEW C, IsFiniteSet(C), NEW H \in SUBSET W,
         Cardinality(C) + Cardinality(H) <= Cardinality(W),
         NEW d, NEW w \in H, NEW D \in SUBSET (C \cup {d}), NEW G \in SUBSET (H \ {w})
  PROVE  IsFiniteSet(D) /\ Cardinality(D) + Cardinality(G) <= Cardinality(W)
  <1>1. IsFiniteSet(H) /\ IsFiniteSet(H \ {w}) /\ IsFiniteSet(C \cup {d})
    BY FS_Subset, FS_AddElement
  <1>2. IsFiniteSet(D) /\ IsFiniteSet(G)
    BY <1>1, FS_Subset
  <1>3. Cardinality(H \ {w}) = Cardinality(H) - 1
    BY <1>1, FS_RemoveElement
  <1>4. Cardinality(C \cup {d}) <= Cardinality(C) + 1
    <2>1. Cardinality(C \cup {d}) = IF d \in C THEN Cardinality(C) ELSE Cardinality(C) + 1
      BY FS_AddElement
    <2>2. Cardinality(C) \in Nat
      BY FS_CardinalityType
    <2>3. QED
      BY <2>1, <2>2
  <1>5. Cardinality(D) <= Cardinality(C \cup {d}) /\ Cardinality(G) <= Cardinality(H \ {w})
    BY <1>1, FS_Subset
  <1>6. /\ Cardinality(D) \in Nat /\ Cardinality(C) \in Nat /\ Cardinality(W) \in Nat
        /\ Cardinality(G) \in Nat /\ Cardinality(H) \in Nat /\ Cardinality(C \cup {d}) \in Nat
    BY <1>1, <1>2, FS_CardinalityType
  <1>7. QED
    BY <1>2, <1>3, <1>4, <1>5, <1>6

\* The three ways a step changes them.
LEMMA CountKept ==
  ASSUME DetectionAssumption, NEW r, NEW k, CountOf(r, k),
         \/ (Current(r, k))' \subseteq Current(r, k) /\ (Holders(r, k))' \subseteq Holders(r, k)
         \/ (Current(r, k))' = {}
         \/ \E d, w : /\ w \in Holders(r, k) /\ (Current(r, k))' \subseteq Current(r, k) \cup {d}
                      /\ (Holders(r, k))' \subseteq Holders(r, k) \ {w}
  PROVE  (CountOf(r, k))'
  <1> DEFINE C == Current(r, k)
             H == Holders(r, k)
             D == (Current(r, k))'
             G == (Holders(r, k))'
  <1>1. IsFiniteSet(Workers) /\ Cardinality(Workers) \in Nat
    BY FS_CardinalityType DEF DetectionAssumption
  <1>2. H \subseteq Workers /\ G \subseteq Workers
    BY DEF Holders
  <1>3. IsFiniteSet(C) /\ Cardinality(C) + Cardinality(H) <= Cardinality(Workers)
    BY DEF CountOf
  <1>4. /\ IsFiniteSet(D) /\ Cardinality(D) + Cardinality(G) <= Cardinality(Workers)
        => (CountOf(r, k))'
    BY DEF CountOf
  <1>5. \/ D \subseteq C /\ G \subseteq H
        \/ D = {}
        \/ \E d, w : w \in H /\ D \subseteq C \cup {d} /\ G \subseteq H \ {w}
    OBVIOUS
  <1> HIDE DEF C, H, D, G
  <1>6. CASE D \subseteq C /\ G \subseteq H
    BY <1>1, <1>2, <1>3, <1>4, <1>6, CountShrinks
  <1>7. CASE D = {}
    <2>1. IsFiniteSet(D) /\ Cardinality(D) = 0
      BY <1>7, FS_EmptySet
    <2>2. Cardinality(G) <= Cardinality(Workers) /\ Cardinality(G) \in Nat
      BY <1>1, <1>2, FS_Subset, FS_CardinalityType
    <2>3. Cardinality(D) + Cardinality(G) <= Cardinality(Workers)
      BY <1>1, <2>1, <2>2
    <2>4. QED
      BY <1>4, <2>1, <2>3
  <1>8. CASE \E d, w : w \in H /\ D \subseteq C \cup {d} /\ G \subseteq H \ {w}
    <2>1. PICK d, w : w \in H /\ D \subseteq C \cup {d} /\ G \subseteq H \ {w}
      BY <1>8
    <2>2. D \in SUBSET (C \cup {d}) /\ G \in SUBSET (H \ {w}) /\ H \in SUBSET Workers
      BY <1>2, <2>1
    <2>3. IsFiniteSet(D) /\ Cardinality(D) + Cardinality(G) <= Cardinality(Workers)
      BY <1>1, <1>3, <2>1, <2>2, CountMoves
    <2>4. QED
      BY <1>4, <2>3
  <1>9. QED
    BY <1>5, <1>6, <1>7, <1>8

\* find_existing_detection finds what is current.
LEMMA NoneFound ==
  ASSUME DetectionAssumption, Base, NEW w \in Workers, pc[w] \in Loop,
         NEW r \in Deduplicated, NEW k, Existing(w, r, k) = {}
  PROVE  Current(r, k) = {}
  <1> SUFFICES ASSUME NEW d \in Current(r, k) PROVE d \in Existing(w, r, k)
    OBVIOUS
  <1>1. /\ d \in DOMAIN det /\ d.rule = r /\ KeyOf(d) = k /\ Kind[r] # "pattern"
        /\ det[d].status \in Active /\ InWindow(r, det[d].at)
    BY DEF Current, Deduplicated
  <1>2. d \in DOMAIN Seen(w) /\ Seen(w)[d].status = det[d].status /\ Seen(w)[d].at = det[d].at
    <2>1. CASE d \in DOMAIN edits[w]
      <3>1. Seen(w)[d] = edits[w][d] /\ d \in DOMAIN Seen(w)
        BY <2>1, SeenIs DEF Base, Types
      <3>2. QED
        BY <1>1, <2>1, <3>1 DEF Base, Ledger, EditsOf
    <2>2. CASE d \notin DOMAIN edits[w]
      BY <1>1, <2>2, SeenIs DEF Base, Types
    <2>3. QED
      BY <2>1, <2>2
  <1>3. QED
    BY <1>1, <1>2 DEF Existing

\* The holders of another process's step.
LEMMA HoldsKept ==
  ASSUME NEW u \in Workers, Kept(u), NEW r, NEW k, (Holds(u, r, k))',
         \A d \in DOMAIN edits[u] : d \in DOMAIN det => d \in DOMAIN det'
  PROVE  Holds(u, r, k)
  <1>1. CASE pc'[u] = "save" /\ found'[u].id = NoDet /\ Rules[idx'[u]] = r /\ found'[u].hit = k
    BY <1>1 DEF Holds, Kept
  <1>2. CASE \E d \in DOMAIN edits'[u] \ DOMAIN det' : d.rule = r /\ KeyOf(d)' = k
    <2>1. PICK d \in DOMAIN edits'[u] \ DOMAIN det' : d.rule = r /\ KeyOf(d)' = k
      BY <1>2
    <2>2. KeyOf(d) = k /\ d \in DOMAIN edits[u] \ DOMAIN det
      BY <2>1 DEF KeyOf, Kept
    <2>3. QED
      BY <2>1, <2>2 DEF Holds
  <1>3. QED
    BY <1>1, <1>2 DEF Holds, KeyOf

LEMMA QuietCount ==
  ASSUME DetectionAssumption, Base, NEW w \in Workers, Quiet(w),
         \A u \in Workers \ {w} : Kept(u), NEW r \in Deduplicated, NEW k, CountOf(r, k)
  PROVE  (CountOf(r, k))'
  <1>1. UNCHANGED <<clock, det>>
    BY DEF Quiet
  <1>2. (Current(r, k))' = Current(r, k)
    BY <1>1 DEF Current, InWindow, KeyOf
  <1>3. \A u \in Workers \ {w} : (Holds(u, r, k))' => Holds(u, r, k)
    BY <1>1, HoldsKept
  <1>4. CASE (Holds(w, r, k))' /\ ~Holds(w, r, k)
    <2>0. Kind[r] # "pattern" /\ Types
      BY DEF Deduplicated, Base
    <2>1. CASE pc'[w] = "save" /\ found'[w].id = NoDet /\ Rules[idx'[w]] = r /\ found'[w].hit = k
      <3>1. /\ pc[w] \in Loop /\ idx' = idx
            /\ Existing(w, Rules[idx[w]], HitKey(Rules[idx[w]], found'[w].hit)) = {}
        BY <2>1 DEF Quiet
      <3>2. HitKey(r, k) = k
        BY <2>0 DEF HitKey
      <3>3. Existing(w, r, k) = {}
        BY <2>1, <3>1, <3>2
      <3>4. QED
        BY <1>2, <3>1, <3>3, NoneFound, CountKept
    <2>2. CASE \E d \in DOMAIN edits'[w] \ DOMAIN det' : d.rule = r /\ KeyOf(d)' = k
      <3>1. PICK d \in DOMAIN edits'[w] \ DOMAIN det : d.rule = r /\ KeyOf(d) = k
        BY <1>1, <2>2 DEF KeyOf
      <3>2. d \notin DOMAIN edits[w]
        BY <1>4, <3>1 DEF Holds
      <3>3. PICK x \in DetIds : Wrote(w, x)
        BY <3>1, <3>2 DEF Quiet
      <3>4. d = x
        BY <3>1, <3>2, <3>3 DEF Wrote
      <3>5. d \notin DOMAIN Seen(w)
        BY <2>0, <3>1, <3>2, SeenIs DEF Types
      <3>6. pc[w] = "save" /\ found[w].id = NoDet /\ d = NewId(w, found[w].hit)
        BY <3>3, <3>4, <3>5 DEF Wrote
      <3>7. d.rule = Rules[idx[w]] /\ d.of = found[w].hit
        BY <3>6 DEF NewId
      <3>8. Holds(w, r, k)
        BY <2>0, <3>1, <3>6, <3>7 DEF Holds, KeyOf
      <3>9. QED
        BY <1>4, <3>8
    <2>3. QED
      BY <1>4, <2>1, <2>2 DEF Holds, KeyOf
  <1>5. CASE (Holds(w, r, k))' => Holds(w, r, k)
    <2>1. (Holders(r, k))' \subseteq Holders(r, k)
      BY <1>3, <1>5 DEF Holders
    <2>2. QED
      BY <1>2, <2>1, CountKept
  <1>6. QED
    BY <1>4, <1>5

LEMMA EndsCount ==
  ASSUME DetectionAssumption, Base, NEW w \in Workers, Ends(w),
         \A u \in Workers \ {w} : Kept(u), NEW r \in Deduplicated, NEW k, CountOf(r, k)
  PROVE  (CountOf(r, k))'
  <1>0. Kind[r] # "pattern" /\ Types /\ clock' = clock
    BY DEF Deduplicated, Base, Ends
  <1>1. ~(Holds(w, r, k))'
    <2>1. pc'[w] # "save" /\ DOMAIN edits'[w] = {}
      BY DEF Ends, Channels
    <2>2. QED
      BY <2>1 DEF Holds
  <1>2. DOMAIN det \subseteq DOMAIN det'
    BY <1>0, CommittedIs DEF Ends, Types
  <1>3. (Holders(r, k))' \subseteq Holders(r, k) \ {w}
    <2>1. \A u \in Workers \ {w} : (Holds(u, r, k))' => Holds(u, r, k)
      BY <1>2, HoldsKept
    <2>2. QED
      BY <1>1, <2>1 DEF Holders
  <1>4. CASE UNCHANGED <<det, written>>
    <2>1. (Current(r, k))' = Current(r, k)
      BY <1>0, <1>4 DEF Current, InWindow, KeyOf
    <2>2. QED
      BY <1>3, <2>1, CountKept
  <1>5. CASE det' = Overlay(edits[w], det) /\ written' = written \cup DOMAIN edits[w]
    <2>1. /\ DOMAIN det' = DOMAIN edits[w] \cup DOMAIN det
          /\ \A d \in DOMAIN edits[w] : det'[d] = edits[w][d]
          /\ \A d \in DOMAIN det \ DOMAIN edits[w] : det'[d] = det[d]
      BY <1>0, <1>5, CommittedIs DEF Types
    <2>2. ASSUME NEW d \in DOMAIN det, d \in (Current(r, k))' PROVE d \in Current(r, k)
      <3>1. /\ d.rule = r /\ KeyOf(d) = k /\ ~det'[d].reopened
            /\ det'[d].status \in Active /\ InWindow(r, det'[d].at)
        BY <1>0, <2>2 DEF Current, InWindow, KeyOf
      <3>2. /\ det'[d].reopened = det[d].reopened /\ det'[d].status = det[d].status
            /\ det'[d].at = det[d].at
        <4>1. CASE d \in DOMAIN edits[w]
          BY <2>1, <3>1, <4>1 DEF Base, Ledger, EditsOf
        <4>2. CASE d \notin DOMAIN edits[w]
          BY <2>1, <4>2
        <4>3. QED
          BY <4>1, <4>2
      <3>3. QED
        BY <3>1, <3>2 DEF Current
    <2>3. (Current(r, k))' \subseteq DOMAIN edits[w] \cup DOMAIN det
      BY <2>1 DEF Current
    <2>4. CASE (Current(r, k))' \subseteq DOMAIN det
      BY <1>3, <2>2, <2>4, CountKept
    <2>5. CASE ~((Current(r, k))' \subseteq DOMAIN det)
      <3>1. PICK d \in (Current(r, k))' : d \notin DOMAIN det
        BY <2>5
      <3>2. \A x \in (Current(r, k))' : x.rule = r /\ KeyOf(x) = k
        BY DEF Current, KeyOf
      <3>3. d \in DOMAIN edits[w] /\ Holds(w, r, k)
        BY <2>3, <3>1, <3>2 DEF Holds
      <3>4. \A x \in DOMAIN edits[w] \ DOMAIN det : RunOf(x) = Run(w) /\ x \in DetIds
        <4>1. \A x \in DOMAIN edits[w] : x \in DetIds
          BY <1>0, SeenIs DEF Types
        <4>2. QED
          BY <4>1 DEF Base, Ledger, EditsOf
      <3>5. \A x \in (Current(r, k))' : x \notin DOMAIN det => x = d
        <4> SUFFICES ASSUME NEW x \in (Current(r, k))', x \notin DOMAIN det PROVE x = d
          OBVIOUS
        <4>1. x \in DOMAIN edits[w] \ DOMAIN det
          BY <2>3
        <4>2. RunOf(x) = RunOf(d) /\ x \in DetIds /\ d \in DetIds
          BY <3>1, <3>3, <3>4, <4>1
        <4>3. x.task = d.task /\ x.try = d.try
          BY <4>2 DEF RunOf
        <4>4. x.rule = d.rule /\ x.of = d.of
          BY <1>0, <3>1, <3>2 DEF KeyOf
        <4>5. QED
          BY <4>2, <4>3, <4>4 DEF DetIds
      <3>6. (Current(r, k))' \subseteq Current(r, k) \cup {d}
        BY <2>2, <3>5
      <3>7. w \in Holders(r, k)
        BY <3>3 DEF Holders
      <3>8. QED
        BY <1>3, <3>6, <3>7, CountKept
    <2>6. QED
      BY <2>4, <2>5
  <1>6. QED
    BY <1>4, <1>5 DEF Ends

LEMMA ActCount ==
  ASSUME DetectionAssumption, Base, NEW w \in Workers, Act(w),
         NEW r \in Deduplicated, NEW k, CountOf(r, k)
  PROVE  (CountOf(r, k))'
  <1>1. \A u \in Workers \ {w} : Kept(u)
    BY ActBase
  <1>2. CASE \E t \in Tasks : PickUp(w, t)
    <2>1. /\ UNCHANGED <<clock, det, edits, found, idx>> /\ pc'[w] = "fetch"
      BY <1>2 DEF PickUp, workVars, Base, Types, ProcT
    <2>2. (Current(r, k))' = Current(r, k)
      BY <2>1 DEF Current, InWindow, KeyOf
    <2>3. (Holds(w, r, k))' => Holds(w, r, k)
      BY <2>1 DEF Holds, KeyOf
    <2>4. (Holders(r, k))' \subseteq Holders(r, k)
      BY <1>1, <2>1, <2>3, HoldsKept DEF Holders
    <2>5. QED
      BY <2>2, <2>4, CountKept
  <1>3. QED
    BY <1>1, <1>2, ActIs, QuietCount, EndsCount DEF Base

LEMMA EnvCount ==
  ASSUME DetectionAssumption, Base, Env, NEW r \in Deduplicated, NEW k, CountOf(r, k)
  PROVE  (CountOf(r, k))'
  <1>0. EnvKept /\ Types /\ Places
    BY EnvBase DEF Base
  <1>1. (Current(r, k))' \subseteq Current(r, k)
    <2>1. CASE Tick
      <3>1. clock' = clock + 1 /\ det' = det /\ clock \in Nat
        BY <1>0, <2>1, TickIs DEF Types, BrokerT
      <3>2. \A d \in DOMAIN det : det[d].at \in Nat
        BY <1>0, MapIs DEF Types, TableT, Rows
      <3>3. Window[r] \in Nat
        BY DEF DetectionAssumption, Deduplicated
      <3>4. \A d \in DOMAIN det : det[d].at >= clock + 1 - Window[r] => det[d].at >= clock - Window[r]
        BY <3>1, <3>2, <3>3
      <3>5. ASSUME NEW d \in (Current(r, k))' PROVE d \in Current(r, k)
        <4>1. /\ d \in DOMAIN det /\ d.rule = r /\ KeyOf(d) = k /\ ~det[d].reopened
              /\ det[d].status \in Active /\ det[d].at >= clock + 1 - Window[r]
          <5>1. /\ d \in DOMAIN det' /\ d.rule = r /\ KeyOf(d) = k /\ ~det'[d].reopened
                /\ det'[d].status \in Active /\ det'[d].at >= clock' - Window[r]
            BY Zenon DEF Current, InWindow, KeyOf
          <5>2. d \in DOMAIN det /\ ~det[d].reopened /\ det[d].status \in Active
            BY <3>1, <5>1, Zenon
          <5>3. det[d].at >= clock' - Window[r]
            BY <3>1, <5>1, Zenon
          <5>4. det[d].at >= clock + 1 - Window[r]
            BY <3>1, <3>2, <3>3, <5>2, <5>3
          <5>5. QED
            BY <5>1, <5>2, <5>4
        <4>2. QED
          BY <3>4, <4>1 DEF Current, InWindow
      <3>6. QED
        BY <3>5
    <2>2. CASE \E t \in Tasks : Arrive(t)
      <3>1. UNCHANGED <<clock, det>>
        BY <1>0, <2>2, ArriveIs
      <3>2. QED
        BY <3>1 DEF Current, InWindow, KeyOf
    <2>3. ASSUME NEW d \in DOMAIN det, Delete(d) \/ \E s \in Statuses : SetStatus(d, s)
          PROVE  (Current(r, k))' \subseteq Current(r, k)
      <3>1. /\ clock' = clock /\ DOMAIN det' \subseteq DOMAIN det
            /\ \A x \in DOMAIN det' \ {d} : det'[x] = det[x]
            /\ d \in DOMAIN det' => det'[d].at = det[d].at /\
                 (det'[d].status \in Active /\ ~det'[d].reopened =>
                    det[d].status \in Active /\ ~det[d].reopened)
        BY <1>0, <2>3, DeleteIs, SetStatusIs
      <3>2. ASSUME NEW x \in (Current(r, k))' PROVE x \in Current(r, k)
        <4>1. /\ x \in DOMAIN det' /\ x.rule = r /\ KeyOf(x) = k /\ ~det'[x].reopened
              /\ det'[x].status \in Active /\ InWindow(r, det'[x].at)
          BY <3>1 DEF Current, InWindow, KeyOf
        <4>2. /\ x \in DOMAIN det /\ ~det[x].reopened
              /\ det[x].status \in Active /\ InWindow(r, det[x].at)
          BY <3>1, <4>1
        <4>3. QED
          BY <4>1, <4>2 DEF Current
      <3>3. QED
        BY <3>2
    <2>4. QED
      BY <2>1, <2>2, <2>3 DEF Env
  <1>2. \A u \in Workers : Kept(u) /\ \A d \in DOMAIN edits[u] : d \in DOMAIN det => d \in DOMAIN det'
    <2>1. \A u \in Workers : Kept(u)
      BY <1>0 DEF EnvKept, Kept
    <2>2. CASE Tick \/ \E t \in Tasks : Arrive(t)
      BY <1>0, <2>1, <2>2, TickIs, ArriveIs
    <2>3. ASSUME NEW d \in DOMAIN det, Delete(d) \/ \E s \in Statuses : SetStatus(d, s)
          PROVE  \A u \in Workers, x \in DOMAIN det : x \in DOMAIN edits[u] => x \in DOMAIN det'
      <3>1. Locked(d) = {} /\ \A x \in DOMAIN det \ {d} : x \in DOMAIN det'
        BY <1>0, <2>3, DeleteIs, SetStatusIs
      <3>2. QED
        BY <1>0, <3>1, LockedIs
    <2>4. QED
      BY <2>1, <2>2, <2>3 DEF Env
  <1>3. (Holders(r, k))' \subseteq Holders(r, k)
    BY <1>2, HoldsKept DEF Holders
  <1>4. QED
    BY <1>1, <1>3, CountKept

\* However batches are retried, redelivered and evaluated side by side, the active
\* detections of a rule and key in its window are at most one per process: Find and Insert
\* of one transaction miss only the rows of transactions that have not committed.
THEOREM OnePerProcess == ASSUME DetectionAssumption PROVE Spec => []DuplicatesBoundedByWorkers
  <1>1. Init => Base /\ CountInv
    <2> SUFFICES ASSUME Init PROVE CountInv
      BY BaseInit
    <2> SUFFICES ASSUME NEW r \in Deduplicated, NEW k \in Keys PROVE CountOf(r, k)
      BY DEF CountInv
    <2>1. Current(r, k) = {}
      BY NothingIs DEF Init, Current
    <2>2. IsFiniteSet(Current(r, k)) /\ Cardinality(Current(r, k)) = 0
      BY <2>1, FS_EmptySet
    <2>3. QED
      BY <2>2, HoldersFinite DEF CountOf
  <1>2. Base /\ CountInv /\ [Next]_vars => (Base /\ CountInv)'
    <2> SUFFICES ASSUME Base, CountInv, [Next]_vars PROVE CountInv'
      BY BaseNext
    <2> SUFFICES ASSUME NEW r \in Deduplicated, NEW k \in Keys PROVE (CountOf(r, k))'
      BY DEF CountInv, Deduplicated
    <2>0. CountOf(r, k)
      BY DEF CountInv
    <2>1. CASE Next
      BY <2>0, <2>1, NextIs, ActCount, EnvCount
    <2>2. CASE UNCHANGED vars
      <3>1. UNCHANGED <<clock, det, pc, found, idx, edits>>
        BY <2>2 DEF vars, workerVars, workVars
      <3>2. (Current(r, k))' = Current(r, k)
        BY <3>1 DEF Current, InWindow, KeyOf
      <3>3. \A w \in Workers : (Holds(w, r, k))' => Holds(w, r, k)
        BY <3>1 DEF Holds, KeyOf
      <3>4. (Holders(r, k))' \subseteq Holders(r, k)
        BY <3>3 DEF Holders
      <3>5. QED
        BY <2>0, <3>2, <3>4, CountKept
    <2>3. QED
      BY <2>1, <2>2
  <1>3. Base /\ CountInv => DuplicatesBoundedByWorkers
    <2> SUFFICES ASSUME CountInv, NEW r \in Deduplicated, NEW k \in Keys
                 PROVE  Cardinality(Current(r, k)) <= Cardinality(Workers)
      BY DEF DuplicatesBoundedByWorkers
    <2>1. /\ IsFiniteSet(Current(r, k))
          /\ Cardinality(Current(r, k)) + Cardinality(Holders(r, k)) <= Cardinality(Workers)
      BY DEF CountInv, CountOf
    <2>2. Cardinality(Current(r, k)) \in Nat
      BY <2>1, FS_CardinalityType
    <2>3. QED
      BY <2>1, <2>2, HoldersFinite
  <1>4. QED
    BY <1>1, <1>2, <1>3, PTL DEF Spec

-----------------------------------------------------------------------------
(* No threshold crossing is missed *)

\* The rule and key are suppressed, or have or had a detection, or a run lost the rule.
Excused(r, k) ==
  \/ r \in dropped \/ <<r, k>> \in Suppressed
  \/ \E d \in written : d.rule = r /\ KeyOf(d) = k

\* A process is past a rule and key without a detection of them ...
NoneOf(w, r, k) == \A d \in DOMAIN edits[w] : ~(d.rule = r /\ KeyOf(d) = k)
Before(w, r, k) ==
  \E i \in 1..Len(Rules) :
    /\ Rules[i] = r
    /\ i < idx[w] \/ (i = idx[w] /\ pc[w] \in {"find", "save"} /\ k \notin hits[w])
Passed(w, r, k) ==
  /\ r \notin failed[w]
  /\ \/ tx[w] = "open" /\ NoneOf(w, r, k) /\ Before(w, r, k)
     \/ pc[w] \in Channels /\ Run(w) \notin lossy
\* ... so its batch is through with them; an event all of whose batches are has been
\* weighed, and what was weighed together stayed below the threshold.
Over(t, r, k) ==
  task[t] = "done" \/ \E w \in Workers : pc[w] # "idle" /\ job[w] = t /\ Passed(w, r, k)
Weighed(r, k, o) ==
  {e \in stored \cap Matches[r] :
     /\ Key[e] = k /\ Org[e] = o /\ InWindow(r, CreatedAt[e])
     /\ \A t \in Tasks : e \in EventsOf[t] /\ task[t] # "unsent" => Over(t, r, k)}
CrossOf(r, k, o) == Excused(r, k) \/ Cardinality(Weighed(r, k, o)) < Threshold[r]
CrossInv == \A r \in RuleNames, k \in Keys, o \in Orgs : Kind[r] = "threshold" => CrossOf(r, k, o)

\* The counting query found too few.
Below(w, r, k) == Evaluate(w) /\ Rules[idx[w]] = r /\ k \notin HitsOf(w, r)

\* After the loop every rule is behind; in the loop the current one comes to be.
LEMMA AfterBefore ==
  ASSUME DetectionAssumption, NEW w \in Workers, PlaceOf(w), pc[w] \in After, NEW r \in RuleNames, NEW k
  PROVE  Before(w, r, k)
  <1>1. idx[w] = Len(Rules) + 1 /\ Len(Rules) \in Nat
    BY DEF PlaceOf, DetectionAssumption
  <1>2. PICK i \in 1..Len(Rules) : Rules[i] = r
    BY DEF RuleNames
  <1>3. i < idx[w]
    BY <1>1
  <1>4. QED
    BY <1>2, <1>3 DEF Before

LEMMA NextBefore ==
  ASSUME DetectionAssumption, Types, NEW w \in Workers, PlaceOf(w), pc[w] \in Loop, NextRule(w),
         NEW r, NEW k, (Before(w, r, k))'
  PROVE  Before(w, r, k) \/ Rules[idx[w]] = r
  <1>1. idx'[w] = idx[w] + 1 /\ pc'[w] \notin {"find", "save"} /\ idx[w] \in 1..Len(Rules) /\ Len(Rules) \in Nat
    BY NextRuleIs, CurrentRule DEF Types
  <1>2. PICK i \in 1..Len(Rules) : Rules[i] = r /\ i < idx'[w]
    BY <1>1 DEF Before
  <1>3. i < idx[w] \/ i = idx[w]
    BY <1>1, <1>2
  <1>4. QED
    BY <1>2, <1>3 DEF Before

LEMMA DoneBefore ==
  ASSUME DetectionAssumption, Types, NEW w \in Workers, PlaceOf(w), pc[w] \in {"find", "save"},
         NEW h \in hits[w], HitDone(w, h), NEW r, NEW k, (Before(w, r, k))'
  PROVE  Before(w, r, k) \/ (Rules[idx[w]] = r /\ k = h)
  <1>0. pc[w] \in Loop /\ idx[w] \in 1..Len(Rules)
    BY DEF Loop, PlaceOf
  <1>1. CASE hits[w] = {h} /\ NextRule(w)
    <2>1. Before(w, r, k) \/ Rules[idx[w]] = r
      BY <1>0, <1>1, NextBefore
    <2>2. QED
      BY <1>0, <1>1, <2>1 DEF Before
  <1>2. CASE hits'[w] = hits[w] \ {h} /\ pc'[w] = "find" /\ idx'[w] = idx[w]
    BY <1>0, <1>2 DEF Before
  <1>3. QED
    BY <1>0, <1>1, <1>2, HitDoneIs DEF Types

\* Being past a rule and key starts with the counting query of that rule.
LEMMA PassedStep ==
  ASSUME DetectionAssumption, Base, NEW w \in Workers, Act(w),
         NEW r \in RuleNames, Kind[r] = "threshold", NEW k,
         (Passed(w, r, k))', pc'[w] # "idle", ~(Excused(r, k))'
  PROVE  /\ pc[w] # "idle" /\ job'[w] = job[w]
         /\ Passed(w, r, k) \/ Below(w, r, k)
  <1>0. Types /\ Places /\ Ledger /\ PlaceOf(w) /\ EditsOf(w)
    BY DEF Base, Places, Ledger
  <1>1. /\ written \subseteq written' /\ r \notin failed'[w] /\ <<r, k>> \notin Suppressed
        /\ \A d \in written' : ~(d.rule = r /\ KeyOf(d) = k)
    <2>1. \A d \in written' : ~(d.rule = r /\ KeyOf(d) = k)
      BY DEF Excused, KeyOf
    <2>2. QED
      BY <2>1, ActMono DEF Passed, Excused
  <1>2. \/ tx'[w] = "open" /\ (NoneOf(w, r, k))' /\ (Before(w, r, k))'
        \/ pc'[w] \in Channels /\ (Run(w))' \notin lossy'
    BY DEF Passed
  <1>3. (NoneOf(w, r, k))' => \A d \in DOMAIN edits'[w] : ~(d.rule = r /\ KeyOf(d) = k)
    BY DEF NoneOf, KeyOf
  <1>4. HitKey(r, k) = k /\ \A x : HitKey(r, x) = x
    BY DEF HitKey
  \* Inside a transaction: the overlay grows, and the rule was behind before.
  <1>5. ASSUME pc[w] \notin {"idle"} \cup Channels, pc'[w] \notin Channels, job'[w] = job[w], tx'[w] = "open" => tx[w] = "open",
               tx'[w] = "open" => DOMAIN edits[w] \subseteq DOMAIN edits'[w],
               failed[w] \subseteq failed'[w], (Before(w, r, k))' => Before(w, r, k)
        PROVE  pc[w] # "idle" /\ job'[w] = job[w] /\ Passed(w, r, k)
    BY <1>1, <1>2, <1>3, <1>5 DEF Passed, NoneOf
  <1>6. CASE \E t \in Tasks : PickUp(w, t)
    <2>1. tx'[w] = tx[w] /\ pc[w] = "idle" /\ pc'[w] = "fetch"
      BY <1>0, <1>6 DEF PickUp, Types, ProcT
    <2>2. QED
      BY <1>0, <1>2, <2>1 DEF PlaceOf, Channels
  <1>7. CASE Fetch(w)
    <2>1. pc'[w] \in {"commit", "rule"} /\ idx'[w] = 1
      BY <1>0, <1>7 DEF Fetch, Types, ProcT
    <2>2. ~(Before(w, r, k))' /\ pc'[w] \notin Channels
      BY <2>1 DEF Before, Channels
    <2>3. QED
      BY <1>2, <2>2
  <1>8. CASE Evaluate(w)
    <2>1. /\ pc[w] = "rule" /\ pc[w] \in Loop /\ idx[w] \in 1..Len(Rules) /\ pc[w] \notin {"idle"} \cup Channels
          /\ UNCHANGED <<job, tx, edits, failed>>
      BY <1>0, <1>8 DEF Evaluate, Loop, PlaceOf, Channels
    <2>2. CASE HitsOf(w, Rules[idx[w]]) = {}
      <3>1. NextRule(w) /\ pc'[w] \notin Channels
        BY <1>0, <1>8, <2>1, <2>2, NextRuleIs DEF Evaluate, Channels, Types
      <3>2. (Before(w, r, k))' => Before(w, r, k) \/ Rules[idx[w]] = r
        BY <1>0, <2>1, <3>1, NextBefore
      <3>3. CASE Rules[idx[w]] = r
        BY <1>8, <2>1, <2>2, <3>3 DEF Below
      <3>4. CASE Rules[idx[w]] # r
        BY <1>5, <2>1, <3>1, <3>2, <3>4
      <3>5. QED
        BY <3>3, <3>4
    <2>3. CASE HitsOf(w, Rules[idx[w]]) # {}
      <3>1. hits'[w] = HitsOf(w, Rules[idx[w]]) /\ pc'[w] = "find" /\ idx'[w] = idx[w]
        BY <1>0, <1>8, <2>3 DEF Evaluate, Types, ProcT, WorkT
      <3>2. (Before(w, r, k))' => Before(w, r, k) \/ (Rules[idx[w]] = r /\ k \notin HitsOf(w, r))
        BY <3>1 DEF Before
      <3>3. CASE Rules[idx[w]] = r /\ k \notin HitsOf(w, r)
        BY <1>8, <2>1, <3>3 DEF Below
      <3>4. CASE ~(Rules[idx[w]] = r /\ k \notin HitsOf(w, r))
        BY <1>5, <2>1, <3>1, <3>2, <3>4 DEF Channels
      <3>5. QED
        BY <3>3, <3>4
    <2>4. QED
      BY <2>2, <2>3
  \* A rule that fails is not one it is past.
  <1>9. ASSUME pc[w] \in Loop, RuleFails(w)
        PROVE  /\ pc[w] \notin {"idle"} \cup Channels /\ pc'[w] \notin Channels
               /\ failed[w] \subseteq failed'[w] /\ ((Before(w, r, k))' => Before(w, r, k))
    <2>1. Rules[idx[w]] # r /\ NextRule(w) /\ failed[w] \subseteq failed'[w]
      BY <1>0, <1>1, <1>9, RuleFailsIs DEF Types
    <2>2. (Before(w, r, k))' => Before(w, r, k)
      BY <1>0, <1>9, <2>1, NextBefore
    <2>3. pc'[w] \notin Channels
      BY <1>0, <1>9, <2>1, NextRuleIs DEF Types, Channels
    <2>4. QED
      BY <1>9, <2>1, <2>2, <2>3 DEF Loop, Channels
  \* So it is with a hit that is dealt with.
  <1>10. ASSUME pc[w] \in {"find", "save"}, NEW h \in hits[w], HitDone(w, h), ~(Rules[idx[w]] = r /\ k = h)
         PROVE  /\ pc[w] \notin {"idle"} \cup Channels /\ pc'[w] \notin Channels
                /\ ((Before(w, r, k))' => Before(w, r, k))
    <2>1. (Before(w, r, k))' => Before(w, r, k)
      BY <1>0, <1>10, DoneBefore
    <2>2. pc[w] \in Loop
      BY <1>10 DEF Loop
    <2>3. pc'[w] \notin Channels
      BY <1>0, <1>10, <2>2, HitDoneIs, NextRuleIs DEF Types, Channels
    <2>4. QED
      BY <1>10, <2>1, <2>3 DEF Channels
  <1>11. CASE Find(w)
    <2>1. pc[w] = "find" /\ pc[w] \in Loop /\ UNCHANGED <<job, tx, edits>>
      BY <1>0, <1>11, FindIs
    <2>2. ASSUME NEW h \in hits[w], HitDone(w, h), NothingToWrite(w, Rules[idx[w]], h), UNCHANGED failed
          PROVE  pc[w] # "idle" /\ job'[w] = job[w] /\ Passed(w, r, k)
      <3>1. ~(Rules[idx[w]] = r /\ k = h)
        BY <1>1, <1>4, <2>2 DEF NothingToWrite
      <3>2. QED
        BY <1>5, <1>10, <2>1, <2>2, <3>1
    <2>3. CASE RuleFails(w)
      BY <1>5, <1>9, <2>1, <2>3
    <2>4. CASE UNCHANGED <<idx, hits, failed>> /\ pc' = [pc EXCEPT ![w] = "save"]
      <3>1. pc'[w] = "save"
        BY <1>0, <2>4 DEF Types, ProcT
      <3>2. (Before(w, r, k))' => Before(w, r, k)
        BY <2>1, <2>4, <3>1 DEF Before
      <3>3. QED
        BY <1>5, <2>1, <2>4, <3>1, <3>2 DEF Channels
    <2>5. QED
      BY <1>0, <1>11, <2>2, <2>3, <2>4, FindIs
  <1>12. CASE Insert(w)
    <2>1. /\ pc[w] = "save" /\ found[w].hit \in hits[w] /\ HitDone(w, found[w].hit)
          /\ UNCHANGED <<job, tx, failed>>
          /\ DOMAIN edits'[w] = DOMAIN edits[w] \cup {NewId(w, found[w].hit)}
      BY <1>0, <1>12, InsertIs DEF SaveStep, PlaceOf
    <2>2. CASE Rules[idx[w]] = r /\ k = found[w].hit
      <3>1. NewId(w, k).rule = r /\ KeyOf(NewId(w, k)) = k
        BY <2>2 DEF NewId, KeyOf
      <3>2. ~(NoneOf(w, r, k))'
        BY <1>3, <2>1, <2>2, <3>1
      <3>3. pc'[w] \notin Channels
        BY <1>0, <2>1, HitDoneIs, NextRuleIs DEF Types, Loop, Channels
      <3>4. QED
        BY <1>2, <3>2, <3>3
    <2>3. CASE ~(Rules[idx[w]] = r /\ k = found[w].hit)
      BY <1>5, <1>10, <2>1, <2>3
    <2>4. QED
      BY <2>2, <2>3
  <1>13. CASE Update(w)
    <2>1. /\ pc[w] = "save" /\ found[w].hit \in hits[w] /\ HitDone(w, found[w].hit) /\ found[w].id # NoDet
          /\ UNCHANGED <<job, tx, failed>>
          /\ DOMAIN edits[w] \subseteq DOMAIN edits'[w]
      BY <1>0, <1>13, UpdateIs DEF SaveStep, PlaceOf
    <2>2. CASE Rules[idx[w]] = r /\ k = found[w].hit
      <3>1. /\ found[w].id \in written \cup DOMAIN edits[w]
            /\ found[w].id.rule = r /\ KeyOf(found[w].id) = k
        BY <1>0, <1>4, <2>1, <2>2 DEF EditsOf
      <3>2. ~(NoneOf(w, r, k))'
        BY <1>1, <1>3, <2>1, <3>1
      <3>3. pc'[w] \notin Channels
        BY <1>0, <2>1, HitDoneIs, NextRuleIs DEF Types, Loop, Channels
      <3>4. QED
        BY <1>2, <3>2, <3>3
    <2>3. CASE ~(Rules[idx[w]] = r /\ k = found[w].hit)
      BY <1>5, <1>10, <2>1, <2>3
    <2>4. QED
      BY <2>2, <2>3
  <1>14. CASE FindRemedied(w) \/ Resolve(w)
    <2>1. /\ pc[w] \in {"remedies", "resolve"} /\ pc'[w] \in {"commit", "resolve"}
          /\ UNCHANGED <<job, tx, failed>> /\ DOMAIN edits[w] \subseteq DOMAIN edits'[w]
      BY <1>0, <1>14, FindRemediedOrderly, ResolveIs
    <2>2. Before(w, r, k)
      BY <1>0, <2>1, AfterBefore DEF After
    <2>3. QED
      BY <1>5, <2>1, <2>2 DEF Channels
  <1>15. CASE Raises(w) \/ DeadlockVictim(w)
    <2>1. /\ tx[w] = "open" /\ job' = job
          /\ tx'[w] = "open" => edits' = edits
          /\ \/ pc[w] \in Loop /\ RuleFails(w)
             \/ pc[w] \in {"remedies", "resolve"} /\ pc'[w] = "commit" /\ failed' = failed
      BY <1>0, <1>15, RaisedIs
    <2>2. CASE pc[w] \in Loop /\ RuleFails(w)
      BY <1>5, <1>9, <2>1, <2>2
    <2>3. CASE pc[w] \in {"remedies", "resolve"} /\ pc'[w] = "commit" /\ failed' = failed
      <3>1. Before(w, r, k)
        BY <1>0, <2>3, AfterBefore DEF After
      <3>2. QED
        BY <1>5, <2>1, <2>3, <3>1 DEF Channels
    <2>4. QED
      BY <2>1, <2>2, <2>3
  <1>16. CASE Refused(w)
    BY <1>0, <1>2, <1>16, RefusedIs
  <1>17. CASE Commit(w)
    <2>1. /\ pc[w] = "commit" /\ tx[w] \in {"open", "aborted"} /\ pc'[w] = "notify"
          /\ UNCHANGED <<tries, job, failed>> /\ written' = written \cup DOMAIN edits[w]
          /\ lossy' = IF tx[w] = "aborted" THEN lossy \cup {Run(w)} ELSE lossy
          /\ tx'[w] = "none"
      BY <1>0, <1>17, CommitIs
    <2>2. (Run(w))' = Run(w) /\ Run(w) \notin lossy'
      BY <1>2, <2>1 DEF Run
    <2>3. tx[w] = "open"
      BY <2>1, <2>2
    <2>4. NoneOf(w, r, k)
      BY <1>1, <2>1 DEF NoneOf
    <2>5. Before(w, r, k)
      BY <1>0, <2>1, AfterBefore DEF After
    <2>6. QED
      BY <1>1, <2>1, <2>3, <2>4, <2>5 DEF Passed
  <1>18. CASE Publish(w)
    <2>1. /\ pc[w] \in Channels /\ pc'[w] \in Channels /\ UNCHANGED <<tries, lossy, job, tx, failed, edits>>
      BY <1>0, <1>18, PublishIs
    <2>2. (Run(w))' = Run(w) /\ pc[w] # "idle" /\ tx[w] = "none"
      BY <1>0, <2>1 DEF Run, Channels, PlaceOf
    <2>3. QED
      BY <1>1, <1>2, <2>1, <2>2 DEF Passed
  <1>19. CASE CommitRefused(w) \/ CallFails(w) \/ Crash(w)
    BY <1>0, <1>19, RetryIs
  <1>20. QED
    BY <1>6, <1>7, <1>8, <1>11, <1>12, <1>13, <1>14, <1>15, <1>16, <1>17, <1>18, <1>19 DEF Act, Step

\* A batch is done once its process is past the rule, or the rule is lost to it.
LEMMA DoneStep ==
  ASSUME DetectionAssumption, Base, NEW w \in Workers, Act(w), NEW t \in Tasks,
         task'[t] = "done", task[t] # "done",
         NEW r \in RuleNames, NEW k, ~(Excused(r, k))'
  PROVE  pc[w] # "idle" /\ job[w] = t /\ Passed(w, r, k)
  <1>0. Types /\ Places /\ Ledger /\ PlaceOf(w)
    BY DEF Base, Places
  <1>1. r \notin dropped' /\ \A d \in written' : ~(d.rule = r /\ KeyOf(d) = k)
    BY DEF Excused, KeyOf
  <1>2. CASE \E u \in Tasks : PickUp(w, u)
    BY <1>0, <1>2 DEF PickUp, Types, BrokerT
  <1>3. CASE Quiet(w) /\ ~\E u \in Tasks : PickUp(w, u)
    <2>1. PlaceOf(w)'
      BY ActBase DEF Base, Places
    <2>2. task'[job[w]] = "running"
      BY <1>3, <2>1 DEF Quiet, PlaceOf, Loop, After
    <2>3. t # job[w] => task'[t] = task[t]
      BY <1>0, <1>3, TaskFrame
    <2>4. QED
      BY <2>2, <2>3
  <1>4. CASE Commit(w)
    <2>1. /\ pc[w] = "commit" /\ tx[w] \in {"open", "aborted"}
          /\ written' = written \cup DOMAIN edits[w] /\ t = job[w]
          /\ dropped' = dropped \cup (IF tx[w] = "aborted" THEN RuleNames ELSE failed[w])
      BY <1>0, <1>4, CommitIs
    <2>2. tx[w] = "open" /\ r \notin failed[w]
      BY <1>1, <2>1
    <2>3. NoneOf(w, r, k)
      BY <1>1, <2>1 DEF NoneOf
    <2>4. Before(w, r, k)
      BY <1>0, <2>1, AfterBefore DEF After
    <2>5. QED
      BY <2>1, <2>2, <2>3, <2>4 DEF Passed
  <1>5. CASE Publish(w)
    <2>1. /\ pc[w] \in Channels /\ t = job[w]
          /\ dropped' = dropped \cup (IF Run(w) \in lossy THEN RuleNames ELSE failed[w])
      BY <1>0, <1>5, PublishIs
    <2>2. QED
      BY <1>1, <2>1 DEF Passed, Channels
  <1>6. CASE CommitRefused(w) \/ CallFails(w) \/ Crash(w)
    BY <1>0, <1>6, RetryIs
  <1>7. QED
    BY <1>0, <1>2, <1>3, <1>4, <1>5, <1>6, ActIs

LEMMA OverStep ==
  ASSUME DetectionAssumption, Base, NEW w \in Workers, Act(w), NEW t \in Tasks,
         NEW r \in RuleNames, Kind[r] = "threshold", NEW k, (Over(t, r, k))', ~(Excused(r, k))'
  PROVE  Over(t, r, k) \/ (Below(w, r, k) /\ job[w] = t)
  <1>1. CASE task'[t] = "done"
    BY <1>1, DoneStep DEF Over
  <1>2. CASE \E u \in Workers : pc'[u] # "idle" /\ job'[u] = t /\ (Passed(u, r, k))'
    <2>1. PICK u \in Workers : pc'[u] # "idle" /\ job'[u] = t /\ (Passed(u, r, k))'
      BY <1>2
    <2>2. CASE u = w
      BY <2>1, <2>2, PassedStep DEF Over
    <2>3. CASE u # w
      <3>1. Kept(u) /\ lossy \subseteq lossy' /\ pc[u] # "idle" /\ (Run(u))' = Run(u)
        BY <2>1, <2>3, ActBase, ActMono DEF Kept
      <3>2. (Before(u, r, k))' => Before(u, r, k)
        BY <3>1 DEF Before, Kept
      <3>3. (NoneOf(u, r, k))' => NoneOf(u, r, k)
        BY <3>1 DEF NoneOf, Kept, KeyOf
      <3>4. Passed(u, r, k)
        BY <2>1, <3>1, <3>2, <3>3 DEF Passed, Kept
      <3>5. QED
        BY <2>1, <3>1, <3>4 DEF Over, Kept
    <2>4. QED
      BY <2>2, <2>3
  <1>3. QED
    BY <1>1, <1>2 DEF Over, Passed, NoneOf, Before, KeyOf

LEMMA ActStored ==
  ASSUME DetectionAssumption, Base, NEW w \in Workers, Act(w)
  PROVE  stored' = stored /\ \A t \in Tasks : task'[t] = "unsent" <=> task[t] = "unsent"
  <1>0. Types /\ PlaceOf(w)
    BY DEF Base, Places
  <1>1. \A t \in Tasks : task'[t] = "unsent" <=> task[t] = "unsent"
    <2>1. CASE \E t \in Tasks : PickUp(w, t)
      BY <1>0, <2>1 DEF PickUp, Types, BrokerT
    <2>2. CASE /\ pc[w] # "idle" /\ \A t \in Tasks : t # job[w] => task'[t] = task[t]
               /\ task'[job[w]] # "unsent"
      BY <1>0, <2>2 DEF PlaceOf
    <2>3. QED
      BY <1>0, <2>1, <2>2, TaskFrame
  <1>2. {u \in Tasks : task[u] # "unsent"}' = {u \in Tasks : task[u] # "unsent"}
    BY <1>1
  <1>3. QED
    BY <1>1, <1>2 DEF stored

LEMMA WeighedFinite ==
  ASSUME DetectionAssumption, NEW r, NEW k, NEW o
  PROVE  IsFiniteSet(Weighed(r, k, o)) /\ Cardinality(Weighed(r, k, o)) \in Nat
  <1>1. IsFiniteSet(Events) /\ stored \subseteq Events
    BY DEF DetectionAssumption, stored
  <1>2. Weighed(r, k, o) \subseteq Events
    BY <1>1 DEF Weighed
  <1>3. QED
    BY <1>1, <1>2, FS_Subset, FS_CardinalityType

\* The weighed events shrink, or are all among those just counted.
LEMMA CrossKept ==
  ASSUME DetectionAssumption, NEW r \in RuleNames, NEW k, NEW o, CrossOf(r, k, o),
         Excused(r, k) => (Excused(r, k))',
         ~(Excused(r, k))' =>
            \/ (Weighed(r, k, o))' \subseteq Weighed(r, k, o)
            \/ \E C : /\ IsFiniteSet(C) /\ (Weighed(r, k, o))' \subseteq C
                      /\ ~(Cardinality(C) >= Threshold[r])
  PROVE  (CrossOf(r, k, o))'
  <1> SUFFICES ASSUME ~(Excused(r, k))'
               PROVE  (Cardinality(Weighed(r, k, o)) < Threshold[r])'
    BY DEF CrossOf
  <1> DEFINE W == Weighed(r, k, o)
             V == (Weighed(r, k, o))'
  <1>1. Threshold[r] \in Nat
    BY DEF DetectionAssumption
  <1>2. IsFiniteSet(W) /\ Cardinality(W) \in Nat /\ Cardinality(W) < Threshold[r]
    BY WeighedFinite DEF CrossOf
  <1>3. \/ V \subseteq W
        \/ \E C : IsFiniteSet(C) /\ V \subseteq C /\ ~(Cardinality(C) >= Threshold[r])
    OBVIOUS
  <1>4. (Cardinality(Weighed(r, k, o)) < Threshold[r])' = (Cardinality(V) < Threshold[r])
    OBVIOUS
  <1> HIDE DEF W, V
  <1>5. CASE V \subseteq W
    <2>1. Cardinality(V) <= Cardinality(W) /\ IsFiniteSet(V)
      BY <1>2, <1>5, FS_Subset
    <2>2. Cardinality(V) \in Nat
      BY <2>1, FS_CardinalityType
    <2>3. Cardinality(V) < Threshold[r]
      BY <1>1, <1>2, <2>1, <2>2
    <2>4. QED
      BY <1>4, <2>3
  <1>6. CASE \E C : IsFiniteSet(C) /\ V \subseteq C /\ ~(Cardinality(C) >= Threshold[r])
    <2>1. PICK C : IsFiniteSet(C) /\ V \subseteq C /\ ~(Cardinality(C) >= Threshold[r])
      BY <1>6
    <2>2. Cardinality(V) <= Cardinality(C) /\ IsFiniteSet(V)
      BY <2>1, FS_Subset
    <2>3. Cardinality(V) \in Nat /\ Cardinality(C) \in Nat
      BY <2>1, <2>2, FS_CardinalityType
    <2>4. Cardinality(V) < Threshold[r]
      BY <1>1, <2>1, <2>2, <2>3
    <2>5. QED
      BY <1>4, <2>4
  <1>7. QED
    BY <1>3, <1>5, <1>6

LEMMA ActCross ==
  ASSUME DetectionAssumption, Base, NEW w \in Workers, Act(w),
         NEW r \in RuleNames, Kind[r] = "threshold", NEW k, NEW o, CrossOf(r, k, o)
  PROVE  (CrossOf(r, k, o))'
  <1>0. Types /\ Places /\ PlaceOf(w)
    BY DEF Base, Places
  <1>1. Excused(r, k) => (Excused(r, k))'
    BY ActMono DEF Excused, KeyOf
  <1>2. clock' = clock /\ stored' = stored /\ \A t \in Tasks : task'[t] = "unsent" <=> task[t] = "unsent"
    BY ActMono, ActStored
  <1>3. \A e \in (Weighed(r, k, o))' :
          /\ e \in stored \cap Matches[r] /\ Key[e] = k /\ Org[e] = o /\ InWindow(r, CreatedAt[e])
          /\ \A t \in Tasks : e \in EventsOf[t] /\ task[t] # "unsent" => (Over(t, r, k))'
    BY <1>2 DEF Weighed, InWindow
  <1>4. ASSUME ~(Excused(r, k))', NEW e \in (Weighed(r, k, o))', e \notin Weighed(r, k, o)
        PROVE  \E C : /\ IsFiniteSet(C) /\ (Weighed(r, k, o))' \subseteq C
                      /\ ~(Cardinality(C) >= Threshold[r])
    <2>1. PICK t \in Tasks : e \in EventsOf[t] /\ (Over(t, r, k))' /\ ~Over(t, r, k)
      BY <1>3, <1>4 DEF Weighed
    <2>2. Below(w, r, k) /\ job[w] = t
      BY <1>4, <2>1, OverStep
    <2>3. e \in Matching(w) /\ Key[e] = k
      BY <1>3, <2>1, <2>2 DEF Below, Matching
    <2>4. ~(Count(w, r, k) >= Threshold[r])
      BY <2>2, <2>3 DEF Below, HitsOf
    <2> DEFINE C == {x \in stored \cap Counted[r] :
          Key[x] = k /\ InWindow(r, CreatedAt[x]) /\ Org[x] \in {Org[f] : f \in EventsOf[job[w]]}}
    <2>5. Count(w, r, k) = Cardinality(C)
      BY DEF Count
    <2>6. Matches[r] \subseteq Counted[r] /\ IsFiniteSet(Events) /\ stored \subseteq Events
      BY DEF DetectionAssumption, stored
    <2>7. o \in {Org[f] : f \in EventsOf[job[w]]}
      BY <1>3, <2>1, <2>2
    <2>8. (Weighed(r, k, o))' \subseteq C
      BY <1>3, <2>6, <2>7
    <2>9. C \subseteq Events
      BY <2>6
    <2> HIDE DEF C
    <2>10. IsFiniteSet(C)
      BY <2>6, <2>9, FS_Subset
    <2>11. QED
      BY <2>4, <2>5, <2>8, <2>10
  <1>5. QED
    BY <1>1, <1>4, CrossKept

LEMMA EnvCross ==
  ASSUME DetectionAssumption, Base, Env,
         NEW r \in RuleNames, NEW k, NEW o, CrossOf(r, k, o)
  PROVE  (CrossOf(r, k, o))'
  <1>0. EnvKept /\ Types /\ Places
    BY EnvBase DEF Base
  <1>1. (Excused(r, k))' = Excused(r, k)
    BY <1>0 DEF Excused, KeyOf, EnvKept
  <1>2. ASSUME NEW u \in Workers PROVE (Passed(u, r, k))' => Passed(u, r, k)
    <2>1. (Before(u, r, k))' => Before(u, r, k)
      BY <1>0 DEF Before, EnvKept
    <2>2. (NoneOf(u, r, k))' => NoneOf(u, r, k)
      BY <1>0 DEF NoneOf, EnvKept, KeyOf
    <2>3. (Run(u))' = Run(u)
      BY <1>0 DEF Run, EnvKept
    <2>4. QED
      BY <1>0, <2>1, <2>2, <2>3 DEF Passed, EnvKept
  <1>3. ASSUME NEW t \in Tasks, (Over(t, r, k))', task'[t] = "done" => task[t] = "done"
        PROVE  Over(t, r, k)
    <2>1. CASE task'[t] = "done"
      BY <1>3, <2>1 DEF Over
    <2>2. CASE task'[t] # "done"
      <3>1. PICK u \in Workers : pc'[u] # "idle" /\ job'[u] = t /\ (Passed(u, r, k))'
        BY <1>3, <2>2, Zenon DEF Over
      <3>2. pc[u] # "idle" /\ job[u] = t /\ Passed(u, r, k)
        BY <1>0, <1>2, <3>1 DEF EnvKept
      <3>3. QED
        BY <3>2 DEF Over
    <2>3. QED
      BY <2>1, <2>2
  <1>4. (Weighed(r, k, o))' \subseteq Weighed(r, k, o)
    <2>1. CASE Tick
      <3>1. clock' = clock + 1 /\ task' = task /\ clock \in Nat
        BY <1>0, <2>1, TickIs DEF Types, BrokerT
      <3>2. ASSUME NEW e \in (Weighed(r, k, o))' PROVE e \in Weighed(r, k, o)
        <4>1. /\ e \in stored \cap Matches[r] /\ Key[e] = k /\ Org[e] = o
              /\ CreatedAt[e] >= clock' - Window[r]
              /\ \A t \in Tasks : e \in EventsOf[t] /\ task[t] # "unsent" => (Over(t, r, k))'
          BY <3>1 DEF Weighed, InWindow, stored
        <4>2. CreatedAt[e] \in Nat /\ Window[r] \in Nat
          BY <4>1 DEF DetectionAssumption, stored
        <4>3. InWindow(r, CreatedAt[e])
          BY <3>1, <4>1, <4>2 DEF InWindow
        <4>4. \A t \in Tasks : e \in EventsOf[t] /\ task[t] # "unsent" => Over(t, r, k)
          BY <1>3, <3>1, <4>1
        <4>5. QED
          BY <4>1, <4>3, <4>4 DEF Weighed
      <3>3. QED
        BY <3>2
    <2>2. ASSUME NEW u \in Tasks, Arrive(u) PROVE (Weighed(r, k, o))' \subseteq Weighed(r, k, o)
      <3>1. /\ clock' = clock /\ task[u] = "unsent" /\ task'[u] = "queued"
            /\ \A t \in Tasks \ {u} : task'[t] = task[t]
        BY <1>0, <2>2, ArriveIs DEF Types, BrokerT
      <3>2. ~(Over(u, r, k))'
        <4>1. \A w \in Workers : pc'[w] # "idle" => job'[w] # u
          BY <1>0, <3>1 DEF Places, PlaceOf, EnvKept
        <4>2. ASSUME NEW w \in Workers, pc'[w] # "idle", job'[w] = u, (Passed(w, r, k))' PROVE FALSE
          BY <4>1, <4>2
        <4>3. QED
          BY <3>1, <4>2, Zenon DEF Over
      <3>3. ASSUME NEW e \in (Weighed(r, k, o))' PROVE e \in Weighed(r, k, o)
        <4>1. /\ e \in stored' /\ e \in Matches[r] /\ Key[e] = k /\ Org[e] = o
              /\ InWindow(r, CreatedAt[e])
              /\ \A t \in Tasks : e \in EventsOf[t] /\ task'[t] # "unsent" => (Over(t, r, k))'
          BY <3>1 DEF Weighed, InWindow
        <4>2. e \notin EventsOf[u]
          BY <3>1, <3>2, <4>1
        <4>3. e \in stored
          <5>1. PICK t \in Tasks : task'[t] # "unsent" /\ e \in EventsOf[t]
            BY <4>1 DEF stored
          <5>2. QED
            BY <3>1, <4>2, <5>1 DEF stored
        <4>4. \A t \in Tasks : e \in EventsOf[t] /\ task[t] # "unsent" => Over(t, r, k)
          BY <1>3, <3>1, <4>1
        <4>5. QED
          BY <4>1, <4>3, <4>4 DEF Weighed
      <3>4. QED
        BY <3>3
    <2>3. CASE UNCHANGED <<clock, task>>
      <3>1. ASSUME NEW e \in (Weighed(r, k, o))' PROVE e \in Weighed(r, k, o)
        <4>1. /\ e \in stored \cap Matches[r] /\ Key[e] = k /\ Org[e] = o /\ InWindow(r, CreatedAt[e])
              /\ \A t \in Tasks : e \in EventsOf[t] /\ task[t] # "unsent" => (Over(t, r, k))'
          BY <2>3 DEF Weighed, InWindow, stored
        <4>2. QED
          BY <1>3, <2>3, <4>1 DEF Weighed
      <3>2. QED
        BY <3>1
    <2>4. CASE \E d \in DOMAIN det : Delete(d) \/ \E s \in Statuses : SetStatus(d, s)
      BY <1>0, <2>3, <2>4, DeleteIs, SetStatusIs
    <2>5. QED
      BY <2>1, <2>2, <2>4 DEF Env
  <1>5. QED
    BY <1>1, <1>4, CrossKept

\* Whatever the order in which batches arrive and their transactions interleave, a key whose
\* events reach a threshold has its detection once all batches are evaluated: the last of them
\* counts the events of the others (_evaluate_threshold_rule counts what is committed).
THEOREM CrossingsFound == ASSUME DetectionAssumption PROVE Spec => []NoMissedCrossing
  <1>1. Init => Base /\ CrossInv
    <2> SUFFICES ASSUME Init PROVE CrossInv
      BY BaseInit
    <2> SUFFICES ASSUME NEW r \in RuleNames, NEW k \in Keys, NEW o \in Orgs PROVE CrossOf(r, k, o)
      BY DEF CrossInv
    <2>1. Weighed(r, k, o) = {}
      BY DEF Init, Weighed, stored
    <2>2. Cardinality(Weighed(r, k, o)) = 0
      BY <2>1, FS_EmptySet
    <2>3. Threshold[r] \in Nat /\ Threshold[r] # 0
      BY DEF DetectionAssumption
    <2>4. QED
      BY <2>2, <2>3 DEF CrossOf
  <1>2. Base /\ CrossInv /\ [Next]_vars => (Base /\ CrossInv)'
    <2> SUFFICES ASSUME Base, CrossInv, [Next]_vars PROVE CrossInv'
      BY BaseNext
    <2> SUFFICES ASSUME NEW r \in RuleNames, NEW k \in Keys, NEW o \in Orgs, Kind[r] = "threshold"
                 PROVE  (CrossOf(r, k, o))'
      BY DEF CrossInv
    <2>0. CrossOf(r, k, o)
      BY DEF CrossInv
    <2>1. CASE Next
      BY <2>0, <2>1, NextIs, ActCross, EnvCross
    <2>2. CASE UNCHANGED vars
      <3>1. UNCHANGED <<clock, task, tries, job, pc, tx, idx, hits, edits, failed, written, lossy, dropped>>
        BY <2>2 DEF vars, brokerVars, workerVars, workVars, histVars
      <3>2. (Excused(r, k))' = Excused(r, k)
        BY <3>1 DEF Excused, KeyOf
      <3>3. \A u \in Workers : (Passed(u, r, k))' = Passed(u, r, k)
        BY <3>1 DEF Passed, NoneOf, Before, KeyOf, Run
      <3>4. \A t \in Tasks : (Over(t, r, k))' => Over(t, r, k)
        BY <3>1, <3>3 DEF Over
      <3>5. (Weighed(r, k, o))' \subseteq Weighed(r, k, o)
        BY <3>1, <3>4 DEF Weighed, InWindow, stored
      <3>6. QED
        BY <2>0, <3>2, <3>5, CrossKept
    <2>3. QED
      BY <2>1, <2>2
  <1>3. Base /\ CrossInv => NoMissedCrossing
    <2> SUFFICES ASSUME CrossInv, \A t \in Tasks : task[t] \in {"unsent", "done"},
                        NEW r \in RuleNames, NEW k \in Keys, NEW o \in Orgs,
                        Kind[r] = "threshold", r \notin dropped, <<r, k>> \notin Suppressed,
                        Cardinality({e \in stored \cap Matches[r] :
                          Key[e] = k /\ Org[e] = o /\ InWindow(r, CreatedAt[e])}) >= Threshold[r]
                 PROVE  \E d \in written : d.rule = r /\ KeyOf(d) = k
      BY DEF NoMissedCrossing
    <2>1. Weighed(r, k, o) = {e \in stored \cap Matches[r] :
                          Key[e] = k /\ Org[e] = o /\ InWindow(r, CreatedAt[e])}
      BY DEF Weighed, Over
    <2>2. CrossOf(r, k, o)
      BY DEF CrossInv
    <2>3. Threshold[r] \in Nat /\ Cardinality(Weighed(r, k, o)) \in Nat
      BY WeighedFinite DEF DetectionAssumption
    <2>4. ~(Cardinality(Weighed(r, k, o)) < Threshold[r])
      BY <2>1, <2>3
    <2>5. QED
      BY <2>2, <2>4 DEF CrossOf, Excused
  <1>4. QED
    BY <1>1, <1>2, <1>3, PTL DEF Spec
=============================================================================
