---------------------------- MODULE Response_proofs ----------------------------
(***************************************************************************)
(* Theorems about ThreatIntel, Notify and Digest, and with Status_proofs   *)
(* about the types of all that MCResponse runs.                            *)
(*                                                                         *)
(* ThreatIntel: an event and its indicator may be committed in any order,  *)
(* and the task that looks for one never waits for the other.  The         *)
(* invariant says which task is left to find an event that has no          *)
(* detection: a refresh that has yet to make the rule or to queue the      *)
(* scan, a scan that is queued, or one that has not passed the event.      *)
(*                                                                         *)
(* Digest: a detection is left out of the digest mails, or is in two of    *)
(* them, for the known reasons only.                                       *)
(***************************************************************************)
EXTENDS MCResponse, Status_proofs

-----------------------------------------------------------------------------
(* ThreatIntel: types *)

Refresher(r) ==
  /\ DOMAIN r = {"at", "content", "new"}
  /\ r.at \in {"idle", "upsert", "synthesize", "queue"}
  /\ r.content \subseteq Indicators /\ r.new \subseteq r.content
  /\ r.at \in {"idle", "upsert"} => r.new = {}

Scanner(t) ==
  /\ DOMAIN t = {"at", "rules", "last", "hit"}
  /\ t.at \in {"idle", "fetch", "commit"}
  /\ t.last \in 0..MaxEvent /\ t.hit \in 0..MaxEvent
  /\ t.at # "commit" => t.hit = 0
  /\ t.at = "idle" => t.rules = {}

FeedInv ==
  /\ offered \subseteq Indicators /\ missed \subseteq Indicators
  /\ known \in [Indicators -> {"absent", "active", "deleted"}]
  /\ source \in [Kinds -> {"none", "feed", "promoted"}] /\ on \in [Kinds -> BOOLEAN]
  /\ DOMAIN refresher = Refreshers /\ \A w \in Refreshers : Refresher(refresher[w])

ScannersInv ==
  /\ scans \in Nat /\ DOMAIN scanner = Scanners
  /\ \A s \in Scanners : Scanner(scanner[s])

EventInv ==
  /\ live \in [EventIds -> {"absent", "queued", "evaluate", "write", "done"}]
  /\ retro \in [EventIds -> Nat] /\ caught \subseteq EventIds /\ overlapped \subseteq EventIds

IntelTypes == FeedInv /\ ScannersInv /\ EventInv

LEMMA RestFields ==
  /\ DOMAIN Still = {"at", "content", "new"}
  /\ Still.at = "idle" /\ Still.content = {} /\ Still.new = {}
  /\ DOMAIN NoScan = {"at", "rules", "last", "hit"}
  /\ NoScan.at = "idle" /\ NoScan.rules = {} /\ NoScan.last = 0 /\ NoScan.hit = 0
BY DEF Still, NoScan

LEMMA RestTypes == Refresher(Still) /\ Scanner(NoScan)
BY RestFields, IntelAssumption DEF Refresher, Scanner

LEMMA LeastBeyond ==
  ASSUME NEW s \in Scanners, Beyond(s) # {}
  PROVE  Min(Beyond(s)) \in Beyond(s) /\ \A e \in Beyond(s) : Min(Beyond(s)) <= e
<1> DEFINE S == Beyond(s)
<1>1. S \subseteq Nat /\ S # {}
  BY DEF Beyond, EventIds
<1> HIDE DEF S
<1>2. \E n \in S : \A m \in S : n <= m
  BY <1>1, LeastExists
<1>3. Min(S) \in S /\ \A m \in S : Min(S) <= m
  BY <1>2, Zenon DEF Min
<1> QED BY <1>3 DEF S

LEMMA IntelStarts == InitIntel => IntelTypes
<1> SUFFICES ASSUME InitIntel PROVE IntelTypes
  OBVIOUS
<1>1. FeedInv
  <2>1. known \in [Indicators -> {"absent", "active", "deleted"}]
    BY DEF InitIntel
  <2>2. source \in [Kinds -> {"none", "feed", "promoted"}]
    BY DEF InitIntel
  <2>3. on \in [Kinds -> BOOLEAN]
    BY DEF InitIntel
  <2>4. DOMAIN refresher = Refreshers /\ \A w \in Refreshers : Refresher(refresher[w])
    BY RestTypes DEF InitIntel
  <2> QED BY <2>1, <2>2, <2>3, <2>4 DEF InitIntel, FeedInv
<1>2. ScannersInv
  BY RestTypes DEF InitIntel, ScannersInv
<1>3. EventInv
  BY DEF InitIntel, EventInv
<1> QED BY <1>1, <1>2, <1>3 DEF IntelTypes

\* What the steps of a refresh make of it.
LEMMA RefresherMoves ==
  ASSUME FeedInv, NEW w \in Refreshers, NEW waits \in BOOLEAN,
         \/ StartRefresh(w) \/ UpsertIndicators(w) \/ SynthesizeRules(w) \/ QueueScan(w)
         \/ FailRefresh(w, waits)
  PROVE  /\ DOMAIN refresher' = Refreshers /\ Refresher(refresher'[w])
         /\ \A v \in Refreshers \ {w} : refresher'[v] = refresher[v]
<1>1. DOMAIN refresher = Refreshers /\ Refresher(refresher[w]) /\ offered \subseteq Indicators
  BY DEF FeedInv
<1>2. /\ DOMAIN refresher' = Refreshers
      /\ \A v \in Refreshers \ {w} : refresher'[v] = refresher[v]
  BY <1>1 DEF StartRefresh, UpsertIndicators, SynthesizeRules, QueueScan, FailRefresh
<1>3. CASE StartRefresh(w)
  <2>1. refresher'[w] = [Still EXCEPT !.at = "upsert", !.content = offered]
    BY <1>1, <1>3 DEF StartRefresh
  <2> QED BY <1>1, <1>2, <2>1, RestFields DEF Refresher
<1>4. CASE UpsertIndicators(w)
  <2> DEFINE new == {i \in refresher[w].content : known[i] = "absent"}
  <2>1. refresher'[w] = IF new = {} THEN Still
                        ELSE [refresher[w] EXCEPT !.at = "synthesize", !.new = new]
    BY <1>1, <1>4 DEF UpsertIndicators
  <2>2. CASE new = {}
    BY <1>2, <2>1, <2>2, RestTypes
  <2>3. CASE new # {}
    BY <1>1, <1>2, <2>1, <2>3 DEF Refresher
  <2> QED BY <2>2, <2>3
<1>5. CASE SynthesizeRules(w)
  <2>1. refresher'[w] = [refresher[w] EXCEPT !.at = "queue"]
    BY <1>1, <1>5 DEF SynthesizeRules
  <2> QED BY <1>1, <1>2, <2>1 DEF Refresher
<1>6. CASE QueueScan(w) \/ FailRefresh(w, waits)
  BY <1>1, <1>2, <1>6, RestTypes DEF QueueScan, FailRefresh
<1> QED BY <1>3, <1>4, <1>5, <1>6

\* What the steps of a scan make of it.
LEMMA ScannerMoves ==
  ASSUME ScannersInv, NEW s \in Scanners,
         StartScan(s) \/ ScanBatch(s) \/ CommitBatch(s) \/ EndScan(s) \/ FailScan(s)
  PROVE  /\ DOMAIN scanner' = Scanners /\ Scanner(scanner'[s])
         /\ \A t \in Scanners \ {s} : scanner'[t] = scanner[t]
<1>1. DOMAIN scanner = Scanners /\ Scanner(scanner[s])
  BY DEF ScannersInv
<1>2. /\ DOMAIN scanner' = Scanners
      /\ \A t \in Scanners \ {s} : scanner'[t] = scanner[t]
  BY <1>1 DEF StartScan, ScanBatch, CommitBatch, EndScan, FailScan
<1>3. CASE StartScan(s)
  <2> DEFINE rules == {k \in Kinds : on[k] /\ source[k] = "feed"}
  <2>1. scanner'[s] = IF rules = {} THEN NoScan ELSE [NoScan EXCEPT !.at = "fetch", !.rules = rules]
    BY <1>1, <1>3 DEF StartScan
  <2> HIDE DEF rules
  <2>2. CASE rules = {}
    BY <1>2, <2>1, <2>2, RestTypes
  <2>3. CASE rules # {}
    <3>1. /\ DOMAIN scanner'[s] = {"at", "rules", "last", "hit"}
          /\ scanner'[s].at = "fetch" /\ scanner'[s].last = 0 /\ scanner'[s].hit = 0
      BY <2>1, <2>3, RestFields
    <3>2. 0 \in 0..MaxEvent
      BY IntelAssumption
    <3> QED BY <1>2, <3>1, <3>2 DEF Scanner
  <2> QED BY <2>2, <2>3
<1>4. CASE ScanBatch(s)
  <2> DEFINE e == Min(Beyond(s))
             hit == KindOfEvent(e) \in scanner[s].rules /\ known[NamedBy[e]] = "active"
                      /\ ~DetectionExists(e)
  <2>1. scanner'[s] = [scanner[s] EXCEPT !.at = "commit", !.last = e, !.hit = IF hit THEN e ELSE 0]
    BY <1>1, <1>4 DEF ScanBatch
  <2>2. e \in 0..MaxEvent /\ 0 \in 0..MaxEvent
    <3>1. e \in Beyond(s)
      BY <1>4, LeastBeyond DEF ScanBatch
    <3> HIDE DEF e
    <3> QED BY <3>1, IntelAssumption DEF Beyond, EventIds
  <2> HIDE DEF e, hit
  <2> QED BY <1>1, <1>2, <2>1, <2>2 DEF Scanner
<1>5. CASE CommitBatch(s)
  <2>1. scanner'[s] = [scanner[s] EXCEPT !.at = "fetch", !.hit = 0] /\ 0 \in 0..MaxEvent
    BY <1>1, <1>5, IntelAssumption DEF CommitBatch
  <2> QED BY <1>1, <1>2, <2>1 DEF Scanner
<1>6. CASE EndScan(s) \/ FailScan(s)
  BY <1>1, <1>2, <1>6, RestTypes DEF EndScan, FailScan
<1> QED BY <1>3, <1>4, <1>5, <1>6

LEMMA TypesKeep == IntelTypes /\ [NextIntel]_intelVars => IntelTypes'
<1> SUFFICES ASSUME IntelTypes, [NextIntel]_intelVars PROVE IntelTypes'
  OBVIOUS
<1>1. FeedInv /\ ScannersInv /\ EventInv
  BY DEF IntelTypes
<1>2. ASSUME NEW w \in Refreshers, NEW waits \in BOOLEAN,
             \/ StartRefresh(w) \/ UpsertIndicators(w) \/ SynthesizeRules(w) \/ QueueScan(w)
             \/ FailRefresh(w, waits)
      PROVE  IntelTypes'
  <2>1. DOMAIN refresher' = Refreshers /\ \A v \in Refreshers : Refresher(refresher'[v])
    BY <1>1, <1>2, RefresherMoves DEF FeedInv
  <2>2. /\ UNCHANGED <<offered, scanner, live, retro, caught, overlapped>>
        /\ scans' = scans \/ scans' = scans + 1
    BY <1>2 DEF StartRefresh, UpsertIndicators, SynthesizeRules, QueueScan, FailRefresh, foundVars
  <2>3. missed' \subseteq Indicators
    <3>1. Refresher(refresher[w]) /\ missed \subseteq Indicators
      BY <1>1 DEF FeedInv
    <3> QED BY <1>2, <3>1 DEF StartRefresh, UpsertIndicators, SynthesizeRules, QueueScan, FailRefresh,
                              Refresher
  <2>4. known' \in [Indicators -> {"absent", "active", "deleted"}]
    BY <1>1, <1>2 DEF StartRefresh, UpsertIndicators, SynthesizeRules, QueueScan, FailRefresh, FeedInv
  <2>5. source' \in [Kinds -> {"none", "feed", "promoted"}]
    BY <1>1, <1>2 DEF StartRefresh, UpsertIndicators, SynthesizeRules, QueueScan, FailRefresh, FeedInv
  <2>6. on' \in [Kinds -> BOOLEAN]
    <3>1. CASE SynthesizeRules(w)
      BY <1>1, <3>1 DEF SynthesizeRules, FeedInv
    <3>2. CASE ~SynthesizeRules(w)
      BY <1>1, <1>2, <3>2 DEF StartRefresh, UpsertIndicators, QueueScan, FailRefresh, FeedInv
    <3> QED BY <3>1, <3>2
  <2>7. FeedInv'
    BY <1>1, <2>1, <2>2, <2>3, <2>4, <2>5, <2>6 DEF FeedInv
  <2>8. ScannersInv' /\ EventInv'
    BY <1>1, <2>2 DEF ScannersInv, EventInv, Scanner
  <2> QED BY <2>7, <2>8 DEF IntelTypes
<1>3. ASSUME \/ \E i \in Indicators : Publish(i) \/ DeleteIndicator(i)
             \/ IntervalPasses \/ ArchiveCampaign \/ PromoteRules
      PROVE  IntelTypes'
  <2>1. UNCHANGED <<refresher, missed, scans, scanner, live, retro, caught, overlapped>>
    BY <1>3 DEF Publish, DeleteIndicator, IntervalPasses, ArchiveCampaign, PromoteRules, foundVars
  <2>2. offered' \subseteq Indicators
    BY <1>1, <1>3 DEF Publish, DeleteIndicator, IntervalPasses, ArchiveCampaign, PromoteRules, FeedInv
  <2>3. known' \in [Indicators -> {"absent", "active", "deleted"}]
    BY <1>1, <1>3 DEF Publish, DeleteIndicator, IntervalPasses, ArchiveCampaign, PromoteRules, FeedInv
  <2>4. source' \in [Kinds -> {"none", "feed", "promoted"}]
    BY <1>1, <1>3 DEF Publish, DeleteIndicator, IntervalPasses, ArchiveCampaign, PromoteRules, FeedInv
  <2>5. on' \in [Kinds -> BOOLEAN]
    <3>1. CASE ArchiveCampaign
      BY <1>1, <3>1 DEF ArchiveCampaign, FeedInv
    <3>2. CASE ~ArchiveCampaign
      BY <1>1, <1>3, <3>2 DEF Publish, DeleteIndicator, IntervalPasses, PromoteRules, FeedInv
    <3> QED BY <3>1, <3>2
  <2> QED BY <1>1, <2>1, <2>2, <2>3, <2>4, <2>5
        DEF IntelTypes, FeedInv, ScannersInv, EventInv, Refresher, Scanner
<1>4. ASSUME NEW e \in EventIds, Ingest(e) \/ LoadRules(e) \/ Evaluate(e) \/ CommitDetection(e)
      PROVE  IntelTypes'
  <2>1. UNCHANGED <<feedVars, scans, scanner, retro, missed, overlapped>>
    BY <1>4 DEF Ingest, LoadRules, Evaluate, CommitDetection
  <2>2. live' \in [EventIds -> {"absent", "queued", "evaluate", "write", "done"}]
    BY <1>1, <1>4 DEF Ingest, LoadRules, Evaluate, CommitDetection, EventInv
  <2>3. caught' \subseteq EventIds
    BY <1>1, <1>4 DEF Ingest, LoadRules, Evaluate, CommitDetection, EventInv
  <2> QED BY <1>1, <2>1, <2>2, <2>3
        DEF IntelTypes, FeedInv, ScannersInv, EventInv, Refresher, Scanner, feedVars
<1>5. ASSUME NEW s \in Scanners,
             StartScan(s) \/ ScanBatch(s) \/ CommitBatch(s) \/ EndScan(s) \/ FailScan(s)
      PROVE  IntelTypes'
  <2>1. DOMAIN scanner' = Scanners /\ \A t \in Scanners : Scanner(scanner'[t])
    BY <1>1, <1>5, ScannerMoves DEF ScannersInv
  <2>2. UNCHANGED <<feedVars, live, caught, missed>>
    BY <1>5 DEF StartScan, ScanBatch, CommitBatch, EndScan, FailScan
  <2>3. scans' \in Nat
    <3>1. scans \in Nat
      BY <1>1 DEF ScannersInv
    <3>2. scans' = scans \/ scans' = scans + 1 \/ (scans > 0 /\ scans' = scans - 1)
      BY <1>5 DEF StartScan, ScanBatch, CommitBatch, EndScan, FailScan
    <3> QED BY <3>1, <3>2
  <2>4. retro' \in [EventIds -> Nat]
    BY <1>1, <1>5 DEF StartScan, ScanBatch, CommitBatch, EndScan, FailScan, EventInv
  <2>5. overlapped' \subseteq EventIds
    <3>1. CASE ScanBatch(s)
      <4>1. Min(Beyond(s)) \in EventIds
        BY <3>1, LeastBeyond DEF ScanBatch, Beyond
      <4> QED BY <1>1, <3>1, <4>1 DEF ScanBatch, EventInv
    <3>2. CASE ~ScanBatch(s)
      BY <1>1, <1>5, <3>2 DEF StartScan, CommitBatch, EndScan, FailScan, EventInv
    <3> QED BY <3>1, <3>2
  <2> QED BY <1>1, <2>1, <2>2, <2>3, <2>4, <2>5
        DEF IntelTypes, FeedInv, ScannersInv, EventInv, Refresher, feedVars
<1>6. CASE UNCHANGED intelVars
  BY <1>1, <1>6 DEF intelVars, IntelTypes, FeedInv, ScannersInv, EventInv, Refresher, Scanner
<1> QED BY <1>2, <1>3, <1>4, <1>5, <1>6 DEF NextIntel

-----------------------------------------------------------------------------
(* ThreatIntel: one detection of the scans for an event *)

\* An event that no two scans had in hand at once: the one that has it in hand found
\* no detection, and nobody wrote one since.
OnceInv ==
  \A e \in EventIds \ overlapped :
    /\ retro[e] <= 1
    /\ \A s, t \in Scanners : scanner[s].hit = e /\ scanner[t].hit = e => s = t
    /\ \A s \in Scanners : scanner[s].hit = e => retro[e] = 0

LEMMA OnceStarts == InitIntel => OnceInv
<1> SUFFICES ASSUME InitIntel PROVE OnceInv
  OBVIOUS
<1>1. \A s \in Scanners : scanner[s].hit = 0
  BY RestFields DEF InitIntel
<1>2. \A e \in EventIds : retro[e] = 0 /\ e # 0
  BY DEF InitIntel, EventIds
<1> QED BY <1>1, <1>2 DEF OnceInv

LEMMA OnceKeeps == ASSUME IntelTypes, OnceInv, [NextIntel]_intelVars PROVE OnceInv'
<1>1. ScannersInv /\ EventInv /\ EventIds \subseteq Nat \ {0}
  BY DEF IntelTypes, EventIds
<1>2. ASSUME NEW s \in Scanners, ScanBatch(s) PROVE OnceInv'
  <2> DEFINE x == Min(Beyond(s))
             hit == KindOfEvent(x) \in scanner[s].rules /\ known[NamedBy[x]] = "active"
                      /\ ~DetectionExists(x)
  <2>1. /\ scanner'[s].hit = (IF hit THEN x ELSE 0)
        /\ \A t \in Scanners \ {s} : scanner'[t] = scanner[t]
    BY <1>1, <1>2, ScannerMoves DEF ScanBatch, ScannersInv, Scanner
  <2>2. /\ overlapped' = IF hit /\ \E t \in Scanners : scanner[t].hit = x
                         THEN overlapped \cup {x} ELSE overlapped
        /\ retro' = retro
    BY <1>2 DEF ScanBatch
  <2>3. hit => ~(retro[x] > 0)
    BY DEF DetectionExists
  <2>4. scanner[s].hit = 0
    BY <1>1, <1>2 DEF ScanBatch, ScannersInv, Scanner
  <2>5. x \in EventIds
    BY <1>2, LeastBeyond DEF ScanBatch, Beyond
  <2> HIDE DEF x, hit
  <2>6. hit => retro[x] = 0
    BY <1>1, <2>3, <2>5 DEF EventInv
  <2>7. \A t \in Scanners : scanner'[t].hit = (IF t = s THEN IF hit THEN x ELSE 0 ELSE scanner[t].hit)
    BY <2>1
  <2>8. SUFFICES ASSUME NEW e \in EventIds \ overlapped'
                 PROVE  /\ retro'[e] <= 1
                        /\ \A t, u \in Scanners : scanner'[t].hit = e /\ scanner'[u].hit = e => t = u
                        /\ \A t \in Scanners : scanner'[t].hit = e => retro'[e] = 0
    BY DEF OnceInv
  <2>9. /\ e \in EventIds \ overlapped /\ e # 0
        /\ hit /\ e = x => \A t \in Scanners : scanner[t].hit # e
    BY <1>1, <2>2
  <2>10. /\ retro[e] <= 1
         /\ \A t, u \in Scanners : scanner[t].hit = e /\ scanner[u].hit = e => t = u
         /\ \A t \in Scanners : scanner[t].hit = e => retro[e] = 0
    BY <2>9 DEF OnceInv
  <2> QED BY <2>2, <2>6, <2>7, <2>9, <2>10
<1>3. ASSUME NEW s \in Scanners, CommitBatch(s) PROVE OnceInv'
  <2> DEFINE x == scanner[s].hit
  <2>1. /\ DOMAIN scanner = Scanners /\ scanner' = [scanner EXCEPT ![s] = [@ EXCEPT !.at = "fetch", !.hit = 0]]
        /\ DOMAIN scanner[s] = {"at", "rules", "last", "hit"}
    BY <1>1, <1>3 DEF CommitBatch, ScannersInv, Scanner
  <2>2. \A t \in Scanners : scanner'[t].hit = (IF t = s THEN 0 ELSE scanner[t].hit)
    BY <2>1
  <2>3. /\ x = 0 => retro' = retro
        /\ x # 0 => retro' = [retro EXCEPT ![x] = @ + 1]
        /\ overlapped' = overlapped
    BY <1>3 DEF CommitBatch
  <2>4. \A e \in EventIds : /\ retro[e] \in Nat
                            /\ retro'[e] = retro[e] + (IF e = x THEN 1 ELSE 0)
    BY <1>1, <2>3 DEF EventInv
  <2>5. SUFFICES ASSUME NEW e \in EventIds \ overlapped
                 PROVE  /\ retro'[e] <= 1
                        /\ \A t, u \in Scanners : scanner'[t].hit = e /\ scanner'[u].hit = e => t = u
                        /\ \A t \in Scanners : scanner'[t].hit = e => retro'[e] = 0
    BY <2>3 DEF OnceInv
  <2>6. /\ retro[e] <= 1 /\ e # 0
        /\ \A t, u \in Scanners : scanner[t].hit = e /\ scanner[u].hit = e => t = u
        /\ \A t \in Scanners : scanner[t].hit = e => retro[e] = 0
    BY <1>1 DEF OnceInv
  <2>7. CASE e = x
    <3>1. retro[e] = 0 /\ \A t \in Scanners : scanner'[t].hit # e
      BY <2>2, <2>6, <2>7
    <3> QED BY <2>4, <3>1
  <2>8. CASE e # x
    <3>1. retro'[e] = retro[e]
      BY <2>4, <2>8
    <3> QED BY <2>2, <2>6, <3>1
  <2> QED BY <2>7, <2>8
<1>4. ASSUME NEW s \in Scanners, StartScan(s) \/ EndScan(s) \/ FailScan(s) PROVE OnceInv'
  <2>1. /\ scanner'[s].hit = 0 /\ UNCHANGED <<retro, overlapped>>
        /\ \A t \in Scanners \ {s} : scanner'[t] = scanner[t]
    <3>1. Scanner(scanner'[s]) /\ \A t \in Scanners \ {s} : scanner'[t] = scanner[t]
      BY <1>1, <1>4, ScannerMoves
    <3>2. scanner'[s].at # "commit"
      BY <1>1, <1>4, RestFields DEF StartScan, EndScan, FailScan, ScannersInv
    <3> QED BY <1>4, <3>1, <3>2 DEF Scanner, StartScan, EndScan, FailScan
  <2> QED BY <1>1, <2>1 DEF OnceInv
<1>5. ASSUME UNCHANGED <<scanner, retro, overlapped>> PROVE OnceInv'
  BY <1>5 DEF OnceInv
<1>6. CASE UNCHANGED intelVars
  BY <1>5, <1>6 DEF intelVars
<1>7. ASSUME NEW w \in Refreshers, NEW waits \in BOOLEAN,
             \/ StartRefresh(w) \/ UpsertIndicators(w) \/ SynthesizeRules(w) \/ QueueScan(w)
             \/ FailRefresh(w, waits)
      PROVE  OnceInv'
  BY <1>5, <1>7
    DEF StartRefresh, UpsertIndicators, SynthesizeRules, QueueScan, FailRefresh, foundVars
<1>8. CASE \/ \E i \in Indicators : Publish(i) \/ DeleteIndicator(i)
           \/ IntervalPasses \/ ArchiveCampaign \/ PromoteRules
           \/ \E e \in EventIds : Ingest(e) \/ LoadRules(e) \/ Evaluate(e) \/ CommitDetection(e)
  BY <1>5, <1>8
    DEF Publish, DeleteIndicator, IntervalPasses, ArchiveCampaign, PromoteRules, Ingest, LoadRules,
        Evaluate, CommitDetection, foundVars
<1> QED BY <1>2, <1>3, <1>4, <1>6, <1>7, <1>8 DEF NextIntel

\* _detection_exists: the scans write one detection for an event, however often they
\* start over, unless two had it in hand at once.
THEOREM ScansDetectOnce == SpecIntel => []RetroOnce
<1>1. OnceInv => RetroOnce
  BY DEF OnceInv, RetroOnce
<1>2. IntelTypes /\ OnceInv /\ [NextIntel]_intelVars => IntelTypes' /\ OnceInv'
  BY TypesKeep, OnceKeeps
<1> QED BY <1>1, <1>2, IntelStarts, OnceStarts, PTL DEF SpecIntel

-----------------------------------------------------------------------------
(* ThreatIntel: who is left to find an event *)

Wanted(i) == known[i] = "active" /\ i \notin missed
Searchable(i) == on[KindOf[i]] /\ source[KindOf[i]] = "feed"

\* An indicator without a rule is new to a refresh that makes the rules.
Synthesizing(w, i) == refresher[w].at = "synthesize" /\ i \in refresher[w].new
RuleBehind ==
  \A i \in Indicators :
    Wanted(i) /\ source[KindOf[i]] = "none" => \E w \in Refreshers : Synthesizing(w, i)

\* An event without a detection is in a scan's hands or before it; or a scan of its
\* indicator is queued, or behind a refresh.
Refreshing(w, i) == refresher[w].at \in {"synthesize", "queue"} /\ i \in refresher[w].new
Ahead(s, e) ==
  scanner[s].hit = e \/ (KindOfEvent(e) \in scanner[s].rules /\ scanner[s].last < e)
Searched(e) ==
  \/ \E w \in Refreshers : Refreshing(w, NamedBy[e])
  \/ scans > 0
  \/ \E s \in Scanners : Ahead(s, e)
ScanBehind ==
  \A e \in EventIds :
    live[e] = "done" /\ Wanted(NamedBy[e]) /\ Searchable(NamedBy[e]) /\ ~DetectionExists(e) =>
      Searched(e)

LEMMA BehindStarts == InitIntel => RuleBehind /\ ScanBehind
BY DEF InitIntel, RuleBehind, ScanBehind, Wanted

LEMMA KindsOfIndicators == \A i \in Indicators : KindOf[i] \in Kinds
BY DEF Kinds

LEMMA RuleKeeps == ASSUME IntelTypes, RuleBehind, [NextIntel]_intelVars PROVE RuleBehind'
<1> SUFFICES ASSUME NEW i \in Indicators, Wanted(i)', source'[KindOf[i]] = "none"
             PROVE  \E v \in Refreshers : Synthesizing(v, i)'
  BY DEF RuleBehind
<1>1. FeedInv /\ KindOf[i] \in Kinds
  BY KindsOfIndicators DEF IntelTypes
<1>2. ASSUME NEW w \in Refreshers, NEW waits \in BOOLEAN,
             \/ StartRefresh(w) \/ UpsertIndicators(w) \/ SynthesizeRules(w) \/ QueueScan(w)
             \/ FailRefresh(w, waits)
      PROVE  \E v \in Refreshers : Synthesizing(v, i)'
  <2>1. \A v \in Refreshers \ {w} : refresher'[v] = refresher[v]
    BY <1>1, <1>2, RefresherMoves
  <2>2. Refresher(refresher[w]) /\ DOMAIN refresher = Refreshers
    BY <1>1 DEF FeedInv
  <2>3. ASSUME Wanted(i), source[KindOf[i]] = "none", ~Synthesizing(w, i)
        PROVE  \E v \in Refreshers : Synthesizing(v, i)'
    BY <2>1, <2>3 DEF RuleBehind, Synthesizing
  <2>4. CASE StartRefresh(w) \/ QueueScan(w)
    BY <2>3, <2>4 DEF StartRefresh, QueueScan, Synthesizing, Wanted
  <2>5. CASE FailRefresh(w, waits)
    BY <2>3, <2>5 DEF FailRefresh, Synthesizing, Wanted
  <2>6. CASE SynthesizeRules(w)
    <3>1. source[KindOf[i]] = "none" /\ Wanted(i) /\ ~(i \in refresher[w].content)
      BY <1>1, <2>6 DEF SynthesizeRules, Wanted
    <3> QED BY <2>2, <2>3, <3>1 DEF Refresher, Synthesizing
  <2>7. CASE UpsertIndicators(w)
    <3>1. /\ known'[i] = (IF i \in refresher[w].content THEN "active" ELSE known[i])
          /\ missed' = missed \cup {q \in refresher[w].content : known[q] = "deleted"}
          /\ source' = source /\ refresher[w].at = "upsert"
      BY <2>7 DEF UpsertIndicators
    <3>2. CASE i \in refresher[w].content /\ known[i] = "absent"
      <4> DEFINE new == {q \in refresher[w].content : known[q] = "absent"}
      <4>1. refresher' = [refresher EXCEPT ![w] = IF new = {} THEN Still
                                                  ELSE [@ EXCEPT !.at = "synthesize", !.new = new]]
        BY <2>7 DEF UpsertIndicators
      <4>2. i \in new
        BY <3>2
      <4> HIDE DEF new
      <4>3. refresher'[w] = [refresher[w] EXCEPT !.at = "synthesize", !.new = new]
        BY <2>2, <4>1, <4>2
      <4>4. Synthesizing(w, i)'
        BY <2>2, <4>2, <4>3 DEF Synthesizing, Refresher
      <4> QED BY <4>4
    <3>3. CASE ~(i \in refresher[w].content /\ known[i] = "absent")
      <4>1. Wanted(i)
        BY <1>1, <3>1, <3>3 DEF Wanted, FeedInv
      <4> QED BY <2>3, <3>1, <4>1 DEF Synthesizing
    <3> QED BY <3>2, <3>3
  <2> QED BY <1>2, <2>4, <2>5, <2>6, <2>7
<1>3. ASSUME refresher' = refresher, missed' = missed, known'[i] = "active" => known[i] = "active",
             source'[KindOf[i]] = "none" => source[KindOf[i]] = "none"
      PROVE  \E v \in Refreshers : Synthesizing(v, i)'
  BY <1>3 DEF RuleBehind, Wanted, Synthesizing
<1>4. CASE \/ \E q \in Indicators : Publish(q) \/ DeleteIndicator(q)
           \/ IntervalPasses \/ ArchiveCampaign
  BY <1>1, <1>3, <1>4
    DEF Publish, DeleteIndicator, IntervalPasses, ArchiveCampaign, FeedInv
<1>5. CASE PromoteRules
  BY <1>1, <1>3, <1>5 DEF PromoteRules, FeedInv
<1>6. CASE \E e \in EventIds : Ingest(e) \/ LoadRules(e) \/ Evaluate(e) \/ CommitDetection(e)
  BY <1>3, <1>6 DEF Ingest, LoadRules, Evaluate, CommitDetection, feedVars
<1>7. CASE \E s \in Scanners :
             StartScan(s) \/ ScanBatch(s) \/ CommitBatch(s) \/ EndScan(s) \/ FailScan(s)
  BY <1>3, <1>7 DEF StartScan, ScanBatch, CommitBatch, EndScan, FailScan, feedVars
<1>8. CASE UNCHANGED intelVars
  BY <1>3, <1>8 DEF intelVars
<1> QED BY <1>2, <1>4, <1>5, <1>6, <1>7, <1>8 DEF NextIntel

\* Steps that leave the searches where they are.
LEMMA SearchedStill ==
  ASSUME ScanBehind, NEW e \in EventIds, live[e] = "done", Wanted(NamedBy[e]),
         Searchable(NamedBy[e]), ~DetectionExists(e),
         UNCHANGED <<refresher, scans, scanner>>
  PROVE  Searched(e)'
BY DEF ScanBehind, Searched, Refreshing, Ahead

LEMMA ScanKeepsBehind ==
  ASSUME IntelTypes, RuleBehind, ScanBehind, [NextIntel]_intelVars PROVE ScanBehind'
<1> SUFFICES ASSUME NEW e \in EventIds, live'[e] = "done", Wanted(NamedBy[e])',
                    Searchable(NamedBy[e])', ~DetectionExists(e)'
             PROVE  Searched(e)'
  BY DEF ScanBehind
<1> DEFINE i == NamedBy[e]
<1>1. /\ FeedInv /\ ScannersInv /\ EventInv /\ i \in Indicators /\ KindOf[i] \in Kinds
      /\ KindOfEvent(e) = KindOf[i] /\ e \in Nat \ {0}
  BY IntelAssumption, KindsOfIndicators DEF IntelTypes, KindOfEvent, EventIds
<1>2. ASSUME NEW w \in Refreshers, NEW waits \in BOOLEAN,
             \/ StartRefresh(w) \/ UpsertIndicators(w) \/ SynthesizeRules(w) \/ QueueScan(w)
             \/ FailRefresh(w, waits)
      PROVE  Searched(e)'
  <2>1. /\ \A v \in Refreshers \ {w} : refresher'[v] = refresher[v]
        /\ Refresher(refresher[w]) /\ DOMAIN refresher = Refreshers
    BY <1>1, <1>2, RefresherMoves DEF FeedInv
  <2>2. UNCHANGED <<scanner, live, retro, caught>> /\ (scans' = scans \/ scans' = scans + 1)
    BY <1>2 DEF StartRefresh, UpsertIndicators, SynthesizeRules, QueueScan, FailRefresh, foundVars
  <2>3. live[e] = "done" /\ ~DetectionExists(e) /\ scans \in Nat
    BY <1>1, <2>2 DEF DetectionExists, ScannersInv
  <2>4. ASSUME Wanted(i), Searchable(i), Refreshing(w, i) => Refreshing(w, i)'
        PROVE  Searched(e)'
    <3>1. Searched(e)
      BY <2>3, <2>4 DEF ScanBehind
    <3>2. ASSUME NEW v \in Refreshers, Refreshing(v, i) PROVE Refreshing(v, i)'
      BY <2>1, <2>4, <3>2 DEF Refreshing
    <3> QED BY <2>2, <2>3, <3>1, <3>2 DEF Searched, Ahead
  <2>5. CASE QueueScan(w)
    BY <2>3, <2>5 DEF QueueScan, Searched
  <2>6. CASE StartRefresh(w)
    BY <2>4, <2>6 DEF StartRefresh, Refreshing, Wanted, Searchable
  <2>7. CASE FailRefresh(w, waits)
    BY <2>4, <2>7 DEF FailRefresh, Refreshing, Wanted, Searchable
  <2>8. CASE SynthesizeRules(w)
    <3>1. /\ Wanted(i) /\ refresher[w].at = "synthesize"
          /\ refresher'[w] = [refresher[w] EXCEPT !.at = "queue"]
      BY <2>1, <2>8 DEF SynthesizeRules, Wanted
    <3>2. Refreshing(w, i) => Refreshing(w, i)'
      BY <2>1, <3>1 DEF Refreshing, Refresher
    <3>3. CASE source[KindOf[i]] = "none"
      <4>1. PICK v \in Refreshers : Synthesizing(v, i)
        BY <1>1, <3>1, <3>3 DEF RuleBehind
      <4>2. Refreshing(v, i)'
        BY <2>1, <3>2, <4>1 DEF Refreshing, Synthesizing
      <4> QED BY <4>2 DEF Searched
    <3>4. CASE source[KindOf[i]] # "none"
      <4>1. Searchable(i)
        BY <1>1, <2>8, <3>4 DEF SynthesizeRules, Searchable, FeedInv
      <4> QED BY <2>4, <3>1, <3>2, <4>1
    <3> QED BY <3>3, <3>4
  <2>9. CASE UpsertIndicators(w)
    <3>1. /\ known'[i] = (IF i \in refresher[w].content THEN "active" ELSE known[i])
          /\ missed' = missed \cup {q \in refresher[w].content : known[q] = "deleted"}
          /\ UNCHANGED <<source, on>> /\ refresher[w].at = "upsert"
      BY <1>1, <2>9 DEF UpsertIndicators
    <3>2. CASE i \in refresher[w].content /\ known[i] = "absent"
      <4> DEFINE new == {q \in refresher[w].content : known[q] = "absent"}
      <4>1. refresher' = [refresher EXCEPT ![w] = IF new = {} THEN Still
                                                  ELSE [@ EXCEPT !.at = "synthesize", !.new = new]]
        BY <2>9 DEF UpsertIndicators
      <4>2. i \in new
        BY <3>2
      <4> HIDE DEF new
      <4>3. refresher'[w] = [refresher[w] EXCEPT !.at = "synthesize", !.new = new]
        BY <2>1, <4>1, <4>2
      <4>4. Refreshing(w, i)'
        BY <2>1, <4>2, <4>3 DEF Refreshing, Refresher
      <4> QED BY <4>4 DEF Searched
    <3>3. CASE ~(i \in refresher[w].content /\ known[i] = "absent")
      <4>1. Wanted(i) /\ Searchable(i)
        BY <1>1, <3>1, <3>3 DEF Wanted, Searchable, FeedInv
      <4> QED BY <2>4, <3>1, <4>1 DEF Refreshing
    <3> QED BY <3>2, <3>3
  <2> QED BY <1>2, <2>5, <2>6, <2>7, <2>8, <2>9
<1>3. ASSUME UNCHANGED <<refresher, scans, scanner, missed>>, live[e] = "done", ~DetectionExists(e),
             known'[i] = "active" => known[i] = "active", Searchable(i)
      PROVE  Searched(e)'
  BY <1>3, SearchedStill DEF Wanted
<1>4. CASE \/ \E q \in Indicators : Publish(q) \/ DeleteIndicator(q)
           \/ IntervalPasses \/ ArchiveCampaign \/ PromoteRules
  <2>1. UNCHANGED <<refresher, scans, scanner, missed, live, retro, caught>>
    BY <1>4 DEF Publish, DeleteIndicator, IntervalPasses, ArchiveCampaign, PromoteRules, foundVars
  <2>2. known'[i] = "active" => known[i] = "active"
    BY <1>1, <1>4 DEF Publish, DeleteIndicator, IntervalPasses, ArchiveCampaign, PromoteRules, FeedInv
  <2>3. Searchable(i)
    BY <1>1, <1>4
      DEF Publish, DeleteIndicator, IntervalPasses, ArchiveCampaign, PromoteRules, FeedInv, Searchable
  <2> QED BY <1>3, <2>1, <2>2, <2>3 DEF DetectionExists
<1>5. ASSUME NEW x \in EventIds, Ingest(x) \/ LoadRules(x) \/ Evaluate(x) \/ CommitDetection(x)
      PROVE  Searched(e)'
  <2>1. UNCHANGED <<refresher, scans, scanner, missed, known, on, source, retro>>
    BY <1>5 DEF Ingest, LoadRules, Evaluate, CommitDetection, feedVars
  <2>2. ~DetectionExists(e) /\ Wanted(i) /\ Searchable(i)
    BY <1>5, <2>1
      DEF DetectionExists, Wanted, Searchable, Ingest, LoadRules, Evaluate, CommitDetection
  <2>3. live[e] = "done"
    <3>1. CASE x # e
      BY <1>1, <1>5, <3>1 DEF Ingest, LoadRules, Evaluate, CommitDetection, EventInv
    <3>2. CASE x = e
      <4>1. ~Ingest(e)
        BY <1>1 DEF Ingest, EventInv
      <4>2. ~LoadRules(e)
        BY <1>1, <2>2 DEF LoadRules, EventInv, Searchable, KindOfEvent
      <4>3. ~Evaluate(e)
        BY <1>1, <2>2 DEF Evaluate, EventInv, Wanted
      <4>4. ~CommitDetection(e)
        BY DEF CommitDetection, DetectionExists
      <4> QED BY <1>5, <3>2, <4>1, <4>2, <4>3, <4>4
    <3> QED BY <3>1, <3>2
  <2> QED BY <1>3, <2>1, <2>2, <2>3 DEF Wanted
<1>6. ASSUME NEW s \in Scanners,
             StartScan(s) \/ ScanBatch(s) \/ CommitBatch(s) \/ EndScan(s) \/ FailScan(s)
      PROVE  Searched(e)'
  <2>1. UNCHANGED <<refresher, missed, known, on, source, live, caught>>
    BY <1>6 DEF StartScan, ScanBatch, CommitBatch, EndScan, FailScan, feedVars
  <2>2. /\ \A t \in Scanners \ {s} : scanner'[t] = scanner[t]
        /\ Scanner(scanner[s]) /\ DOMAIN scanner = Scanners /\ scans \in Nat
    BY <1>1, <1>6, ScannerMoves DEF ScannersInv
  <2>3. ~DetectionExists(e) \/ (CommitBatch(s) /\ ~DetectionExists(e)')
    BY <1>6, <2>1 DEF DetectionExists, StartScan, ScanBatch, CommitBatch, EndScan, FailScan
  <2>4. live[e] = "done" /\ Wanted(i) /\ Searchable(i)
    BY <2>1 DEF Wanted, Searchable
  <2>5. ~DetectionExists(e)
    <3>1. CASE CommitBatch(s)
      <4>1. retro'[e] >= retro[e] /\ retro[e] \in Nat /\ retro'[e] \in Nat
        BY <1>1, <3>1 DEF CommitBatch, EventInv
      <4> QED BY <2>1, <4>1 DEF DetectionExists
    <3> QED BY <2>3, <3>1
  <2>6. Searched(e)
    BY <2>4, <2>5 DEF ScanBehind
  <2>7. ASSUME scans' = scans, Ahead(s, e) => Ahead(s, e)' PROVE Searched(e)'
    <3>1. \A t \in Scanners : Ahead(t, e) => Ahead(t, e)'
      BY <2>2, <2>7 DEF Ahead
    <3>2. \A v \in Refreshers : Refreshing(v, i) => Refreshing(v, i)'
      BY <2>1 DEF Refreshing
    <3> QED BY <2>6, <2>7, <3>1, <3>2 DEF Searched
  <2>8. CASE StartScan(s)
    <3> DEFINE rules == {k \in Kinds : on[k] /\ source[k] = "feed"}
    <3>1. scanner' = [scanner EXCEPT ![s] = IF rules = {} THEN NoScan
                                           ELSE [NoScan EXCEPT !.at = "fetch", !.rules = rules]]
      BY <2>8 DEF StartScan
    <3>2. KindOf[i] \in rules
      BY <1>1, <2>4 DEF Searchable
    <3> HIDE DEF rules
    <3>3. scanner'[s] = [NoScan EXCEPT !.at = "fetch", !.rules = rules]
      BY <2>2, <3>1, <3>2
    <3>4. Ahead(s, e)'
      BY <1>1, <3>2, <3>3, RestFields DEF Ahead
    <3> QED BY <3>4 DEF Searched
  <2>9. CASE FailScan(s)
    BY <2>2, <2>9 DEF FailScan, Searched
  <2>10. CASE EndScan(s)
    <3>1. ~Ahead(s, e)
      BY <1>1, <2>2, <2>4, <2>10 DEF EndScan, Ahead, Scanner, Beyond
    <3> QED BY <2>7, <2>10, <3>1 DEF EndScan
  <2>11. CASE CommitBatch(s)
    <3>1. scanner'[s] = [scanner[s] EXCEPT !.at = "fetch", !.hit = 0] /\ scans' = scans
      BY <2>2, <2>11 DEF CommitBatch
    <3>2. scanner[s].hit # e
      <4>1. scanner[s].hit = e => retro'[e] = retro[e] + 1
        BY <1>1, <2>11 DEF CommitBatch, EventInv
      <4>2. retro[e] \in Nat /\ ~(retro'[e] > 0)
        BY <1>1 DEF EventInv, DetectionExists
      <4> QED BY <4>1, <4>2
    <3>3. Ahead(s, e) => Ahead(s, e)'
      BY <2>2, <3>1, <3>2 DEF Ahead, Scanner
    <3> QED BY <2>7, <3>1, <3>3
  <2>12. CASE ScanBatch(s)
    <3> DEFINE x == Min(Beyond(s))
               hit == KindOfEvent(x) \in scanner[s].rules /\ known[NamedBy[x]] = "active"
                        /\ ~DetectionExists(x)
    <3>1. scanner'[s] = [scanner[s] EXCEPT !.at = "commit", !.last = x, !.hit = IF hit THEN x ELSE 0]
      BY <2>2, <2>12 DEF ScanBatch
    <3>2. scanner[s].hit = 0 /\ scans' = scans /\ x \in Beyond(s) /\ \A q \in Beyond(s) : x <= q
      BY <2>2, <2>12, LeastBeyond DEF ScanBatch, Scanner
    <3>3. x \in EventIds /\ (scanner[s].last < e => x <= e)
      <4>1. scanner[s].last < e => e \in Beyond(s)
        BY <2>2, <2>4 DEF Beyond, Scanner
      <4>2. x \in EventIds
        BY <3>2 DEF Beyond
      <4> QED BY <3>2, <4>1, <4>2
    <3>4. KindOfEvent(e) \in scanner[s].rules /\ x = e => hit
      BY <2>4, <2>5 DEF Wanted
    <3> HIDE DEF x, hit
    <3>5. /\ scanner'[s].last = x /\ scanner'[s].hit = (IF hit THEN x ELSE 0)
          /\ scanner'[s].rules = scanner[s].rules
      BY <2>2, <3>1 DEF Scanner
    <3>6. Ahead(s, e) => KindOfEvent(e) \in scanner[s].rules /\ x <= e
      BY <1>1, <3>2, <3>3 DEF Ahead
    <3>7. Ahead(s, e) => Ahead(s, e)'
      <4>1. x \in Nat
        BY <3>3 DEF EventIds
      <4> QED BY <1>1, <3>4, <3>5, <3>6, <4>1 DEF Ahead
    <3> QED BY <2>7, <3>2, <3>7
  <2> QED BY <1>6, <2>8, <2>9, <2>10, <2>11, <2>12
<1>7. CASE UNCHANGED intelVars
  BY <1>3, <1>7 DEF intelVars, DetectionExists, Searchable
<1> QED BY <1>2, <1>4, <1>5, <1>6, <1>7 DEF NextIntel

\* Whatever the order in which an event, its indicator and the rule are committed, and
\* whichever steps fail: with the scans done, the event has a detection.
THEOREM NoEventFallsBetween == SpecIntel => []NothingFallsBetween
<1>1. IntelTypes /\ RuleBehind /\ ScanBehind => NothingFallsBetween
  <2> SUFFICES ASSUME IntelTypes, RuleBehind, ScanBehind, QuietIntel, NEW e \in EventIds,
                      live[e] = "done", Wanted(NamedBy[e])
               PROVE  /\ source[KindOf[NamedBy[e]]] # "none"
                      /\ Searchable(NamedBy[e]) => DetectionExists(e)
    BY DEF NothingFallsBetween, Wanted, Searchable
  <2>1. NamedBy[e] \in Indicators /\ e # 0
    BY IntelAssumption DEF EventIds
  <2>2. source[KindOf[NamedBy[e]]] # "none"
    BY <2>1 DEF RuleBehind, QuietIntel, Synthesizing
  <2>3. ~Searched(e)
    BY <2>1 DEF Searched, QuietIntel, Refreshing, Ahead, IntelTypes, ScannersInv, Scanner
  <2> QED BY <2>2, <2>3 DEF ScanBehind
<1>2. /\ IntelTypes /\ RuleBehind /\ ScanBehind /\ [NextIntel]_intelVars =>
           IntelTypes' /\ RuleBehind' /\ ScanBehind'
      /\ InitIntel => IntelTypes /\ RuleBehind /\ ScanBehind
  BY TypesKeep, RuleKeeps, ScanKeepsBehind, IntelStarts, BehindStarts
<1> QED BY <1>1, <1>2, PTL DEF SpecIntel

\* The variables keep their types.
THEOREM IntelTypesStay == SpecIntel => []IntelTypeOK
<1>1. IntelTypes => IntelTypeOK
  BY DEF IntelTypes, FeedInv, ScannersInv, EventInv, Refresher, Scanner, IntelTypeOK
<1> QED BY <1>1, TypesKeep, IntelStarts, PTL DEF SpecIntel

-----------------------------------------------------------------------------
(* Notify: the channels of an alert *)

LEMMA PlacesExist == \A c \in Channels : Place(c) \in Nat
<1> SUFFICES ASSUME NEW c \in Channels PROVE Place(c) \in Nat
  OBVIOUS
<1> DEFINE globals == {"slack", "pagerduty", "teams"}
<1>1. ConfigOrder \in Seq(Configs) /\ GlobalOrder \in Seq(globals)
  <2>1. GlobalOrder \in Seq(globals)
    BY DEF GlobalOrder
  <2> QED BY <2>1, NotifyAssumption
<1>6. Len(GlobalOrder) = 3
  BY DEF GlobalOrder
<1>2. /\ DOMAIN ChannelOrder = 1 .. (3 + Len(ConfigOrder)) /\ Len(ConfigOrder) \in Nat
      /\ \A n \in 1 .. 3 : ChannelOrder[n] = GlobalOrder[n]
      /\ \A n \in 1 .. Len(ConfigOrder) : ChannelOrder[3 + n] = ConfigOrder[n]
  <2> DEFINE long == GlobalOrder \o ConfigOrder
             S == globals \cup Configs
  <2>1. GlobalOrder \in Seq(S) /\ ConfigOrder \in Seq(S)
    BY <1>1
  <2> HIDE DEF S
  <2>2. /\ Len(long) = Len(GlobalOrder) + Len(ConfigOrder) /\ Len(ConfigOrder) \in Nat
        /\ \A n \in 1 .. Len(GlobalOrder) : long[n] = GlobalOrder[n]
        /\ \A n \in 1 .. Len(ConfigOrder) : long[Len(GlobalOrder) + n] = ConfigOrder[n]
    BY <2>1
  <2>3. long \in Seq(S)
    BY <2>1
  <2>4. DOMAIN long = 1 .. Len(long)
    BY <2>3
  <2> QED BY <1>6, <2>2, <2>4 DEF ChannelOrder
<1>3. c \in Range(GlobalOrder) \/ c \in Range(ConfigOrder)
  BY NotifyAssumption DEF Channels, Configs
<1>4. \E n \in DOMAIN ChannelOrder : ChannelOrder[n] = c
  <2>1. CASE c \in Range(GlobalOrder)
    <3>1. PICK n \in DOMAIN GlobalOrder : GlobalOrder[n] = c
      BY <2>1 DEF Range
    <3>2. n \in 1 .. 3
      BY DEF GlobalOrder
    <3> QED BY <1>2, <3>1, <3>2
  <2>2. CASE c \in Range(ConfigOrder)
    <3>1. PICK n \in DOMAIN ConfigOrder : ConfigOrder[n] = c
      BY <2>2 DEF Range
    <3>2. n \in 1 .. Len(ConfigOrder)
      BY <1>1
    <3>3. 3 + n \in DOMAIN ChannelOrder /\ ChannelOrder[3 + n] = c
      BY <1>2, <3>1, <3>2
    <3> QED BY <3>3
  <2> QED BY <1>3, <2>1, <2>2
<1>5. Place(c) \in DOMAIN ChannelOrder
  BY <1>4, Zenon DEF Place
<1> QED BY <1>2, <1>5

LEMMA FirstIsThere ==
  ASSUME NEW todo \in SUBSET Channels, todo # {} PROVE First(todo) \in todo
<1> DEFINE S == {Place(c) : c \in todo}
<1>1. S \subseteq Nat /\ S # {}
  BY PlacesExist
<1>2. \E n \in S : \A m \in S : n <= m
  <2> HIDE DEF S
  <2> QED BY <1>1, LeastExists
<1>3. \E c \in todo : \A q \in todo : Place(c) <= Place(q)
  BY <1>2
<1> QED BY <1>3, Zenon DEF First

LEMMA RoutesAreChannels == \A d \in Raised : Routes(d) \subseteq Channels
BY NotifyAssumption DEF Routes, Matched, Configured, Channels

-----------------------------------------------------------------------------
(* Notify: types *)

Mailer(m) ==
  /\ DOMAIN m = {"at", "det", "hour", "todo"}
  /\ m.at \in {"idle", "claim", "route", "send", "store"}
  /\ m.at # "idle" => m.det \in Raised
  /\ m.hour \in Hours
  /\ m.at \in {"send", "store"} => m.todo \subseteq Routes(m.det) /\ m.todo # {}

AlertKeys(S) == Range(SubjectOf) \X S
AlertTypes ==
  /\ hour \in Hours /\ claimed \subseteq AlertKeys(Hours) /\ told \subseteq Channels \X AlertKeys(Hours)
  /\ toldTwice \subseteq told
  /\ DOMAIN mailer = Notifiers /\ \A w \in Notifiers : Mailer(mailer[w])

LEMMA RestingIsMailer == Mailer(Resting) /\ Resting.at = "idle" /\ Resting.hour = 0
<1>1. /\ DOMAIN Resting = {"at", "det", "hour", "todo"}
      /\ Resting.at = "idle" /\ Resting.hour = 0
  BY DEF Resting
<1> QED BY <1>1, NotifyAssumption DEF Mailer, Hours

LEMMA GoesOn ==
  ASSUME NEW m, Mailer(m), m.at # "idle", NEW todo, todo \subseteq Routes(m.det)
  PROVE  /\ Mailer(Go(m, todo))
         /\ todo = {} => Go(m, todo) = Resting
         /\ todo # {} => /\ Go(m, todo).at = "send" /\ Go(m, todo).todo = todo
                         /\ Go(m, todo).det = m.det /\ Go(m, todo).hour = m.hour
<1>1. CASE todo = {}
  BY <1>1, RestingIsMailer DEF Go
<1>2. CASE todo # {}
  <2>1. Go(m, todo) = [m EXCEPT !.at = "send", !.todo = todo]
    BY <1>2 DEF Go
  <2>2. /\ DOMAIN Go(m, todo) = {"at", "det", "hour", "todo"}
        /\ Go(m, todo).at = "send" /\ Go(m, todo).todo = todo
        /\ Go(m, todo).det = m.det /\ Go(m, todo).hour = m.hour
    BY <2>1 DEF Mailer
  <2> QED BY <1>2, <2>2 DEF Mailer
<1> QED BY <1>1, <1>2

\* A step of one process, and what it makes of it.
MailerStep(w) ==
  \/ \E d \in Raised : TakeAlert(w, d)
  \/ Claim(w) \/ Route(w) \/ FailAlert(w) \/ LoseNotifier(w)
  \/ \E answer \in NotifyAnswers : Post(w, answer)
  \/ \E ok \in BOOLEAN : StoreKey(w, ok)

Posting(w) == First(mailer[w].todo)

LEMMA MailerMoves ==
  ASSUME AlertTypes, NEW w \in Notifiers, MailerStep(w)
  PROVE  /\ DOMAIN mailer' = Notifiers /\ Mailer(mailer'[w])
         /\ \A v \in Notifiers \ {w} : mailer'[v] = mailer[v]
         /\ \A d \in Raised : TakeAlert(w, d) =>
              mailer[w].at = "idle" /\ mailer'[w].at = "claim"
         /\ Claim(w) =>
              \/ mailer'[w] = Resting /\ claimed' = claimed
              \/ /\ mailer'[w].at = "route" /\ mailer'[w].hour = hour
                 /\ mailer'[w].det = mailer[w].det
                 /\ <<SubjectOf[mailer[w].det], hour>> \notin claimed
                 /\ claimed' = claimed \cup {<<SubjectOf[mailer[w].det], hour>>}
         /\ Route(w) =>
              /\ mailer[w].at = "route"
              /\ \/ mailer'[w] = Resting
                 \/ /\ mailer'[w].at = "send" /\ mailer'[w].hour = mailer[w].hour
                    /\ mailer'[w].det = mailer[w].det
         /\ FailAlert(w) \/ LoseNotifier(w) => mailer'[w] = Resting
         /\ \A answer \in NotifyAnswers : Post(w, answer) =>
              /\ mailer[w].at = "send" /\ Posting(w) \in mailer[w].todo
              /\ \/ mailer'[w] = Resting
                 \/ /\ mailer'[w].hour = mailer[w].hour /\ mailer'[w].det = mailer[w].det
                    /\ \/ mailer'[w].at = "send" /\ mailer'[w].todo = Rest(mailer[w].todo)
                       \/ mailer'[w].at = "store" /\ mailer'[w].todo = mailer[w].todo
         /\ \A ok \in BOOLEAN : StoreKey(w, ok) =>
              /\ mailer[w].at = "store" /\ Posting(w) \in mailer[w].todo
              /\ \/ mailer'[w] = Resting
                 \/ /\ mailer'[w].hour = mailer[w].hour /\ mailer'[w].det = mailer[w].det
                    /\ mailer'[w].at = "send" /\ mailer'[w].todo = Rest(mailer[w].todo)
<1> DEFINE m == mailer[w]
<1>1. DOMAIN mailer = Notifiers /\ Mailer(m) /\ hour \in Hours /\ 0 \in Hours
  BY NotifyAssumption DEF AlertTypes, Hours
<1>2. /\ DOMAIN mailer' = Notifiers /\ \A v \in Notifiers \ {w} : mailer'[v] = mailer[v]
  BY <1>1 DEF MailerStep, TakeAlert, Claim, Route, FailAlert, LoseNotifier, Post, StoreKey
<1>3. ASSUME NEW d \in Raised, TakeAlert(w, d)
      PROVE  Mailer(mailer'[w]) /\ m.at = "idle" /\ mailer'[w].at = "claim"
  <2>1. mailer'[w] = [Resting EXCEPT !.at = "claim", !.det = d] /\ m.at = "idle"
    BY <1>1, <1>3 DEF TakeAlert
  <2>2. /\ DOMAIN mailer'[w] = {"at", "det", "hour", "todo"}
        /\ mailer'[w].at = "claim" /\ mailer'[w].det = d /\ mailer'[w].hour = 0
    BY <2>1, RestingIsMailer DEF Mailer
  <2> QED BY <1>1, <2>1, <2>2 DEF Mailer
<1>4. ASSUME Claim(w)
      PROVE  /\ Mailer(mailer'[w])
             /\ \/ mailer'[w] = Resting /\ claimed' = claimed
                \/ /\ mailer'[w].at = "route" /\ mailer'[w].hour = hour /\ mailer'[w].det = m.det
                   /\ <<SubjectOf[m.det], hour>> \notin claimed
                   /\ claimed' = claimed \cup {<<SubjectOf[m.det], hour>>}
  <2>1. \/ mailer'[w] = Resting /\ claimed' = claimed
        \/ /\ mailer' = [mailer EXCEPT ![w].at = "route", ![w].hour = hour]
           /\ <<SubjectOf[m.det], hour>> \notin claimed
           /\ claimed' = claimed \cup {<<SubjectOf[m.det], hour>>}
    BY <1>1, <1>4 DEF Claim, IsDuplicate
  <2>2. m.at = "claim"
    BY <1>4 DEF Claim
  <2>3. CASE mailer' = [mailer EXCEPT ![w].at = "route", ![w].hour = hour]
    <3>1. /\ DOMAIN mailer'[w] = DOMAIN m /\ mailer'[w].at = "route" /\ mailer'[w].hour = hour
          /\ mailer'[w].det = m.det
      BY <1>1, <2>3 DEF Mailer
    <3>2. Mailer(mailer'[w])
      BY <1>1, <2>2, <3>1 DEF Mailer
    <3>3. \/ mailer'[w] = Resting /\ claimed' = claimed
          \/ /\ <<SubjectOf[m.det], hour>> \notin claimed
             /\ claimed' = claimed \cup {<<SubjectOf[m.det], hour>>}
      BY <2>1
    <3> QED BY <3>1, <3>2, <3>3
  <2> QED BY <2>1, <2>3, RestingIsMailer
<1>5. ASSUME Route(w)
      PROVE  /\ Mailer(mailer'[w]) /\ m.at = "route"
             /\ \/ mailer'[w] = Resting
                \/ mailer'[w].at = "send" /\ mailer'[w].hour = m.hour /\ mailer'[w].det = m.det
  <2>1. mailer'[w] = Go(m, Routes(m.det)) /\ m.at = "route"
    BY <1>1, <1>5 DEF Route
  <2> QED BY <1>1, <2>1, GoesOn
<1>6. FailAlert(w) \/ LoseNotifier(w) => mailer'[w] = Resting
  BY <1>1 DEF FailAlert, LoseNotifier
<1>7. m.at \in {"send", "store"} => /\ Posting(w) \in m.todo /\ Rest(m.todo) \subseteq Routes(m.det)
                                    /\ m.det \in Raised
  <2>1. m.at \in {"send", "store"} => m.todo \in SUBSET Channels /\ m.todo # {} /\ m.det \in Raised
    BY <1>1, RoutesAreChannels DEF Mailer
  <2> QED BY <1>1, <2>1, FirstIsThere DEF Posting, Rest, Mailer
<1>8. ASSUME NEW answer \in NotifyAnswers, Post(w, answer)
      PROVE  /\ Mailer(mailer'[w]) /\ m.at = "send" /\ Posting(w) \in m.todo
             /\ \/ mailer'[w] = Resting
                \/ /\ mailer'[w].hour = m.hour /\ mailer'[w].det = m.det
                   /\ \/ mailer'[w].at = "send" /\ mailer'[w].todo = Rest(m.todo)
                      \/ mailer'[w].at = "store" /\ mailer'[w].todo = m.todo
  <2>1. m.at = "send"
    BY <1>8 DEF Post
  <2>2. mailer'[w] = Go(m, Rest(m.todo)) \/ mailer'[w] = [m EXCEPT !.at = "store"]
    BY <1>1, <1>8 DEF Post
  <2>3. CASE mailer'[w] = Go(m, Rest(m.todo))
    BY <1>1, <1>7, <2>1, <2>3, GoesOn
  <2>4. CASE mailer'[w] = [m EXCEPT !.at = "store"]
    <3>1. /\ DOMAIN mailer'[w] = DOMAIN m /\ mailer'[w].at = "store" /\ mailer'[w].hour = m.hour
          /\ mailer'[w].det = m.det /\ mailer'[w].todo = m.todo
      BY <1>1, <2>4 DEF Mailer
    <3>2. Mailer(mailer'[w])
      BY <1>1, <2>1, <3>1 DEF Mailer
    <3> QED BY <1>7, <2>1, <3>1, <3>2
  <2> QED BY <2>2, <2>3, <2>4
<1>9. ASSUME NEW ok \in BOOLEAN, StoreKey(w, ok)
      PROVE  /\ Mailer(mailer'[w]) /\ m.at = "store" /\ Posting(w) \in m.todo
             /\ \/ mailer'[w] = Resting
                \/ /\ mailer'[w].hour = m.hour /\ mailer'[w].det = m.det
                   /\ mailer'[w].at = "send" /\ mailer'[w].todo = Rest(m.todo)
  <2>1. m.at = "store" /\ mailer'[w] = Go(m, Rest(m.todo))
    BY <1>1, <1>9 DEF StoreKey
  <2> QED BY <1>1, <1>7, <2>1, GoesOn
<1>10. Mailer(mailer'[w])
  BY <1>3, <1>4, <1>5, <1>6, <1>8, <1>9, RestingIsMailer DEF MailerStep
<1> QED BY <1>2, <1>3, <1>4, <1>5, <1>6, <1>8, <1>9, <1>10

-----------------------------------------------------------------------------
(* Notify: one alert for a key and a channel *)

KeyOf(m) == <<SubjectOf[m.det], m.hour>>
Alerting(m) == m.at \in {"route", "send", "store"}

\* The channels that a process may still post to.
ToPost(m) == CASE m.at = "route" -> Channels [] m.at = "send" -> m.todo [] m.at = "store" -> Rest(m.todo)

\* The key of this hour stays claimed while an alert for it is posted, and after; so no
\* two processes have the same key, and what they have to post was not posted before.
AlertInv ==
  /\ toldTwice = {}
  /\ \A c \in Channels, k \in AlertKeys(Hours) :
       <<c, k>> \in told => k[2] <= hour /\ (k[2] = hour => k \in claimed)
  /\ \A w \in Notifiers : Alerting(mailer[w]) =>
       /\ mailer[w].hour <= hour
       /\ mailer[w].hour = hour => KeyOf(mailer[w]) \in claimed
       /\ \A c \in ToPost(mailer[w]) : <<c, KeyOf(mailer[w])>> \notin told
  /\ \A w, v \in Notifiers :
       Alerting(mailer[w]) /\ Alerting(mailer[v]) /\ w # v => KeyOf(mailer[w]) # KeyOf(mailer[v])

LEMMA AlertStarts == InitNotify => AlertTypes /\ AlertInv
<1> SUFFICES ASSUME InitNotify PROVE AlertTypes /\ AlertInv
  OBVIOUS
<1>1. hour = 0 /\ claimed = {} /\ told = {} /\ toldTwice = {} /\ 0 \in Hours
  BY NotifyAssumption DEF InitNotify, Hours
<1>2. DOMAIN mailer = Notifiers /\ \A w \in Notifiers : mailer[w] = Resting
  BY DEF InitNotify
<1>3. AlertTypes
  BY <1>1, <1>2, RestingIsMailer DEF AlertTypes
<1>4. AlertInv
  BY <1>1, <1>2, RestingIsMailer DEF AlertInv, Alerting
<1> QED BY <1>3, <1>4

LEMMA KeysOfMailers ==
  ASSUME AlertTypes, NEW w \in Notifiers, mailer[w].at # "idle"
  PROVE  /\ KeyOf(mailer[w]) \in AlertKeys(Hours) /\ Key(w) = KeyOf(mailer[w])
         /\ <<SubjectOf[mailer[w].det], hour>> \in AlertKeys(Hours)
<1>1. Mailer(mailer[w]) /\ hour \in Hours
  BY DEF AlertTypes
<1>2. SubjectOf[mailer[w].det] \in Range(SubjectOf)
  BY <1>1, NotifyAssumption DEF Mailer, Range
<1> QED BY <1>1, <1>2 DEF KeyOf, Key, AlertKeys, Mailer

\* A step that posts nothing and claims nothing, of a process that gives up or goes on.
LEMMA AlertRests ==
  ASSUME AlertTypes, AlertInv, NEW w \in Notifiers,
         \A v \in Notifiers \ {w} : mailer'[v] = mailer[v],
         UNCHANGED <<hour, claimed, told, toldTwice>>,
         Alerting(mailer'[w]) =>
           /\ Alerting(mailer[w]) /\ KeyOf(mailer'[w]) = KeyOf(mailer[w])
           /\ mailer'[w].hour = mailer[w].hour
           /\ ToPost(mailer'[w]) \subseteq ToPost(mailer[w])
  PROVE  AlertInv'
<1>1. ASSUME NEW v \in Notifiers, Alerting(mailer'[v])
      PROVE  /\ Alerting(mailer[v]) /\ KeyOf(mailer'[v]) = KeyOf(mailer[v])
             /\ mailer'[v].hour = mailer[v].hour
             /\ ToPost(mailer'[v]) \subseteq ToPost(mailer[v])
  <2>1. CASE v = w
    BY <1>1, <2>1
  <2>2. CASE v # w
    BY <1>1, <2>2
  <2> QED BY <2>1, <2>2
<1> QED BY <1>1 DEF AlertInv

LEMMA ClaimKeeps == ASSUME AlertTypes, AlertInv, NEW w \in Notifiers, Claim(w) PROVE AlertInv'
<1> DEFINE key == <<SubjectOf[mailer[w].det], hour>>
<1>1. /\ \A v \in Notifiers \ {w} : mailer'[v] = mailer[v]
      /\ UNCHANGED <<hour, told, toldTwice>> /\ mailer[w].at = "claim"
  BY MailerMoves DEF MailerStep, Claim
<1>2. CASE mailer'[w] = Resting /\ claimed' = claimed
  BY <1>1, <1>2, AlertRests, RestingIsMailer DEF Alerting
<1>3. CASE /\ mailer'[w].at = "route" /\ mailer'[w].hour = hour /\ mailer'[w].det = mailer[w].det
           /\ key \notin claimed /\ claimed' = claimed \cup {key}
  <2>1. KeyOf(mailer'[w]) = key /\ key \in AlertKeys(Hours) /\ key[2] = hour
    BY <1>1, <1>3, KeysOfMailers DEF KeyOf
  <2>2. ToPost(mailer'[w]) = Channels
    BY <1>3 DEF ToPost
  <2>3. \A c \in Channels : <<c, key>> \notin told
    BY <1>3, <2>1 DEF AlertInv
  <2>4. \A v \in Notifiers \ {w} : Alerting(mailer[v]) => KeyOf(mailer[v]) # key
    <3>1. \A v \in Notifiers : Alerting(mailer[v]) => KeyOf(mailer[v])[2] = mailer[v].hour
      BY DEF KeyOf
    <3> QED BY <1>3, <2>1, <3>1 DEF AlertInv
  <2> HIDE DEF key
  <2>5. /\ \A v \in Notifiers \ {w} : Alerting(mailer[v]) =>
             /\ mailer[v].hour <= hour
             /\ mailer[v].hour = hour => KeyOf(mailer[v]) \in claimed
             /\ \A c \in ToPost(mailer[v]) : <<c, KeyOf(mailer[v])>> \notin told
        /\ \A u, v \in Notifiers \ {w} :
             Alerting(mailer[u]) /\ Alerting(mailer[v]) /\ u # v => KeyOf(mailer[u]) # KeyOf(mailer[v])
        /\ \A c \in Channels, k \in AlertKeys(Hours) :
             <<c, k>> \in told => k[2] <= hour /\ (k[2] = hour => k \in claimed)
        /\ toldTwice = {} /\ hour \in Int
    BY NotifyAssumption DEF AlertInv, AlertTypes, Hours
  <2>6. /\ mailer'[w].hour <= hour' /\ KeyOf(mailer'[w]) \in claimed'
        /\ \A c \in ToPost(mailer'[w]) : <<c, KeyOf(mailer'[w])>> \notin told'
    BY <1>1, <1>3, <2>1, <2>2, <2>3, <2>5
  <2>7. \A v \in Notifiers : Alerting(mailer'[v]) =>
           /\ mailer'[v].hour <= hour'
           /\ mailer'[v].hour = hour' => KeyOf(mailer'[v]) \in claimed'
           /\ \A c \in ToPost(mailer'[v]) : <<c, KeyOf(mailer'[v])>> \notin told'
    <3> TAKE v \in Notifiers
    <3>1. CASE v = w
      BY <2>6, <3>1
    <3>2. CASE v # w
      <4>1. mailer'[v] = mailer[v]
        BY <1>1, <3>2
      <4> QED BY <1>1, <1>3, <2>5, <3>2, <4>1
    <3> QED BY <3>1, <3>2
  <2>8. \A u, v \in Notifiers : Alerting(mailer'[u]) /\ Alerting(mailer'[v]) /\ u # v =>
            KeyOf(mailer'[u]) # KeyOf(mailer'[v])
    <3> TAKE u, v \in Notifiers
    <3>1. CASE u # w /\ v # w
      BY <1>1, <2>5, <3>1
    <3>2. CASE u = w \/ v = w
      BY <1>1, <2>1, <2>4, <3>2
    <3> QED BY <3>1, <3>2
  <2> QED BY <1>1, <1>3, <2>5, <2>7, <2>8 DEF AlertInv
<1> QED BY <1>2, <1>3, MailerMoves DEF MailerStep

LEMMA PostKeepsAlerts ==
  ASSUME AlertTypes, AlertInv, NEW w \in Notifiers, NEW answer \in NotifyAnswers, Post(w, answer)
  PROVE  AlertInv'
<1> DEFINE key == KeyOf(mailer[w])
           c == Posting(w)
<1>1. /\ \A v \in Notifiers \ {w} : mailer'[v] = mailer[v]
      /\ UNCHANGED <<hour, claimed>> /\ mailer[w].at = "send" /\ c \in mailer[w].todo
      /\ \/ mailer'[w] = Resting
         \/ /\ mailer'[w].hour = mailer[w].hour /\ mailer'[w].det = mailer[w].det
            /\ \/ mailer'[w].at = "send" /\ mailer'[w].todo = Rest(mailer[w].todo)
               \/ mailer'[w].at = "store" /\ mailer'[w].todo = mailer[w].todo
  BY MailerMoves DEF MailerStep, Post
<1>2. key \in AlertKeys(Hours) /\ Key(w) = key /\ Alerting(mailer[w]) /\ ToPost(mailer[w]) = mailer[w].todo
  BY <1>1, KeysOfMailers DEF Alerting, ToPost
<1>3. /\ told' \subseteq told \cup {<<c, key>>} /\ toldTwice' = toldTwice /\ told \subseteq told'
  <2>1. <<c, key>> \notin told
    BY <1>1, <1>2 DEF AlertInv
  <2>2. /\ told' = IF answer = "refused" THEN told ELSE told \cup {<<c, key>>}
        /\ toldTwice' = IF <<c, key>> \in told /\ answer # "refused"
                        THEN toldTwice \cup {<<c, key>>} ELSE toldTwice
    BY <1>2 DEF Post, Posting
  <2> QED BY <2>1, <2>2
<1>4. Alerting(mailer'[w]) => /\ KeyOf(mailer'[w]) = key /\ mailer'[w].hour = mailer[w].hour
                            /\ ToPost(mailer'[w]) \subseteq mailer[w].todo \ {c}
  BY <1>1, RestingIsMailer DEF Alerting, KeyOf, ToPost, Rest, Posting
<1>5. /\ \A v \in Notifiers : Alerting(mailer[v]) =>
           /\ mailer[v].hour <= hour
           /\ mailer[v].hour = hour => KeyOf(mailer[v]) \in claimed
           /\ \A q \in ToPost(mailer[v]) : <<q, KeyOf(mailer[v])>> \notin told
      /\ \A v \in Notifiers \ {w} : Alerting(mailer[v]) => KeyOf(mailer[v]) # key
      /\ toldTwice = {}
  BY <1>2 DEF AlertInv
<1>6. key[2] = mailer[w].hour
  BY DEF KeyOf
<1> HIDE DEF key, c
<1>7. \A q \in Channels, k \in AlertKeys(Hours) :
        <<q, k>> \in told' => k[2] <= hour' /\ (k[2] = hour' => k \in claimed')
  <2> TAKE q \in Channels, k \in AlertKeys(Hours)
  <2>1. CASE k = key
    BY <1>1, <1>2, <1>5, <1>6, <2>1 DEF key
  <2>2. CASE k # key
    BY <1>1, <1>3, <2>2 DEF AlertInv
  <2> QED BY <2>1, <2>2
<1>8. \A v \in Notifiers : Alerting(mailer'[v]) =>
        /\ mailer'[v].hour <= hour'
        /\ mailer'[v].hour = hour' => KeyOf(mailer'[v]) \in claimed'
        /\ \A q \in ToPost(mailer'[v]) : <<q, KeyOf(mailer'[v])>> \notin told'
  <2> TAKE v \in Notifiers
  <2>1. CASE v = w
    BY <1>1, <1>2, <1>3, <1>4, <1>5, <2>1 DEF key
  <2>2. CASE v # w
    BY <1>1, <1>3, <1>5, <2>2
  <2> QED BY <2>1, <2>2
<1>9. \A u, v \in Notifiers :
        Alerting(mailer'[u]) /\ Alerting(mailer'[v]) /\ u # v => KeyOf(mailer'[u]) # KeyOf(mailer'[v])
  <2> TAKE u, v \in Notifiers
  <2>1. CASE u # w /\ v # w
    BY <1>1, <2>1 DEF AlertInv
  <2>2. CASE u = w \/ v = w
    BY <1>1, <1>4, <1>5, <2>2
  <2> QED BY <2>1, <2>2
<1> QED BY <1>3, <1>5, <1>7, <1>8, <1>9 DEF AlertInv

\* An hour passes, and keys of hours that have passed expire.
LEMMA HoursKeepAlerts ==
  ASSUME AlertTypes, AlertInv, NextHour \/ \E key \in claimed : Expire(key) PROVE AlertInv'
<1>1. UNCHANGED <<mailer, told, toldTwice>>
  BY DEF NextHour, Expire
<1>2. hour \in Int /\ hour' \in Int /\ \A w \in Notifiers : mailer[w].hour \in Int
  <2>1. hour \in Int /\ \A w \in Notifiers : mailer[w].hour \in Int
    BY NotifyAssumption DEF AlertTypes, Mailer, Hours
  <2> QED BY <2>1 DEF NextHour, Expire
<1>3. \A k \in AlertKeys(Hours) : k[2] \in Int
  BY NotifyAssumption DEF AlertKeys, Hours
<1>4. \A k : k \in claimed /\ k[2] = hour' => k \in claimed'
  <2>1. CASE NextHour
    BY <2>1 DEF NextHour
  <2>2. CASE \E key \in claimed : Expire(key)
    BY <1>2, <2>2 DEF Expire, MayExpire
  <2> QED BY <2>1, <2>2
<1>5. hour' = hour \/ hour' = hour + 1
  BY DEF NextHour, Expire
<1>6. \A w \in Notifiers : KeyOf(mailer[w])[2] = mailer[w].hour
  BY DEF KeyOf
<1>7. \A c \in Channels, k \in AlertKeys(Hours) :
        <<c, k>> \in told' => k[2] <= hour' /\ (k[2] = hour' => k \in claimed')
  BY <1>1, <1>2, <1>3, <1>4, <1>5 DEF AlertInv
<1>8. \A w \in Notifiers : Alerting(mailer[w]) =>
        mailer[w].hour <= hour' /\ (mailer[w].hour = hour' => KeyOf(mailer[w]) \in claimed')
  BY <1>2, <1>4, <1>5, <1>6 DEF AlertInv
<1> QED BY <1>1, <1>7, <1>8 DEF AlertInv

LEMMA AlertsKeep == ASSUME AlertTypes, AlertInv, [NextNotify]_notifyVars PROVE AlertInv'
<1>1. ASSUME NEW w \in Notifiers, MailerStep(w) PROVE AlertInv'
  <2>1. CASE Claim(w)
    BY <2>1, ClaimKeeps
  <2>2. CASE \E answer \in NotifyAnswers : Post(w, answer)
    BY <2>2, PostKeepsAlerts
  <2>3. CASE \/ \E d \in Raised : TakeAlert(w, d)
             \/ FailAlert(w) \/ LoseNotifier(w)
    <3>1. UNCHANGED <<hour, claimed, told, toldTwice>>
      BY <2>3 DEF TakeAlert, FailAlert, LoseNotifier
    <3>2. ~Alerting(mailer'[w]) /\ \A v \in Notifiers \ {w} : mailer'[v] = mailer[v]
      BY <1>1, <2>3, MailerMoves, RestingIsMailer DEF Alerting
    <3> QED BY <3>1, <3>2, AlertRests
  <2>4. CASE Route(w)
    <3>1. UNCHANGED <<hour, claimed, told, toldTwice>> /\ mailer[w].at = "route"
      BY <2>4 DEF Route, alertVars
    <3>2. /\ Mailer(mailer'[w]) /\ \A v \in Notifiers \ {w} : mailer'[v] = mailer[v]
          /\ \/ mailer'[w] = Resting
             \/ mailer'[w].at = "send" /\ mailer'[w].hour = mailer[w].hour
                /\ mailer'[w].det = mailer[w].det
      BY <1>1, <2>4, MailerMoves
    <3>3. Alerting(mailer'[w]) =>
            /\ Alerting(mailer[w]) /\ KeyOf(mailer'[w]) = KeyOf(mailer[w])
            /\ mailer'[w].hour = mailer[w].hour
            /\ ToPost(mailer'[w]) \subseteq ToPost(mailer[w])
      BY <3>1, <3>2, RestingIsMailer, RoutesAreChannels DEF Alerting, KeyOf, ToPost, Mailer
    <3> QED BY <3>1, <3>2, <3>3, AlertRests
  <2>5. CASE \E ok \in BOOLEAN : StoreKey(w, ok)
    <3>1. UNCHANGED <<hour, claimed, told, toldTwice>> /\ mailer[w].at = "store"
      BY <2>5 DEF StoreKey, alertVars
    <3>2. /\ \A v \in Notifiers \ {w} : mailer'[v] = mailer[v]
          /\ \/ mailer'[w] = Resting
             \/ /\ mailer'[w].hour = mailer[w].hour /\ mailer'[w].det = mailer[w].det
                /\ mailer'[w].at = "send" /\ mailer'[w].todo = Rest(mailer[w].todo)
      BY <1>1, <2>5, MailerMoves
    <3>3. Alerting(mailer'[w]) =>
            /\ Alerting(mailer[w]) /\ KeyOf(mailer'[w]) = KeyOf(mailer[w])
            /\ mailer'[w].hour = mailer[w].hour
            /\ ToPost(mailer'[w]) \subseteq ToPost(mailer[w])
      BY <3>1, <3>2, RestingIsMailer DEF Alerting, KeyOf, ToPost
    <3> QED BY <3>1, <3>2, <3>3, AlertRests
  <2> QED BY <1>1, <2>1, <2>2, <2>3, <2>4, <2>5 DEF MailerStep
<1>2. CASE NextHour \/ \E key \in claimed : Expire(key)
  BY <1>2, HoursKeepAlerts
<1>3. ASSUME UNCHANGED <<alertVars, mailer>> PROVE AlertInv'
  BY <1>3 DEF alertVars, AlertInv
<1>4. CASE UNCHANGED notifyVars
  BY <1>3, <1>4 DEF notifyVars, alertVars
<1>5. ASSUME NEW a \in Responders,
             \/ \E d \in Raised : BeginClose(a, d)
             \/ GetKey(a) \/ DeleteKey(a)
             \/ \E answer \in NotifyAnswers : PostResolve(a, answer)
             \/ \E ok \in BOOLEAN : CommitClose(a, ok)
      PROVE  AlertInv'
  BY <1>3, <1>5 DEF BeginClose, GetKey, DeleteKey, PostResolve, CommitClose
<1>6. CASE \E d \in Raised : Reopen(d) \/ PipelineCloses(d)
  BY <1>3, <1>6 DEF Reopen, PipelineCloses
<1> QED BY <1>1, <1>2, <1>4, <1>5, <1>6 DEF NextNotify, MailerStep

LEMMA AlertTypesKeep == ASSUME AlertTypes, [NextNotify]_notifyVars PROVE AlertTypes'
<1>1. /\ hour \in Hours /\ claimed \subseteq AlertKeys(Hours) /\ told \subseteq Channels \X AlertKeys(Hours)
      /\ toldTwice \subseteq told
  BY DEF AlertTypes
<1>2. ASSUME NEW w \in Notifiers, MailerStep(w) PROVE AlertTypes'
  <2>1. DOMAIN mailer' = Notifiers /\ \A v \in Notifiers : Mailer(mailer'[v])
    BY <1>2, MailerMoves DEF AlertTypes
  <2>2. hour' = hour
    BY <1>2 DEF MailerStep, TakeAlert, Claim, Route, FailAlert, LoseNotifier, Post, StoreKey, alertVars
  <2>3. claimed' \subseteq AlertKeys(Hours)
    <3>1. CASE Claim(w)
      <4>1. <<SubjectOf[mailer[w].det], hour>> \in AlertKeys(Hours)
        BY <3>1, KeysOfMailers DEF Claim
      <4> QED BY <1>1, <1>2, <3>1, <4>1, MailerMoves
    <3>2. CASE ~Claim(w)
      BY <1>1, <1>2, <3>2
        DEF MailerStep, TakeAlert, Route, FailAlert, LoseNotifier, Post, StoreKey, alertVars
    <3> QED BY <3>1, <3>2
  <2>4. told' \subseteq Channels \X AlertKeys(Hours) /\ toldTwice' \subseteq told'
    <3>1. ASSUME NEW answer \in NotifyAnswers, Post(w, answer)
          PROVE  told' \subseteq Channels \X AlertKeys(Hours) /\ toldTwice' \subseteq told'
      <4>1. Key(w) \in AlertKeys(Hours)
        BY <3>1, KeysOfMailers DEF Post
      <4>2. First(mailer[w].todo) \in Channels
        BY <1>2, <3>1, MailerMoves, RoutesAreChannels DEF Posting, AlertTypes, Mailer
      <4> DEFINE new == <<First(mailer[w].todo), Key(w)>>
      <4>3. new \in Channels \X AlertKeys(Hours)
        BY <4>1, <4>2
      <4>4. /\ told' = IF answer = "refused" THEN told ELSE told \cup {new}
            /\ toldTwice' = IF new \in told /\ answer # "refused"
                            THEN toldTwice \cup {new} ELSE toldTwice
        BY <3>1 DEF Post
      <4> HIDE DEF new
      <4> QED BY <1>1, <4>3, <4>4
    <3>2. CASE ~\E answer \in NotifyAnswers : Post(w, answer)
      BY <1>1, <1>2, <3>2
        DEF MailerStep, TakeAlert, Claim, Route, FailAlert, LoseNotifier, StoreKey, alertVars
    <3> QED BY <3>1, <3>2
  <2> QED BY <1>1, <2>1, <2>2, <2>3, <2>4 DEF AlertTypes
<1>3. CASE NextHour \/ \E key \in claimed : Expire(key)
  <2>1. UNCHANGED <<mailer, told, toldTwice>> /\ claimed' \subseteq claimed
    BY <1>3 DEF NextHour, Expire
  <2>2. hour' \in Hours
    BY <1>1, <1>3, NotifyAssumption DEF NextHour, Expire, Hours
  <2> QED BY <1>1, <2>1, <2>2 DEF AlertTypes
<1>4. ASSUME UNCHANGED <<alertVars, mailer>> PROVE AlertTypes'
  BY <1>4 DEF alertVars, AlertTypes
<1>5. CASE UNCHANGED notifyVars
  BY <1>4, <1>5 DEF notifyVars, alertVars
<1>6. ASSUME NEW a \in Responders,
             \/ \E d \in Raised : BeginClose(a, d)
             \/ GetKey(a) \/ DeleteKey(a)
             \/ \E answer \in NotifyAnswers : PostResolve(a, answer)
             \/ \E ok \in BOOLEAN : CommitClose(a, ok)
      PROVE  AlertTypes'
  BY <1>4, <1>6 DEF BeginClose, GetKey, DeleteKey, PostResolve, CommitClose
<1>7. CASE \E d \in Raised : Reopen(d) \/ PipelineCloses(d)
  BY <1>4, <1>7 DEF Reopen, PipelineCloses
<1> QED BY <1>2, <1>3, <1>5, <1>6, <1>7 DEF NextNotify, MailerStep

\* _is_duplicate: however tasks are retried and delivered again, and wherever the clock
\* and the expiry of a key fall, a channel gets one alert of a key in its hour.
THEOREM OneAlertPerKey == SpecNotify => []AtMostOneAlert
<1>1. AlertInv => AtMostOneAlert
  BY DEF AlertInv, AtMostOneAlert
<1>2. AlertTypes /\ AlertInv /\ [NextNotify]_notifyVars => AlertTypes' /\ AlertInv'
  BY AlertTypesKeep, AlertsKeep
<1> QED BY <1>1, <1>2, AlertStarts, PTL DEF SpecNotify
-----------------------------------------------------------------------------
(* Notify: why an incident stays open, and where its key is *)

\* Its incident is opened by a configuration, not by the channel of the settings.
Legacy(d) == \E c \in Matched(d) : TypeOf[c] = "pagerduty"

Resolver(r) ==
  /\ DOMAIN r = {"at", "det", "key"}
  /\ r.at \in {"idle", "get", "post", "delete", "commit"}
  /\ r.at # "idle" => r.det \in Raised
  /\ r.at = "post" => r.key = IF Legacy(r.det) THEN "routing" ELSE "dedup"

IncidentTypes ==
  /\ state \in [Raised -> {"open", "resolved"}]
  /\ incident \in [Raised -> {"none", "triggered", "resolved"}]
  /\ pdKey \in [Raised -> {"none", "dedup", "routing"}] /\ DOMAIN excuse = Raised
  /\ \A d \in Raised : pdKey[d] \in {"none", IF Legacy(d) THEN "routing" ELSE "dedup"}
  /\ DOMAIN resolver = Responders /\ \A a \in Responders : Resolver(resolver[a])
  /\ \A w \in Notifiers : mailer[w].at = "store" => OpensIncident(Posting(w))

Storing(d) == \E w \in Notifiers : mailer[w].at = "store" /\ mailer[w].det = d
Asking(a, d, steps) == resolver[a].det = d /\ resolver[a].at \in steps

\* The incident of d is open for a reason once a request about d has done its part; and
\* it has its key, has it on the way, or there is a reason for that too.
OpenFor(d) ==
  /\ Legacy(d) => "legacy" \in excuse[d]
  /\ state[d] = "resolved" \/ (\E a \in Responders : Asking(a, d, {"delete", "commit"}))
       => excuse[d] # {}
  /\ pdKey[d] # "none" \/ Storing(d) \/ excuse[d] \cap {"late", "unstored", "legacy"} # {}
  /\ (\E a \in Responders : Asking(a, d, {"delete"})) =>
       excuse[d] \cap {"late", "legacy"} # {}

IncidentInv == \A d \in Raised : incident[d] = "triggered" => OpenFor(d)

\* Which channel opens the incident is a matter of the routing.
LEMMA WhoOpens ==
  ASSUME NEW d \in Raised, NEW c \in Routes(d), OpensIncident(c)
  PROVE  c = "pagerduty" <=> ~Legacy(d)
<1>1. "pagerduty" \notin Configs
  <2>1. GlobalOrder[2] = "pagerduty" /\ 2 \in DOMAIN GlobalOrder
    BY DEF GlobalOrder
  <2>2. "pagerduty" \in Range(GlobalOrder)
    BY <2>1 DEF Range
  <2> QED BY <2>2, NotifyAssumption
<1>2. Matched(d) \subseteq Configs
  BY NotifyAssumption DEF Matched, Configured
<1>3. CASE c = "pagerduty"
  BY <1>1, <1>2, <1>3 DEF Routes, Legacy
<1>4. CASE c # "pagerduty"
  <2>1. c \notin Globals /\ TypeOf[c] = "pagerduty"
    BY <1>4 DEF OpensIncident
  <2>2. c \in Matched(d)
    BY <2>1 DEF Routes
  <2> QED BY <1>4, <2>1, <2>2 DEF Legacy
<1> QED BY <1>3, <1>4

LEMMA UnaskedIsResolver == Resolver(Unasked) /\ Unasked.at = "idle"
<1>1. DOMAIN Unasked = {"at", "det", "key"} /\ Unasked.at = "idle"
  BY DEF Unasked
<1> QED BY <1>1 DEF Resolver

\* A step that leaves the incident of d alone leaves its reasons alone.
LEMMA OpenStays ==
  ASSUME IncidentInv, NEW d \in Raised, incident'[d] = "triggered" => incident[d] = "triggered",
         excuse[d] \subseteq excuse'[d],
         pdKey[d] # "none" \/ Storing(d) =>
           pdKey'[d] # "none" \/ Storing(d)' \/ excuse'[d] \cap {"late", "unstored", "legacy"} # {},
         state'[d] = "resolved" => state[d] = "resolved" \/ excuse'[d] # {},
         \A a \in Responders : Asking(a, d, {"delete"})' =>
           Asking(a, d, {"delete"}) \/ excuse'[d] \cap {"late", "legacy"} # {},
         \A a \in Responders : Asking(a, d, {"commit"})' =>
           Asking(a, d, {"delete", "commit"}) \/ excuse'[d] # {}
  PROVE  incident'[d] = "triggered" => OpenFor(d)'
<1> SUFFICES ASSUME incident'[d] = "triggered" PROVE OpenFor(d)'
  OBVIOUS
<1>1. OpenFor(d)
  BY DEF IncidentInv
<1>2. \A a \in Responders : Asking(a, d, {"delete", "commit"})' =>
        Asking(a, d, {"delete", "commit"}) \/ excuse'[d] # {}
  BY DEF Asking
<1>3. state'[d] = "resolved" \/ (\E a \in Responders : Asking(a, d, {"delete", "commit"})')
        => excuse'[d] # {}
  BY <1>1, <1>2 DEF OpenFor
<1>4. pdKey'[d] # "none" \/ Storing(d)' \/ excuse'[d] \cap {"late", "unstored", "legacy"} # {}
  BY <1>1 DEF OpenFor
<1>5. (\E a \in Responders : Asking(a, d, {"delete"})') => excuse'[d] \cap {"late", "legacy"} # {}
  BY <1>1 DEF OpenFor
<1>6. Legacy(d)' => "legacy" \in excuse'[d]
  BY <1>1 DEF OpenFor
<1> QED BY <1>3, <1>4, <1>5, <1>6 DEF OpenFor

\* Steps of a process that has no incident in hand.
LEMMA IdleMailersKeepIncidents ==
  ASSUME AlertTypes, IncidentTypes, IncidentInv, NEW w \in Notifiers,
         (\E d \in Raised : TakeAlert(w, d)) \/ Claim(w) \/ Route(w) \/ FailAlert(w)
  PROVE  IncidentTypes' /\ IncidentInv'
<1>1. UNCHANGED incidentVars
  BY DEF TakeAlert, Claim, Route, FailAlert
<1>2. /\ mailer[w].at # "store" /\ mailer'[w].at # "store"
      /\ \A v \in Notifiers \ {w} : mailer'[v] = mailer[v]
  <2>1. mailer[w].at # "store"
    BY DEF TakeAlert, Claim, Route, FailAlert
  <2> QED BY <2>1, MailerMoves, RestingIsMailer DEF MailerStep
<1>3. \A d \in Raised : Storing(d) => Storing(d)'
  BY <1>2 DEF Storing
<1>4. IncidentTypes'
  BY <1>1, <1>2 DEF IncidentTypes, incidentVars, Posting
<1>5. \A d \in Raised : incident'[d] = "triggered" => OpenFor(d)'
  BY <1>1, <1>3, OpenStays DEF incidentVars, Asking
<1> QED BY <1>4, <1>5 DEF IncidentInv

LEMMA LostMailersKeepIncidents ==
  ASSUME AlertTypes, IncidentTypes, IncidentInv, NEW w \in Notifiers, LoseNotifier(w)
  PROVE  IncidentTypes' /\ IncidentInv'
<1> DEFINE m == mailer[w]
<1>1. /\ UNCHANGED <<state, incident, pdKey, resolver, closes>> /\ m.at # "idle"
      /\ excuse' = IF m.at = "store" THEN [excuse EXCEPT ![m.det] = @ \cup {"unstored"}] ELSE excuse
  BY DEF LoseNotifier
<1>2. mailer'[w].at # "store" /\ \A v \in Notifiers \ {w} : mailer'[v] = mailer[v]
  BY MailerMoves, RestingIsMailer DEF MailerStep
<1>3. m.det \in Raised /\ DOMAIN excuse = Raised
  BY <1>1 DEF AlertTypes, Mailer, IncidentTypes
<1>4. /\ DOMAIN excuse' = Raised
      /\ \A d \in Raised : excuse[d] \subseteq excuse'[d]
      /\ m.at = "store" => "unstored" \in excuse'[m.det]
  BY <1>1, <1>3
<1>5. \A d \in Raised : Storing(d) => Storing(d)' \/ "unstored" \in excuse'[d]
  BY <1>2, <1>4 DEF Storing
<1>6. IncidentTypes'
  BY <1>1, <1>2, <1>4 DEF IncidentTypes, Posting
<1>7. \A d \in Raised : incident'[d] = "triggered" => OpenFor(d)'
  <2> TAKE d \in Raised
  <2>1. "unstored" \in excuse'[d] => excuse'[d] \cap {"late", "unstored", "legacy"} # {}
    OBVIOUS
  <2> QED BY <1>1, <1>4, <1>5, <2>1, OpenStays DEF Asking
<1> QED BY <1>6, <1>7 DEF IncidentInv

\* An incident opened behind a request is marked "late", one whose key cannot be stored
\* "unstored".
LEMMA PostKeepsIncidents ==
  ASSUME AlertTypes, IncidentTypes, IncidentInv, NEW w \in Notifiers,
         NEW answer \in NotifyAnswers, Post(w, answer)
  PROVE  IncidentTypes' /\ IncidentInv'
<1> DEFINE m == mailer[w]
           c == Posting(w)
           triggers == OpensIncident(c) /\ answer # "refused"
           asked == state[m.det] = "resolved" \/ \E a \in Responders :
                      resolver[a].det = m.det /\ resolver[a].at # "get"
           reasons == (IF asked THEN {"late"} ELSE {})
                      \cup (IF answer # "ok" THEN {"unstored"} ELSE {})
                      \cup (IF c # "pagerduty" THEN {"legacy"} ELSE {})
<1>1. /\ UNCHANGED <<state, pdKey, resolver, closes>> /\ m.at = "send"
      /\ incident' = IF triggers THEN [incident EXCEPT ![m.det] = "triggered"] ELSE incident
      /\ mailer' = [mailer EXCEPT ![w] = IF OpensIncident(c) /\ answer = "ok"
                      THEN [m EXCEPT !.at = "store"] ELSE Go(m, Rest(m.todo))]
  BY DEF Post, Posting
<1>2. excuse' = IF ~triggers THEN excuse
                ELSE [excuse EXCEPT ![m.det] = @ \cup reasons]
  BY DEF Post, Posting
<1>3. /\ c \in m.todo /\ c \in Routes(m.det) /\ m.det \in Raised
      /\ \A v \in Notifiers \ {w} : mailer'[v] = mailer[v]
      /\ DOMAIN mailer = Notifiers /\ Mailer(m)
  BY MailerMoves DEF MailerStep, AlertTypes, Mailer
<1>4. /\ mailer'[w].at = "store" <=> OpensIncident(c) /\ answer = "ok"
      /\ mailer'[w].at = "store" => mailer'[w].det = m.det /\ mailer'[w].todo = m.todo
  <2>1. CASE OpensIncident(c) /\ answer = "ok"
    <3>1. mailer'[w] = [m EXCEPT !.at = "store"]
      BY <1>1, <1>3, <2>1
    <3> QED BY <1>3, <2>1, <3>1 DEF Mailer
  <2>2. CASE ~(OpensIncident(c) /\ answer = "ok")
    <3>1. mailer'[w] = Go(m, Rest(m.todo))
      BY <1>1, <1>3, <2>2
    <3>2. Rest(m.todo) \subseteq Routes(m.det)
      BY <1>1, <1>3 DEF Mailer, Rest
    <3>3. mailer'[w].at # "store"
      <4>1. m.at # "idle"
        BY <1>1
      <4>2. Mailer(Go(m, Rest(m.todo))) /\ (Go(m, Rest(m.todo)) = Resting \/ Go(m, Rest(m.todo)).at = "send")
        BY <1>3, <3>2, <4>1, GoesOn
      <4> QED BY <3>1, <4>2, RestingIsMailer
    <3> QED BY <2>2, <3>3
  <2> QED BY <2>1, <2>2
<1> HIDE DEF reasons
<1>5. /\ DOMAIN incident = Raised /\ DOMAIN excuse = Raised
      /\ incident \in [Raised -> {"none", "triggered", "resolved"}]
  BY DEF IncidentTypes
<1>6. /\ incident' \in [Raised -> {"none", "triggered", "resolved"}] /\ DOMAIN excuse' = Raised
      /\ \A d \in Raised : excuse[d] \subseteq excuse'[d]
      /\ triggers => excuse'[m.det] = excuse[m.det] \cup reasons
      /\ \A d \in Raised : ~triggers \/ d # m.det => incident'[d] = incident[d]
  <2> HIDE DEF triggers
  <2> QED BY <1>1, <1>2, <1>3, <1>5
<1>7. \A d \in Raised : Storing(d) => Storing(d)'
  BY <1>1, <1>3 DEF Storing
<1>8. IncidentTypes'
  <2>1. mailer'[w].at = "store" => OpensIncident(Posting(w)')
    BY <1>4 DEF Posting, IncidentTypes
  <2>2. \A v \in Notifiers : mailer'[v].at = "store" => OpensIncident(Posting(v))'
    BY <1>3, <2>1 DEF IncidentTypes, Posting, OpensIncident
  <2> QED BY <1>1, <1>6, <2>2 DEF IncidentTypes
<1>9. ASSUME NEW d \in Raised, ~triggers \/ d # m.det
      PROVE  incident'[d] = "triggered" => OpenFor(d)'
  BY <1>1, <1>6, <1>7, <1>9, OpenStays DEF Asking
<1>10. ASSUME NEW d \in Raised, d = m.det, triggers PROVE OpenFor(d)'
  <2>1. Legacy(d) => "legacy" \in reasons
    BY <1>3, <1>10, WhoOpens DEF reasons
  <2>2. state[d] = "resolved" \/ (\E a \in Responders : Asking(a, d, {"delete", "commit"}))
          => "late" \in reasons
    BY <1>10 DEF Asking, reasons
  <2>3. (\E a \in Responders : Asking(a, d, {"delete"})) => "late" \in reasons
    BY <1>10 DEF Asking, reasons
  <2>4. answer # "ok" => "unstored" \in reasons
    BY DEF reasons
  <2>5. answer = "ok" => mailer'[w].at = "store" /\ mailer'[w].det = d
    BY <1>4, <1>10
  <2>6. reasons \subseteq excuse'[d]
    BY <1>6, <1>10
  <2>7. Legacy(d)' => "legacy" \in excuse'[d]
    BY <2>1, <2>6
  <2>8. state'[d] = "resolved" \/ (\E a \in Responders : Asking(a, d, {"delete", "commit"})')
          => excuse'[d] # {}
    BY <1>1, <2>2, <2>6 DEF Asking
  <2>9. pdKey'[d] # "none" \/ Storing(d)' \/ excuse'[d] \cap {"late", "unstored", "legacy"} # {}
    BY <2>4, <2>5, <2>6 DEF Storing
  <2>10. (\E a \in Responders : Asking(a, d, {"delete"})') => excuse'[d] \cap {"late", "legacy"} # {}
    BY <1>1, <2>3, <2>6 DEF Asking
  <2> QED BY <2>7, <2>8, <2>9, <2>10 DEF OpenFor
<1>11. \A d \in Raised : incident'[d] = "triggered" => OpenFor(d)'
  <2> TAKE d \in Raised
  <2>1. CASE ~triggers \/ d # m.det
    BY <1>9, <2>1
  <2>2. CASE triggers /\ d = m.det
    BY <1>10, <2>2
  <2> QED BY <2>1, <2>2
<1> QED BY <1>8, <1>11 DEF IncidentInv

LEMMA StoreKeepsIncidents ==
  ASSUME AlertTypes, IncidentTypes, IncidentInv, NEW w \in Notifiers,
         NEW ok \in BOOLEAN, StoreKey(w, ok)
  PROVE  IncidentTypes' /\ IncidentInv'
<1> DEFINE m == mailer[w]
           c == Posting(w)
<1>1. /\ UNCHANGED <<state, incident, resolver, closes>> /\ m.at = "store"
      /\ ok => UNCHANGED excuse /\ pdKey' = [pdKey EXCEPT ![m.det] = StoredKey(c)]
      /\ ~ok => excuse' = [excuse EXCEPT ![m.det] = @ \cup {"unstored"}] /\ UNCHANGED pdKey
  BY DEF StoreKey, Posting
<1>2. /\ mailer'[w].at # "store" /\ \A v \in Notifiers \ {w} : mailer'[v] = mailer[v]
      /\ c \in Routes(m.det) /\ m.det \in Raised
  <2>1. mailer'[w].at # "store" /\ \A v \in Notifiers \ {w} : mailer'[v] = mailer[v]
    BY MailerMoves, RestingIsMailer DEF MailerStep
  <2>2. c \in Routes(m.det) /\ m.det \in Raised
    BY MailerMoves DEF MailerStep, AlertTypes, Mailer
  <2> QED BY <2>1, <2>2
<1>3. StoredKey(c) = IF Legacy(m.det) THEN "routing" ELSE "dedup"
  BY <1>1, <1>2, WhoOpens DEF IncidentTypes, StoredKey
<1>4. /\ pdKey' \in [Raised -> {"none", "dedup", "routing"}] /\ DOMAIN excuse' = Raised
      /\ \A d \in Raised : pdKey'[d] = pdKey[d] \/ (d = m.det /\ pdKey'[d] = StoredKey(c))
      /\ \A d \in Raised : excuse[d] \subseteq excuse'[d]
      /\ ok => pdKey'[m.det] = StoredKey(c)
      /\ ~ok => "unstored" \in excuse'[m.det]
  <2>1. /\ pdKey \in [Raised -> {"none", "dedup", "routing"}] /\ DOMAIN excuse = Raised
        /\ StoredKey(c) \in {"none", "dedup", "routing"}
    BY DEF IncidentTypes, StoredKey
  <2> HIDE DEF c
  <2>2. CASE ok
    BY <1>1, <1>2, <2>1, <2>2
  <2>3. CASE ~ok
    BY <1>1, <1>2, <2>1, <2>3
  <2> QED BY <2>2, <2>3
<1>5. IncidentTypes'
  <2>1. \A d \in Raised : pdKey'[d] \in {"none", IF Legacy(d) THEN "routing" ELSE "dedup"}
    BY <1>3, <1>4 DEF IncidentTypes
  <2> QED BY <1>1, <1>2, <1>4, <2>1 DEF IncidentTypes, Posting
<1>6. \A d \in Raised : incident'[d] = "triggered" => OpenFor(d)'
  <2> TAKE d \in Raised
  <2>1. Storing(d) => Storing(d)' \/ d = m.det
    BY <1>2 DEF Storing
  <2>2. d = m.det => pdKey'[d] # "none" \/ excuse'[d] \cap {"late", "unstored", "legacy"} # {}
    BY <1>3, <1>4
  <2>3. pdKey[d] # "none" => pdKey'[d] # "none"
    BY <1>3, <1>4
  <2> QED BY <1>1, <1>4, <2>1, <2>2, <2>3, OpenStays DEF Asking
<1> QED BY <1>5, <1>6 DEF IncidentInv

\* A step of a request about a detection, and what it makes of the request.
ResolverStep(a) ==
  \/ \E d \in Raised : BeginClose(a, d)
  \/ GetKey(a) \/ DeleteKey(a)
  \/ \E answer \in NotifyAnswers : PostResolve(a, answer)
  \/ \E ok \in BOOLEAN : CommitClose(a, ok)

LEMMA ResolverMoves ==
  ASSUME IncidentTypes, NEW a \in Responders, ResolverStep(a)
  PROVE  /\ DOMAIN resolver' = Responders /\ \A b \in Responders : Resolver(resolver'[b])
         /\ \A b \in Responders \ {a} : resolver'[b] = resolver[b]
         /\ UNCHANGED mailer
         /\ resolver[a].at # "idle" => resolver[a].det \in Raised
         /\ resolver'[a].at # "idle" /\ resolver[a].at # "idle" => resolver'[a].det = resolver[a].det
<1> DEFINE r == resolver[a]
<1>1. DOMAIN resolver = Responders /\ Resolver(r) /\ \A b \in Responders : Resolver(resolver[b])
  BY DEF IncidentTypes
<1>2. /\ DOMAIN resolver' = Responders /\ \A b \in Responders \ {a} : resolver'[b] = resolver[b]
      /\ UNCHANGED mailer
  BY <1>1 DEF ResolverStep, BeginClose, GetKey, DeleteKey, PostResolve, CommitClose
<1>3. ASSUME NEW d \in Raised, BeginClose(a, d) PROVE Resolver(resolver'[a]) /\ r.at = "idle"
  <2>1. resolver'[a] = [Unasked EXCEPT !.at = "get", !.det = d] /\ r.at = "idle"
    BY <1>1, <1>3 DEF BeginClose
  <2>2. /\ DOMAIN resolver'[a] = {"at", "det", "key"}
        /\ resolver'[a].at = "get" /\ resolver'[a].det = d
    BY <2>1, UnaskedIsResolver DEF Resolver
  <2> QED BY <2>1, <2>2 DEF Resolver
<1>4. ASSUME GetKey(a) PROVE Resolver(resolver'[a]) /\ resolver'[a].det = r.det
  <2>1. r.at = "get" /\ r.det \in Raised
    BY <1>1, <1>4 DEF GetKey, Resolver
  <2>2. resolver'[a] = [r EXCEPT !.key = pdKey[r.det],
                                 !.at = IF pdKey[r.det] = "none" THEN "commit" ELSE "post"]
    BY <1>1, <1>4 DEF GetKey
  <2>3. pdKey[r.det] \in {"none", IF Legacy(r.det) THEN "routing" ELSE "dedup"}
    BY <2>1 DEF IncidentTypes
  <2>4. /\ DOMAIN resolver'[a] = {"at", "det", "key"} /\ resolver'[a].det = r.det
        /\ resolver'[a].key = pdKey[r.det]
        /\ resolver'[a].at = IF pdKey[r.det] = "none" THEN "commit" ELSE "post"
    BY <1>1, <2>2 DEF Resolver
  <2> QED BY <2>1, <2>3, <2>4 DEF Resolver
<1>5. ASSUME DeleteKey(a) \/ \E answer \in NotifyAnswers : PostResolve(a, answer)
      PROVE  Resolver(resolver'[a]) /\ resolver'[a].det = r.det
  <2>1. PICK next \in {"commit", "delete"} : resolver'[a] = [r EXCEPT !.at = next]
    BY <1>1, <1>5 DEF DeleteKey, PostResolve
  <2>2. r.at # "idle"
    BY <1>5 DEF DeleteKey, PostResolve
  <2>3. /\ DOMAIN resolver'[a] = {"at", "det", "key"} /\ resolver'[a].det = r.det
        /\ resolver'[a].at = next
    BY <1>1, <2>1 DEF Resolver
  <2> QED BY <1>1, <2>2, <2>3 DEF Resolver
<1>6. ASSUME NEW ok \in BOOLEAN, CommitClose(a, ok) PROVE resolver'[a] = Unasked
  BY <1>1, <1>6 DEF CommitClose
<1>7. r.at # "idle" => r.det \in Raised
  BY <1>1 DEF Resolver
<1>8. Resolver(resolver'[a])
  BY <1>3, <1>4, <1>5, <1>6, UnaskedIsResolver DEF ResolverStep
<1>9. resolver'[a].at # "idle" /\ r.at # "idle" => resolver'[a].det = r.det
  BY <1>3, <1>4, <1>5, <1>6, UnaskedIsResolver DEF ResolverStep
<1> QED BY <1>1, <1>2, <1>7, <1>8, <1>9

\* A request that finds no key goes on to commit: nothing was opened, or "late" says why.
LEMMA GetKeepsIncidents ==
  ASSUME IncidentTypes, IncidentInv, NEW a \in Responders, GetKey(a)
  PROVE  IncidentTypes' /\ IncidentInv'
<1> DEFINE r == resolver[a]
           behind == pdKey[r.det] = "none" /\ Storing(r.det)
<1>1. /\ UNCHANGED <<mailer, state, incident, pdKey>> /\ r.at = "get"
      /\ resolver' = [resolver EXCEPT ![a].key = pdKey[r.det],
                        ![a].at = IF pdKey[r.det] = "none" THEN "commit" ELSE "post"]
      /\ excuse' = IF behind THEN [excuse EXCEPT ![r.det] = @ \cup {"late"}] ELSE excuse
  BY DEF GetKey, LookedUp, alertVars, Storing
<1>2. /\ DOMAIN resolver' = Responders /\ \A b \in Responders : Resolver(resolver'[b])
      /\ \A b \in Responders \ {a} : resolver'[b] = resolver[b]
      /\ r.det \in Raised
  BY <1>1, ResolverMoves DEF ResolverStep
<1>3. /\ DOMAIN excuse' = Raised /\ \A d \in Raised : excuse[d] \subseteq excuse'[d]
      /\ behind => "late" \in excuse'[r.det]
  <2> HIDE DEF behind
  <2> QED BY <1>1, <1>2 DEF IncidentTypes
<1>4. IncidentTypes'
  BY <1>1, <1>2, <1>3 DEF IncidentTypes, Posting
<1>5. ASSUME NEW d \in Raised, incident'[d] = "triggered" PROVE OpenFor(d)'
  <2>1. incident[d] = "triggered" /\ OpenFor(d)
    BY <1>1, <1>5 DEF IncidentInv
  <2>2. resolver'[a].det = r.det
    BY <1>1, <1>2 DEF Resolver, IncidentTypes
  <2>3. resolver'[a].at = IF pdKey[r.det] = "none" THEN "commit" ELSE "post"
    BY <1>1, <1>2 DEF Resolver, IncidentTypes
  <2>4. Asking(a, d, {"commit"})' => excuse'[d] # {}
    <3> SUFFICES ASSUME resolver'[a].at = "commit", d = r.det PROVE excuse'[d] # {}
      BY <2>2 DEF Asking
    <3>1. pdKey[d] = "none"
      BY <2>3
    <3>2. Storing(d) \/ excuse[d] # {}
      BY <2>1, <3>1 DEF OpenFor
    <3> QED BY <1>3, <3>1, <3>2
  <2>5. ~Asking(a, d, {"delete"})'
    BY <2>3 DEF Asking
  <2>6. \A b \in Responders : Asking(b, d, {"delete"})' => Asking(b, d, {"delete"})
    BY <1>2, <2>5 DEF Asking
  <2>7. \A b \in Responders : Asking(b, d, {"commit"})' =>
          Asking(b, d, {"delete", "commit"}) \/ excuse'[d] # {}
    BY <1>2, <2>4 DEF Asking
  <2>8. Storing(d)' = Storing(d)
    BY <1>1 DEF Storing
  <2> QED BY <1>1, <1>3, <1>5, <2>1, <2>6, <2>7, <2>8, OpenStays
<1> QED BY <1>4, <1>5 DEF IncidentInv

\* An accepted event closes the incident of the settings' channel; it does nothing to that
\* of a configuration, which is marked "legacy".
LEMMA ResolveKeepsIncidents ==
  ASSUME IncidentTypes, IncidentInv, NEW a \in Responders, NEW answer \in NotifyAnswers,
         PostResolve(a, answer)
  PROVE  IncidentTypes' /\ IncidentInv'
<1> DEFINE r == resolver[a]
           closed == answer # "refused" /\ r.key = "dedup"
<1>1. /\ UNCHANGED <<mailer, state, pdKey>> /\ r.at = "post"
      /\ resolver' = [resolver EXCEPT ![a].at = IF answer = "ok" THEN "delete" ELSE "commit"]
      /\ incident' = IF closed THEN [incident EXCEPT ![r.det] = "resolved"] ELSE incident
      /\ excuse' = IF closed THEN [excuse EXCEPT ![r.det] = {}]
                   ELSE IF answer = "refused" THEN [excuse EXCEPT ![r.det] = @ \cup {"refused"}]
                   ELSE excuse
  BY DEF PostResolve, alertVars
<1>2. /\ DOMAIN resolver' = Responders /\ \A b \in Responders : Resolver(resolver'[b])
      /\ \A b \in Responders \ {a} : resolver'[b] = resolver[b]
      /\ r.det \in Raised
  BY <1>1, ResolverMoves DEF ResolverStep
<1>3. /\ DOMAIN excuse = Raised /\ incident \in [Raised -> {"none", "triggered", "resolved"}]
  BY DEF IncidentTypes
<1>4. r.key = IF Legacy(r.det) THEN "routing" ELSE "dedup"
  BY <1>1 DEF IncidentTypes, Resolver
<1>5. /\ DOMAIN excuse' = Raised /\ incident' \in [Raised -> {"none", "triggered", "resolved"}]
      /\ closed => incident'[r.det] = "resolved"
      /\ \A d \in Raised : d # r.det \/ ~closed =>
           incident'[d] = incident[d] /\ excuse[d] \subseteq excuse'[d]
      /\ answer = "refused" => "refused" \in excuse'[r.det]
  <2>1. CASE closed
    <3>1. /\ incident' = [incident EXCEPT ![r.det] = "resolved"]
          /\ excuse' = [excuse EXCEPT ![r.det] = {}] /\ answer # "refused"
      BY <1>1, <2>1
    <3> QED BY <1>2, <1>3, <2>1, <3>1
  <2>2. CASE ~closed /\ answer = "refused"
    BY <1>1, <1>2, <1>3, <2>2
  <2>3. CASE ~closed /\ answer # "refused"
    BY <1>1, <1>2, <1>3, <2>3
  <2> QED BY <2>1, <2>2, <2>3
<1>6. IncidentTypes'
  BY <1>1, <1>2, <1>5 DEF IncidentTypes, Posting
<1>7. ASSUME NEW d \in Raised, incident'[d] = "triggered" PROVE OpenFor(d)'
  <2>1. d # r.det \/ ~closed
    BY <1>5, <1>7
  <2> HIDE DEF closed
  <2>2. incident[d] = "triggered" /\ OpenFor(d) /\ excuse[d] \subseteq excuse'[d]
    BY <1>5, <1>7, <2>1 DEF IncidentInv
  <2>3. /\ resolver'[a].det = r.det
        /\ resolver'[a].at = IF answer = "ok" THEN "delete" ELSE "commit"
    BY <1>1, <1>2 DEF Resolver, IncidentTypes
  <2>4. d = r.det => /\ excuse'[d] # {}
                     /\ answer = "ok" => excuse'[d] \cap {"late", "legacy"} # {}
    <3>1. CASE d = r.det /\ answer = "refused"
      BY <1>5, <3>1
    <3>2. CASE d = r.det /\ answer # "refused"
      <4>1. Legacy(d)
        BY <1>4, <2>1, <3>2 DEF closed
      <4>2. "legacy" \in excuse'[d]
        BY <2>2, <4>1 DEF OpenFor
      <4> QED BY <4>2
    <3> QED BY <3>1, <3>2
  <2>5. Asking(a, d, {"delete"})' => d = r.det /\ answer = "ok"
    BY <2>3 DEF Asking
  <2>6. Asking(a, d, {"commit"})' => d = r.det
    BY <2>3 DEF Asking
  <2>7. \A b \in Responders : Asking(b, d, {"delete"})' =>
          Asking(b, d, {"delete"}) \/ excuse'[d] \cap {"late", "legacy"} # {}
    BY <1>2, <2>4, <2>5 DEF Asking
  <2>8. \A b \in Responders : Asking(b, d, {"commit"})' =>
          Asking(b, d, {"delete", "commit"}) \/ excuse'[d] # {}
    BY <1>2, <2>4, <2>6 DEF Asking
  <2>9. Storing(d)' = Storing(d)
    BY <1>1 DEF Storing
  <2> QED BY <1>1, <1>7, <2>2, <2>7, <2>8, <2>9, OpenStays
<1> QED BY <1>6, <1>7 DEF IncidentInv

\* The key of an incident is deleted behind it: one that was opened meanwhile is "late".
LEMMA DeleteKeepsIncidents ==
  ASSUME IncidentTypes, IncidentInv, NEW a \in Responders, DeleteKey(a)
  PROVE  IncidentTypes' /\ IncidentInv'
<1> DEFINE r == resolver[a]
<1>1. /\ UNCHANGED <<mailer, state, incident, excuse>> /\ r.at = "delete"
      /\ pdKey' = [pdKey EXCEPT ![r.det] = "none"]
      /\ resolver' = [resolver EXCEPT ![a].at = "commit"]
  BY DEF DeleteKey, alertVars
<1>2. /\ DOMAIN resolver' = Responders /\ \A b \in Responders : Resolver(resolver'[b])
      /\ \A b \in Responders \ {a} : resolver'[b] = resolver[b]
      /\ r.det \in Raised
  BY <1>1, ResolverMoves DEF ResolverStep
<1>3. /\ pdKey' \in [Raised -> {"none", "dedup", "routing"}]
      /\ \A d \in Raised : pdKey'[d] \in {"none", pdKey[d]}
      /\ \A d \in Raised \ {r.det} : pdKey'[d] = pdKey[d]
  BY <1>1, <1>2 DEF IncidentTypes
<1>4. IncidentTypes'
  BY <1>1, <1>2, <1>3 DEF IncidentTypes, Posting
<1>5. ASSUME NEW d \in Raised, incident'[d] = "triggered" PROVE OpenFor(d)'
  <2>1. OpenFor(d)
    BY <1>1, <1>5 DEF IncidentInv
  <2>2. resolver'[a].at = "commit" /\ resolver'[a].det = r.det
    BY <1>1, <1>2 DEF Resolver, IncidentTypes
  <2>3. \A b \in Responders : /\ Asking(b, d, {"delete"})' => Asking(b, d, {"delete"})
                              /\ Asking(b, d, {"commit"})' => Asking(b, d, {"delete", "commit"})
    BY <1>1, <1>2, <2>2 DEF Asking
  <2>4. d = r.det => excuse[d] \cap {"late", "legacy"} # {}
    BY <1>1, <2>1 DEF OpenFor, Asking
  <2>5. Storing(d)' = Storing(d)
    BY <1>1 DEF Storing
  <2>6. pdKey[d] # "none" \/ Storing(d) =>
          pdKey'[d] # "none" \/ Storing(d)' \/ excuse'[d] \cap {"late", "unstored", "legacy"} # {}
    BY <1>1, <1>3, <2>4, <2>5
  <2> QED BY <1>1, <1>5, <2>3, <2>6, OpenStays
<1> QED BY <1>4, <1>5 DEF IncidentInv

LEMMA EndsKeepIncidents ==
  ASSUME IncidentTypes, IncidentInv, NEW a \in Responders,
         (\E d \in Raised : BeginClose(a, d)) \/ (\E ok \in BOOLEAN : CommitClose(a, ok))
  PROVE  IncidentTypes' /\ IncidentInv'
<1>1. UNCHANGED <<mailer, incident, pdKey, excuse>>
  BY DEF BeginClose, CommitClose, alertVars
<1>2. /\ DOMAIN resolver' = Responders /\ \A b \in Responders : Resolver(resolver'[b])
      /\ \A b \in Responders \ {a} : resolver'[b] = resolver[b]
  BY ResolverMoves DEF ResolverStep
<1>3. resolver'[a].at \in {"get", "idle"}
  <2>1. DOMAIN resolver = Responders /\ DOMAIN Unasked = {"at", "det", "key"}
    BY UnaskedIsResolver DEF IncidentTypes, Resolver
  <2>2. CASE \E d \in Raised : BeginClose(a, d)
    <3>1. PICK d \in Raised : resolver'[a] = [Unasked EXCEPT !.at = "get", !.det = d]
      BY <2>1, <2>2 DEF BeginClose
    <3>2. resolver'[a].at = "get"
      BY <2>1, <3>1
    <3> QED BY <3>2
  <2>3. CASE \E ok \in BOOLEAN : CommitClose(a, ok)
    BY <2>1, <2>3, UnaskedIsResolver DEF CommitClose
  <2> QED BY <2>2, <2>3
<1>4. /\ state' \in [Raised -> {"open", "resolved"}]
      /\ \A d \in Raised : state'[d] = "resolved" => state[d] = "resolved" \/ Asking(a, d, {"commit"})
  <2>1. state \in [Raised -> {"open", "resolved"}]
    BY DEF IncidentTypes
  <2>2. CASE UNCHANGED state
    BY <2>1, <2>2
  <2>3. CASE state' = [state EXCEPT ![resolver[a].det] = "resolved"] /\ resolver[a].at = "commit"
    BY <2>1, <2>3 DEF Asking
  <2> QED BY <2>2, <2>3 DEF BeginClose, CommitClose
<1>5. IncidentTypes'
  BY <1>1, <1>2, <1>4 DEF IncidentTypes, Posting
<1>6. ASSUME NEW d \in Raised, incident'[d] = "triggered" PROVE OpenFor(d)'
  <2>1. OpenFor(d)
    BY <1>1, <1>6 DEF IncidentInv
  <2>2. \A b \in Responders : /\ Asking(b, d, {"delete"})' => Asking(b, d, {"delete"})
                              /\ Asking(b, d, {"commit"})' => Asking(b, d, {"delete", "commit"})
    BY <1>2, <1>3 DEF Asking
  <2>3. Asking(a, d, {"commit"}) => excuse[d] # {}
    BY <2>1 DEF OpenFor, Asking
  <2>4. Storing(d)' = Storing(d)
    BY <1>1 DEF Storing
  <2> QED BY <1>1, <1>4, <1>6, <2>2, <2>3, <2>4, OpenStays
<1> QED BY <1>5, <1>6 DEF IncidentInv

\* The statuses that change without PagerDuty being asked.
LEMMA StatusKeepsIncidents ==
  ASSUME IncidentTypes, IncidentInv, NEW e \in Raised, Reopen(e) \/ PipelineCloses(e)
  PROVE  IncidentTypes' /\ IncidentInv'
<1>1. UNCHANGED <<mailer, incident, pdKey, resolver>>
  BY DEF Reopen, PipelineCloses, alertVars
<1>2. /\ state' \in [Raised -> {"open", "resolved"}] /\ DOMAIN excuse' = Raised
      /\ \A d \in Raised : /\ state'[d] = "resolved" => state[d] = "resolved" \/ excuse'[d] # {}
                           /\ excuse[d] \subseteq excuse'[d]
  <2>1. state \in [Raised -> {"open", "resolved"}] /\ DOMAIN excuse = Raised
    BY DEF IncidentTypes
  <2>2. CASE Reopen(e)
    BY <2>1, <2>2 DEF Reopen
  <2>3. CASE PipelineCloses(e)
    BY <2>1, <2>3 DEF PipelineCloses
  <2> QED BY <2>2, <2>3
<1>3. IncidentTypes'
  BY <1>1, <1>2 DEF IncidentTypes, Posting
<1>4. \A d \in Raised : Storing(d)' = Storing(d)
  BY <1>1 DEF Storing
<1>5. \A d \in Raised : incident'[d] = "triggered" => OpenFor(d)'
  BY <1>1, <1>2, <1>4, OpenStays DEF Asking
<1> QED BY <1>3, <1>5 DEF IncidentInv

LEMMA QuietStepsKeepIncidents ==
  ASSUME IncidentTypes, IncidentInv, UNCHANGED <<mailer, incidentVars>>
  PROVE  IncidentTypes' /\ IncidentInv'
<1>1. UNCHANGED <<mailer, state, incident, pdKey, resolver, excuse>>
  BY DEF incidentVars
<1>2. IncidentTypes'
  BY <1>1 DEF IncidentTypes, Posting
<1>3. \A d \in Raised : incident'[d] = "triggered" => OpenFor(d)'
  BY <1>1, OpenStays DEF Asking, Storing
<1> QED BY <1>2, <1>3 DEF IncidentInv

LEMMA IncidentsKeep ==
  ASSUME AlertTypes, IncidentTypes, IncidentInv, [NextNotify]_notifyVars
  PROVE  IncidentTypes' /\ IncidentInv'
<1>1. ASSUME NEW w \in Notifiers, MailerStep(w) PROVE IncidentTypes' /\ IncidentInv'
  BY <1>1, IdleMailersKeepIncidents, LostMailersKeepIncidents, PostKeepsIncidents, StoreKeepsIncidents
    DEF MailerStep
<1>2. ASSUME NEW a \in Responders, ResolverStep(a) PROVE IncidentTypes' /\ IncidentInv'
  BY <1>2, GetKeepsIncidents, ResolveKeepsIncidents, DeleteKeepsIncidents, EndsKeepIncidents
    DEF ResolverStep
<1>3. CASE \E d \in Raised : Reopen(d) \/ PipelineCloses(d)
  BY <1>3, StatusKeepsIncidents
<1>4. CASE NextHour \/ (\E key \in claimed : Expire(key)) \/ UNCHANGED notifyVars
  <2>1. UNCHANGED <<mailer, incidentVars>>
    BY <1>4 DEF NextHour, Expire, notifyVars, incidentVars
  <2> QED BY <2>1, QuietStepsKeepIncidents
<1> QED BY <1>1, <1>2, <1>3, <1>4 DEF NextNotify, MailerStep, ResolverStep

LEMMA IncidentStarts == InitNotify => IncidentTypes /\ IncidentInv
<1> SUFFICES ASSUME InitNotify PROVE IncidentTypes /\ IncidentInv
  OBVIOUS
<1>1. /\ state = [d \in Raised |-> "open"] /\ incident = [d \in Raised |-> "none"]
      /\ pdKey = [d \in Raised |-> "none"] /\ excuse = [d \in Raised |-> {}]
      /\ resolver = [a \in Responders |-> Unasked] /\ mailer = [w \in Notifiers |-> Resting]
  BY DEF InitNotify
<1>2. IncidentTypes
  BY <1>1, UnaskedIsResolver, RestingIsMailer DEF IncidentTypes
<1> QED BY <1>1, <1>2 DEF IncidentInv

\* update_detection_status: the incident that a resolved detection leaves open is one whose
\* alert came behind the request, whose key could not be stored, whose resolve event
\* PagerDuty refused, that nobody asked about, or that a configuration opened.
THEOREM OpenIncidentsHaveReasons == SpecNotify => []OpenIncidentExplained
<1>1. IncidentInv => OpenIncidentExplained
  BY DEF IncidentInv, OpenFor, OpenIncidentExplained
<1>2. /\ AlertTypes /\ IncidentTypes /\ IncidentInv /\ [NextNotify]_notifyVars =>
           AlertTypes' /\ IncidentTypes' /\ IncidentInv'
      /\ InitNotify => AlertTypes /\ IncidentTypes /\ IncidentInv
  BY AlertTypesKeep, IncidentsKeep, AlertStarts, IncidentStarts
<1> QED BY <1>1, <1>2, PTL DEF SpecNotify

\* send_pagerduty_notification and resolve_detection_incident: the key of an open incident
\* is not lost, so that a refused request can be repeated.
THEOREM OpenIncidentsKeepKeys == SpecNotify => []OpenIncidentKeepsKey
<1>1. IncidentInv => OpenIncidentKeepsKey
  <2> SUFFICES ASSUME IncidentInv, NEW d \in Raised, incident[d] = "triggered", ~Attended(d),
                      excuse[d] \cap {"late", "unstored", "legacy"} = {}
               PROVE  pdKey[d] # "none"
    BY DEF OpenIncidentKeepsKey
  <2>1. OpenFor(d) /\ ~Storing(d)
    BY DEF IncidentInv, Attended, Storing
  <2> QED BY <2>1 DEF OpenFor
<1>2. /\ AlertTypes /\ IncidentTypes /\ IncidentInv /\ [NextNotify]_notifyVars =>
           AlertTypes' /\ IncidentTypes' /\ IncidentInv'
      /\ InitNotify => AlertTypes /\ IncidentTypes /\ IncidentInv
  BY AlertTypesKeep, IncidentsKeep, AlertStarts, IncidentStarts
<1> QED BY <1>1, <1>2, PTL DEF SpecNotify

-----------------------------------------------------------------------------
(* Notify: types of all variables *)

Copies(t) == DOMAIN t = {"queued", "tries"} /\ t.queued \in Nat /\ t.tries \in 0..NotifyRetries
TaskTypes == DOMAIN alertTask = Raised /\ \A d \in Raised : Copies(alertTask[d])

LEMMA TasksKeep == ASSUME AlertTypes, TaskTypes, [NextNotify]_notifyVars PROVE TaskTypes'
<1>1. NotifyRetries \in Nat
  BY NotifyAssumption
<1>2. ASSUME NEW d \in Raised, NEW q \in {alertTask[d].queued - 1, alertTask[d].queued + 1}, q >= 0,
             NEW n \in {alertTask[d].tries, alertTask[d].tries + 1}, n <= NotifyRetries,
             alertTask' = [alertTask EXCEPT ![d].queued = q, ![d].tries = n]
      PROVE  TaskTypes'
  <2>1. Copies(alertTask[d]) /\ DOMAIN alertTask = Raised
    BY DEF TaskTypes
  <2>2. q \in Nat /\ n \in 0..NotifyRetries
    BY <1>1, <1>2, <2>1 DEF Copies
  <2>3. DOMAIN alertTask'[d] = {"queued", "tries"} /\ alertTask'[d].queued = q /\ alertTask'[d].tries = n
    BY <1>2, <2>1 DEF Copies
  <2>4. Copies(alertTask'[d])
    BY <2>2, <2>3 DEF Copies
  <2>5. DOMAIN alertTask' = Raised /\ \A e \in Raised \ {d} : alertTask'[e] = alertTask[e]
    BY <1>2, <2>1
  <2> QED BY <2>4, <2>5 DEF TaskTypes
<1>3. ASSUME UNCHANGED alertTask PROVE TaskTypes'
  BY <1>3 DEF TaskTypes
<1>4. \A d \in Raised : /\ DOMAIN alertTask = Raised /\ alertTask[d].queued \in Nat
                        /\ alertTask[d].tries \in 0..NotifyRetries
                        /\ DOMAIN alertTask[d] = {"queued", "tries"}
  BY DEF TaskTypes, Copies
<1>5. \A w \in Notifiers : mailer[w].at # "idle" => mailer[w].det \in Raised
  BY DEF AlertTypes, Mailer
<1>6. ASSUME NEW w \in Notifiers, NEW d \in Raised, TakeAlert(w, d) PROVE TaskTypes'
  <2>1. /\ alertTask[d].queued > 0
        /\ alertTask' = [alertTask EXCEPT ![d].queued = alertTask[d].queued - 1,
                                          ![d].tries = alertTask[d].tries]
    BY <1>4, <1>6 DEF TakeAlert
  <2>2. alertTask[d].queued - 1 >= 0 /\ alertTask[d].tries <= NotifyRetries
    BY <1>1, <1>4, <2>1
  <2> QED BY <1>2, <2>1, <2>2
<1>7. ASSUME NEW w \in Notifiers, FailAlert(w) PROVE TaskTypes'
  <2> DEFINE d == mailer[w].det
  <2>1. CASE alertTask[d].tries >= NotifyRetries
    BY <1>3, <1>7, <2>1 DEF FailAlert
  <2>2. CASE ~(alertTask[d].tries >= NotifyRetries)
    <3>1. d \in Raised
      BY <1>5, <1>7 DEF FailAlert
    <3>2. alertTask[d].queued + 1 >= 0 /\ alertTask[d].tries + 1 <= NotifyRetries
      BY <1>1, <1>4, <2>2, <3>1
    <3>3. alertTask' = [alertTask EXCEPT ![d].queued = alertTask[d].queued + 1,
                                         ![d].tries = alertTask[d].tries + 1]
      BY <1>4, <1>7, <2>2, <3>1 DEF FailAlert
    <3> QED BY <1>2, <3>1, <3>2, <3>3
  <2> QED BY <2>1, <2>2
<1>8. ASSUME NEW w \in Notifiers, LoseNotifier(w) PROVE TaskTypes'
  <2> DEFINE d == mailer[w].det
  <2>1. d \in Raised
    BY <1>5, <1>8 DEF LoseNotifier
  <2>2. alertTask[d].queued + 1 >= 0 /\ alertTask[d].tries <= NotifyRetries
    BY <1>1, <1>4, <2>1
  <2>3. alertTask' = [alertTask EXCEPT ![d].queued = alertTask[d].queued + 1,
                                       ![d].tries = alertTask[d].tries]
    BY <1>4, <1>8, <2>1 DEF LoseNotifier
  <2> QED BY <1>2, <2>1, <2>2, <2>3
<1>9. ASSUME NEW w \in Notifiers,
             \/ Claim(w) \/ Route(w)
             \/ \E answer \in NotifyAnswers : Post(w, answer)
             \/ \E ok \in BOOLEAN : StoreKey(w, ok)
      PROVE  TaskTypes'
  BY <1>3, <1>9 DEF Claim, Route, Post, StoreKey, alertVars
<1>10. ASSUME NEW a \in Responders, ResolverStep(a) PROVE TaskTypes'
  BY <1>3, <1>10 DEF ResolverStep, BeginClose, GetKey, DeleteKey, PostResolve, CommitClose, alertVars
<1>11. CASE \/ \E d \in Raised : Reopen(d) \/ PipelineCloses(d)
            \/ NextHour \/ (\E key \in claimed : Expire(key)) \/ UNCHANGED notifyVars
  BY <1>3, <1>11 DEF Reopen, PipelineCloses, NextHour, Expire, notifyVars, alertVars
<1> QED BY <1>6, <1>7, <1>8, <1>9, <1>10, <1>11 DEF NextNotify, ResolverStep

\* The variables keep their types.
THEOREM NotifyTypesStay == SpecNotify => []NotifyTypeOK
<1>1. AlertTypes /\ IncidentTypes /\ TaskTypes => NotifyTypeOK
  <2> SUFFICES ASSUME AlertTypes, IncidentTypes, TaskTypes PROVE NotifyTypeOK
    OBVIOUS
  <2>1. /\ hour \in Hours /\ claimed \subseteq Range(SubjectOf) \X Hours
        /\ told \subseteq Channels \X (Range(SubjectOf) \X Hours) /\ toldTwice \subseteq told
    BY DEF AlertTypes, AlertKeys
  <2>2. \A d \in Raised : alertTask[d].queued >= 0 /\ alertTask[d].tries \in 0..NotifyRetries
    BY DEF TaskTypes, Copies
  <2>3. \A w \in Notifiers : mailer[w].at \in {"idle", "claim", "route", "send", "store"}
    BY DEF AlertTypes, Mailer
  <2>4. /\ state \in [Raised -> {"open", "resolved"}]
        /\ incident \in [Raised -> {"none", "triggered", "resolved"}]
        /\ \A a \in Responders : resolver[a].at \in {"idle", "get", "post", "delete", "commit"}
    BY DEF IncidentTypes, Resolver
  <2>5. pdKey \in [Raised -> {"none", "dedup", "routing"}]
    BY DEF IncidentTypes
  <2> QED BY <2>1, <2>2, <2>3, <2>4, <2>5 DEF NotifyTypeOK
<1>2. ASSUME InitNotify PROVE TaskTypes
  <2>1. alertTask = [d \in Raised |-> [queued |-> 1, tries |-> 0]] /\ NotifyRetries \in Nat
    BY <1>2, NotifyAssumption DEF InitNotify
  <2> QED BY <2>1 DEF TaskTypes, Copies
<1>3. /\ AlertTypes /\ IncidentTypes /\ IncidentInv /\ TaskTypes /\ [NextNotify]_notifyVars =>
           AlertTypes' /\ IncidentTypes' /\ IncidentInv' /\ TaskTypes'
      /\ InitNotify => AlertTypes /\ IncidentTypes /\ IncidentInv /\ TaskTypes
  BY <1>2, AlertTypesKeep, IncidentsKeep, TasksKeep, AlertStarts, IncidentStarts
<1> QED BY <1>1, <1>3, PTL DEF SpecNotify
-----------------------------------------------------------------------------
(* Digest *)
(* The invariant *)

Txns == [is : {"none", "running", "committed"}, at : 0..tick]
Digests ==
  [at : {"idle", "query", "send", "mark"}, began : 0..tick, since : Int,
   seen : SUBSET Alerts, upto : 0..tick]

\* Times are not ahead of the clock.
TypesInv ==
  /\ tick \in 1..MaxTick /\ mark \in 0..tick
  /\ txn \in [Alerts -> Txns] /\ digest \in Digests
  /\ {covered, repeated, unmarked, passed} \subseteq SUBSET Alerts

WasCommitted(d) == txn[d].is = "committed"

\* What has begun has its time, and only what is committed is ever listed.
WrittenInv ==
  /\ \A d \in Alerts : txn[d].is # "none" => txn[d].at >= 1
  /\ \A d \in covered \cup digest.seen : WasCommitted(d)
  /\ repeated \subseteq covered

\* The period of a digest begins at the mark, as long as there is one, and its end is
\* not before anything it lists.
PeriodInv ==
  /\ digest.at # "idle" /\ mark > 0 => digest.since = mark
  /\ \A d \in digest.seen : txn[d].at > digest.since
  /\ digest.at = "mark" => mark <= digest.upto /\ \A d \in digest.seen : txn[d].at <= digest.upto
  /\ digest.at \in {"idle", "query"} => digest.seen = {}

\* A detection that the mark has passed, or will have passed once this digest stores it,
\* was listed or came too late.
PassedInv ==
  /\ \A d \in Alerts \ (covered \cup passed) :
       WasCommitted(d) => /\ txn[d].at > mark
                          /\ digest.at = "send" => d \in digest.seen
                          /\ digest.at = "mark" => txn[d].at > digest.upto

\* What was listed is behind the mark, or is by the digest that stores it now, or its
\* mark was lost.
ListedInv ==
  \A d \in covered \ unmarked :
    txn[d].at <= mark \/ (digest.at = "mark" /\ d \in digest.seen)

DigestInv ==
  TypesInv /\ WrittenInv /\ PeriodInv /\ PassedInv /\ ListedInv /\ repeated \subseteq unmarked
-----------------------------------------------------------------------------
\* No digest, no detection, and a clock behind the first window.
LEMMA InitHolds == InitDigest => DigestInv
BY DigestAssumption
   DEF InitDigest, NoDigest, DigestInv, TypesInv, Txns, Digests, WrittenInv, WasCommitted,
       PeriodInv, PassedInv, ListedInv

\* The clock.
LEMMA TickKeepsInv == DigestInv /\ Tick => DigestInv'
<1> SUFFICES ASSUME DigestInv, Tick PROVE DigestInv'
  OBVIOUS
<1>1. TypesInv'
  <2>1. tick' \in 1..MaxTick /\ 0..tick \subseteq 0..tick'
    BY DigestAssumption DEF DigestInv, TypesInv, Tick
  <2>2. Txns \subseteq Txns' /\ Digests \subseteq Digests'
    BY <2>1 DEF Txns, Digests
  <2> QED BY <2>1, <2>2 DEF DigestInv, TypesInv, Tick
<1>2. QED
  BY <1>1 DEF DigestInv, Tick, WrittenInv, WasCommitted, PeriodInv, PassedInv, ListedInv

\* A detection is inserted (its triggered_at is now).
LEMMA BeginKeepsInv ==
  ASSUME DigestInv, NEW d \in Alerts, BeginWrite(d)
  PROVE  DigestInv'
<1>1. /\ txn[d].is = "none"
      /\ \A e \in Alerts : txn'[e] = IF e = d THEN [is |-> "running", at |-> tick] ELSE txn[e]
      /\ txn' = [txn EXCEPT ![d] = [is |-> "running", at |-> tick]]
      /\ UNCHANGED <<tick, mark, digest, covered, repeated, unmarked, passed>>
  BY DEF BeginWrite, DigestInv, TypesInv
<1>2. TypesInv'
  BY <1>1 DEF DigestInv, TypesInv, Txns, Digests
<1>3. d \notin covered \cup digest.seen
  BY <1>1 DEF DigestInv, WrittenInv, WasCommitted
<1>4. WrittenInv' /\ PeriodInv' /\ PassedInv' /\ ListedInv'
  BY <1>1, <1>3 DEF DigestInv, TypesInv, WrittenInv, WasCommitted, PeriodInv, PassedInv, ListedInv, Digests
<1> QED BY <1>1, <1>2, <1>4 DEF DigestInv

\* Its transaction ends: if a digest has read the detections already, it is passed.
LEMMA EndKeepsInv ==
  ASSUME DigestInv, NEW d \in Alerts, NEW ok \in BOOLEAN, EndWrite(d, ok)
  PROVE  DigestInv'
<1>1. /\ txn[d].is = "running"
      /\ UNCHANGED <<tick, mark, digest, covered, repeated, unmarked>>
  BY DEF EndWrite
<1>2. d \notin covered \cup digest.seen
  BY <1>1 DEF DigestInv, WrittenInv, WasCommitted
<1>3. \A e \in Alerts \ {d} : txn'[e] = txn[e]
  BY DEF EndWrite, DigestInv, TypesInv
<1>4. CASE ok
  <2>1. txn' = [txn EXCEPT ![d] = [@ EXCEPT !.is = "committed"]]
    BY <1>4 DEF EndWrite
  <2>2. txn'[d].at = txn[d].at /\ txn'[d].is = "committed" /\ txn'[d] \in Txns
    BY <2>1 DEF DigestInv, TypesInv, Txns
  <2>3. passed' = IF \/ digest.at = "send" \/ txn[d].at <= mark
                     \/ digest.at = "mark" /\ txn[d].at <= digest.upto
                  THEN passed \cup {d} ELSE passed
    BY <1>4 DEF EndWrite
  <2>4. TypesInv'
    BY <1>1, <2>1, <2>2, <2>3 DEF DigestInv, TypesInv, Txns, Digests
  <2>5. WrittenInv' /\ PeriodInv' /\ ListedInv'
    <3>1. txn[d].at >= 1
      BY <1>1 DEF DigestInv, WrittenInv
    <3>2. covered \cup digest.seen \subseteq Alerts \ {d}
      BY <1>2 DEF DigestInv, TypesInv, Digests
    <3>3. WrittenInv'
      <4>1. \A e \in Alerts : txn'[e].is # "none" => txn'[e].at >= 1
        BY <1>3, <2>2, <3>1 DEF DigestInv, WrittenInv
      <4>2. \A e \in covered' \cup digest'.seen : txn'[e].is = "committed"
        BY <1>1, <1>3, <2>2, <3>2 DEF DigestInv, WrittenInv, WasCommitted
      <4> QED BY <1>1, <4>1, <4>2 DEF DigestInv, WrittenInv, WasCommitted
    <3>4. PeriodInv' /\ ListedInv'
      BY <1>1, <1>3, <3>2 DEF DigestInv, PeriodInv, ListedInv
    <3> QED BY <3>3, <3>4
  <2>6. PassedInv'
    <3>1. d \in passed' \/ (txn[d].at > mark /\ digest.at # "send"
                              /\ (digest.at = "mark" => txn[d].at > digest.upto))
      BY <2>3 DEF DigestInv, TypesInv, Txns, Digests
    <3>2. passed \subseteq passed'
      BY <2>3
    <3> QED BY <1>1, <1>3, <2>2, <3>1, <3>2 DEF DigestInv, PassedInv, WasCommitted
  <2> QED BY <1>1, <2>4, <2>5, <2>6 DEF DigestInv
<1>5. CASE ~ok
  <2>1. txn' = [txn EXCEPT ![d] = [is |-> "none", at |-> 0]] /\ UNCHANGED passed
    BY <1>5 DEF EndWrite
  <2>2. txn'[d].is = "none"
    BY <2>1 DEF DigestInv, TypesInv
  <2>3. TypesInv'
    BY <1>1, <2>1 DEF DigestInv, TypesInv, Txns, Digests
  <2>4. WrittenInv' /\ PeriodInv' /\ ListedInv' /\ PassedInv'
    BY <1>1, <1>2, <1>3, <2>1, <2>2
       DEF DigestInv, WrittenInv, WasCommitted, PeriodInv, ListedInv, PassedInv
  <2> QED BY <1>1, <2>3, <2>4 DEF DigestInv
<1> QED BY <1>4, <1>5

\* send_digest_task begins: its period starts at the mark.
LEMMA StartKeepsInv == DigestInv /\ StartDigest => DigestInv'
<1> SUFFICES ASSUME DigestInv, StartDigest PROVE DigestInv'
  OBVIOUS
<1>1. /\ digest.at = "idle" /\ UNCHANGED <<tick, txn, mark, covered, repeated, unmarked, passed>>
      /\ digest' = [at |-> "query", began |-> tick,
                    since |-> IF mark > 0 THEN mark ELSE tick - Window, seen |-> {}, upto |-> 0]
  BY DEF StartDigest, NoDigest
<1>2. TypesInv'
  BY <1>1, DigestAssumption DEF DigestInv, TypesInv, Txns, Digests
<1>3. WrittenInv' /\ PeriodInv' /\ PassedInv' /\ ListedInv'
  BY <1>1 DEF DigestInv, WrittenInv, WasCommitted, PeriodInv, PassedInv, ListedInv
<1> QED BY <1>1, <1>2, <1>3 DEF DigestInv

\* The SELECT: without a mark, what it does not find is older than the window.
LEMMA SelectKeepsInv == DigestInv /\ SelectDetections => DigestInv'
<1> SUFFICES ASSUME DigestInv, SelectDetections PROVE DigestInv'
  OBVIOUS
<1> DEFINE there == {d \in Alerts : txn[d].is = "committed"}
           seen == {d \in there : txn[d].at > digest.since}
<1>1. /\ digest.at = "query" /\ UNCHANGED <<tick, txn, mark, covered, repeated, unmarked>>
      /\ passed' = IF mark = 0 THEN passed \cup (there \ (seen \cup covered)) ELSE passed
      /\ digest' = IF seen = {} THEN NoDigest ELSE [digest EXCEPT !.at = "send", !.seen = seen]
  BY DEF SelectDetections
<1>2. \A d \in Alerts : WasCommitted(d) /\ d \notin covered \cup passed' => d \in seen
  BY <1>1 DEF DigestInv, TypesInv, Txns, Digests, PeriodInv, PassedInv, WasCommitted
<1>3. \A d \in seen : d \in Alerts /\ WasCommitted(d) /\ txn[d].at > digest.since
  BY DEF WasCommitted
<1>4. passed \subseteq passed' /\ passed' \subseteq Alerts
  BY <1>1 DEF DigestInv, TypesInv
<1>5. seen \subseteq Alerts
  OBVIOUS
<1> HIDE DEF there, seen
<1>6. CASE seen = {}
  <2>1. digest' = NoDigest
    BY <1>1, <1>6
  <2>2. TypesInv'
    BY <1>1, <1>4, <2>1 DEF DigestInv, TypesInv, Txns, Digests, NoDigest
  <2>3. digest'.at = "idle" /\ digest'.seen = {}
    BY <2>1 DEF NoDigest
  <2>4. WrittenInv' /\ PeriodInv' /\ ListedInv'
    BY <1>1, <2>3 DEF DigestInv, WrittenInv, WasCommitted, PeriodInv, ListedInv
  <2>5. PassedInv'
    BY <1>1, <1>4, <2>3 DEF DigestInv, WasCommitted, PassedInv
  <2> QED BY <1>1, <2>2, <2>4, <2>5 DEF DigestInv
<1>7. CASE seen # {}
  <2>1. digest' = [digest EXCEPT !.at = "send", !.seen = seen]
    BY <1>1, <1>7
  <2>2. /\ digest' \in Digests /\ digest'.at = "send" /\ digest'.seen = seen
        /\ digest'.since = digest.since
    BY <1>5, <2>1 DEF DigestInv, TypesInv, Digests
  <2>3. TypesInv'
    BY <1>1, <1>4, <2>2 DEF DigestInv, TypesInv, Txns, Digests
  <2>4. WrittenInv' /\ PeriodInv' /\ ListedInv'
    BY <1>1, <1>3, <2>2 DEF DigestInv, WrittenInv, WasCommitted, PeriodInv, ListedInv
  <2>5. PassedInv'
    BY <1>1, <1>2, <1>4, <2>2 DEF DigestInv, PassedInv, WasCommitted
  <2> QED BY <1>1, <2>3, <2>4, <2>5 DEF DigestInv
<1> QED BY <1>6, <1>7

\* The mail: what it lists was not listed before, unless a mark was lost.
LEMMA SendKeepsInv ==
  ASSUME DigestInv, NEW answer \in {"ok", "refused", "unanswered"}, SendMail(answer)
  PROVE  DigestInv'
<1>1. digest.at = "send" /\ UNCHANGED <<tick, txn, mark, passed>>
  BY DEF SendMail
<1>2. covered \cap digest.seen \subseteq unmarked
  <2> SUFFICES ASSUME NEW d \in covered, d \in digest.seen, d \notin unmarked PROVE FALSE
    OBVIOUS
  <2>1. txn[d].at <= mark
    BY <1>1 DEF DigestInv, ListedInv
  <2>2. txn[d].at >= 1 /\ txn[d].at > digest.since /\ d \in Alerts
    BY DEF DigestInv, TypesInv, WrittenInv, WasCommitted, PeriodInv, Digests
  <2>3. mark > 0 => digest.since = mark
    BY <1>1 DEF DigestInv, PeriodInv
  <2>4. mark \in 0..tick /\ txn[d].at \in 0..tick /\ tick \in Int /\ digest.since \in Int
    BY <2>2 DEF DigestInv, TypesInv, Txns, Digests
  <2> QED BY <2>1, <2>2, <2>3, <2>4
<1>3. CASE answer = "ok"
  <2>1. /\ repeated' = repeated \cup (covered \cap digest.seen)
        /\ covered' = covered \cup digest.seen /\ UNCHANGED unmarked
        /\ digest' = [digest EXCEPT !.at = "mark", !.upto = tick]
    BY <1>3 DEF SendMail, PeriodEnd
  <2>2. /\ digest' \in Digests /\ digest'.at = "mark" /\ digest'.seen = digest.seen
        /\ digest'.since = digest.since /\ digest'.upto = tick /\ digest.seen \subseteq Alerts
    <3>1. tick \in 0..tick
      BY DEF DigestInv, TypesInv
    <3>2. digest \in Digests
      BY DEF DigestInv, TypesInv
    <3> QED BY <2>1, <3>1, <3>2 DEF Digests
  <2>3. TypesInv'
    BY <1>1, <2>1, <2>2 DEF DigestInv, TypesInv, Txns, Digests
  <2>4. \A d \in Alerts : txn[d].at \in 0..tick
    BY DEF DigestInv, TypesInv, Txns
  <2>5. WrittenInv' /\ PeriodInv'
    BY <1>1, <2>1, <2>2, <2>4 DEF DigestInv, TypesInv, WrittenInv, WasCommitted, PeriodInv
  <2>6. PassedInv'
    BY <1>1, <2>1, <2>2 DEF DigestInv, PassedInv, WasCommitted
  <2>7. ListedInv'
    BY <1>1, <2>1, <2>2 DEF DigestInv, ListedInv
  <2> QED BY <1>2, <2>1, <2>3, <2>5, <2>6, <2>7 DEF DigestInv
<1>4. CASE answer = "refused"
  <2>1. UNCHANGED <<repeated, covered, unmarked>> /\ digest' = NoDigest
    BY <1>4 DEF SendMail
  <2>2. TypesInv'
    BY <1>1, <2>1 DEF DigestInv, TypesInv, Txns, Digests, NoDigest
  <2>3. WrittenInv' /\ PeriodInv' /\ PassedInv' /\ ListedInv'
    BY <1>1, <2>1 DEF DigestInv, WrittenInv, WasCommitted, PeriodInv, PassedInv, ListedInv, NoDigest
  <2> QED BY <2>1, <2>2, <2>3 DEF DigestInv
<1>5. CASE answer = "unanswered"
  <2>1. /\ repeated' = repeated \cup (covered \cap digest.seen)
        /\ covered' = covered \cup digest.seen /\ unmarked' = unmarked \cup digest.seen
        /\ digest' = NoDigest
    BY <1>5 DEF SendMail
  <2>2. digest.seen \subseteq Alerts
    BY DEF DigestInv, TypesInv, Digests
  <2>3. TypesInv'
    BY <1>1, <2>1, <2>2 DEF DigestInv, TypesInv, Txns, Digests, NoDigest
  <2>4. WrittenInv' /\ PeriodInv' /\ PassedInv'
    BY <1>1, <2>1 DEF DigestInv, WrittenInv, WasCommitted, PeriodInv, PassedInv, NoDigest
  <2>5. ListedInv'
    BY <1>1, <2>1 DEF DigestInv, ListedInv
  <2> QED BY <1>2, <2>1, <2>3, <2>4, <2>5 DEF DigestInv
<1> QED BY <1>3, <1>4, <1>5

\* The mark moves to the end of the period.
LEMMA StoreKeepsInv == DigestInv /\ StoreMark => DigestInv'
<1> SUFFICES ASSUME DigestInv, StoreMark PROVE DigestInv'
  OBVIOUS
<1>1. /\ digest.at = "mark" /\ mark' = digest.upto /\ digest' = NoDigest
      /\ UNCHANGED <<tick, txn, covered, repeated, unmarked, passed>>
  BY DEF StoreMark, MarkOf
<1>2. mark <= digest.upto /\ digest.upto \in 0..tick /\ mark \in 0..tick /\ tick \in Int
  BY <1>1 DEF DigestInv, PeriodInv, TypesInv, Digests
<1>3. TypesInv'
  BY <1>1, <1>2 DEF DigestInv, TypesInv, Txns, Digests, NoDigest
<1>4. WrittenInv' /\ PeriodInv' /\ PassedInv'
  BY <1>1 DEF DigestInv, WrittenInv, WasCommitted, PeriodInv, PassedInv, NoDigest
<1>5. ListedInv'
  <2> SUFFICES ASSUME NEW d \in covered \ unmarked PROVE txn[d].at <= digest.upto
    BY <1>1 DEF ListedInv
  <2>1. txn[d].at <= mark \/ d \in digest.seen
    BY DEF DigestInv, ListedInv
  <2>2. txn[d].at \in 0..tick
    BY DEF DigestInv, TypesInv, Txns
  <2> QED BY <1>1, <1>2, <2>1, <2>2 DEF DigestInv, PeriodInv
<1> QED BY <1>1, <1>3, <1>4, <1>5 DEF DigestInv

\* A digest that is lost: if its mail was sent, the mark of it is.
LEMMA LoseKeepsInv == DigestInv /\ LoseDigest => DigestInv'
<1> SUFFICES ASSUME DigestInv, LoseDigest PROVE DigestInv'
  OBVIOUS
<1>1. /\ digest' = NoDigest /\ UNCHANGED <<tick, txn, mark, covered, repeated, passed>>
      /\ unmarked' = IF digest.at = "mark" THEN unmarked \cup digest.seen ELSE unmarked
  BY DEF LoseDigest
<1>2. TypesInv'
  BY <1>1 DEF DigestInv, TypesInv, Txns, Digests, NoDigest
<1>3. WrittenInv' /\ PeriodInv' /\ PassedInv'
  BY <1>1 DEF DigestInv, WrittenInv, WasCommitted, PeriodInv, PassedInv, NoDigest
<1>4. ListedInv' /\ repeated' \subseteq unmarked'
  BY <1>1 DEF DigestInv, ListedInv
<1> QED BY <1>2, <1>3, <1>4 DEF DigestInv

\* The invariant is inductive: every step of NextDigest keeps it.
LEMMA StepKeepsInv == DigestInv /\ [NextDigest]_digestVars => DigestInv'
<1> SUFFICES ASSUME DigestInv, [NextDigest]_digestVars PROVE DigestInv'
  OBVIOUS
<1>1. CASE Tick
  BY <1>1, TickKeepsInv
<1>2. CASE StartDigest
  BY <1>2, StartKeepsInv
<1>3. CASE SelectDetections
  BY <1>3, SelectKeepsInv
<1>4. CASE StoreMark
  BY <1>4, StoreKeepsInv
<1>5. CASE LoseDigest
  BY <1>5, LoseKeepsInv
<1>6. CASE \E d \in Alerts : BeginWrite(d) \/ \E ok \in BOOLEAN : EndWrite(d, ok)
  BY <1>6, BeginKeepsInv, EndKeepsInv
<1>7. CASE \E answer \in {"ok", "refused", "unanswered"} : SendMail(answer)
  BY <1>7, SendKeepsInv
<1>8. CASE UNCHANGED digestVars
  BY <1>8 DEF digestVars, DigestInv, TypesInv, Txns, Digests, WrittenInv, WasCommitted,
              PeriodInv, PassedInv, ListedInv
<1> QED BY <1>1, <1>2, <1>3, <1>4, <1>5, <1>6, <1>7, <1>8 DEF NextDigest
-----------------------------------------------------------------------------
\* DigestTypeOK: times are not ahead of the clock, and what was repeated was listed.
THEOREM DigestTyping == SpecDigest => []DigestTypeOK
<1>1. DigestInv => DigestTypeOK
  <2> SUFFICES ASSUME DigestInv PROVE DigestTypeOK
    OBVIOUS
  <2>1. tick \in 1..MaxTick /\ 0..tick \subseteq 0..MaxTick /\ mark \in 0..MaxTick
    BY DigestAssumption DEF DigestInv, TypesInv
  <2>2. \A d \in Alerts : txn[d].is \in {"none", "running", "committed"} /\ txn[d].at \in 0..tick
    BY DEF DigestInv, TypesInv, Txns
  <2>3. digest.at \in {"idle", "query", "send", "mark"} /\ digest.seen \subseteq Alerts
    BY DEF DigestInv, TypesInv, Digests
  <2>4. repeated \subseteq covered /\ covered \cup passed \cup unmarked \subseteq Alerts
    BY DEF DigestInv, TypesInv, WrittenInv
  <2> QED BY <2>1, <2>2, <2>3, <2>4 DEF DigestTypeOK
<1> QED BY <1>1, InitHolds, StepKeepsInv, PTL DEF SpecDigest

\* DigestExplained, of _send_digest: whatever transactions of detections overlap with a
\* digest, and wherever mails and marks fail, a detection behind the mark was listed or
\* was committed after the SELECT, and is listed twice only when a mark was lost.
THEOREM DigestsExplained == SpecDigest => []DigestExplained
<1>1. DigestInv => DigestExplained
  <2> SUFFICES ASSUME DigestInv PROVE DigestExplained
    OBVIOUS
  <2>1. ASSUME NEW d \in Alerts, txn[d].is = "committed", txn[d].at <= mark, d \notin covered
        PROVE  d \in passed
    <3>1. txn[d].at \in 0..tick /\ mark \in 0..tick /\ tick \in Int
      BY DEF DigestInv, TypesInv, Txns
    <3> QED BY <2>1, <3>1 DEF DigestInv, PassedInv, WasCommitted
  <2> QED BY <2>1 DEF DigestInv, DigestExplained
<1> QED BY <1>1, InitHolds, StepKeepsInv, PTL DEF SpecDigest
-----------------------------------------------------------------------------
(* The five side by side *)

\* A step of NextResponse is a step of one module, and the others rest.
LEMMA EachResponds ==
  SpecResponse => SpecSend /\ SpecNotify /\ SpecDigest /\ SpecPosture /\ SpecIntel
<1>1. InitResponse => InitSend /\ InitNotify /\ InitDigest /\ InitPosture /\ InitIntel
  BY DEF InitResponse
<1>2. UNCHANGED responseVars =>
        UNCHANGED <<sendVars, notifyVars, digestVars, postureVars, intelVars>>
  BY DEF responseVars
<1>3. [NextResponse]_responseVars =>
        /\ [NextSend]_sendVars /\ [NextNotify]_notifyVars /\ [NextDigest]_digestVars
        /\ [NextPosture]_postureVars /\ [NextIntel]_intelVars
  BY <1>2 DEF NextResponse
<1> QED
  BY <1>1, <1>3, PTL DEF SpecResponse, SpecSend, SpecNotify, SpecDigest, SpecPosture, SpecIntel

\* The rows, mails, incidents and processes of what follows a detection keep their types:
\* delivery rows and detection rows have a status their CHECK constraints allow, and
\* attempts stay in bounds.
THEOREM ResponseTypesStay == SpecResponse => []ResponseTypeOK
<1>1. InitResponse => part \in Parts
  BY DEF InitResponse
<1>2. part \in Parts /\ [NextResponse]_responseVars => (part \in Parts)'
  <2>1. UNCHANGED responseVars => UNCHANGED part
    BY DEF responseVars
  <2> QED BY <2>1 DEF NextResponse
<1>3. /\ part \in Parts
      /\ SendTypeOK /\ NotifyTypeOK /\ DigestTypeOK /\ PostureTypeOK /\ IntelTypeOK
      => ResponseTypeOK
  <2>1. SUFFICES ASSUME part \in Parts, SendTypeOK, NotifyTypeOK, DigestTypeOK, PostureTypeOK,
                        IntelTypeOK
                 PROVE  ResponseTypeOK
    OBVIOUS
  <2>2. CASE part = "automation"
    BY <2>1, <2>2 DEF ResponseTypeOK
  <2>3. CASE part = "notify"
    BY <2>1, <2>3 DEF ResponseTypeOK
  <2>4. CASE part = "digest"
    BY <2>1, <2>4 DEF ResponseTypeOK
  <2>5. CASE part = "posture"
    BY <2>1, <2>5 DEF ResponseTypeOK
  <2>6. CASE part = "intel"
    BY <2>1, <2>6 DEF ResponseTypeOK
  <2> QED BY <2>1, <2>2, <2>3, <2>4, <2>5, <2>6, ResponseParts
<1>4. SpecResponse => [](part \in Parts)
  BY <1>1, <1>2, PTL DEF SpecResponse
<1> QED
  BY <1>3, <1>4, EachResponds, SendTypesStay, NotifyTypesStay, DigestTyping,
     PostureTypesStay, IntelTypesStay, PTL
=============================================================================
