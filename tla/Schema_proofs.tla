---------------------------- MODULE Schema_proofs ----------------------------
(***************************************************************************)
(* Proofs about Schema, and about all the modules of MCRecords side by     *)
(* side: whatever rows users write at whatever revision, an upgrade keeps  *)
(* them, and none of them keeps it from running.                           *)
(***************************************************************************)
EXTENDS MCRecords, Records_proofs, Answers_proofs
-----------------------------------------------------------------------------
(* The revisions *)

\* Neither ON CONFLICT DO UPDATE nor an UPDATE of rules.
TakesNothing(r) == ~r.overwrites /\ r.renames = {}

\* A revision that changes no CHECK and no row of ours.
Plain(r) ==
  /\ TakesNothing(r)
  /\ r.allows = <<>> /\ r.back = <<>> /\ r.unchecked = {}
  /\ r.rules = {} /\ r.source = "manual" /\ r.feeds = {} /\ r.roles = {} /\ r.heirOf = <<>>
  /\ <<"threat_intel_feeds", {"url"}>> \notin r.newKeys

LEMMA PlainRevisions ==
  \A r \in
    {R0004, R0005, R0006, R0007, R0008, R0013, R0014, R0015, R0016, R0017, R0018, R0019,
     R0022, R0023, R0024, R0025, R0027, R0028, R0029, R0030, R0031, R0032, R0034, R0035,
     R0036, R0037, R0038, R0040, R0041, R0042, R0044, R0045, R0046, R0047, R0048, R0049,
     R0050, R0051, R0052, R0053, R0054, R0057, R0058, R0059, R0062, R0064, R0065, R0066,
     R0067, R0068, R0070, R0072, R0073} : Plain(r)
<1>1. /\ Plain(R0004) /\ Plain(R0005) /\ Plain(R0006) /\ Plain(R0007) /\ Plain(R0008)
      /\ Plain(R0013) /\ Plain(R0014) /\ Plain(R0015) /\ Plain(R0016)
  BY DEF Plain, TakesNothing, Blank,
    R0004, R0005, R0006, R0007, R0008, R0013, R0014, R0015, R0016
<1>2. /\ Plain(R0017) /\ Plain(R0018) /\ Plain(R0019) /\ Plain(R0022) /\ Plain(R0023)
      /\ Plain(R0024) /\ Plain(R0025) /\ Plain(R0027) /\ Plain(R0028)
  BY DEF Plain, TakesNothing, Blank,
    R0017, R0018, R0019, R0022, R0023, R0024, R0025, R0027, R0028
<1>3. /\ Plain(R0029) /\ Plain(R0030) /\ Plain(R0031) /\ Plain(R0032) /\ Plain(R0034)
      /\ Plain(R0035) /\ Plain(R0036) /\ Plain(R0037) /\ Plain(R0038)
  BY DEF Plain, TakesNothing, Blank,
    R0029, R0030, R0031, R0032, R0034, R0035, R0036, R0037, R0038
<1>4. /\ Plain(R0040) /\ Plain(R0041) /\ Plain(R0042) /\ Plain(R0044) /\ Plain(R0045)
      /\ Plain(R0046) /\ Plain(R0047) /\ Plain(R0048) /\ Plain(R0049)
  BY DEF Plain, TakesNothing, Blank,
    R0040, R0041, R0042, R0044, R0045, R0046, R0047, R0048, R0049
<1>5. /\ Plain(R0050) /\ Plain(R0051) /\ Plain(R0052) /\ Plain(R0053) /\ Plain(R0054)
      /\ Plain(R0057) /\ Plain(R0058) /\ Plain(R0059) /\ Plain(R0062)
  BY DEF Plain, TakesNothing, Blank,
    R0050, R0051, R0052, R0053, R0054, R0057, R0058, R0059, R0062
<1>6. /\ Plain(R0064) /\ Plain(R0065) /\ Plain(R0066) /\ Plain(R0067)
      /\ Plain(R0068) /\ Plain(R0070) /\ Plain(R0072) /\ Plain(R0073)
  BY DEF Plain, TakesNothing, Blank,
    R0064, R0065, R0066, R0067, R0068, R0070, R0072, R0073
<1> QED BY <1>1, <1>2, <1>3, <1>4, <1>5, <1>6

\* The revisions that are not plain.
Special == {1, 2, 3, 9, 10, 11, 12, 20, 21, 26, 33, 39, 43, 55, 56, 60, 61, 63, 70}

LEMMA MostArePlain == \A n \in (1..72) \ Special : Plain(Revisions[n])
BY PlainRevisions DEF Special, Revisions

\* A revision overwrites and renames no rules but those that TakenOver has.
LEMMA RevisionsBySlug ==
  ASSUME NEW n \in DOMAIN Revisions, NEW r, r = Revisions[n]
  PROVE  /\ r.overwrites => \A rule \in r.rules : rule[1] \in TakenOver(n)
         /\ r.renames \subseteq TakenOver(n)
<1>1. DOMAIN Revisions = 1..72
  BY DEF Revisions
<1>2. CASE n \notin {43, 55, 56, 60, 61, 63}
  <2>1. CASE n \notin Special
    BY <1>1, <2>1, MostArePlain DEF Plain, TakesNothing
  <2>2. CASE n \in Special
    <3>1. /\ TakesNothing(R0001) /\ TakesNothing(R0002) /\ TakesNothing(R0003)
          /\ TakesNothing(R0009) /\ TakesNothing(R0010) /\ TakesNothing(R0011)
          /\ TakesNothing(R0012) /\ TakesNothing(R0020) /\ TakesNothing(R0021)
          /\ TakesNothing(R0026) /\ TakesNothing(R0033) /\ TakesNothing(R0039)
          /\ TakesNothing(R0071)
      BY DEF TakesNothing, Blank, R0001, R0002, R0003, R0009, R0010, R0011, R0012, R0020,
             R0021, R0026, R0033, R0039, R0071
    <3>2. TakesNothing(r)
      BY <1>2, <2>2, <3>1 DEF Special, Revisions
    <3> QED BY <3>2 DEF TakesNothing
  <2> QED BY <2>1, <2>2
<1>3. /\ Revisions[43] = R0043 /\ Revisions[55] = R0055 /\ Revisions[56] = R0056
      /\ Revisions[60] = R0060 /\ Revisions[61] = R0061 /\ Revisions[63] = R0063
  BY DEF Revisions
<1>4. /\ TakenOver(43) = {rule[1] : rule \in Ghas0043}
      /\ TakenOver(55) = {rule[1] : rule \in Projects0055}
      /\ TakenOver(61) = {rule[1] : rule \in Queues0061}
      /\ TakenOver(63) = {s[1] : s \in Posture0021}
  BY DEF TakenOver
<1>5. /\ R0043.rules = Ghas0043 /\ R0055.rules = Projects0055 /\ R0061.rules = Queues0061
      /\ R0056.rules = {} /\ R0060.rules = {} /\ R0063.overwrites = FALSE
  BY DEF R0043, R0055, R0056, R0060, R0061, R0063, Blank
<1>6. /\ R0043.renames = {} /\ R0055.renames = {} /\ R0061.renames = {}
      /\ R0056.renames = {} /\ R0060.renames = {}
      /\ R0063.renames = {s[1] : s \in Posture0021}
  BY DEF R0043, R0055, R0056, R0060, R0061, R0063, Blank
<1> QED BY <1>2, <1>3, <1>4, <1>5, <1>6
-----------------------------------------------------------------------------
(* Schema *)

\* The fields of rows.
Fielded(d) ==
  d = [rules |-> d.rules, fired |-> d.fired, feeds |-> d.feeds, playbooks |-> d.playbooks,
       executed |-> d.executed, roles |-> d.roles, assigned |-> d.assigned,
       sources |-> d.sources]

SchemaInv == Fielded(rows) /\ SchemaTypeOK

\* What upgrade() leaves alone, and what it makes of the rest.
LEMMA SeededFields ==
  ASSUME NEW d, Fielded(d), NEW r, NEW e, e = Seeded(d, r)
  PROVE  /\ Fielded(e)
         /\ e.fired = d.fired /\ e.executed = d.executed /\ e.sources = d.sources
         /\ e.playbooks = d.playbooks \cup r.playbooks
         /\ DOMAIN e.assigned = DOMAIN d.assigned
BY DEF Fielded, Seeded

LEMMA FeedsStay ==
  ASSUME NEW d, Fielded(d), NEW r, NEW e, e = Seeded(d, r), NEW feed \in d.feeds
  PROVE  \E f \in e.feeds : f.id = feed.id
<1>1. e.feeds = SeededFeeds(d, r)
  BY DEF Fielded, Seeded
<1>2. CASE feed.url \in r.feeds
  <2>1. [id |-> feed.id, url |-> feed.url, default |-> TRUE] \in e.feeds
    BY <1>1, <1>2 DEF SeededFeeds
  <2> QED BY <2>1
<1>3. CASE feed.url \notin r.feeds
  BY <1>1, <1>3 DEF SeededFeeds
<1> QED BY <1>2, <1>3

LEMMA MergedKeeps ==
  ASSUME NEW f, NEW g, NEW overwrites, NEW x \in DOMAIN f, overwrites => x \notin DOMAIN g
  PROVE  x \in DOMAIN Merged(f, g, overwrites) /\ Merged(f, g, overwrites)[x] = f[x]
BY DEF Merged, Atop

LEMMA RulesStay ==
  ASSUME NEW d, Fielded(d), NEW r, NEW e, e = Seeded(d, r), NEW slug \in DOMAIN d.rules,
         slug \notin r.renames, r.overwrites => \A rule \in r.rules : rule[1] # slug
  PROVE  e.rules[slug] = d.rules[slug]
<1>1. e.rules = SeededRules(d, r)
  BY DEF Fielded, Seeded
<1> DEFINE slugs == {rule[1] : rule \in r.rules}
           logic == [s \in slugs |-> (CHOOSE rule \in r.rules : rule[1] = s)[2]]
           kept == [s \in slugs |-> IF s \in DOMAIN d.rules THEN d.rules[s].source ELSE r.source]
           new == [s \in slugs |-> [logic |-> logic[s], text |-> "seeded", source |-> kept[s]]]
           rules == Merged(d.rules, new, r.overwrites)
<1>2. r.overwrites => slug \notin DOMAIN new
  OBVIOUS
<1>3. slug \in DOMAIN rules /\ rules[slug] = d.rules[slug]
  <2> HIDE DEF new
  <2> QED BY <1>2, MergedKeeps
<1>4. e.rules = [s \in DOMAIN rules |->
                  IF s \in r.renames THEN [rules[s] EXCEPT !.text = "renamed"] ELSE rules[s]]
  BY <1>1 DEF SeededRules
<1> HIDE DEF rules
<1> QED BY <1>3, <1>4

LEMMA UnseededFields ==
  ASSUME NEW d, NEW r, NEW e, e = Unseeded(d, r)
  PROVE  Fielded(e) /\ e.executed \subseteq e.playbooks
BY DEF Fielded, Unseeded

\* A row that the application writes.
LEMMA RowWritten ==
  ASSUME SchemaInv, NEW name, NEW d, Write(name, d), Fielded(d), d.executed \subseteq d.playbooks
  PROVE  SchemaInv' /\ revision' = revision
<1>1. /\ revision' = revision /\ rows' = d /\ writes < MaxWrites /\ writes' = writes + 1
      /\ Admits(schema, d) /\ schema' = schema
  BY DEF Write
<1>2. revision \in 0..HeadRevision /\ writes' \in 0..MaxWrites
  BY <1>1, SchemaAssumption DEF SchemaInv, SchemaTypeOK
<1>3. Admits(schema, rows)'
  BY <1>1
<1>4. Fielded(rows)' /\ (rows.executed \subseteq rows.playbooks)'
  BY <1>1
<1>5. HeadRevision' = HeadRevision /\ MaxWrites' = MaxWrites
  OBVIOUS
<1> QED BY <1>1, <1>2, <1>3, <1>4, <1>5 DEF SchemaInv, SchemaTypeOK

LEMMA OneField ==
  ASSUME NEW d, Fielded(d), d.executed \subseteq d.playbooks, NEW x, NEW e,
         \/ e = [d EXCEPT !.rules = x] \/ e = [d EXCEPT !.fired = x]
         \/ e = [d EXCEPT !.feeds = x] \/ e = [d EXCEPT !.assigned = x]
         \/ e = [d EXCEPT !.roles = x] \/ e = [d EXCEPT !.sources = x]
         \/ x \subseteq d.playbooks /\ e = [d EXCEPT !.executed = x]
  PROVE  Fielded(e) /\ e.executed \subseteq e.playbooks
BY DEF Fielded

LEMMA WritesKeep ==
  ASSUME SchemaInv, \/ OwnRule \/ EditRule \/ RuleFires \/ AddFeed
                    \/ Assign \/ CustomRole \/ Execute \/ StoreEvent
  PROVE  SchemaInv' /\ revision' = revision
<1>1. Fielded(rows) /\ rows.executed \subseteq rows.playbooks
  BY DEF SchemaInv, SchemaTypeOK
<1>2. PICK name, d, x :
        /\ Write(name, d)
        /\ \/ d = [rows EXCEPT !.rules = x] \/ d = [rows EXCEPT !.fired = x]
           \/ d = [rows EXCEPT !.feeds = x] \/ d = [rows EXCEPT !.assigned = x]
           \/ d = [rows EXCEPT !.roles = x] \/ d = [rows EXCEPT !.sources = x]
           \/ x \subseteq rows.playbooks /\ d = [rows EXCEPT !.executed = x]
  <2>1. CASE OwnRule BY <2>1 DEF OwnRule
  <2>2. CASE EditRule BY <2>2 DEF EditRule
  <2>3. CASE RuleFires BY <2>3 DEF RuleFires
  <2>4. CASE AddFeed BY <2>4 DEF AddFeed
  <2>5. CASE Assign BY <2>5 DEF Assign
  <2>6. CASE CustomRole BY <2>6 DEF CustomRole
  <2>7. CASE Execute
    <3> DEFINE slug == CHOOSE s \in rows.playbooks : TRUE
    <3>1. slug \in rows.playbooks
      BY <2>7 DEF Execute
    <3>2. rows.executed \cup {slug} \subseteq rows.playbooks
      BY <1>1, <3>1
    <3> QED BY <2>7, <3>2 DEF Execute
  <2>8. CASE StoreEvent BY <2>8 DEF StoreEvent
  <2> QED BY <2>1, <2>2, <2>3, <2>4, <2>5, <2>6, <2>7, <2>8
<1>3. Fielded(d) /\ d.executed \subseteq d.playbooks
  BY <1>1, <1>2, OneField
<1> QED BY <1>2, <1>3, RowWritten

LEMMA UpgradeStep ==
  ASSUME SchemaInv, Upgrade
  PROVE  /\ SchemaInv' /\ revision' = revision + 1
         /\ revision' \in DOMAIN Revisions /\ rows' = Seeded(rows, Revisions[revision'])
<1>1. revision \in 0..72 /\ HeadRevision = 72 /\ DOMAIN Revisions = 1..72
      /\ writes \in 0..MaxWrites
  BY DEF SchemaInv, SchemaTypeOK, HeadRevision, Revisions
<1>2. PICK r : r = Revisions[revision + 1]
  OBVIOUS
<1>3. /\ revision < HeadRevision /\ revision' = revision + 1 /\ writes' = writes
      /\ rows' = Seeded(rows, r) /\ Admits(Migrated(schema, r), Seeded(rows, r))
      /\ schema' = Migrated(schema, r)
  BY <1>2 DEF Upgrade, CanUpgrade, Following
<1>4. Admits(schema, rows)'
  BY <1>3
<1>5. PICK e : e = Seeded(rows, r)
  OBVIOUS
<1>6. Fielded(rows) /\ rows.executed \subseteq rows.playbooks
  BY DEF SchemaInv, SchemaTypeOK
<1>7. Fielded(e) /\ e.executed \subseteq e.playbooks
  BY <1>5, <1>6, SeededFields
<1>8. Fielded(rows)' /\ (rows.executed \subseteq rows.playbooks)'
  BY <1>3, <1>5, <1>7
<1>9. (revision \in 0..HeadRevision)' /\ (writes \in 0..MaxWrites)'
  BY <1>1, <1>3
<1> QED BY <1>1, <1>2, <1>3, <1>4, <1>8, <1>9 DEF SchemaInv, SchemaTypeOK

LEMMA DowngradeKeeps == ASSUME SchemaInv, Downgrade PROVE SchemaInv' /\ revision' < revision
<1>1. revision \in 0..HeadRevision /\ HeadRevision = 72 /\ writes \in 0..MaxWrites
  BY DEF SchemaInv, SchemaTypeOK, HeadRevision, Revisions
<1>2. PICK r : r = Revisions[revision]
  OBVIOUS
<1>3. /\ revision > 0 /\ revision' = revision - 1 /\ writes' = writes
      /\ rows' = Unseeded(rows, r) /\ Admits(Reverted(schema, r), Unseeded(rows, r))
      /\ schema' = Reverted(schema, r)
  BY <1>2 DEF Downgrade, CanDowngrade
<1>4. Admits(schema, rows)'
  BY <1>3
<1>5. PICK e : e = Unseeded(rows, r)
  OBVIOUS
<1>6. Fielded(e) /\ e.executed \subseteq e.playbooks
  BY <1>5, UnseededFields
<1>7. Fielded(rows)' /\ (rows.executed \subseteq rows.playbooks)'
  BY <1>3, <1>5, <1>6
<1>8. (revision \in 0..HeadRevision)' /\ (writes \in 0..MaxWrites)'
  BY <1>1, <1>3
<1> QED BY <1>1, <1>3, <1>4, <1>7, <1>8 DEF SchemaInv, SchemaTypeOK

LEMMA SchemaStart == ASSUME InitSchema PROVE SchemaInv
<1>1. revision \in 0..HeadRevision /\ writes \in 0..MaxWrites
  BY SchemaAssumption DEF InitSchema, HeadRevision, Revisions
<1>2. Fielded(NoRows) /\ NoRows.executed \subseteq NoRows.playbooks
  BY DEF Fielded, NoRows
<1>3. Admits(NoSchema, NoRows)
  BY DEF Admits, NoRows, NoSchema, Range
<1> QED BY <1>1, <1>2, <1>3 DEF InitSchema, SchemaInv, SchemaTypeOK

LEMMA SchemaStep == ASSUME SchemaInv, [NextSchema]_schemaVars PROVE SchemaInv'
<1>1. CASE UNCHANGED schemaVars
  <2>1. /\ rows' = rows /\ schema' = schema /\ revision' = revision /\ writes' = writes
    BY <1>1 DEF schemaVars
  <2>2. Admits(schema, rows)' = Admits(schema, rows) /\ Fielded(rows)' = Fielded(rows)
    BY <2>1
  <2> QED BY <2>1, <2>2 DEF SchemaInv, SchemaTypeOK
<1> QED BY <1>1, UpgradeStep, DowngradeKeeps, WritesKeep DEF NextSchema

\* The revision, the rows and the schema keep their types: a playbook that has an
\* execution exists, and the rows satisfy the CHECKs, the keys and the foreign keys of
\* the schema at every revision (alembic upgrade and downgrade, the application's writes).
THEOREM SchemaTyping == SpecSchema => []SchemaTypeOK
<1>1. InitSchema => SchemaInv
  BY SchemaStart
<1>2. SchemaInv => SchemaTypeOK
  BY DEF SchemaInv
<1> QED BY <1>1, <1>2, SchemaStep, PTL DEF SpecSchema

LEMMA StepKeepsRows ==
  ASSUME SchemaInv, NextSchema, revision' > revision
  PROVE  /\ \A slug \in DOMAIN rows.rules :
              rows.rules[slug].text = "own" =>
                \/ rows'.rules[slug] = rows.rules[slug]
                \/ slug \in TakenOver(revision')
         /\ DOMAIN rows'.assigned = DOMAIN rows.assigned
         /\ {feed.id : feed \in rows.feeds} \subseteq {feed.id : feed \in rows'.feeds}
         /\ rows'.fired = rows.fired /\ rows'.executed = rows.executed
         /\ rows'.sources = rows.sources
<1>1. Upgrade
  <2>1. revision \in Int /\ revision' \in Int
    BY SchemaStep DEF SchemaInv, SchemaTypeOK
  <2>2. ~ (revision' < revision) /\ revision' # revision
    BY <2>1
  <2> QED BY <2>2, DowngradeKeeps, WritesKeep DEF NextSchema
<1>2. PICK n : n = revision'
  OBVIOUS
<1>3. PICK r : r = Revisions[n]
  OBVIOUS
<1>4. PICK e : e = rows'
  OBVIOUS
<1>5. n \in DOMAIN Revisions /\ e = Seeded(rows, r) /\ Fielded(rows)
  BY <1>1, <1>2, <1>3, <1>4, UpgradeStep DEF SchemaInv
<1>6. ASSUME NEW slug \in DOMAIN rows.rules, slug \notin TakenOver(n)
      PROVE  e.rules[slug] = rows.rules[slug]
  <2>1. slug \notin r.renames /\ (r.overwrites => \A rule \in r.rules : rule[1] # slug)
    BY <1>3, <1>5, <1>6, RevisionsBySlug
  <2> QED BY <1>5, <2>1, RulesStay
<1>7. \A feed \in rows.feeds : \E f \in e.feeds : f.id = feed.id
  BY <1>5, FeedsStay
<1>8. /\ e.fired = rows.fired /\ e.executed = rows.executed /\ e.sources = rows.sources
      /\ DOMAIN e.assigned = DOMAIN rows.assigned
  BY <1>5, SeededFields
<1>9. {feed.id : feed \in rows.feeds} \subseteq {feed.id : feed \in e.feeds}
  BY <1>7
<1> QED BY <1>2, <1>4, <1>6, <1>8, <1>9

\* Whatever rows users wrote and at whatever revision, an upgrade loses none of them: a
\* rule keeps its text unless the revision is one that overwrites or renames it, and
\* assignments, feeds, detections, executions and events stay (upgrade() of all 72).
THEOREM UpgradesKeepRows == SpecSchema => UpgradeKeepsRows
<1>1. InitSchema => SchemaInv
  BY SchemaStart
<1>2. SchemaInv /\ [NextSchema]_schemaVars => SchemaInv'
  BY SchemaStep
<1>3. SchemaInv /\ [NextSchema]_schemaVars =>
        [revision' > revision =>
           /\ \A slug \in DOMAIN rows.rules :
                rows.rules[slug].text = "own" =>
                  \/ rows'.rules[slug] = rows.rules[slug]
                  \/ slug \in TakenOver(revision')
           /\ DOMAIN rows'.assigned = DOMAIN rows.assigned
           /\ {feed.id : feed \in rows.feeds} \subseteq {feed.id : feed \in rows'.feeds}
           /\ rows'.fired = rows.fired /\ rows'.executed = rows.executed
           /\ rows'.sources = rows.sources]_schemaVars
  BY StepKeepsRows
<1> QED BY <1>1, <1>2, <1>3, PTL DEF SpecSchema, UpgradeKeepsRows
-----------------------------------------------------------------------------
(* What a revision leaves to the next *)

\* The values that the CHECKs admit from a revision on.
Logic0012 == FirstLogic \cup {"cross_namespace_sequence"}
Logic0071 == Logic0020 \cup {"classification", "utilization_composite"}
OldRoles == {"analyst", "report_admin", "rule_author", "sys_admin"}
LogicAt(n) ==
  IF n < 12 THEN {FirstLogic, Logic0012}
  ELSE IF n < 20 THEN {Logic0012} ELSE IF n < 70 THEN {Logic0020} ELSE {Logic0071}
SourcesAt(n) ==
  IF n < 26 THEN StoreSources
  ELSE IF n < 33 THEN SyncSources ELSE SyncSources \cup {"hec", "webhook"}

ChecksFor(n, allows) ==
  n > 0 =>
    /\ {"logic_type", "ingestion_source"} \subseteq DOMAIN allows
    /\ allows["logic_type"] \in LogicAt(n) /\ allows["ingestion_source"] = SourcesAt(n)
    /\ "role_name" \in DOMAIN allows <=> n < 39
    /\ n < 39 => allows["role_name"] = OldRoles

\* Before 0001 there is no table, and no row.
FirstTables == {"rule_definitions", "events", "rbac_roles"}
NothingYet(n, s, d) ==
  n = 0 => /\ DOMAIN s.tables \cap FirstTables = {}
           /\ DOMAIN d.rules = {} /\ d.sources = {} /\ d.roles = {}

FeedsHaveTable(s, d) == d.feeds # {} => "threat_intel_feeds" \in DOMAIN s.tables

\* The fields of a rule.
Ruled(d) ==
  \A slug \in DOMAIN d.rules : LET rule == d.rules[slug] IN
    rule = [logic |-> rule.logic, text |-> rule.text, source |-> rule.source]

\* A rule of the release has a logic type that its own revision brought.
Postures == {s[1] : s \in Posture0021}
Released(n, slug, rule) ==
  rule.text # "own" =>
    /\ rule.logic = "posture" => n >= 21 /\ slug \in Postures
    /\ rule.logic \in {"classification", "utilization_composite"} => rule.source = "system"
RulesOfRelease(n, d) == \A slug \in DOMAIN d.rules : Released(n, slug, d.rules[slug])

RolesKnown(n, d) == n >= 39 => d.roles \subseteq CustomRoles \cup R0039.roles

RowsFit(n, s, d) ==
  /\ ChecksFor(n, s.allows) /\ NothingYet(n, s, d) /\ FeedsHaveTable(s, d)
  /\ Ruled(d) /\ RulesOfRelease(n, d) /\ RolesKnown(n, d)

FittingInv == SchemaInv /\ RowsFit(revision, schema, rows)
-----------------------------------------------------------------------------
-----------------------------------------------------------------------------
\* Three CHECKs are widened, and one is dropped, by a few revisions.
Checks(n, r) ==
  /\ n \notin {1, 12, 20, 70} =>
       "logic_type" \notin DOMAIN r.allows /\ "logic_type" \notin DOMAIN r.back
  /\ n \notin {1, 26, 33} =>
       "ingestion_source" \notin DOMAIN r.allows /\ "ingestion_source" \notin DOMAIN r.back
  /\ n \notin {1, 39} =>
       "role_name" \notin DOMAIN r.allows /\ "role_name" \notin DOMAIN r.back
  /\ r.unchecked = IF n = 39 THEN {"role_name"} ELSE {}

\* So are the rows of the release brought by a few.
Brings(n, r) ==
  /\ n \notin {12, 21, 70} => \A rule \in r.rules : rule[2] \in FirstLogic
  /\ n = 12 => \A rule \in r.rules : rule[2] = "cross_namespace_sequence"
  /\ n = 21 => r.rules = Posture0021
  /\ n = 70 => /\ ~r.overwrites
               /\ \A rule \in r.rules :
                    rule[2] \in FirstLogic \cup {"classification", "utilization_composite"}
  /\ r.renames = IF n = 63 THEN Postures ELSE {}
  /\ r.source = IF n = 70 THEN "system" ELSE "manual"
  /\ r.roles = IF n = 1 THEN OldRoles ELSE IF n = 39 THEN R0039.roles ELSE {}
  /\ r.heirOf = IF n = 39 THEN HeirOf0039 ELSE <<>>
  /\ n # 56 => r.feeds = {} /\ <<"threat_intel_feeds", {"url"}>> \notin r.newKeys

LEMMA RevisionsTold ==
  ASSUME NEW n \in 1..72, NEW r, r = Revisions[n] PROVE Checks(n, r) /\ Brings(n, r)
<1>1. /\ Revisions[1] = R0001 /\ Revisions[2] = R0002 /\ Revisions[3] = R0003
      /\ Revisions[9] = R0009 /\ Revisions[10] = R0010 /\ Revisions[11] = R0011
      /\ Revisions[12] = R0012 /\ Revisions[20] = R0020 /\ Revisions[21] = R0021
      /\ Revisions[26] = R0026 /\ Revisions[33] = R0033 /\ Revisions[39] = R0039
      /\ Revisions[43] = R0043 /\ Revisions[55] = R0055 /\ Revisions[56] = R0056
      /\ Revisions[60] = R0060 /\ Revisions[61] = R0061 /\ Revisions[63] = R0063
      /\ Revisions[70] = R0071
  BY DEF Revisions
<1>2. /\ Checks(1, R0001) /\ Checks(2, R0002) /\ Checks(3, R0003)
      /\ Checks(9, R0009) /\ Checks(10, R0010) /\ Checks(11, R0011)
  BY DEF Checks, Blank, R0001, R0002, R0003, R0009, R0010, R0011
<1>3. /\ Checks(12, R0012) /\ Checks(20, R0020) /\ Checks(21, R0021)
      /\ Checks(26, R0026) /\ Checks(33, R0033) /\ Checks(39, R0039)
  BY DEF Checks, Blank, R0012, R0020, R0021, R0026, R0033, R0039
<1>4. /\ Checks(43, R0043) /\ Checks(55, R0055) /\ Checks(56, R0056)
      /\ Checks(60, R0060) /\ Checks(61, R0061) /\ Checks(63, R0063)
      /\ Checks(70, R0071)
  BY DEF Checks, Blank, R0043, R0055, R0056, R0060, R0061, R0063, R0071
<1>5. /\ Brings(1, R0001) /\ Brings(2, R0002) /\ Brings(3, R0003)
      /\ Brings(9, R0009) /\ Brings(10, R0010) /\ Brings(11, R0011)
  BY DEF Brings, Blank, R0001, R0002, R0003, R0009, R0010, R0011,
         Checks0001, OldRoles, FirstLogic, Rules, Access0003, Bypass0003, Disabling0009,
         Exposure0009, Apps0010, Grants0010, Weakening0011, Copilot0011
<1>6. /\ Brings(12, R0012) /\ Brings(20, R0020) /\ Brings(21, R0021)
      /\ Brings(26, R0026) /\ Brings(33, R0033) /\ Brings(39, R0039)
  BY DEF Brings, Blank, R0012, R0020, R0021, R0026, R0033, R0039, Chains0012, Rules
<1>7. /\ Brings(43, R0043) /\ Brings(55, R0055) /\ Brings(56, R0056)
      /\ Brings(60, R0060) /\ Brings(61, R0061) /\ Brings(63, R0063)
      /\ Brings(70, R0071)
  BY DEF Brings, Blank, R0043, R0055, R0056, R0060, R0061, R0063, R0071,
         FirstLogic, Rules, Ghas0043, Projects0055, Queues0061, Postures, Personas0071,
         Actions0071, Usage0071
<1>8. CASE n \notin Special
  <2>1. Plain(r)
    BY <1>8, MostArePlain
  <2> QED BY <1>8, <2>1 DEF Plain, TakesNothing, Special, Checks, Brings
<1>9. CASE n \in Special
  BY <1>1, <1>2, <1>3, <1>4, <1>5, <1>6, <1>7, <1>9 DEF Special
<1> QED BY <1>8, <1>9

\* The CHECKs after upgrade() and after downgrade().
LEMMA CheckUp ==
  ASSUME NEW s, NEW r, NEW allows, allows = Migrated(s, r).allows, NEW c
  PROVE  /\ c \in DOMAIN r.allows => c \in DOMAIN allows /\ allows[c] = r.allows[c]
         /\ c \notin DOMAIN r.allows =>
              /\ c \in DOMAIN allows <=> c \in DOMAIN s.allows /\ c \notin r.unchecked
              /\ c \in DOMAIN allows => allows[c] = s.allows[c]
BY DEF Migrated, Atop, Restrict

LEMMA CheckDown ==
  ASSUME NEW s, NEW r, NEW allows, allows = Reverted(s, r).allows, NEW c
  PROVE  /\ c \in DOMAIN r.back => c \in DOMAIN allows /\ allows[c] = r.back[c]
         /\ c \notin DOMAIN r.back =>
              /\ c \in DOMAIN allows <=> c \in DOMAIN s.allows /\ c \notin DOMAIN r.allows
              /\ c \in DOMAIN allows => allows[c] = s.allows[c]
BY DEF Reverted, Atop, Restrict

LEMMA Widened ==
  /\ {"logic_type", "ingestion_source", "role_name"} \subseteq DOMAIN R0001.allows
  /\ R0001.allows["logic_type"] = FirstLogic /\ R0001.allows["ingestion_source"] = StoreSources
  /\ R0001.allows["role_name"] = OldRoles
  /\ DOMAIN R0012.allows = {"logic_type"} /\ R0012.allows["logic_type"] = Logic0012
  /\ DOMAIN R0012.back = {"logic_type"} /\ R0012.back["logic_type"] = Logic0012
  /\ DOMAIN R0020.allows = {"logic_type"} /\ R0020.allows["logic_type"] = Logic0020
  /\ DOMAIN R0020.back = {"logic_type"} /\ R0020.back["logic_type"] = Logic0012
  /\ DOMAIN R0071.allows = {"logic_type"} /\ R0071.allows["logic_type"] = Logic0071
  /\ DOMAIN R0071.back = {"logic_type"} /\ R0071.back["logic_type"] = Logic0020
  /\ DOMAIN R0026.allows = {"ingestion_source"} /\ R0026.allows["ingestion_source"] = SyncSources
  /\ DOMAIN R0026.back = {"ingestion_source"} /\ R0026.back["ingestion_source"] = StoreSources
  /\ DOMAIN R0033.allows = {"ingestion_source"}
  /\ R0033.allows["ingestion_source"] = SyncSources \cup {"hec", "webhook"}
  /\ DOMAIN R0033.back = {"ingestion_source"} /\ R0033.back["ingestion_source"] = SyncSources
  /\ DOMAIN R0039.allows = {} /\ DOMAIN R0039.back = {"role_name"}
  /\ R0039.back["role_name"] = OldRoles /\ DOMAIN HeirOf0039 = OldRoles
<1>1. /\ {"logic_type", "ingestion_source", "role_name"} \subseteq DOMAIN R0001.allows
      /\ R0001.allows["logic_type"] = FirstLogic
      /\ R0001.allows["ingestion_source"] = StoreSources
      /\ R0001.allows["role_name"] = OldRoles
  BY DEF R0001, Blank, Checks0001, OldRoles
<1>2. /\ DOMAIN R0012.allows = {"logic_type"} /\ R0012.allows["logic_type"] = Logic0012
      /\ DOMAIN R0012.back = {"logic_type"} /\ R0012.back["logic_type"] = Logic0012
      /\ DOMAIN R0020.allows = {"logic_type"} /\ R0020.allows["logic_type"] = Logic0020
      /\ DOMAIN R0020.back = {"logic_type"} /\ R0020.back["logic_type"] = Logic0012
      /\ DOMAIN R0071.allows = {"logic_type"} /\ R0071.allows["logic_type"] = Logic0071
      /\ DOMAIN R0071.back = {"logic_type"} /\ R0071.back["logic_type"] = Logic0020
  BY DEF R0012, R0020, R0071, Blank, Logic0012, Logic0020, Logic0071
<1>3. /\ DOMAIN R0026.allows = {"ingestion_source"}
      /\ R0026.allows["ingestion_source"] = SyncSources
      /\ DOMAIN R0026.back = {"ingestion_source"}
      /\ R0026.back["ingestion_source"] = StoreSources
      /\ DOMAIN R0033.allows = {"ingestion_source"}
      /\ R0033.allows["ingestion_source"] = SyncSources \cup {"hec", "webhook"}
      /\ DOMAIN R0033.back = {"ingestion_source"}
      /\ R0033.back["ingestion_source"] = SyncSources
  BY DEF R0026, R0033, Blank
<1>4. DOMAIN HeirOf0039 = OldRoles
  BY DEF HeirOf0039, OldRoles
<1>5. /\ DOMAIN R0039.allows = {} /\ DOMAIN R0039.back = {"role_name"}
      /\ R0039.back["role_name"] = OldRoles
  BY <1>4 DEF R0039, Blank
<1> QED BY <1>1, <1>2, <1>3, <1>4, <1>5

\* The rules after upgrade() and after downgrade().
LEMMA RulesUp ==
  ASSUME NEW d, Fielded(d), Ruled(d), NEW r, NEW e, e = Seeded(d, r), NEW slug \in DOMAIN e.rules,
         NEW rule, rule = e.rules[slug]
  PROVE  /\ rule = [logic |-> rule.logic, text |-> rule.text, source |-> rule.source]
         /\ \/ /\ slug \in DOMAIN d.rules
               /\ rule.logic = d.rules[slug].logic /\ rule.source = d.rules[slug].source
               /\ slug \notin r.renames => rule.text = d.rules[slug].text
            \/ /\ \E seed \in r.rules : seed[1] = slug /\ seed[2] = rule.logic
               /\ slug \in DOMAIN d.rules => r.overwrites
               /\ slug \notin DOMAIN d.rules => rule.source = r.source
<1>1. e.rules = SeededRules(d, r)
  BY DEF Fielded, Seeded
<1> DEFINE slugs == {seed[1] : seed \in r.rules}
           logic == [s \in slugs |-> (CHOOSE seed \in r.rules : seed[1] = s)[2]]
           kept == [s \in slugs |-> IF s \in DOMAIN d.rules THEN d.rules[s].source ELSE r.source]
           new == [s \in slugs |-> [logic |-> logic[s], text |-> "seeded", source |-> kept[s]]]
           rules == Merged(d.rules, new, r.overwrites)
<1>2. /\ DOMAIN e.rules = DOMAIN rules
      /\ e.rules[slug] = IF slug \in r.renames
                         THEN [rules[slug] EXCEPT !.text = "renamed"] ELSE rules[slug]
  <2>1. e.rules = [s \in DOMAIN rules |->
                     IF s \in r.renames THEN [rules[s] EXCEPT !.text = "renamed"] ELSE rules[s]]
    BY <1>1 DEF SeededRules
  <2> HIDE DEF rules
  <2> QED BY <2>1
<1>3. \/ slug \in DOMAIN d.rules /\ rules[slug] = d.rules[slug]
      \/ /\ slug \in DOMAIN new /\ rules[slug] = new[slug]
         /\ slug \in DOMAIN d.rules => r.overwrites
  <2>1. slug \in DOMAIN rules
    BY <1>2
  <2> HIDE DEF new
  <2> QED BY <2>1 DEF Merged, Atop
<1>4. CASE slug \in DOMAIN d.rules /\ rules[slug] = d.rules[slug]
  <2>1. PICK old : old = d.rules[slug]
    OBVIOUS
  <2>2. old = [logic |-> old.logic, text |-> old.text, source |-> old.source]
    BY <1>4, <2>1 DEF Ruled
  <2>3. rule = IF slug \in r.renames THEN [old EXCEPT !.text = "renamed"] ELSE old
    BY <1>2, <1>4, <2>1
  <2> HIDE DEF rules
  <2> QED BY <1>4, <2>1, <2>2, <2>3
<1>5. CASE /\ slug \in DOMAIN new /\ rules[slug] = new[slug]
           /\ slug \in DOMAIN d.rules => r.overwrites
  <2>1. PICK seed \in r.rules : seed[1] = slug /\ logic[slug] = seed[2]
    BY <1>5
  <2>2. PICK old : old = new[slug]
    OBVIOUS
  <2>3. /\ old = [logic |-> old.logic, text |-> old.text, source |-> old.source]
        /\ old.logic = seed[2] /\ old.source = kept[slug]
    BY <1>5, <2>1, <2>2
  <2>4. slug \notin DOMAIN d.rules => kept[slug] = r.source
    BY <1>5
  <2>5. rule = IF slug \in r.renames THEN [old EXCEPT !.text = "renamed"] ELSE old
    BY <1>2, <1>5, <2>2
  <2> HIDE DEF rules, new, kept
  <2> QED BY <1>5, <2>1, <2>3, <2>4, <2>5
<1> QED BY <1>3, <1>4, <1>5

LEMMA RulesDown ==
  ASSUME NEW d, Ruled(d), NEW r, NEW e, e = Unseeded(d, r), NEW slug \in DOMAIN e.rules,
         NEW rule, rule = e.rules[slug]
  PROVE  /\ rule = [logic |-> rule.logic, text |-> rule.text, source |-> rule.source]
         /\ slug \in DOMAIN d.rules
         /\ rule.logic = d.rules[slug].logic /\ rule.source = d.rules[slug].source
         /\ slug \notin r.renames => rule.text = d.rules[slug].text
         /\ "rule_definitions" \notin TableNames(Range(r.creates))
         /\ IF r.source = "system"
            THEN ~ (d.rules[slug].source = "system" /\ d.rules[slug].text # "own")
            ELSE \A seed \in r.rules : seed[1] # slug
<1> DEFINE gone == IF r.source = "system"
                   THEN {s \in DOMAIN d.rules :
                           d.rules[s].source = "system" /\ d.rules[s].text # "own"}
                   ELSE {seed[1] : seed \in r.rules}
           left == IF "rule_definitions" \in TableNames(Range(r.creates)) THEN {}
                   ELSE DOMAIN d.rules \ gone
<1>1. e.rules = [s \in left |-> IF s \in r.renames THEN [d.rules[s] EXCEPT !.text = "seeded"]
                                ELSE d.rules[s]]
  BY DEF Unseeded
<1>2. slug \in left
  <2> HIDE DEF left
  <2> QED BY <1>1
<1>3. /\ slug \in DOMAIN d.rules /\ "rule_definitions" \notin TableNames(Range(r.creates))
      /\ slug \notin gone
  BY <1>2
<1>4. PICK old : old = d.rules[slug]
  OBVIOUS
<1>5. old = [logic |-> old.logic, text |-> old.text, source |-> old.source]
  BY <1>3, <1>4 DEF Ruled
<1>6. rule = IF slug \in r.renames THEN [old EXCEPT !.text = "seeded"] ELSE old
  <2> HIDE DEF left
  <2> QED BY <1>1, <1>2, <1>4
<1>7. /\ rule = [logic |-> rule.logic, text |-> rule.text, source |-> rule.source]
      /\ rule.logic = old.logic /\ rule.source = old.source
      /\ slug \notin r.renames => rule.text = old.text
  BY <1>5, <1>6
<1>8. IF r.source = "system"
      THEN ~ (d.rules[slug].source = "system" /\ d.rules[slug].text # "own")
      ELSE \A seed \in r.rules : seed[1] # slug
  BY <1>3
<1> QED BY <1>3, <1>4, <1>7, <1>8

LEMMA ChecksUp ==
  ASSUME NEW n \in 0..71, NEW s, ChecksFor(n, s.allows), NEW r, r = Revisions[n + 1],
         NEW allows, allows = Migrated(s, r).allows
  PROVE  ChecksFor(n + 1, allows)
<1>1. Checks(n + 1, r)
  BY RevisionsTold
<1>2. \A c : /\ c \in DOMAIN r.allows => c \in DOMAIN allows /\ allows[c] = r.allows[c]
             /\ c \notin DOMAIN r.allows =>
                  /\ c \in DOMAIN allows <=> c \in DOMAIN s.allows /\ c \notin r.unchecked
                  /\ c \in DOMAIN allows => allows[c] = s.allows[c]
  BY CheckUp
<1>3. /\ Revisions[1] = R0001 /\ Revisions[12] = R0012 /\ Revisions[20] = R0020
      /\ Revisions[70] = R0071 /\ Revisions[26] = R0026 /\ Revisions[33] = R0033
      /\ Revisions[39] = R0039
  BY DEF Revisions
<1>4. "logic_type" \in DOMAIN allows /\ allows["logic_type"] \in LogicAt(n + 1)
  <2>1. CASE n + 1 \in {1, 12, 20, 70}
    BY <1>2, <1>3, <2>1, Widened DEF LogicAt
  <2>2. CASE n + 1 \notin {1, 12, 20, 70}
    <3>1. "logic_type" \notin DOMAIN r.allows /\ "logic_type" \notin r.unchecked /\ n > 0
      BY <1>1, <2>2 DEF Checks
    <3>2. LogicAt(n + 1) = LogicAt(n)
      BY <2>2 DEF LogicAt
    <3> QED BY <1>2, <3>1, <3>2 DEF ChecksFor
  <2> QED BY <2>1, <2>2
<1>5. "ingestion_source" \in DOMAIN allows /\ allows["ingestion_source"] = SourcesAt(n + 1)
  <2>1. CASE n + 1 \in {1, 26, 33}
    <3>1. /\ SourcesAt(1) = StoreSources /\ SourcesAt(26) = SyncSources
          /\ SourcesAt(33) = SyncSources \cup {"hec", "webhook"}
      BY DEF SourcesAt
    <3>2. \/ n + 1 = 1 /\ r = R0001
          \/ n + 1 = 26 /\ r = R0026
          \/ n + 1 = 33 /\ r = R0033
      BY <1>3, <2>1
    <3>3. /\ "ingestion_source" \in DOMAIN r.allows
          /\ r.allows["ingestion_source"] = SourcesAt(n + 1)
      BY <3>1, <3>2, Widened
    <3> QED BY <1>2, <3>3
  <2>2. CASE n + 1 \notin {1, 26, 33}
    <3>1. "ingestion_source" \notin DOMAIN r.allows /\ "ingestion_source" \notin r.unchecked /\ n > 0
      BY <1>1, <2>2 DEF Checks
    <3>2. SourcesAt(n + 1) = SourcesAt(n)
      BY <2>2 DEF SourcesAt
    <3> QED BY <1>2, <3>1, <3>2 DEF ChecksFor
  <2> QED BY <2>1, <2>2
<1>6. /\ "role_name" \in DOMAIN allows <=> n + 1 < 39
      /\ n + 1 < 39 => allows["role_name"] = OldRoles
  <2>1. CASE n + 1 = 1
    BY <1>2, <1>3, <2>1, Widened
  <2>2. CASE n + 1 = 39
    <3>1. "role_name" \notin DOMAIN r.allows /\ "role_name" \in r.unchecked
      BY <1>1, <1>3, <2>2, Widened DEF Checks
    <3> QED BY <1>2, <2>2, <3>1
  <2>3. CASE n + 1 \notin {1, 39}
    <3>1. "role_name" \notin DOMAIN r.allows /\ "role_name" \notin r.unchecked /\ n > 0
      BY <1>1, <2>3 DEF Checks
    <3> QED BY <1>2, <2>3, <3>1 DEF ChecksFor
  <2> QED BY <2>1, <2>2, <2>3
<1> QED BY <1>4, <1>5, <1>6 DEF ChecksFor

LEMMA ChecksDown ==
  ASSUME NEW n \in 1..72, NEW s, ChecksFor(n, s.allows), NEW r, r = Revisions[n],
         NEW allows, allows = Reverted(s, r).allows
  PROVE  ChecksFor(n - 1, allows)
<1> SUFFICES ASSUME n > 1 PROVE ChecksFor(n - 1, allows)
  BY DEF ChecksFor
<1>1. Checks(n, r)
  BY RevisionsTold
<1>2. \A c : /\ c \in DOMAIN r.back => c \in DOMAIN allows /\ allows[c] = r.back[c]
             /\ c \notin DOMAIN r.back =>
                  /\ c \in DOMAIN allows <=> c \in DOMAIN s.allows /\ c \notin DOMAIN r.allows
                  /\ c \in DOMAIN allows => allows[c] = s.allows[c]
  BY CheckDown
<1>3. /\ Revisions[12] = R0012 /\ Revisions[20] = R0020 /\ Revisions[70] = R0071
      /\ Revisions[26] = R0026 /\ Revisions[33] = R0033 /\ Revisions[39] = R0039
  BY DEF Revisions
<1>4. "logic_type" \in DOMAIN allows /\ allows["logic_type"] \in LogicAt(n - 1)
  <2>1. CASE n \in {12, 20, 70}
    BY <1>2, <1>3, <2>1, Widened DEF LogicAt
  <2>2. CASE n \notin {12, 20, 70}
    <3>1. "logic_type" \notin DOMAIN r.allows /\ "logic_type" \notin DOMAIN r.back
      BY <1>1, <2>2 DEF Checks
    <3>2. LogicAt(n - 1) = LogicAt(n)
      BY <2>2 DEF LogicAt
    <3> QED BY <1>2, <3>1, <3>2 DEF ChecksFor
  <2> QED BY <2>1, <2>2
<1>5. "ingestion_source" \in DOMAIN allows /\ allows["ingestion_source"] = SourcesAt(n - 1)
  <2>1. CASE n \in {26, 33}
    BY <1>2, <1>3, <2>1, Widened DEF SourcesAt
  <2>2. CASE n \notin {26, 33}
    <3>1. "ingestion_source" \notin DOMAIN r.allows /\ "ingestion_source" \notin DOMAIN r.back
      BY <1>1, <2>2 DEF Checks
    <3>2. SourcesAt(n - 1) = SourcesAt(n)
      BY <2>2 DEF SourcesAt
    <3> QED BY <1>2, <3>1, <3>2 DEF ChecksFor
  <2> QED BY <2>1, <2>2
<1>6. /\ "role_name" \in DOMAIN allows <=> n - 1 < 39
      /\ n - 1 < 39 => allows["role_name"] = OldRoles
  <2>1. CASE n = 39
    BY <1>2, <1>3, <2>1, Widened
  <2>2. CASE n # 39
    <3>1. "role_name" \notin DOMAIN r.allows /\ "role_name" \notin DOMAIN r.back
      BY <1>1, <2>2 DEF Checks
    <3> QED BY <1>2, <2>2, <3>1 DEF ChecksFor
  <2> QED BY <2>1, <2>2
<1> QED BY <1>4, <1>5, <1>6 DEF ChecksFor

\* 0001 creates the tables of rules, events and roles.
LEMMA InConcat ==
  ASSUME NEW S, NEW a \in Seq(S), NEW b \in Seq(S)
  PROVE  a \o b \in Seq(S) /\ Range(a) \subseteq Range(a \o b) /\ Range(b) \subseteq Range(a \o b)
<1>1. /\ a \o b \in Seq(S) /\ Len(a \o b) = Len(a) + Len(b)
      /\ \A i \in 1..Len(a) + Len(b) : (a \o b)[i] = IF i <= Len(a) THEN a[i] ELSE b[i - Len(a)]
  BY ConcatProperties
<1>2. Len(a) \in Nat /\ Len(b) \in Nat
  OBVIOUS
<1>3. ASSUME NEW i \in DOMAIN a PROVE a[i] \in Range(a \o b)
  <2>1. i \in DOMAIN (a \o b) /\ (a \o b)[i] = a[i]
    BY <1>1, <1>2
  <2> QED BY <2>1 DEF Range
<1>4. ASSUME NEW i \in DOMAIN b PROVE b[i] \in Range(a \o b)
  <2>1. PICK k : k = Len(a) + i
    OBVIOUS
  <2>2. k \in DOMAIN (a \o b) /\ (a \o b)[k] = b[i]
    BY <1>1, <1>2, <2>1
  <2> QED BY <2>2 DEF Range
<1> QED BY <1>1, <1>3, <1>4 DEF Range

LEMMA TableNamed == \A name, columns, keys, refs : Table(name, columns, keys, refs).name = name
BY DEF Table, Keyless

LEMMA FirstCreates == FirstTables \subseteq TableNames(Range(R0001.creates))
<1>1. \E a, b, c, d : Events0001 = <<a, b, c, d>> /\ a.name = "events"
  <2>1. Events0001 = <<Events0001[1], Events0001[2], Events0001[3], Events0001[4]>>
    BY DEF Events0001
  <2>2. Events0001[1].name = "events"
    BY TableNamed DEF Events0001
  <2> QED BY <2>1, <2>2
<1>2. \E a, b : Roles0001 = <<a, b>> /\ a.name = "rbac_roles"
  <2>1. Roles0001 = <<Roles0001[1], Roles0001[2]>>
    BY DEF Roles0001
  <2>2. Roles0001[1].name = "rbac_roles"
    BY TableNamed DEF Roles0001
  <2> QED BY <2>1, <2>2
<1>3. \E a, b, c : Rules0001 = <<a, b, c>> /\ a.name = "rule_definitions"
  <2>1. Rules0001 = <<Rules0001[1], Rules0001[2], Rules0001[3]>>
    BY DEF Rules0001
  <2>2. Rules0001[1].name = "rule_definitions"
    BY TableNamed DEF Rules0001
  <2> QED BY <2>1, <2>2
<1>4. \E a, b, c : Detections0001 = <<a, b, c>>
  <2>1. Detections0001 = <<Detections0001[1], Detections0001[2], Detections0001[3]>>
    BY DEF Detections0001
  <2> QED BY <2>1
<1>5. \E a, b, c, d, e : Integrations0001 = <<a, b, c, d, e>>
  <2>1. Integrations0001 =
          <<Integrations0001[1], Integrations0001[2], Integrations0001[3], Integrations0001[4],
            Integrations0001[5]>>
    BY DEF Integrations0001
  <2> QED BY <2>1
<1>6. R0001.creates = Events0001 \o Roles0001 \o Rules0001 \o Detections0001 \o Integrations0001
  BY DEF R0001, Blank
<1>7. PICK e1, e2, e3, e4 : Events0001 = <<e1, e2, e3, e4>> /\ e1.name = "events"
  BY <1>1
<1>8. PICK a1, a2 : Roles0001 = <<a1, a2>> /\ a1.name = "rbac_roles"
  BY <1>2
<1>9. PICK r1, r2, r3 : Rules0001 = <<r1, r2, r3>> /\ r1.name = "rule_definitions"
  BY <1>3
<1>10. PICK d1, d2, d3 : Detections0001 = <<d1, d2, d3>>
  BY <1>4
<1>11. PICK i1, i2, i3, i4, i5 : Integrations0001 = <<i1, i2, i3, i4, i5>>
  BY <1>5
<1> DEFINE S == {e1, e2, e3, e4, a1, a2, r1, r2, r3, d1, d2, d3, i1, i2, i3, i4, i5}
<1>12. /\ Events0001 \in Seq(S) /\ Roles0001 \in Seq(S) /\ Rules0001 \in Seq(S)
       /\ Detections0001 \in Seq(S) /\ Integrations0001 \in Seq(S)
  BY <1>7, <1>8, <1>9, <1>10, <1>11
<1>13. e1 \in Range(Events0001) /\ a1 \in Range(Roles0001) /\ r1 \in Range(Rules0001)
  BY <1>7, <1>8, <1>9 DEF Range
<1> HIDE DEF S
<1>14. /\ Range(Events0001) \subseteq Range(R0001.creates)
       /\ Range(Roles0001) \subseteq Range(R0001.creates)
       /\ Range(Rules0001) \subseteq Range(R0001.creates)
  <2>1. PICK a : a = Events0001 \o Roles0001
    OBVIOUS
  <2>2. PICK b : b = a \o Rules0001
    OBVIOUS
  <2>3. PICK c : c = b \o Detections0001
    OBVIOUS
  <2>4. a \in Seq(S) /\ Range(Events0001) \subseteq Range(a) /\ Range(Roles0001) \subseteq Range(a)
    BY <1>12, <2>1, InConcat
  <2>5. b \in Seq(S) /\ Range(a) \subseteq Range(b) /\ Range(Rules0001) \subseteq Range(b)
    BY <1>12, <2>2, <2>4, InConcat
  <2>6. c \in Seq(S) /\ Range(b) \subseteq Range(c)
    BY <1>12, <2>3, <2>5, InConcat
  <2>7. Range(c) \subseteq Range(c \o Integrations0001)
    BY <1>12, <2>6, InConcat
  <2>8. R0001.creates = c \o Integrations0001
    BY <1>6, <2>1, <2>2, <2>3
  <2> QED BY <2>4, <2>5, <2>6, <2>7, <2>8
<1> QED BY <1>7, <1>8, <1>9, <1>13, <1>14 DEF FirstTables, TableNames

\* An upgrade leaves the rows fit for the next revision.
LEMMA MostStay ==
  ASSUME NEW n \in 0..71, NEW r, r = Revisions[n + 1], NEW s, ChecksFor(n, s.allows), n > 0,
         NEW t, t = Migrated(s, r), NEW x
  PROVE  /\ x \in s.allows["logic_type"] => x \in t.allows["logic_type"]
         /\ x \in s.allows["ingestion_source"] => x \in t.allows["ingestion_source"]
<1>1. PICK allows : allows = t.allows
  OBVIOUS
<1>2. ChecksFor(n + 1, allows) /\ Checks(n + 1, r)
  BY <1>1, ChecksUp, RevisionsTold
<1>3. CASE n + 1 \in {12, 20, 70}
  <2>1. x \in s.allows["logic_type"] => x \in allows["logic_type"]
    BY <1>2, <1>3 DEF ChecksFor, LogicAt, Logic0012, Logic0020, Logic0071
  <2> QED BY <1>1, <1>2, <1>3, <2>1, CheckUp DEF ChecksFor, SourcesAt
<1>4. CASE n + 1 \in {26, 33}
  <2>1. x \in s.allows["ingestion_source"] => x \in allows["ingestion_source"]
    BY <1>2, <1>4 DEF ChecksFor, SourcesAt, SyncSources
  <2>2. "logic_type" \notin DOMAIN r.allows
    BY <1>2, <1>4 DEF Checks
  <2> QED BY <1>1, <1>2, <2>1, <2>2, CheckUp DEF ChecksFor
<1>5. CASE n + 1 \notin {12, 20, 26, 33, 70}
  <2>1. "logic_type" \notin DOMAIN r.allows /\ "ingestion_source" \notin DOMAIN r.allows
    BY <1>2, <1>5 DEF Checks
  <2> QED BY <1>1, <1>2, <2>1, CheckUp DEF ChecksFor
<1> QED BY <1>3, <1>4, <1>5

LEMMA FieldsUp ==
  ASSUME NEW d, Fielded(d), NEW r, NEW e, e = Seeded(d, r)
  PROVE  /\ e.roles = (d.roles \cup r.roles) \ DOMAIN r.heirOf
         /\ e.feeds = SeededFeeds(d, r)
         /\ DOMAIN e.assigned = DOMAIN d.assigned
         /\ \A k \in DOMAIN d.assigned : e.assigned[k] = Heir(d.assigned[k], r)
         /\ DOMAIN d.rules \subseteq DOMAIN e.rules
<1>1. e.rules = SeededRules(d, r)
  BY DEF Fielded, Seeded
<1> DEFINE slugs == {seed[1] : seed \in r.rules}
           logic == [s \in slugs |-> (CHOOSE seed \in r.rules : seed[1] = s)[2]]
           kept == [s \in slugs |-> IF s \in DOMAIN d.rules THEN d.rules[s].source ELSE r.source]
           new == [s \in slugs |-> [logic |-> logic[s], text |-> "seeded", source |-> kept[s]]]
<1>2. DOMAIN d.rules \subseteq DOMAIN e.rules
  <2>1. DOMAIN e.rules = DOMAIN Merged(d.rules, new, r.overwrites)
    BY <1>1 DEF SeededRules
  <2> HIDE DEF new
  <2> QED BY <2>1 DEF Merged, Atop
<1>3. e.roles = (d.roles \cup r.roles) \ DOMAIN r.heirOf /\ e.feeds = SeededFeeds(d, r)
  BY DEF Fielded, Seeded
<1>4. e.assigned = [k \in DOMAIN d.assigned |-> Heir(d.assigned[k], r)]
  BY DEF Fielded, Seeded
<1> QED BY <1>2, <1>3, <1>4

LEMMA OneUrl ==
  ASSUME NEW s, NEW d, Admits(s, d), <<"threat_intel_feeds", {"url"}>> \in s.keys
  PROVE  \A f, g \in d.feeds : f.url = g.url => f = g
BY DEF Admits

LEMMA FitUp ==
  ASSUME NEW n \in 0..71, NEW r, r = Revisions[n + 1],
         NEW s, NEW d, Fielded(d), RowsFit(n, s, d), Admits(s, d), Builds(s, r),
         NEW t, t = Migrated(s, r), NEW e, e = Seeded(d, r)
  PROVE  RowsFit(n + 1, t, e)
<1>1. Brings(n + 1, r)
  BY RevisionsTold
<1>2. ChecksFor(n + 1, t.allows)
  BY ChecksUp DEF RowsFit
<1>3. NothingYet(n + 1, t, e)
  BY DEF NothingYet
<1>4. FeedsHaveTable(t, e)
  <2>1. DOMAIN s.tables \subseteq DOMAIN t.tables
    BY DEF Migrated, Atop
  <2>2. CASE r.feeds = {}
    <3>1. e.feeds = SeededFeeds(d, r)
      BY FieldsUp
    <3>2. d.feeds = {} => SeededFeeds(d, r) = {}
      BY <2>2 DEF SeededFeeds
    <3> QED BY <2>1, <3>1, <3>2 DEF RowsFit, FeedsHaveTable
  <2>3. CASE r.feeds # {}
    <3>1. r = R0056
      <4>1. n + 1 = 56
        BY <1>1, <2>3 DEF Brings
      <4>2. Revisions[56] = R0056
        BY DEF Revisions
      <4> QED BY <4>1, <4>2
    <3>2. <<"threat_intel_feeds", "is_default">> \in r.adds
      BY <3>1 DEF R0056, Blank
    <3>3. "threat_intel_feeds" \in DOMAIN t.tables
      BY <3>2 DEF Builds
    <3> QED BY <3>3 DEF FeedsHaveTable
  <2> QED BY <2>2, <2>3
<1>5. Ruled(e)
  BY RulesUp DEF RowsFit, Ruled
<1>6. ASSUME NEW slug \in DOMAIN e.rules, NEW rule, rule = e.rules[slug]
      PROVE  Released(n + 1, slug, rule)
  <2>1. CASE /\ slug \in DOMAIN d.rules
             /\ rule.logic = d.rules[slug].logic /\ rule.source = d.rules[slug].source
             /\ slug \notin r.renames => rule.text = d.rules[slug].text
    <3>1. Released(n, slug, d.rules[slug])
      BY <2>1 DEF RowsFit, RulesOfRelease
    <3>2. CASE slug \notin r.renames
      BY <2>1, <3>1, <3>2 DEF Released
    <3>3. CASE slug \in r.renames
      <4>1. n = 62 /\ slug \in Postures
        BY <1>1, <3>3 DEF Brings
      <4>2. rule.logic \in Logic0020
        BY <2>1, <4>1 DEF Admits, RowsFit, ChecksFor, LogicAt
      <4>3. rule.logic \notin {"classification", "utilization_composite"}
        BY <4>2 DEF Logic0020, FirstLogic
      <4> QED BY <4>1, <4>3 DEF Released
    <3> QED BY <3>2, <3>3
  <2>2. CASE /\ \E seed \in r.rules : seed[1] = slug /\ seed[2] = rule.logic
             /\ slug \in DOMAIN d.rules => r.overwrites
             /\ slug \notin DOMAIN d.rules => rule.source = r.source
    <3>1. PICK seed \in r.rules : seed[1] = slug /\ seed[2] = rule.logic
      BY <2>2
    <3>2. CASE n + 1 = 21
      <4>1. seed \in Posture0021 /\ slug \in Postures
        BY <1>1, <3>1, <3>2 DEF Brings, Postures
      <4>2. seed[2] = "posture"
        BY <4>1 DEF Posture0021, Rules
      <4> QED BY <3>1, <3>2, <4>1, <4>2 DEF Released
    <3>3. CASE n + 1 = 70
      BY <1>1, <2>2, <3>1, <3>3 DEF Brings, Released, FirstLogic
    <3>4. CASE n + 1 \notin {21, 70}
      BY <1>1, <3>1, <3>4 DEF Brings, Released, FirstLogic
    <3> QED BY <3>2, <3>3, <3>4
  <2>3. Ruled(d)
    BY DEF RowsFit
  <2>4. \/ /\ slug \in DOMAIN d.rules
           /\ rule.logic = d.rules[slug].logic /\ rule.source = d.rules[slug].source
           /\ slug \notin r.renames => rule.text = d.rules[slug].text
        \/ /\ \E seed \in r.rules : seed[1] = slug /\ seed[2] = rule.logic
           /\ slug \in DOMAIN d.rules => r.overwrites
           /\ slug \notin DOMAIN d.rules => rule.source = r.source
    BY <1>6, <2>3, RulesUp
  <2> QED BY <2>1, <2>2, <2>4
<1>7. RolesKnown(n + 1, e)
  <2>1. CASE n + 1 < 39
    BY <2>1 DEF RolesKnown
  <2>2. CASE n + 1 = 39
    <3>1. d.roles \subseteq OldRoles
      BY <2>2 DEF Admits, RowsFit, ChecksFor
    <3>2. r.roles = R0039.roles /\ DOMAIN r.heirOf = OldRoles
      BY <1>1, <2>2, Widened DEF Brings
    <3> QED BY <3>1, <3>2, FieldsUp DEF RolesKnown
  <2>3. CASE n + 1 > 39
    <3>1. r.roles = {}
      BY <1>1, <2>3 DEF Brings
    <3>2. e.roles \subseteq d.roles
      BY <3>1, FieldsUp
    <3> QED BY <2>3, <3>2 DEF RowsFit, RolesKnown
  <2> QED BY <2>1, <2>2, <2>3
<1> QED BY <1>2, <1>3, <1>4, <1>5, <1>6, <1>7 DEF RowsFit, RulesOfRelease

LEMMA AdmitsUp ==
  ASSUME NEW n \in 0..71, NEW r, r = Revisions[n + 1],
         NEW s, NEW d, Fielded(d), RowsFit(n, s, d), Admits(s, d), Builds(s, r),
         n = 55 => \A f, g \in d.feeds : f.url = g.url => f = g,
         NEW t, t = Migrated(s, r), NEW e, e = Seeded(d, r)
  PROVE  Admits(t, e)
<1>1. Brings(n + 1, r)
  BY RevisionsTold
<1>2. ChecksFor(n + 1, t.allows)
  BY ChecksUp DEF RowsFit
<1>3. ASSUME NEW slug \in DOMAIN e.rules PROVE e.rules[slug].logic \in t.allows["logic_type"]
  <2>1. PICK rule : rule = e.rules[slug]
    OBVIOUS
  <2>2. CASE slug \in DOMAIN d.rules /\ rule.logic = d.rules[slug].logic
    <3>1. n > 0
      BY <2>2 DEF RowsFit, NothingYet
    <3>2. d.rules[slug].logic \in s.allows["logic_type"]
      BY <2>2, <3>1 DEF Admits, RowsFit, ChecksFor
    <3> QED BY <2>1, <2>2, <3>1, <3>2, MostStay DEF RowsFit
  <2>3. CASE \E seed \in r.rules : seed[1] = slug /\ seed[2] = rule.logic
    <3>1. PICK seed \in r.rules : seed[2] = rule.logic
      BY <2>3
    <3>2. CASE n + 1 \notin {12, 21, 70}
      <4>1. rule.logic \in FirstLogic
        BY <1>1, <3>1, <3>2 DEF Brings
      <4> QED BY <1>2, <2>1, <4>1 DEF ChecksFor, LogicAt, Logic0012, Logic0020, Logic0071
    <3>3. CASE n + 1 = 12
      <4>1. rule.logic = "cross_namespace_sequence"
        BY <1>1, <3>1, <3>3 DEF Brings
      <4> QED BY <1>2, <2>1, <3>3, <4>1 DEF ChecksFor, LogicAt, Logic0012
    <3>4. CASE n + 1 = 21
      <4>1. rule.logic = "posture"
        <5>1. seed \in Posture0021
          BY <1>1, <3>1, <3>4 DEF Brings
        <5> QED BY <3>1, <5>1 DEF Posture0021, Rules
      <4> QED BY <1>2, <2>1, <3>4, <4>1 DEF ChecksFor, LogicAt, Logic0020
    <3>5. CASE n + 1 = 70
      <4>1. rule.logic \in FirstLogic \cup {"classification", "utilization_composite"}
        BY <1>1, <3>1, <3>5 DEF Brings
      <4> QED BY <1>2, <2>1, <3>5, <4>1 DEF ChecksFor, LogicAt, Logic0071, Logic0020
    <3> QED BY <3>2, <3>3, <3>4, <3>5
  <2>4. Ruled(d)
    BY DEF RowsFit
  <2>5. \/ slug \in DOMAIN d.rules /\ rule.logic = d.rules[slug].logic
        \/ \E seed \in r.rules : seed[1] = slug /\ seed[2] = rule.logic
    BY <2>1, <2>4, RulesUp
  <2> QED BY <2>1, <2>2, <2>3, <2>5
<1>4. e.sources \subseteq t.allows["ingestion_source"]
  <2>1. e.sources = d.sources
    BY SeededFields
  <2>2. CASE n = 0
    BY <2>1, <2>2 DEF RowsFit, NothingYet
  <2>3. CASE n > 0
    <3>1. d.sources \subseteq s.allows["ingestion_source"]
      BY <2>3 DEF Admits, RowsFit, ChecksFor
    <3> QED BY <2>1, <2>3, <3>1, MostStay DEF RowsFit
  <2> QED BY <2>2, <2>3
<1>5. "role_name" \in DOMAIN t.allows => e.roles \subseteq t.allows["role_name"]
  <2>1. SUFFICES ASSUME n + 1 < 39 PROVE e.roles \subseteq OldRoles
    BY <1>2 DEF ChecksFor
  <2>2. e.roles \subseteq d.roles \cup r.roles
    BY FieldsUp
  <2>3. CASE n = 0
    BY <1>1, <2>2, <2>3 DEF RowsFit, NothingYet, Brings
  <2>4. CASE n > 0
    <3>1. d.roles \subseteq OldRoles
      BY <2>1, <2>4 DEF Admits, RowsFit, ChecksFor
    <3> QED BY <1>1, <2>1, <2>2, <2>4, <3>1 DEF Brings
  <2> QED BY <2>3, <2>4
<1>6. ASSUME <<"threat_intel_feeds", {"url"}>> \in t.keys, NEW f \in e.feeds, NEW g \in e.feeds,
             f.url = g.url
      PROVE  f = g
  <2>1. \A h, i \in d.feeds : h.url = i.url => h = i
    <3>1. CASE <<"threat_intel_feeds", {"url"}>> \in s.keys
      BY <3>1, OneUrl
    <3>2. CASE <<"threat_intel_feeds", {"url"}>> \in r.newKeys
      <4>1. n + 1 = 56
        BY <1>1, <3>2 DEF Brings
      <4>2. n = 55
        BY <4>1
      <4> QED BY <4>2
    <3>3. CASE <<"threat_intel_feeds", {"url"}>> \in KeysOf(Range(r.creates))
      <4>1. PICK c \in Range(r.creates) : c.name = "threat_intel_feeds"
        BY <3>3 DEF KeysOf
      <4>2. c.name \notin DOMAIN s.tables
        BY <4>1 DEF Builds, Range
      <4>3. d.feeds = {}
        BY <4>1, <4>2 DEF RowsFit, FeedsHaveTable
      <4> QED BY <4>3
    <3>4. t.keys = s.keys \cup KeysOf(Range(r.creates)) \cup r.newKeys
      BY DEF Migrated
    <3> QED BY <1>6, <3>1, <3>2, <3>3, <3>4
  <2>2. f \in SeededFeeds(d, r) /\ g \in SeededFeeds(d, r)
    BY FieldsUp
  <2>3. \A x \in SeededFeeds(d, r) :
          \/ x \in d.feeds /\ x.url \notin r.feeds
          \/ \E h \in d.feeds : /\ x.url = h.url /\ x.url \in r.feeds
                              /\ x = [id |-> h.id, url |-> h.url, default |-> TRUE]
          \/ /\ \A h \in d.feeds : h.url # x.url
             /\ x.url \in r.feeds /\ x = [id |-> 0, url |-> x.url, default |-> TRUE]
    <3>1. ASSUME NEW x \in {feed \in d.feeds : feed.url \notin r.feeds}
          PROVE  x \in d.feeds /\ x.url \notin r.feeds
      OBVIOUS
    <3>2. ASSUME NEW h \in d.feeds, h.url \in r.feeds,
                 NEW x, x = [id |-> h.id, url |-> h.url, default |-> TRUE]
          PROVE  x.url = h.url /\ x.url \in r.feeds
      BY <3>2
    <3>3. ASSUME NEW url \in r.feeds \ {feed.url : feed \in d.feeds},
                 NEW x, x = [id |-> 0, url |-> url, default |-> TRUE]
          PROVE  /\ \A h \in d.feeds : h.url # x.url
                 /\ x.url \in r.feeds /\ x = [id |-> 0, url |-> x.url, default |-> TRUE]
      BY <3>3
    <3> QED BY <3>1, <3>2, <3>3 DEF SeededFeeds
  <2>4. CASE f \in d.feeds /\ f.url \notin r.feeds
    BY <1>6, <2>1, <2>2, <2>3, <2>4
  <2>5. CASE \E h \in d.feeds : /\ f.url = h.url /\ f.url \in r.feeds
                               /\ f = [id |-> h.id, url |-> h.url, default |-> TRUE]
    BY <1>6, <2>1, <2>2, <2>3, <2>5
  <2>6. CASE /\ \A h \in d.feeds : h.url # f.url
             /\ f.url \in r.feeds /\ f = [id |-> 0, url |-> f.url, default |-> TRUE]
    <3>1. PICK url : url = f.url /\ url = g.url
      BY <1>6
    <3>2. g = [id |-> 0, url |-> url, default |-> TRUE]
      BY <2>2, <2>3, <2>6, <3>1
    <3> QED BY <2>6, <3>1, <3>2
  <2> QED BY <2>2, <2>3, <2>4, <2>5, <2>6
<1>7. e.fired \subseteq DOMAIN e.rules
  <2>1. e.fired = d.fired
    BY SeededFields
  <2>2. DOMAIN d.rules \subseteq DOMAIN e.rules
    BY FieldsUp
  <2>3. d.fired \subseteq DOMAIN d.rules
    BY DEF Admits
  <2> QED BY <2>1, <2>2, <2>3
<1>8. Range(e.assigned) \subseteq e.roles
  <2>1. SUFFICES ASSUME NEW k \in DOMAIN d.assigned PROVE e.assigned[k] \in e.roles
    BY FieldsUp DEF Range
  <2>2. d.assigned[k] \in d.roles /\ e.assigned[k] = Heir(d.assigned[k], r)
    BY <2>1, FieldsUp DEF Admits, Range
  <2>3. e.roles = (d.roles \cup r.roles) \ DOMAIN r.heirOf
    BY FieldsUp
  <2>4. CASE n + 1 = 39
    <3>1. r.heirOf = HeirOf0039 /\ r.roles = R0039.roles
      BY <1>1, <2>4 DEF Brings
    <3>2. \A role \in OldRoles : HeirOf0039[role] \in R0039.roles \ OldRoles
      BY DEF HeirOf0039, OldRoles, R0039, Blank
    <3> QED BY <2>2, <2>3, <3>1, <3>2, Widened DEF Heir
  <2>5. CASE n + 1 # 39
    <3>1. DOMAIN r.heirOf = {}
      BY <1>1, <2>5 DEF Brings
    <3> QED BY <2>2, <2>3, <3>1 DEF Heir
  <2> QED BY <2>4, <2>5
<1>9. {e.rules[slug].logic : slug \in DOMAIN e.rules} \subseteq t.allows["logic_type"]
  BY <1>3
<1> QED BY <1>4, <1>5, <1>6, <1>7, <1>8, <1>9 DEF Admits

\* A downgrade leaves the rows fit for the revision before.
LEMMA FieldsDown ==
  ASSUME NEW d, NEW r, NEW e, e = Unseeded(d, r)
  PROVE  LET dropped == TableNames(Range(r.creates)) IN
         /\ "rule_definitions" \in dropped => DOMAIN e.rules = {}
         /\ "events" \in dropped => e.sources = {}
         /\ "rbac_roles" \in dropped => e.roles = {}
         /\ "threat_intel_feeds" \in dropped => e.feeds = {}
         /\ e.sources \subseteq d.sources /\ e.feeds \subseteq d.feeds
         /\ e.fired \subseteq d.fired
         /\ e.roles \subseteq (d.roles \cup DOMAIN r.heirOf) \ r.roles
         /\ DOMAIN e.assigned \subseteq DOMAIN d.assigned
BY DEF Unseeded

LEMMA TablesDown ==
  ASSUME NEW s, NEW r, NEW t, t = Reverted(s, r)
  PROVE  /\ DOMAIN t.tables = DOMAIN s.tables \ TableNames(Range(r.creates))
         /\ t.keys \subseteq s.keys
BY DEF Reverted

LEMMA FitDown ==
  ASSUME NEW n \in 1..72, NEW r, r = Revisions[n],
         NEW s, NEW d, RowsFit(n, s, d), Admits(s, d),
         NEW t, t = Reverted(s, r), NEW e, e = Unseeded(d, r)
  PROVE  RowsFit(n - 1, t, e)
<1> DEFINE dropped == TableNames(Range(r.creates))
<1>1. Brings(n, r)
  BY RevisionsTold
<1>2. ChecksFor(n - 1, t.allows)
  BY ChecksDown DEF RowsFit
<1>3. DOMAIN t.tables = DOMAIN s.tables \ dropped
  BY TablesDown
<1>4. /\ "rule_definitions" \in dropped => DOMAIN e.rules = {}
      /\ "events" \in dropped => e.sources = {}
      /\ "rbac_roles" \in dropped => e.roles = {}
      /\ "threat_intel_feeds" \in dropped => e.feeds = {}
      /\ e.feeds \subseteq d.feeds /\ e.roles \subseteq (d.roles \cup DOMAIN r.heirOf) \ r.roles
  BY FieldsDown
<1>5. NothingYet(n - 1, t, e)
  <2>1. CASE n = 1
    <3>1. r = R0001
      BY <2>1 DEF Revisions
    <3>2. FirstTables \subseteq dropped
      BY <3>1, FirstCreates
    <3>3. FirstTables = {"rule_definitions", "events", "rbac_roles"}
      BY DEF FirstTables
    <3> HIDE DEF dropped
    <3> QED BY <1>3, <1>4, <3>2, <3>3 DEF NothingYet
  <2>2. CASE n # 1
    BY <2>2 DEF NothingYet
  <2> QED BY <2>1, <2>2
<1>6. FeedsHaveTable(t, e)
  <2> HIDE DEF dropped
  <2>1. d.feeds # {} => "threat_intel_feeds" \in DOMAIN s.tables
    BY DEF RowsFit, FeedsHaveTable
  <2> QED BY <1>3, <1>4, <2>1 DEF FeedsHaveTable
<1>7. Ruled(d) /\ RulesOfRelease(n, d)
  BY DEF RowsFit
<1>8. ASSUME NEW slug \in DOMAIN e.rules, NEW rule, rule = e.rules[slug]
      PROVE  /\ rule = [logic |-> rule.logic, text |-> rule.text, source |-> rule.source]
             /\ Released(n - 1, slug, rule)
  <2>1. PICK old : old = d.rules[slug]
    OBVIOUS
  <2>2. /\ rule = [logic |-> rule.logic, text |-> rule.text, source |-> rule.source]
        /\ slug \in DOMAIN d.rules
        /\ rule.logic = old.logic /\ rule.source = old.source
        /\ slug \notin r.renames => rule.text = old.text
    BY <1>7, <1>8, <2>1, RulesDown
  <2>3. r.source # "system" => \A seed \in r.rules : seed[1] # slug
    BY <1>7, <1>8, <2>1, RulesDown
  <2>4. Released(n, slug, old)
    BY <1>7, <2>1, <2>2 DEF RulesOfRelease
  <2>5. CASE slug \in r.renames
    <3>1. n = 63 /\ slug \in Postures
      BY <1>1, <2>5 DEF Brings
    <3>2. {d.rules[k].logic : k \in DOMAIN d.rules} \subseteq Logic0020
      BY <3>1 DEF Admits, RowsFit, ChecksFor, LogicAt
    <3>3. rule.logic \in Logic0020
      BY <2>1, <2>2, <3>2
    <3>4. rule.logic \notin {"classification", "utilization_composite"}
      BY <3>3 DEF Logic0020, FirstLogic
    <3> QED BY <2>2, <3>1, <3>4 DEF Released
  <2>6. CASE slug \notin r.renames
    <3>1. n = 21 => slug \notin Postures
      BY <1>1, <2>3 DEF Brings, Postures
    <3> QED BY <2>2, <2>4, <2>6, <3>1 DEF Released
  <2> QED BY <2>2, <2>5, <2>6
<1>9. RolesKnown(n - 1, e)
  <2>1. SUFFICES ASSUME n - 1 >= 39 PROVE e.roles \subseteq CustomRoles \cup R0039.roles
    BY DEF RolesKnown
  <2>2. DOMAIN r.heirOf = {}
    BY <1>1, <2>1 DEF Brings
  <2>3. d.roles \subseteq CustomRoles \cup R0039.roles
    BY <2>1 DEF RowsFit, RolesKnown
  <2> HIDE DEF dropped
  <2> QED BY <1>4, <2>2, <2>3
<1>10. Ruled(e) /\ RulesOfRelease(n - 1, e)
  BY <1>8 DEF Ruled, RulesOfRelease
<1> QED BY <1>2, <1>5, <1>6, <1>9, <1>10 DEF RowsFit

\* No row of a user is among them.
OfRelease(d) ==
  /\ \A slug \in DOMAIN d.rules : d.rules[slug].text # "own"
  /\ d.roles \cap CustomRoles = {}
  /\ d.fired = {} /\ DOMAIN d.assigned = {} /\ d.sources = {}

LEMMA AdmitsDown ==
  ASSUME NEW n \in 1..72, NEW r, r = Revisions[n],
         NEW s, NEW d, RowsFit(n, s, d), Admits(s, d), OfRelease(d),
         NEW t, t = Reverted(s, r), NEW e, e = Unseeded(d, r)
  PROVE  Admits(t, e)
<1>1. Brings(n, r) /\ Checks(n, r)
  BY RevisionsTold
<1>2. RowsFit(n - 1, t, e)
  BY FitDown
<1>3. PICK allows : allows = t.allows
  OBVIOUS
<1>4. ChecksFor(n, s.allows) /\ ChecksFor(n - 1, allows)
  BY <1>2, <1>3 DEF RowsFit
<1>5. \A c : /\ c \in DOMAIN r.back => c \in DOMAIN allows /\ allows[c] = r.back[c]
             /\ c \notin DOMAIN r.back =>
                  /\ c \in DOMAIN allows <=> c \in DOMAIN s.allows /\ c \notin DOMAIN r.allows
                  /\ c \in DOMAIN allows => allows[c] = s.allows[c]
  BY <1>3, CheckDown
<1>6. ASSUME NEW slug \in DOMAIN e.rules, NEW rule, rule = e.rules[slug]
      PROVE  n > 1 /\ rule.logic \in allows["logic_type"]
  <2>1. n > 1
    BY <1>2, <1>6 DEF RowsFit, NothingYet
  <2>2. PICK old : old = d.rules[slug]
    OBVIOUS
  <2>3. Ruled(d) /\ RulesOfRelease(n, d)
    BY DEF RowsFit
  <2>4. /\ slug \in DOMAIN d.rules
        /\ rule.logic = old.logic
        /\ r.source = "system" => ~ (old.source = "system" /\ old.text # "own")
    BY <1>6, <2>2, <2>3, RulesDown
  <2>5. Released(n, slug, old) /\ old.text # "own"
    BY <2>2, <2>3, <2>4 DEF RulesOfRelease, OfRelease
  <2>6. rule.logic \in s.allows["logic_type"] /\ s.allows["logic_type"] \in LogicAt(n)
    <3>1. "logic_type" \in DOMAIN s.allows /\ s.allows["logic_type"] \in LogicAt(n)
      BY <1>4 DEF ChecksFor
    <3>2. {d.rules[k].logic : k \in DOMAIN d.rules} \subseteq s.allows["logic_type"]
      BY <3>1 DEF Admits
    <3> QED BY <2>2, <2>4, <3>1, <3>2
  <2>7. CASE n \notin {12, 20, 70}
    <3>1. "logic_type" \notin DOMAIN r.back
      BY <1>1, <2>1, <2>7 DEF Checks
    <3>2. "logic_type" \in DOMAIN allows
      BY <1>4, <2>1 DEF ChecksFor
    <3> QED BY <1>5, <2>1, <2>6, <3>1, <3>2
  <2>8. CASE n = 12
    <3>1. allows["logic_type"] = Logic0012
      <4>1. r = R0012
        BY <2>8 DEF Revisions
      <4> QED BY <1>5, <4>1, Widened
    <3>2. LogicAt(12) = {Logic0012}
      BY DEF LogicAt
    <3> QED BY <2>6, <2>8, <3>1, <3>2
  <2>9. CASE n = 20
    <3>1. allows["logic_type"] = Logic0012
      <4>1. r = R0020
        BY <2>9 DEF Revisions
      <4> QED BY <1>5, <4>1, Widened
    <3>2. LogicAt(20) = {Logic0020}
      BY DEF LogicAt
    <3>3. rule.logic # "posture"
      BY <2>4, <2>5, <2>9 DEF Released
    <3>4. rule.logic \in Logic0020
      BY <2>6, <2>9, <3>2
    <3> QED BY <3>1, <3>3, <3>4, <2>1 DEF Logic0012, Logic0020
  <2>10. CASE n = 70
    <3>1. allows["logic_type"] = Logic0020
      <4>1. r = R0071
        BY <2>10 DEF Revisions
      <4> QED BY <1>5, <4>1, Widened
    <3>2. LogicAt(70) = {Logic0071}
      BY DEF LogicAt
    <3>3. rule.logic \notin {"classification", "utilization_composite"}
      BY <1>1, <2>4, <2>5, <2>10 DEF Released, Brings
    <3>4. rule.logic \in Logic0071
      BY <2>6, <2>10, <3>2
    <3> QED BY <3>1, <3>3, <3>4, <2>1 DEF Logic0071
  <2> QED BY <2>1, <2>7, <2>8, <2>9, <2>10
<1>7. {e.rules[slug].logic : slug \in DOMAIN e.rules} \subseteq allows["logic_type"]
  BY <1>6
<1>8. /\ e.sources = {} /\ e.fired = {} /\ DOMAIN e.assigned = {}
      /\ e.feeds \subseteq d.feeds
      /\ e.roles \subseteq (d.roles \cup DOMAIN r.heirOf) \ r.roles
  BY FieldsDown DEF OfRelease
<1>9. "role_name" \in DOMAIN allows => e.roles \subseteq allows["role_name"]
  <2>1. CASE n = 1
    BY <1>2, <2>1 DEF RowsFit, NothingYet
  <2>2. CASE n > 1 /\ n < 39
    <3>1. allows["role_name"] = OldRoles /\ DOMAIN r.heirOf = {}
      BY <1>1, <1>4, <2>2 DEF ChecksFor, Brings
    <3>2. d.roles \subseteq OldRoles
      BY <1>4, <2>2 DEF Admits, ChecksFor
    <3> QED BY <1>8, <3>1, <3>2
  <2>3. CASE n = 39
    <3>1. /\ allows["role_name"] = OldRoles /\ r.heirOf = HeirOf0039 /\ r.roles = R0039.roles
          /\ DOMAIN HeirOf0039 = OldRoles
      BY <1>1, <1>4, <2>3, Widened DEF ChecksFor, Brings
    <3>2. d.roles \subseteq R0039.roles
      BY <2>3 DEF RowsFit, RolesKnown, OfRelease
    <3> QED BY <1>8, <3>1, <3>2
  <2>4. CASE n > 39
    BY <1>4, <2>4 DEF ChecksFor
  <2> QED BY <2>1, <2>2, <2>3, <2>4
<1>10. t.keys \subseteq s.keys
  BY TablesDown
<1>11. <<"threat_intel_feeds", {"url"}>> \in t.keys => \A f, g \in e.feeds : f.url = g.url => f = g
  BY <1>8, <1>10 DEF Admits
<1>12. Range(e.assigned) = {}
  BY <1>8 DEF Range
<1> QED BY <1>3, <1>7, <1>8, <1>9, <1>11, <1>12 DEF Admits

\* The application leaves them fit too.
LEMMA RowsWritten ==
  ASSUME NEW n \in 0..72, NEW s, NEW d, RowsFit(n, s, d), NEW e,
         e.rules = d.rules \/ "rule_definitions" \in DOMAIN s.tables,
         e.sources = d.sources \/ "events" \in DOMAIN s.tables,
         \/ e.roles = d.roles
         \/ "rbac_roles" \in DOMAIN s.tables /\ e.roles \subseteq d.roles \cup CustomRoles,
         e.feeds = d.feeds \/ "threat_intel_feeds" \in DOMAIN s.tables,
         \A slug \in DOMAIN e.rules :
           \/ slug \in DOMAIN d.rules /\ e.rules[slug] = d.rules[slug]
           \/ \E logic, source :
                e.rules[slug] = [logic |-> logic, text |-> "own", source |-> source]
  PROVE  RowsFit(n, s, e)
<1>1. ChecksFor(n, s.allows)
  BY DEF RowsFit
<1>2. NothingYet(n, s, e)
  <2>1. SUFFICES ASSUME n = 0
                 PROVE  /\ DOMAIN s.tables \cap FirstTables = {}
                        /\ DOMAIN e.rules = {} /\ e.sources = {} /\ e.roles = {}
    BY DEF NothingYet
  <2>2. /\ DOMAIN s.tables \cap FirstTables = {}
        /\ DOMAIN d.rules = {} /\ d.sources = {} /\ d.roles = {}
    BY <2>1 DEF RowsFit, NothingYet
  <2>3. /\ "rule_definitions" \notin DOMAIN s.tables /\ "events" \notin DOMAIN s.tables
        /\ "rbac_roles" \notin DOMAIN s.tables
    BY <2>2 DEF FirstTables
  <2> QED BY <2>2, <2>3
<1>3. FeedsHaveTable(s, e)
  BY DEF RowsFit, FeedsHaveTable
<1>4. ASSUME NEW slug \in DOMAIN e.rules, NEW rule, rule = e.rules[slug]
      PROVE  /\ rule = [logic |-> rule.logic, text |-> rule.text, source |-> rule.source]
             /\ Released(n, slug, rule)
  <2>1. CASE slug \in DOMAIN d.rules /\ rule = d.rules[slug]
    BY <2>1 DEF RowsFit, Ruled, RulesOfRelease
  <2>2. CASE \E logic, source : rule = [logic |-> logic, text |-> "own", source |-> source]
    BY <2>2 DEF Released
  <2> QED BY <1>4, <2>1, <2>2
<1>5. Ruled(e) /\ RulesOfRelease(n, e)
  BY <1>4 DEF Ruled, RulesOfRelease
<1>6. RolesKnown(n, e)
  BY DEF RowsFit, RolesKnown
<1> QED BY <1>1, <1>2, <1>3, <1>5, <1>6 DEF RowsFit

LEMMA WritesFit ==
  ASSUME FittingInv, \/ OwnRule \/ EditRule \/ RuleFires \/ AddFeed
                  \/ Assign \/ CustomRole \/ Execute \/ StoreEvent
  PROVE  RowsFit(revision, schema, rows)'
<1>1. PICK n, s, d : n = revision /\ s = schema /\ d = rows
  OBVIOUS
<1>2. Fielded(d) /\ RowsFit(n, s, d) /\ n \in 0..72
  BY <1>1 DEF FittingInv, SchemaInv, SchemaTypeOK, HeadRevision, Revisions
<1>3. PICK name, e : Write(name, e) /\ RowsFit(n, s, e)
  <2>1. CASE OwnRule
    <3>1. PICK slug, logic :
            Write("rule_definitions",
                  [rows EXCEPT !.rules = Atop([k \in {slug} |-> Own(logic)], @)])
      BY <2>1 DEF OwnRule
    <3>2. PICK rules : rules = Atop([k \in {slug} |-> Own(logic)], d.rules)
      OBVIOUS
    <3>3. PICK e : e = [d EXCEPT !.rules = rules]
      OBVIOUS
    <3>4. Write("rule_definitions", e) /\ "rule_definitions" \in DOMAIN s.tables
      BY <1>1, <3>1, <3>2, <3>3 DEF Write
    <3>5. \A k \in DOMAIN rules :
            \/ k \in DOMAIN d.rules /\ rules[k] = d.rules[k]
            \/ rules[k] = [logic |-> logic, text |-> "own", source |-> "manual"]
      BY <3>2 DEF Atop, Own
    <3>6. /\ e.rules = rules /\ e.sources = d.sources /\ e.roles = d.roles
          /\ e.feeds = d.feeds
      BY <1>2, <3>3 DEF Fielded
    <3>7. \A k \in DOMAIN e.rules :
            \/ k \in DOMAIN d.rules /\ e.rules[k] = d.rules[k]
            \/ \E text, source : e.rules[k] = [logic |-> text, text |-> "own", source |-> source]
      BY <3>5, <3>6
    <3>8. RowsFit(n, s, e)
      BY <1>2, <3>4, <3>6, <3>7, RowsWritten
    <3> QED BY <3>4, <3>8
  <2>2. CASE EditRule
    <3>1. PICK slug, logic :
            Write("rule_definitions",
                  [rows EXCEPT !.rules =
                     [@ EXCEPT ![slug] = [Own(logic) EXCEPT !.source = rows.rules[slug].source]]])
      BY <2>2 DEF EditRule
    <3>2. PICK rule : rule = [Own(logic) EXCEPT !.source = d.rules[slug].source]
      OBVIOUS
    <3>3. PICK rules : rules = [d.rules EXCEPT ![slug] = rule]
      OBVIOUS
    <3>4. PICK e : e = [d EXCEPT !.rules = rules]
      OBVIOUS
    <3>5. Write("rule_definitions", e) /\ "rule_definitions" \in DOMAIN s.tables
      BY <1>1, <3>1, <3>2, <3>3, <3>4 DEF Write
    <3>6. \E source : rule = [logic |-> logic, text |-> "own", source |-> source]
      BY <3>2 DEF Own
    <3>7. \A k \in DOMAIN rules :
            k \in DOMAIN d.rules /\ (rules[k] = d.rules[k] \/ rules[k] = rule)
      BY <3>3
    <3>8. /\ e.rules = rules /\ e.sources = d.sources /\ e.roles = d.roles
          /\ e.feeds = d.feeds
      BY <1>2, <3>4 DEF Fielded
    <3>9. \A k \in DOMAIN e.rules :
            \/ k \in DOMAIN d.rules /\ e.rules[k] = d.rules[k]
            \/ \E text, source : e.rules[k] = [logic |-> text, text |-> "own", source |-> source]
      BY <3>6, <3>7, <3>8
    <3>10. RowsFit(n, s, e)
      BY <1>2, <3>5, <3>8, <3>9, RowsWritten
    <3> QED BY <3>5, <3>10
  <2>3. CASE \/ RuleFires \/ Assign \/ Execute
    <3>1. PICK name, e, x :
            /\ Write(name, e)
            /\ \/ e = [d EXCEPT !.fired = x] \/ e = [d EXCEPT !.assigned = x]
               \/ e = [d EXCEPT !.executed = x]
      BY <1>1, <2>3 DEF RuleFires, Assign, Execute
    <3>2. /\ e.rules = d.rules /\ e.sources = d.sources /\ e.roles = d.roles
          /\ e.feeds = d.feeds
      BY <1>2, <3>1 DEF Fielded
    <3>3. RowsFit(n, s, e)
      BY <1>2, <3>2, RowsWritten
    <3> QED BY <3>1, <3>3
  <2>4. CASE AddFeed
    <3>1. PICK e, x : Write("threat_intel_feeds", e) /\ e = [d EXCEPT !.feeds = x]
      BY <1>1, <2>4 DEF AddFeed
    <3>2. e.rules = d.rules /\ e.sources = d.sources /\ e.roles = d.roles
      BY <1>2, <3>1 DEF Fielded
    <3>3. "threat_intel_feeds" \in DOMAIN s.tables
      BY <1>1, <3>1 DEF Write
    <3>4. RowsFit(n, s, e)
      BY <1>2, <3>2, <3>3, RowsWritten
    <3> QED BY <3>1, <3>4
  <2>5. CASE CustomRole
    <3>1. PICK role \in CustomRoles :
            Write("rbac_roles", [d EXCEPT !.roles = d.roles \cup {role}])
      BY <1>1, <2>5 DEF CustomRole
    <3>2. PICK e : e = [d EXCEPT !.roles = d.roles \cup {role}]
      OBVIOUS
    <3>3. Write("rbac_roles", e) /\ "rbac_roles" \in DOMAIN s.tables
      BY <1>1, <3>1, <3>2 DEF Write
    <3>4. /\ e.rules = d.rules /\ e.sources = d.sources /\ e.feeds = d.feeds
          /\ e.roles = d.roles \cup {role}
      BY <1>2, <3>2 DEF Fielded
    <3>5. RowsFit(n, s, e)
      BY <1>2, <3>3, <3>4, RowsWritten
    <3> QED BY <3>3, <3>5
  <2>6. CASE StoreEvent
    <3>1. PICK e, x : Write("events", e) /\ e = [d EXCEPT !.sources = x]
      BY <1>1, <2>6 DEF StoreEvent
    <3>2. e.rules = d.rules /\ e.feeds = d.feeds /\ e.roles = d.roles
      BY <1>2, <3>1 DEF Fielded
    <3>3. "events" \in DOMAIN s.tables
      BY <1>1, <3>1 DEF Write
    <3>4. RowsFit(n, s, e)
      BY <1>2, <3>2, <3>3, RowsWritten
    <3> QED BY <3>1, <3>4
  <2> QED BY <2>1, <2>2, <2>3, <2>4, <2>5, <2>6
<1>4. revision' = n /\ schema' = s /\ rows' = e
  BY <1>1, <1>3 DEF Write
<1> QED BY <1>3, <1>4

LEMMA FittingStart == ASSUME InitSchema PROVE FittingInv
<1>1. RowsFit(0, NoSchema, NoRows)
  <2>1. ChecksFor(0, NoSchema.allows)
    BY DEF ChecksFor
  <2>2. NothingYet(0, NoSchema, NoRows) /\ FeedsHaveTable(NoSchema, NoRows)
    BY DEF NothingYet, FeedsHaveTable, NoSchema, NoRows, FirstTables
  <2>3. Ruled(NoRows) /\ RulesOfRelease(0, NoRows) /\ RolesKnown(0, NoRows)
    BY DEF Ruled, RulesOfRelease, RolesKnown, NoRows
  <2> QED BY <2>1, <2>2, <2>3 DEF RowsFit
<1> QED BY <1>1, SchemaStart DEF InitSchema, FittingInv

LEMMA FittingStep == ASSUME FittingInv, [NextSchema]_schemaVars PROVE FittingInv'
<1>1. SchemaInv /\ SchemaInv'
  BY SchemaStep DEF FittingInv
<1>2. PICK n, s, d : n = revision /\ s = schema /\ d = rows
  OBVIOUS
<1>3. Fielded(d) /\ RowsFit(n, s, d) /\ Admits(s, d) /\ n \in 0..72 /\ HeadRevision = 72
  BY <1>2 DEF FittingInv, SchemaInv, SchemaTypeOK, HeadRevision, Revisions
<1>4. CASE UNCHANGED schemaVars
  <2>1. revision' = n /\ schema' = s /\ rows' = d
    BY <1>2, <1>4 DEF schemaVars
  <2>2. RowsFit(revision, schema, rows)'
    BY <1>3, <2>1
  <2> QED BY <1>1, <2>2 DEF FittingInv
<1>5. CASE Upgrade
  <2>1. PICK r : r = Revisions[n + 1]
    OBVIOUS
  <2>2. PICK t, e : t = Migrated(s, r) /\ e = Seeded(d, r)
    OBVIOUS
  <2>3. /\ n \in 0..71 /\ Builds(s, r) /\ revision' = n + 1 /\ schema' = t /\ rows' = e
    BY <1>2, <1>3, <1>5, <2>1, <2>2 DEF Upgrade, CanUpgrade, Following
  <2>4. RowsFit(n + 1, t, e)
    BY <1>3, <2>1, <2>2, <2>3, FitUp
  <2>5. RowsFit(revision, schema, rows)'
    BY <2>3, <2>4
  <2> QED BY <1>1, <2>5 DEF FittingInv
<1>6. CASE Downgrade
  <2>1. PICK r : r = Revisions[n]
    OBVIOUS
  <2>2. PICK t, e : t = Reverted(s, r) /\ e = Unseeded(d, r)
    OBVIOUS
  <2>3. /\ n \in 1..72 /\ revision' = n - 1 /\ schema' = t /\ rows' = e
    BY <1>2, <1>3, <1>6, <2>1, <2>2 DEF Downgrade
  <2>4. RowsFit(n - 1, t, e)
    BY <1>3, <2>1, <2>2, <2>3, FitDown
  <2>5. RowsFit(revision, schema, rows)'
    BY <2>3, <2>4
  <2> QED BY <1>1, <2>5 DEF FittingInv
<1> QED BY <1>1, <1>4, <1>5, <1>6, WritesFit DEF NextSchema, FittingInv

\* The release's own rows are fit where all rows are.
LEMMA ReleaseFits ==
  ASSUME NEW n \in 0..72, NEW s, n = revision, s = schema, FittingInv,
         NEW e, e = ReleaseRows
  PROVE  RowsFit(n, s, e) /\ Admits(s, e) /\ OfRelease(e)
<1>1. PICK d : d = rows
  OBVIOUS
<1>2. Fielded(d) /\ RowsFit(n, s, d) /\ Admits(s, d)
  BY <1>1 DEF FittingInv, SchemaInv, SchemaTypeOK
<1> DEFINE own == {slug \in DOMAIN d.rules : d.rules[slug].text = "own"}
<1>3. /\ e.rules = Restrict(d.rules, DOMAIN d.rules \ own) /\ e.fired = {}
      /\ e.feeds = {feed \in d.feeds : feed.id = 0} /\ e.roles = d.roles \ CustomRoles
      /\ e.assigned = <<>> /\ e.sources = {}
  BY <1>1, <1>2 DEF ReleaseRows, Fielded
<1>4. PICK rules : rules = e.rules
  OBVIOUS
<1>5. \A slug \in DOMAIN rules : /\ slug \in DOMAIN d.rules /\ rules[slug] = d.rules[slug]
                                /\ d.rules[slug].text # "own"
  BY <1>3, <1>4 DEF Restrict
<1>6. OfRelease(e)
  BY <1>3, <1>4, <1>5 DEF OfRelease
<1>7. RowsFit(n, s, e)
  <2>1. ChecksFor(n, s.allows) /\ NothingYet(n, s, e) /\ FeedsHaveTable(s, e)
    BY <1>2, <1>3, <1>4, <1>5 DEF RowsFit, NothingYet, FeedsHaveTable
  <2>2. Ruled(e) /\ RulesOfRelease(n, e)
    BY <1>2, <1>4, <1>5 DEF RowsFit, Ruled, RulesOfRelease
  <2>3. RolesKnown(n, e)
    BY <1>2, <1>3 DEF RowsFit, RolesKnown
  <2> QED BY <2>1, <2>2, <2>3 DEF RowsFit
<1>8. Admits(s, e)
  <2>1. {rules[slug].logic : slug \in DOMAIN rules}
          \subseteq {d.rules[slug].logic : slug \in DOMAIN d.rules}
    BY <1>5
  <2>2. Range(e.assigned) = {}
    BY <1>3 DEF Range
  <2> QED BY <1>2, <1>3, <1>4, <2>1, <2>2 DEF Admits
<1> QED BY <1>6, <1>7, <1>8

LEMMA FittingAdmits == ASSUME FittingInv PROVE RowsAdmitted
<1>1. PICK n, s, d : n = revision /\ s = schema /\ d = rows
  OBVIOUS
<1>2. Fielded(d) /\ RowsFit(n, s, d) /\ Admits(s, d) /\ n \in 0..72 /\ HeadRevision = 72
  BY <1>1 DEF FittingInv, SchemaInv, SchemaTypeOK, HeadRevision, Revisions
<1>3. ASSUME n < HeadRevision, Builds(s, Revisions[n + 1]),
             ~ (n = 55 /\ \E f, g \in d.feeds : f # g /\ f.url = g.url)
      PROVE  Admits(Migrated(s, Revisions[n + 1]), Seeded(d, Revisions[n + 1]))
  <2>1. PICK r : r = Revisions[n + 1]
    OBVIOUS
  <2>2. PICK t, e : t = Migrated(s, r) /\ e = Seeded(d, r)
    OBVIOUS
  <2>3. n \in 0..71 /\ Builds(s, r)
    BY <1>2, <1>3, <2>1
  <2>4. Admits(t, e)
    BY <1>2, <1>3, <2>1, <2>2, <2>3, AdmitsUp
  <2> QED BY <2>1, <2>2, <2>4
<1>4. ASSUME n > 0
      PROVE  Admits(Reverted(s, Revisions[n]), Unseeded(ReleaseRows, Revisions[n]))
  <2>1. PICK r : r = Revisions[n]
    OBVIOUS
  <2>2. PICK c : c = ReleaseRows
    OBVIOUS
  <2>3. PICK t, e : t = Reverted(s, r) /\ e = Unseeded(c, r)
    OBVIOUS
  <2>4. RowsFit(n, s, c) /\ Admits(s, c) /\ OfRelease(c) /\ n \in 1..72
    BY <1>1, <1>2, <1>4, <2>2, ReleaseFits
  <2>5. Admits(t, e)
    BY <2>1, <2>3, <2>4, AdmitsDown
  <2> QED BY <2>1, <2>2, <2>3, <2>5
<1> QED BY <1>1, <1>3, <1>4 DEF RowsAdmitted, Following

\* Whatever rows users wrote, at whatever revision and after whatever upgrades and
\* downgrades: the CHECKs, the keys and the foreign keys admit what the statements of the
\* next upgrade() make of all rows, unless two feeds have one URL before 0056, and what
\* those of the downgrade() make of the release's own (alembic/versions, all 72).
THEOREM RowsNeverStick == SpecSchema => []RowsAdmitted
<1>1. InitSchema => FittingInv
  BY FittingStart
<1>2. FittingInv /\ [NextSchema]_schemaVars => FittingInv'
  BY FittingStep
<1>3. FittingInv => RowsAdmitted
  BY FittingAdmits
<1> QED BY <1>1, <1>2, <1>3, PTL DEF SpecSchema
-----------------------------------------------------------------------------
(* The parts side by side *)

\* A step of NextRecords is a step of one part, and the others rest.
LEMMA EachRecords ==
  SpecRecords => /\ SpecMirror /\ SpecCopilot /\ SpecScan /\ SpecRetention
                 /\ SpecAlerts /\ SpecSignals /\ SpecSchema
<1>1. InitRecords => /\ InitMirror /\ InitCopilot /\ InitScan /\ InitRetention
                     /\ InitAlerts /\ InitSignals /\ InitSchema
  BY DEF InitRecords
<1>2. UNCHANGED recordsVars =>
        /\ UNCHANGED mirrorVars /\ UNCHANGED copilotVars /\ UNCHANGED scanVars
        /\ UNCHANGED retentionVars /\ UNCHANGED alertVars /\ UNCHANGED signalVars
        /\ UNCHANGED schemaVars
  BY DEF recordsVars
<1>3. [NextRecords]_recordsVars =>
        /\ [NextMirror]_mirrorVars /\ [NextCopilot]_copilotVars /\ [NextScan]_scanVars
        /\ [NextRetention]_retentionVars /\ [NextAlerts]_alertVars
        /\ [NextSignals]_signalVars /\ [NextSchema]_schemaVars
  BY <1>2 DEF NextRecords, Does
<1> QED BY <1>1, <1>3, PTL
        DEF SpecRecords, SpecMirror, SpecCopilot, SpecScan, SpecRetention, SpecAlerts,
            SpecSignals, SpecSchema

\* The rows, cursors, snapshots, scans, policies, alerts, audit events and revisions keep
\* their types, whichever of the parts runs.
THEOREM RecordsTypesStay == SpecRecords => []RecordsTypeOK
<1>1. (/\ MirrorTypeOK /\ CopilotTypeOK /\ ScanTypeOK /\ RetentionTypeOK
       /\ AlertsTypeOK /\ SignalsTypeOK /\ SchemaTypeOK) => RecordsTypeOK
  BY DEF RecordsTypeOK
<1> QED BY <1>1, EachRecords, MirrorTyping, CopilotTypes, ScanTypes, RetentionTyping,
           AlertsTyping, SignalsTyping, SchemaTyping, PTL

\* What health_signal_service.py answers of the same alerts, and of the same audit events,
\* agrees, whichever of the parts runs.
THEOREM AnswersAlwaysAgree == SpecRecords => []AnswersAgree
<1>1. FiguresAgree /\ SignalsAgree => AnswersAgree
  BY DEF AnswersAgree
<1> QED BY <1>1, EachRecords, FiguresAlwaysAgree, SignalsAlwaysAgree, PTL
=============================================================================
