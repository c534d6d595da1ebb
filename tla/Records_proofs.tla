--------------------------- MODULE Records_proofs ---------------------------
(***************************************************************************)
(* Proofs about what is kept of GitHub, CopilotSync, WorkflowScan and      *)
(* Mirror, and about Retention: no process works with a retention policy   *)
(* that was replaced longer ago than the cache lives.                      *)
(***************************************************************************)
EXTENDS Mirror, CopilotSync, WorkflowScan, Retention, FiniteSetTheorems,
        SequenceTheorems, WellFoundedInduction, TLAPS
-----------------------------------------------------------------------------
(* Hours and days *)

\* A day begins at its first hour.
LEMMA DayOfHour ==
  ASSUME NEW h \in Nat, NEW s \in Nat \ {0}
  PROVE  h \div s \in Nat /\ (h \div s) * s <= h /\ h < (h \div s) * s + s
<1>1. h \div s \in Nat
  BY SMT
<1>2. h = s * (h \div s) + (h % s) /\ (h % s) \in 0..s-1
  BY SMT
<1> QED BY SMT, <1>1, <1>2

LEMMA LaterDay ==
  ASSUME NEW g \in Nat, NEW h \in Nat, g <= h, NEW s \in Nat \ {0}
  PROVE  g \div s <= h \div s
<1> DEFINE a == g \div s
           b == h \div s
<1>1. a \in Nat /\ b \in Nat /\ a * s <= h /\ h < b * s + s
  BY DayOfHour
<1>2. SUFFICES ASSUME a >= b + 1 PROVE FALSE
  BY <1>1
<1> HIDE DEF a, b
<1>3. PICK e \in Nat : a = b + 1 + e
  BY <1>1, <1>2
<1>4. a * s = b * s + s + e * s /\ e * s >= 0
  BY <1>3, <1>1
<1> QED BY <1>4, <1>1

\* Sets of natural numbers have a least element and, if they are bounded, a greatest.
LEMMA LeastExists ==
  ASSUME NEW S, S \subseteq Nat, S # {}
  PROVE  \E n \in S : \A m \in S : n <= m
<1>1. PICK n \in S : \A m \in S : <<m, n>> \notin OpToRel(<, Nat)
  BY NatLessThanWellFounded, WFMin
<1>2. \A m \in S : ~(m < n)
  BY <1>1 DEF OpToRel
<1> QED BY <1>2

LEMMA MaxExists ==
  ASSUME NEW N \in Nat, NEW S \in SUBSET (0..N), S # {}
  PROVE  Max(S) \in S /\ \A m \in S : Max(S) >= m
<1> DEFINE R == {n \in Nat : N - n \in S}
<1>1. R # {}
  <2>1. PICK m \in S : TRUE
    OBVIOUS
  <2>2. m \in 0..N
    BY <2>1
  <2>3. N - m \in Nat /\ N - (N - m) = m
    BY <2>2
  <2> QED BY <2>1, <2>3
<1>2. PICK n \in R : \A m \in R : n <= m
  BY <1>1, LeastExists
<1>3. ASSUME NEW x \in S PROVE N - n >= x
  <2>1. N - x \in R
    OBVIOUS
  <2> QED BY <1>2, <2>1
<1>4. N - n \in S
  BY <1>2
<1> QED BY <1>3, <1>4 DEF Max
-----------------------------------------------------------------------------
(* CopilotSync: types, and how old a seat may be *)

StillCached(h) == h \in 0..hourNow /\ h > hourNow - CacheHours

ClockInv ==
  /\ hourNow \in 0..LastHour /\ copilotFaults \in 0..CopilotFaults
  /\ begun \in -1..hourNow /\ wanting \subseteq CopilotOrgs

\* What Valkey has was asked for at one hour.
ReportInv(r) ==
  /\ DOMAIN r = {"data", "at"} /\ r.at \in -1..hourNow
  /\ DOMAIN r.data \subseteq CopilotOrgs /\ \A o \in DOMAIN r.data : r.data[o] = r.at
  /\ r.at = NotAsked => r = NoReport
ReportsInv ==
  /\ DOMAIN reports = {"metrics", "seats"}
  /\ \A k \in DOMAIN reports : ReportInv(reports[k])

RowsInv(rows) == \A r \in rows : r[1] \in -1..hourNow /\ r[2] \in CopilotOrgs

\* What a task holds is no older than the cache keeps it: a sync takes less than an
\* hour, and an idle one holds nothing.
TaskInv ==
  /\ DOMAIN copilot = {"at", "fetched", "rows", "seats", "tries"}
  /\ copilot.at \in {"idle", "metrics", "store_metrics", "seats", "store_seats", "usage"}
  /\ DOMAIN copilot.fetched \subseteq CopilotOrgs
  /\ \A o \in DOMAIN copilot.fetched : StillCached(copilot.fetched[o])
  /\ copilot.seats \in [CopilotOrgs -> Int]
  /\ \A o \in CopilotOrgs : copilot.seats[o] = NotAsked \/ StillCached(copilot.seats[o])
  /\ RowsInv(copilot.rows) /\ copilot.tries \in 0..SyncRetries
  /\ copilot.at = "idle" => copilot = NoSync

\* Nothing is stored for a day that has not come.
StoredInv ==
  /\ snapshots \in [Days -> [CopilotOrgs -> Int]] /\ RowsInv(metricRows)
  /\ \A d \in Days, o \in CopilotOrgs :
       snapshots[d][o] = NotAsked
         \/ (snapshots[d][o] \in 0..hourNow /\ snapshots[d][o] > d * SyncHours - CacheHours)
  /\ \A d \in Days : d > Today => snapshots[d] = NoSeats

CopilotInv == ClockInv /\ ReportsInv /\ TaskInv /\ StoredInv

LEMMA CopilotStarts == InitCopilot => CopilotInv
<1> SUFFICES ASSUME InitCopilot PROVE CopilotInv
  OBVIOUS
<1> USE CopilotAssumption
<1>1. NoSeats \in [CopilotOrgs -> Int] /\ \A o \in CopilotOrgs : NoSeats[o] = NotAsked
  BY DEF NoSeats, NotAsked
<1>2. ClockInv
  BY DEF InitCopilot, ClockInv, NotAsked
<1>3. ReportsInv
  BY DEF InitCopilot, ReportsInv, ReportInv, NoReport, NotAsked
<1>4. TaskInv
  BY <1>1 DEF InitCopilot, TaskInv, NoSync, RowsInv
<1>5. StoredInv
  BY <1>1 DEF InitCopilot, StoredInv, RowsInv
<1> QED BY <1>2, <1>3, <1>4, <1>5 DEF CopilotInv

\* A day has begun when its number is Today.
LEMMA TodayIsADay ==
  ASSUME CopilotInv
  PROVE  /\ Today \in Days /\ Today * SyncHours <= hourNow
         /\ \A d \in Days : d \in Nat
<1> USE CopilotAssumption
<1>1. hourNow \in Nat /\ hourNow <= LastHour /\ LastHour \in Nat
  BY DEF CopilotInv, ClockInv
<1>2. Today \in Nat /\ LastHour \div SyncHours \in Nat /\ Today * SyncHours <= hourNow
  BY <1>1, DayOfHour DEF Today
<1>3. Today <= LastHour \div SyncHours
  BY <1>1, LaterDay DEF Today
<1> QED BY <1>2, <1>3 DEF Days

\* The parts that keep when the clock does not move.
LEMMA SameHour ==
  ASSUME CopilotInv, UNCHANGED hourNow
  PROVE  /\ UNCHANGED reports => ReportsInv'
         /\ UNCHANGED copilot => TaskInv'
         /\ UNCHANGED <<snapshots, metricRows>> => StoredInv'
BY DEF CopilotInv, ReportsInv, ReportInv, TaskInv, StillCached, RowsInv, StoredInv, Today

LEMMA StartSyncKeeps == CopilotInv /\ StartSync => CopilotInv'
<1> SUFFICES ASSUME CopilotInv, StartSync PROVE CopilotInv'
  OBVIOUS
<1>1. ReportsInv' /\ StoredInv'
  BY SameHour DEF StartSync
<1>2. ClockInv'
  BY CopilotAssumption DEF StartSync, CopilotInv, ClockInv
<1>3. TaskInv'
  BY CopilotAssumption DEF StartSync, TaskInv, NoSync, NoSeats, RowsInv, NotAsked
<1> QED BY <1>1, <1>2, <1>3 DEF CopilotInv

LEMMA FetchKeeps ==
  ASSUME CopilotInv, NEW k \in {"metrics", "seats"}, NEW then \in {"store_metrics", "store_seats"},
         FetchReport(k, then)
  PROVE  CopilotInv'
<1> USE CopilotAssumption
<1>1. ClockInv /\ ReportsInv /\ TaskInv /\ StoredInv' /\ UNCHANGED hourNow
  BY SameHour DEF FetchReport, CopilotInv
<1>2. CASE Cached25(k)
  <2>1. ReportInv(reports[k])
    BY <1>1 DEF ReportsInv
  <2>2. \A o \in DOMAIN reports[k].data : StillCached(reports[k].data[o])
    BY <1>1, <1>2, <2>1 DEF Cached25, ReportInv, StillCached, NotAsked, ClockInv
  <2>3. TaskInv'
    BY <1>1, <1>2, <2>1, <2>2 DEF FetchReport, TaskInv, ReportInv, RowsInv, StillCached
  <2>4. ReportsInv' /\ ClockInv'
    BY <1>1, <1>2, SameHour DEF FetchReport, AfterHit, ClockInv
  <2> QED BY <1>1, <2>3, <2>4 DEF CopilotInv
<1>3. CASE ~Cached25(k)
  <2>1. PICK denials \in SUBSET CopilotOrgs :
          LET data == [o \in CopilotOrgs \ denials |-> hourNow] IN
          /\ denials # {} => copilotFaults < CopilotFaults
          /\ copilotFaults' = copilotFaults + (IF denials = {} THEN 0 ELSE 1)
          /\ reports' = [reports EXCEPT ![k] = [data |-> data, at |-> hourNow]]
          /\ wanting' = wanting \cup denials
          /\ copilot' = [copilot EXCEPT !.at = then, !.fetched = data]
    BY <1>3 DEF FetchReport, Ask
  <2> DEFINE data == [o \in CopilotOrgs \ denials |-> hourNow]
  <2>2. ClockInv'
    BY <1>1, <2>1 DEF ClockInv, FetchReport
  <2>3. TaskInv'
    BY <1>1, <2>1 DEF FetchReport, TaskInv, RowsInv, StillCached, ClockInv
  <2>4. ReportInv([data |-> data, at |-> hourNow])
    BY <1>1 DEF ReportInv, ClockInv, NotAsked
  <2>5. ReportsInv'
    BY <1>1, <2>1, <2>4 DEF ReportsInv, ReportInv
  <2> QED BY <1>1, <2>2, <2>3, <2>5 DEF CopilotInv
<1> QED BY <1>2, <1>3

LEMMA SkipKeeps ==
  ASSUME CopilotInv, NEW k \in {"metrics", "seats"}, NEW coming \in {"seats", "usage"},
         SkipPhase(k, coming)
  PROVE  CopilotInv'
<1>1. ReportsInv' /\ StoredInv'
  BY SameHour DEF SkipPhase
<1>2. ClockInv'
  BY CopilotAssumption DEF SkipPhase, CopilotInv, ClockInv
<1>3. TaskInv'
  BY DEF SkipPhase, CopilotInv, TaskInv, RowsInv, StillCached
<1> QED BY <1>1, <1>2, <1>3 DEF CopilotInv

LEMMA PersistKeeps ==
  ASSUME CopilotInv, NEW tooMany \in BOOLEAN, PersistMetrics \/ PersistSeats(tooMany)
  PROVE  CopilotInv'
<1>1. ReportsInv' /\ StoredInv'
  BY SameHour DEF PersistMetrics, PersistSeats
<1>2. ClockInv'
  BY CopilotAssumption DEF PersistMetrics, PersistSeats, CopilotInv, ClockInv
<1>3. CASE PersistMetrics
  <2> DEFINE new == {<<begun, o, copilot.fetched[o]>> : o \in DOMAIN copilot.fetched}
  <2>1. RowsInv(new)
    BY DEF CopilotInv, ClockInv, TaskInv, RowsInv
  <2>2. TaskInv'
    BY <1>3, <2>1 DEF PersistMetrics, CopilotInv, TaskInv, RowsInv, StillCached
  <2> QED BY <1>1, <1>2, <2>2 DEF CopilotInv
<1>4. CASE PersistSeats(tooMany)
  <2> DEFINE new == [o \in CopilotOrgs |-> IF o \in DOMAIN copilot.fetched
                                           THEN copilot.fetched[o] ELSE NotAsked]
  <2>1. new \in [CopilotOrgs -> Int] /\ \A o \in CopilotOrgs : new[o] = NotAsked \/ StillCached(new[o])
    BY DEF CopilotInv, TaskInv, StillCached, NotAsked
  <2>2. copilot' = [copilot EXCEPT !.at = "usage",
                                   !.seats = IF tooMany THEN copilot.seats ELSE new]
    BY <1>4 DEF PersistSeats
  <2>3. TaskInv'
    BY <1>4, <2>1, <2>2 DEF PersistSeats, CopilotInv, TaskInv, RowsInv, StillCached
  <2> QED BY <1>1, <1>2, <2>3 DEF CopilotInv
<1> QED BY <1>3, <1>4

LEMMA CommitKeeps == CopilotInv /\ CommitSync => CopilotInv'
<1> SUFFICES ASSUME CopilotInv, CommitSync PROVE CopilotInv'
  OBVIOUS
<1> USE CopilotAssumption
<1>1. ReportsInv' /\ ClockInv'
  BY SameHour DEF CommitSync, CopilotInv, ClockInv
<1>2. TaskInv'
  BY DEF CommitSync, TaskInv, NoSync, NoSeats, RowsInv, NotAsked
<1>3. Today \in Days /\ Today * SyncHours <= hourNow /\ hourNow \in Nat /\ Today \in Nat
  BY TodayIsADay DEF CopilotInv, ClockInv
<1> DEFINE new == Upserted(snapshots[Today], copilot.seats)
<1>4. new \in [CopilotOrgs -> Int]
  BY <1>3 DEF Upserted, CopilotInv, StoredInv, TaskInv
<1>5. ASSUME NEW o \in CopilotOrgs
      PROVE  new[o] = NotAsked
               \/ (new[o] \in 0..hourNow /\ new[o] > Today * SyncHours - CacheHours)
  <2>1. copilot.seats[o] = NotAsked \/ StillCached(copilot.seats[o])
    BY DEF CopilotInv, TaskInv
  <2>2. CASE copilot.seats[o] = NotAsked
    BY <1>3, <2>2 DEF Upserted, CopilotInv, StoredInv
  <2>3. CASE copilot.seats[o] # NotAsked /\ StillCached(copilot.seats[o])
    <3> DEFINE n == Today * SyncHours
    <3>1. n \in Nat /\ n <= hourNow
      BY <1>3
    <3>2. new[o] = copilot.seats[o]
      BY <2>3 DEF Upserted
    <3> HIDE DEF n, new
    <3>3. new[o] > n - CacheHours
      BY <1>3, <2>3, <3>1, <3>2 DEF StillCached
    <3> QED BY <2>3, <3>2, <3>3 DEF StillCached, n
  <2> QED BY <2>1, <2>2, <2>3
<1>6. snapshots' = [snapshots EXCEPT ![Today] = new] /\ Today' = Today
  BY DEF CommitSync, Today
<1>7. RowsInv(metricRows)'
  BY DEF CommitSync, CopilotInv, StoredInv, TaskInv, RowsInv
<1> HIDE DEF new
<1>8. StoredInv'
  BY <1>3, <1>4, <1>5, <1>6, <1>7 DEF CommitSync, CopilotInv, StoredInv
<1> QED BY <1>1, <1>2, <1>8 DEF CopilotInv

LEMMA FaultKeeps == CopilotInv /\ (StatementFails \/ LoseSync) => CopilotInv'
<1> SUFFICES ASSUME CopilotInv, StatementFails \/ LoseSync PROVE CopilotInv'
  OBVIOUS
<1> USE CopilotAssumption
<1>1. ReportsInv' /\ StoredInv'
  BY SameHour DEF StatementFails, LoseSync
<1>2. ClockInv'
  BY DEF StatementFails, LoseSync, Abandon, CopilotInv, ClockInv
<1>3. NoSeats \in [CopilotOrgs -> Int] /\ \A o \in CopilotOrgs : NoSeats[o] = NotAsked
  BY DEF NoSeats, NotAsked
<1>4. ASSUME NEW n \in 0..SyncRetries, NEW l \in {"metrics", "idle"},
             copilot' = [at |-> l, fetched |-> <<>>, rows |-> {}, seats |-> NoSeats, tries |-> n],
             l = "idle" => n = 0
      PROVE  TaskInv'
  <2>1. copilot'.at = l /\ copilot'.fetched = <<>> /\ copilot'.rows = {}
          /\ copilot'.seats = NoSeats /\ copilot'.tries = n
    BY <1>4
  <2>2. DOMAIN copilot' = {"at", "fetched", "rows", "seats", "tries"}
    BY <1>4
  <2>3. l = "idle" => copilot' = NoSync
    BY <1>4 DEF NoSync
  <2> QED BY <1>3, <2>1, <2>2, <2>3 DEF TaskInv, RowsInv
<1>5. TaskInv'
  <2>0. copilot.tries \in 0..SyncRetries
    BY DEF CopilotInv, TaskInv
  <2>1. SyncRetries \in Nat /\ 0 \in 0..SyncRetries
    OBVIOUS
  <2>2. CASE copilot' = NoSync
    BY <2>1, <1>4, <2>2 DEF NoSync
  <2>3. CASE copilot' = [NoSync EXCEPT !.at = "metrics", !.tries = copilot.tries + 1]
                /\ copilot.tries < SyncRetries
    <3>1. copilot' = [at |-> "metrics", fetched |-> <<>>, rows |-> {}, seats |-> NoSeats,
                      tries |-> copilot.tries + 1]
      BY <2>3 DEF NoSync
    <3>2. copilot.tries + 1 \in 0..SyncRetries
      BY <2>1, <2>0, <2>3
    <3> QED BY <1>4, <3>1, <3>2
  <2>4. CASE copilot' = [NoSync EXCEPT !.at = "metrics", !.tries = copilot.tries]
    <3>1. copilot' = [at |-> "metrics", fetched |-> <<>>, rows |-> {}, seats |-> NoSeats,
                      tries |-> copilot.tries]
      BY <2>4 DEF NoSync
    <3> QED BY <1>4, <2>0, <3>1
  <2>5. CASE StatementFails
    <3>1. CASE copilot.at # "usage" /\ copilot.tries < SyncRetries
      BY <2>3, <2>5, <3>1 DEF StatementFails
    <3>2. CASE ~(copilot.at # "usage" /\ copilot.tries < SyncRetries)
      BY <2>2, <2>5, <3>2 DEF StatementFails
    <3> QED BY <3>1, <3>2
  <2>6. CASE LoseSync
    BY <2>4, <2>6 DEF LoseSync
  <2> QED BY <2>5, <2>6
<1> QED BY <1>1, <1>2, <1>5 DEF CopilotInv

LEMMA HourKeeps == CopilotInv /\ HourPasses => CopilotInv'
<1> SUFFICES ASSUME CopilotInv, HourPasses PROVE CopilotInv'
  OBVIOUS
<1> USE CopilotAssumption
<1>1. hourNow \in Nat /\ hourNow' = hourNow + 1 /\ hourNow' \in 0..LastHour
  BY DEF CopilotInv, ClockInv, HourPasses
<1>2. Today <= Today' /\ Today \in Nat /\ Today' \in Nat
  BY <1>1, LaterDay, DayOfHour DEF Today
<1>3. ClockInv' /\ ReportsInv'
  BY <1>1 DEF HourPasses, CopilotInv, ClockInv, ReportsInv, ReportInv, NotAsked
<1>4. TaskInv'
  BY <1>1 DEF HourPasses, CopilotInv, TaskInv, NoSync, NoSeats, RowsInv, NotAsked
<1>5. \A d \in Days : d \in Nat
  BY TodayIsADay
<1>6. \A d \in Days : d > Today' => snapshots'[d] = NoSeats
  BY <1>2, <1>5 DEF HourPasses, CopilotInv, StoredInv
<1>7. RowsInv(metricRows)'
  BY <1>1 DEF HourPasses, CopilotInv, StoredInv, RowsInv
<1>8. StoredInv'
  BY <1>1, <1>6, <1>7 DEF HourPasses, CopilotInv, StoredInv
<1> QED BY <1>3, <1>4, <1>8 DEF CopilotInv

LEMMA CopilotKeeps == CopilotInv /\ [NextCopilot]_copilotVars => CopilotInv'
<1> SUFFICES ASSUME CopilotInv, [NextCopilot]_copilotVars PROVE CopilotInv'
  OBVIOUS
<1>1. CASE UNCHANGED copilotVars
  <2>1. ClockInv'
    BY <1>1 DEF copilotVars, CopilotInv, ClockInv
  <2> QED BY <1>1, <2>1, SameHour DEF copilotVars, CopilotInv
<1> QED BY <1>1, StartSyncKeeps, FetchKeeps, SkipKeeps, PersistKeeps, CommitKeeps, FaultKeeps,
           HourKeeps DEF NextCopilot

\* The variables of CopilotSync keep their shapes.
THEOREM CopilotTypes == SpecCopilot => []CopilotTypeOK
<1>1. CopilotInv => CopilotTypeOK
  BY DEF CopilotInv, ClockInv, TaskInv, StoredInv, RowsInv, CopilotTypeOK, NotAsked
<1> QED BY <1>1, CopilotStarts, CopilotKeeps, PTL DEF SpecCopilot

\* _CACHE_TTL_SECONDS: no snapshot has seats that were asked for more than 25 hours
\* before its day began.
THEOREM SnapshotsAreRecent == SpecCopilot => []SnapshotIsRecent
<1>1. CopilotInv => SnapshotIsRecent
  BY DEF CopilotInv, StoredInv, SnapshotIsRecent
<1> QED BY <1>1, CopilotStarts, CopilotKeeps, PTL DEF SpecCopilot

-----------------------------------------------------------------------------
(* CopilotSync: what the readers of the seats are shown *)

\* d is the day of the last snapshot.
LastDayStored(d) ==
  d \in Days /\ snapshots[d] # NoSeats /\ \A e \in Days : e > d => snapshots[e] = NoSeats

\* While no organisation was refused and no transaction lost, the seats in the cache are
\* in the last snapshot too, or in the hands of a task that will store them before the
\* cache runs out.
SeatInv(o) ==
  LET r == reports["seats"] IN
  /\ r # NoReport => o \in DOMAIN r.data
  /\ copilot.at = "store_seats" => Cached25("seats") /\ copilot.fetched = r.data
  /\ copilot.at = "usage" => Cached25("seats") /\ copilot.seats[o] = r.data[o]
  /\ copilot.at \notin {"store_seats", "usage"} /\ r # NoReport =>
       \E d \in Days : LastDayStored(d) /\ snapshots[d][o] >= r.data[o]
SeatsInv == \A o \in CopilotOrgs \ wanting : SeatInv(o)

LEMMA LatestIsLast ==
  ASSUME CopilotInv, NEW d \in Days, LastDayStored(d)
  PROVE  Snapshot # {} /\ LatestSnapshot(Snapshot) = d
<1>1. \A e \in Days : e \in Nat
  BY TodayIsADay
<1>2. d \in Snapshot /\ \A e \in Snapshot : d >= e /\ e \in Nat
  BY <1>1 DEF LastDayStored, Snapshot
<1>3. \A m \in Snapshot : (\A e \in Snapshot : m >= e) => m = d
  BY <1>2
<1> QED BY <1>2, <1>3 DEF LatestSnapshot, Max

\* Nobody is shown seats from an hour that has not come.
LEMMA ShownIsPast ==
  ASSUME CopilotInv, NEW o \in CopilotOrgs, ~Cached25("seats"),
         Snapshot # {} => LatestSnapshot(Snapshot) \in Days
  PROVE  SeatsShown[o] \in -1..hourNow
<1>1. NoSeats[o] = -1
  BY DEF NoSeats, NotAsked
<1>2. hourNow \in Nat
  BY CopilotAssumption DEF CopilotInv, ClockInv
<1>3. CASE Snapshot = {}
  BY <1>1, <1>2, <1>3 DEF SeatsShown
<1>4. CASE Snapshot # {}
  BY <1>2, <1>4 DEF SeatsShown, CopilotInv, StoredInv, NotAsked
<1> QED BY <1>3, <1>4

LEMMA LatestIsADay ==
  ASSUME CopilotInv, Snapshot # {}
  PROVE  LatestSnapshot(Snapshot) \in Days
<1>1. LastHour \div SyncHours \in Nat /\ Snapshot \subseteq 0..LastHour \div SyncHours
  BY CopilotAssumption, DayOfHour DEF Snapshot, Days
<1>2. Max(Snapshot) \in Snapshot
  BY <1>1, MaxExists
<1> QED BY <1>2 DEF LatestSnapshot, Snapshot

LEMMA SeatsStart == InitCopilot => SeatsInv
BY DEF InitCopilot, SeatsInv, SeatInv, NoSync

\* A step that leaves the seats, what is known of them and the clock alone.
LEMMA SeatsRest ==
  ASSUME CopilotInv, SeatsInv, UNCHANGED <<hourNow, snapshots, wanting>>,
         reports'["seats"] = reports["seats"],
         copilot.at \notin {"store_seats", "usage"}, copilot'.at \notin {"store_seats", "usage"}
  PROVE  SeatsInv'
BY DEF SeatsInv, SeatInv, LastDayStored

LEMMA ShownRests ==
  ASSUME UNCHANGED <<hourNow, snapshots>>, reports'["seats"] = reports["seats"]
  PROVE  UNCHANGED SeatsShown
BY DEF SeatsShown, Cached25, Snapshot

\* The seats of an organisation that is not wanting are asked for again.
LEMMA FetchKeepsSeats ==
  ASSUME CopilotInv, SeatsInv, FetchReport("seats", "store_seats"),
         NEW o \in CopilotOrgs \ wanting'
  PROVE  SeatInv(o)' /\ SeatsShown'[o] >= SeatsShown[o]
<1> USE CopilotAssumption
<1>1. /\ DOMAIN reports = {"metrics", "seats"} /\ ReportInv(reports["seats"])
      /\ DOMAIN copilot = {"at", "fetched", "rows", "seats", "tries"}
      /\ hourNow \in Nat /\ UNCHANGED <<hourNow, snapshots>>
  BY DEF CopilotInv, ClockInv, ReportsInv, TaskInv, FetchReport
<1>2. CASE Cached25("seats")
  <2>1. /\ UNCHANGED <<reports, wanting>> /\ copilot'.at = "store_seats"
        /\ copilot'.fetched = reports["seats"].data
    BY <1>1, <1>2 DEF FetchReport, AfterHit
  <2>2. SeatInv(o)'
    BY <1>1, <1>2, <2>1 DEF SeatsInv, SeatInv, Cached25
  <2>3. SeatsShown'[o] = SeatsShown[o] /\ SeatsShown[o] \in Int
    <3>1. SeatsShown' = SeatsShown
      BY <1>1, <2>1, ShownRests
    <3>2. SeatsShown[o] \in Int
      BY <1>1, <1>2 DEF SeatsShown, ReportInv, NotAsked
    <3> QED BY <3>1, <3>2
  <2> QED BY <2>2, <2>3
<1>3. CASE ~Cached25("seats")
  <2>1. PICK denials \in SUBSET CopilotOrgs :
          /\ reports' = [reports EXCEPT !["seats"] =
               [data |-> [x \in CopilotOrgs \ denials |-> hourNow], at |-> hourNow]]
          /\ wanting' = wanting \cup denials
          /\ copilot' = [copilot EXCEPT !.at = "store_seats",
                           !.fetched = [x \in CopilotOrgs \ denials |-> hourNow]]
    BY <1>3 DEF FetchReport, Ask
  <2> DEFINE data == [x \in CopilotOrgs \ denials |-> hourNow]
  <2>2. reports'["seats"] = [data |-> data, at |-> hourNow] /\ o \in DOMAIN data /\ data[o] = hourNow
    BY <1>1, <2>1
  <2>3. copilot'.at = "store_seats" /\ copilot'.fetched = data
    BY <1>1, <2>1
  <2> HIDE DEF data
  <2>4. Cached25("seats")'
    BY <1>1, <2>2 DEF Cached25, NoReport, NotAsked
  <2>5. SeatInv(o)'
    BY <2>2, <2>3, <2>4 DEF SeatInv
  <2>6. SeatsShown'[o] = hourNow
    BY <2>2, <2>4 DEF SeatsShown
  <2>7. SeatsShown[o] \in -1..hourNow
    BY <1>3, LatestIsADay, ShownIsPast
  <2> QED BY <1>1, <2>5, <2>6, <2>7
<1> QED BY <1>2, <1>3

\* Cached seats that the cache has handed out are stored while it still has them.
LEMMA CommitKeepsSeats ==
  ASSUME CopilotInv, SeatsInv, CommitSync, NEW o \in CopilotOrgs \ wanting'
  PROVE  SeatInv(o)' /\ SeatsShown'[o] >= SeatsShown[o]
<1> DEFINE data == reports["seats"].data
<1>1. /\ UNCHANGED <<reports, hourNow, wanting>> /\ Today' = Today /\ copilot' = NoSync
      /\ snapshots' = [snapshots EXCEPT ![Today] = Upserted(@, copilot.seats)]
  BY DEF CommitSync, Today
<1>2. Cached25("seats") /\ o \in DOMAIN data /\ copilot.seats[o] = data[o]
  BY <1>1 DEF SeatsInv, SeatInv, CommitSync, Cached25
<1>3. Today \in Days /\ Today \in Nat
  BY TodayIsADay
<1>4. data[o] \in Nat
  <2>1. ReportInv(reports["seats"]) /\ hourNow \in Nat
    BY CopilotAssumption DEF CopilotInv, ReportsInv, ClockInv
  <2> QED BY <1>2, <2>1 DEF ReportInv, Cached25, NotAsked
<1>5. snapshots'[Today][o] = data[o]
  BY <1>1, <1>2, <1>3, <1>4 DEF CopilotInv, StoredInv, Upserted, NotAsked
<1>6. LastDayStored(Today)'
  <2>1. snapshots'[Today] # NoSeats
    BY <1>4, <1>5 DEF NoSeats, NotAsked
  <2>2. \A d \in Days : d > Today => snapshots'[d] = NoSeats
    BY <1>1, <1>3 DEF CopilotInv, StoredInv
  <2> QED BY <1>1, <1>3, <2>1, <2>2 DEF LastDayStored
<1>7. SeatInv(o)'
  BY <1>1, <1>2, <1>3, <1>4, <1>5, <1>6 DEF SeatInv, NoSync
<1>8. SeatsShown'[o] = data[o] /\ SeatsShown[o] = data[o]
  BY <1>1, <1>2 DEF SeatsShown, Cached25
<1> QED BY <1>4, <1>7, <1>8

LEMMA HourKeepsSeats ==
  ASSUME CopilotInv, SeatsInv, HourPasses, NEW o \in CopilotOrgs \ wanting'
  PROVE  SeatInv(o)' /\ SeatsShown'[o] >= SeatsShown[o]
<1> DEFINE r == reports["seats"]
<1>1. UNCHANGED <<reports, snapshots, copilot, wanting, Snapshot>> /\ copilot.at = "idle"
  BY DEF HourPasses, Snapshot
<1>2. hourNow \in Nat /\ hourNow' = hourNow + 1 /\ ReportInv(r) /\ CacheHours \in Nat
  BY CopilotAssumption DEF CopilotInv, ClockInv, ReportsInv, HourPasses
<1>3. SeatInv(o)
  BY <1>1 DEF SeatsInv
<1>4. SeatInv(o)'
  BY <1>1, <1>3 DEF SeatInv, LastDayStored
<1>5. CASE ~Cached25("seats")
  <2>1. ~Cached25("seats")'
    BY <1>1, <1>2, <1>5 DEF Cached25, ReportInv
  <2>2. SeatsShown'[o] = SeatsShown[o]
    BY <1>1, <1>5, <2>1 DEF SeatsShown
  <2>3. SeatsShown[o] \in -1..hourNow
    BY <1>5, LatestIsADay, ShownIsPast
  <2> QED BY <1>2, <1>4, <2>2, <2>3
<1>6. CASE Cached25("seats")
  <2>1. r # NoReport /\ o \in DOMAIN r.data /\ r.data[o] \in Int
    BY <1>2, <1>3, <1>6 DEF SeatInv, Cached25, ReportInv
  <2>2. PICK d \in Days : LastDayStored(d) /\ snapshots[d][o] >= r.data[o]
    BY <1>1, <1>3, <2>1 DEF SeatInv
  <2>3. Snapshot # {} /\ LatestSnapshot(Snapshot) = d
    BY <2>2, LatestIsLast
  <2>4. SeatsShown[o] = r.data[o]
    BY <1>6, <2>1 DEF SeatsShown
  <2>5. CASE Cached25("seats")'
    BY <1>1, <1>4, <2>1, <2>4, <2>5 DEF SeatsShown
  <2>6. CASE ~Cached25("seats")'
    <3>1. SeatsShown'[o] = snapshots[d][o]
      BY <1>1, <2>3, <2>6 DEF SeatsShown
    <3> QED BY <1>4, <2>2, <2>4, <3>1
  <2> QED BY <2>5, <2>6
<1> QED BY <1>5, <1>6

\* A step of the metrics, or to the seats: nothing that is shown changes.
LEMMA OthersKeepSeats ==
  ASSUME CopilotInv, SeatsInv,
         \/ StartSync \/ FetchReport("metrics", "store_metrics") \/ SkipPhase("metrics", "seats")
         \/ PersistMetrics
  PROVE  SeatsInv' /\ UNCHANGED SeatsShown
<1>1. /\ DOMAIN reports = {"metrics", "seats"}
      /\ DOMAIN copilot = {"at", "fetched", "rows", "seats", "tries"}
  BY DEF CopilotInv, ReportsInv, TaskInv
<1>2. reports'["seats"] = reports["seats"] /\ UNCHANGED <<hourNow, snapshots>>
  BY <1>1 DEF StartSync, FetchReport, Ask, AfterHit, SkipPhase, PersistMetrics
<1>3. UNCHANGED SeatsShown
  BY <1>2, ShownRests
<1>4. /\ copilot.at \notin {"store_seats", "usage"} /\ copilot'.at \notin {"store_seats", "usage"}
      /\ wanting \subseteq wanting'
  BY <1>1 DEF StartSync, NoSync, FetchReport, Ask, SkipPhase, PersistMetrics
<1>5. SeatsInv'
  BY <1>2, <1>4 DEF SeatsInv, SeatInv, LastDayStored
<1> QED BY <1>3, <1>5

\* The seats pass from one hand of the task into the other.
LEMMA PersistKeepsSeats ==
  ASSUME CopilotInv, SeatsInv, NEW tooMany \in BOOLEAN, PersistSeats(tooMany),
         NEW o \in CopilotOrgs \ wanting'
  PROVE  SeatInv(o)' /\ SeatsShown' = SeatsShown
<1>1. /\ DOMAIN copilot = {"at", "fetched", "rows", "seats", "tries"} /\ copilot.at = "store_seats"
      /\ UNCHANGED <<hourNow, reports, snapshots>> /\ ~tooMany /\ UNCHANGED wanting
  BY DEF CopilotInv, TaskInv, PersistSeats
<1>2. Cached25("seats") /\ copilot.fetched = reports["seats"].data /\ o \in DOMAIN copilot.fetched
  BY <1>1 DEF SeatsInv, SeatInv, Cached25
<1>3. copilot'.at = "usage" /\ copilot'.seats[o] = copilot.fetched[o]
  BY <1>1, <1>2 DEF PersistSeats
<1>4. SeatInv(o)'
  BY <1>1, <1>2, <1>3 DEF SeatInv, Cached25
<1> QED BY <1>1, <1>4, ShownRests

LEMMA SeatsKeep ==
  ASSUME CopilotInv, SeatsInv, [NextCopilot]_copilotVars
  PROVE  SeatsInv' /\ [\A o \in CopilotOrgs \ wanting' : SeatsShown'[o] >= SeatsShown[o]]_copilotVars
<1>1. \A o \in CopilotOrgs \ wanting : SeatsShown[o] \in Int
  <2> SUFFICES ASSUME NEW o \in CopilotOrgs PROVE SeatsShown[o] \in Int
    OBVIOUS
  <2>1. CASE Cached25("seats")
    <3>1. ReportInv(reports["seats"]) /\ hourNow \in Nat
      BY CopilotAssumption DEF CopilotInv, ReportsInv, ClockInv
    <3> QED BY <2>1, <3>1 DEF SeatsShown, ReportInv, NotAsked
  <2>2. CASE ~Cached25("seats")
    BY <2>2, LatestIsADay, ShownIsPast
  <2> QED BY <2>1, <2>2
<1>2. CASE \/ StartSync \/ FetchReport("metrics", "store_metrics") \/ SkipPhase("metrics", "seats")
           \/ PersistMetrics
  <2>1. wanting \subseteq wanting'
    BY <1>2 DEF StartSync, FetchReport, Ask, SkipPhase, PersistMetrics
  <2> QED BY <1>1, <1>2, <2>1, OthersKeepSeats
<1>3. CASE \/ SkipPhase("seats", "usage") \/ StatementFails \/ LoseSync
  <2>1. wanting' = CopilotOrgs
    BY <1>3 DEF SkipPhase, StatementFails, LoseSync, Abandon
  <2> QED BY <2>1 DEF SeatsInv
<1>4. CASE \E tooMany \in BOOLEAN : PersistSeats(tooMany)
  <2>1. wanting \subseteq wanting'
    BY <1>4 DEF PersistSeats, CopilotInv, ClockInv
  <2> QED BY <1>1, <1>4, <2>1, PersistKeepsSeats DEF SeatsInv
<1>5. CASE FetchReport("seats", "store_seats")
  BY <1>5, FetchKeepsSeats DEF SeatsInv
<1>6. CASE CommitSync
  BY <1>6, CommitKeepsSeats DEF SeatsInv
<1>7. CASE HourPasses
  BY <1>7, HourKeepsSeats DEF SeatsInv
<1>8. CASE UNCHANGED copilotVars
  BY <1>8 DEF copilotVars, SeatsInv, SeatInv, Cached25, LastDayStored
<1> QED BY <1>2, <1>3, <1>4, <1>5, <1>6, <1>7, <1>8 DEF NextCopilot

\* _read_seats_from_store: nobody is shown older seats than before, whether the cache
\* runs out and the table takes over or a sync replaces it, unless an organisation was
\* refused or a transaction with seats was lost.
THEOREM SeatsStayNew == SpecCopilot => SeatsNeverGoBack
<1>1. InitCopilot => CopilotInv /\ SeatsInv
  BY CopilotStarts, SeatsStart
<1>2. CopilotInv /\ SeatsInv /\ [NextCopilot]_copilotVars =>
        /\ (CopilotInv /\ SeatsInv)'
        /\ [\A o \in CopilotOrgs \ wanting' : SeatsShown'[o] >= SeatsShown[o]]_copilotVars
  BY CopilotKeeps, SeatsKeep
<1> QED BY <1>1, <1>2, PTL DEF SpecCopilot, SeatsNeverGoBack

-----------------------------------------------------------------------------
(* WorkflowScan: the order of events, and what a chunk holds *)

GoesFirst(R, e, q) == <<e, q>> \in R

\* A finite set has a first element in any strict total order of it.
LEMMA FirstExists ==
  ASSUME NEW S, IsFiniteSet(S), S # {}, NEW R,
         \A e, q \in S : e # q => GoesFirst(R, e, q) \/ GoesFirst(R, q, e),
         \A e \in S : ~GoesFirst(R, e, e),
         \A e, q, x \in S : GoesFirst(R, e, q) /\ GoesFirst(R, q, x) => GoesFirst(R, e, x)
  PROVE  \E e \in S : \A q \in S \ {e} : GoesFirst(R, e, q)
<1> DEFINE before(e) == {q \in S : GoesFirst(R, q, e)}
           Counts == {Cardinality(before(e)) : e \in S}
<1>1. ASSUME NEW e \in S PROVE IsFiniteSet(before(e)) /\ Cardinality(before(e)) \in Nat
  BY FS_Subset, FS_CardinalityType, before(e) \in SUBSET S
<1> HIDE DEF before
<1>2. Counts \subseteq Nat /\ Counts # {}
  BY <1>1
<1>3. PICK n \in Counts : \A m \in Counts : n <= m
  BY <1>2, LeastExists
<1>4. PICK e \in S : n = Cardinality(before(e))
  BY <1>3
<1>5. ASSUME NEW q \in S \ {e}, ~GoesFirst(R, e, q) PROVE FALSE
  <2>1. GoesFirst(R, q, e)
    BY <1>5
  <2>2. before(q) \in SUBSET before(e) /\ q \in before(e) /\ q \notin before(q)
    BY <2>1 DEF before
  <2>3. Cardinality(before(q)) < Cardinality(before(e))
    <3>1. IsFiniteSet(before(e)) /\ IsFiniteSet(before(q))
      BY <1>1
    <3>2. /\ Cardinality(before(q)) <= Cardinality(before(e))
          /\ Cardinality(before(e)) = Cardinality(before(q)) => before(e) = before(q)
      BY <2>2, <3>1, FS_Subset
    <3>3. Cardinality(before(q)) \in Nat /\ Cardinality(before(e)) \in Nat
      BY <1>1
    <3> QED BY <2>2, <3>2, <3>3
  <2>4. n <= Cardinality(before(q))
    BY <1>3
  <2> QED BY <1>1, <1>4, <2>3, <2>4
<1> QED BY <1>5

\* (created_at, id) orders the events.
LEMMA NewerIsAnOrder ==
  /\ \A e, q \in WorkflowEvents : e # q => Newer(e, q) \/ Newer(q, e)
  /\ \A e \in WorkflowEvents : ~Newer(e, e)
  /\ \A e, q, x \in WorkflowEvents : Newer(e, q) /\ Newer(q, x) => Newer(e, x)
  /\ \A e, q \in WorkflowEvents : ~(Newer(e, q) /\ Newer(q, e))
<1>1. /\ \A e \in WorkflowEvents : CreatedOf[e] \in Int /\ IdOf[e] \in Int
      /\ \A e, q \in WorkflowEvents : IdOf[e] = IdOf[q] => e = q
  BY ScanAssumption
<1> HIDE DEF WorkflowEvents
<1> QED BY <1>1 DEF Newer

LEMMA NewestAndOldest ==
  ASSUME NEW S \in SUBSET WorkflowEvents, S # {}
  PROVE  /\ Newest(S) \in S /\ \A q \in S \ {Newest(S)} : Newer(Newest(S), q)
         /\ Oldest(S) \in S /\ \A q \in S \ {Oldest(S)} : Newer(q, Oldest(S))
<1>1. IsFiniteSet(S)
  BY ScanAssumption, FS_Subset
<1>2. \E e \in S : \A q \in S \ {e} : Newer(e, q)
  <2> DEFINE R == {p \in S \X S : Newer(p[1], p[2])}
  <2>1. \A e, q \in S : GoesFirst(R, e, q) <=> Newer(e, q)
    BY DEF GoesFirst
  <2> HIDE DEF R
  <2>2. /\ \A e, q \in S : e # q => GoesFirst(R, e, q) \/ GoesFirst(R, q, e)
        /\ \A e \in S : ~GoesFirst(R, e, e)
        /\ \A e, q, x \in S : GoesFirst(R, e, q) /\ GoesFirst(R, q, x) => GoesFirst(R, e, x)
    BY <2>1, NewerIsAnOrder
  <2>3. \E e \in S : \A q \in S \ {e} : GoesFirst(R, e, q)
    BY <1>1, <2>2, FirstExists
  <2> QED BY <2>1, <2>3
<1>3. \E e \in S : \A q \in S \ {e} : Newer(q, e)
  <2> DEFINE R == {p \in S \X S : Newer(p[2], p[1])}
  <2>1. \A e, q \in S : GoesFirst(R, e, q) <=> Newer(q, e)
    BY DEF GoesFirst
  <2> HIDE DEF R
  <2>2. /\ \A e, q \in S : e # q => GoesFirst(R, e, q) \/ GoesFirst(R, q, e)
        /\ \A e \in S : ~GoesFirst(R, e, e)
        /\ \A e, q, x \in S : GoesFirst(R, e, q) /\ GoesFirst(R, q, x) => GoesFirst(R, e, x)
    BY <2>1, NewerIsAnOrder
  <2>3. \E e \in S : \A q \in S \ {e} : GoesFirst(R, e, q)
    BY <1>1, <2>2, FirstExists
  <2> QED BY <2>1, <2>3
<1> QED BY <1>2, <1>3 DEF Newest, Oldest

\* What a query with LIMIT returns: the newest rows, and fewer than the limit only if
\* there are no others.
NewerIn(S, e) == {q \in S : Newer(q, e)}
LEMMA LimitReturnsNewest ==
  ASSUME NEW rest \in SUBSET WorkflowEvents, NEW n \in Nat, NEW C \in SUBSET rest,
         \A e \in rest : e \in C <=> Cardinality(NewerIn(rest, e)) < n
  PROVE  /\ \A c \in C, e \in rest \ C : Newer(c, e)
         /\ Cardinality(C) < n => C = rest
<1> DEFINE newer(e) == NewerIn(rest, e)
<1>1. IsFiniteSet(rest) /\ IsFiniteSet(C)
  BY ScanAssumption, FS_Subset
<1>2. ASSUME NEW e \in rest PROVE IsFiniteSet(newer(e)) /\ Cardinality(newer(e)) \in Nat
  <2>1. newer(e) \in SUBSET rest
    BY DEF NewerIn
  <2> HIDE DEF newer
  <2> QED BY <1>1, <2>1, FS_Subset, FS_CardinalityType
<1>3. ASSUME NEW c \in C, NEW e \in rest \ C PROVE Newer(c, e)
  <2>1. SUFFICES ASSUME Newer(e, c) PROVE FALSE
    BY NewerIsAnOrder
  <2>2. newer(e) \in SUBSET newer(c)
    BY <2>1, NewerIsAnOrder DEF NewerIn
  <2>3. Cardinality(newer(c)) < n /\ ~(Cardinality(newer(e)) < n)
    OBVIOUS
  <2>4. Cardinality(newer(c)) \in Nat /\ Cardinality(newer(e)) \in Nat /\ IsFiniteSet(newer(c))
    BY <1>2
  <2> HIDE DEF newer
  <2>5. Cardinality(newer(e)) <= Cardinality(newer(c))
    BY <2>2, <2>4, FS_Subset
  <2> QED BY <2>3, <2>4, <2>5
<1>4. ASSUME Cardinality(C) < n, C # rest PROVE FALSE
  <2> DEFINE others == rest \ C
             e == Newest(others)
  <2>1. others \in SUBSET WorkflowEvents /\ others # {}
    BY <1>4
  <2>2. e \in others /\ \A q \in others \ {e} : Newer(e, q)
    BY <2>1, NewestAndOldest
  <2>3. newer(e) \in SUBSET C
    BY <2>1, <2>2, NewerIsAnOrder DEF NewerIn
  <2>4. ~(Cardinality(newer(e)) < n)
    BY <2>2
  <2>5. Cardinality(newer(e)) \in Nat
    BY <1>2, <2>2
  <2> HIDE DEF newer, e, others
  <2>6. Cardinality(newer(e)) <= Cardinality(C) /\ Cardinality(C) \in Nat
    BY <1>1, <2>3, FS_Subset, FS_CardinalityType
  <2> QED BY <1>4, <2>4, <2>5, <2>6
<1> QED BY <1>3, <1>4

-----------------------------------------------------------------------------
(* WorkflowScan: the rows of findings *)

Workflows == {WorkflowOf[e] : e \in WorkflowEvents}
BetweenRows == {"set", "start", "store", "finish"}
WorkflowsOf(m) == {WorkflowOf[e] : e \in IdsOf[m]}

EventsInv ==
  /\ recorded \subseteq WorkflowEvents
  /\ analysed \subseteq recorded /\ debounced \subseteq recorded
  /\ scanFaults \in Nat

\* A task holds a workflow that its message has events of; they were committed first.
OutsideRows == {"unsent", "queued", "get", "done", "failed"}
Task(m, t) ==
  /\ DOMAIN t = {"at", "dated", "todo", "of", "tries"}
  /\ t.at \in OutsideRows \cup BetweenRows
  /\ t.todo \subseteq WorkflowsOf(m)
  /\ t.at \in BetweenRows => t.of \in WorkflowsOf(m)
ScansInv ==
  /\ DOMAIN scan = Scans
  /\ \A m \in Scans : /\ Task(m, scan[m])
                      /\ scan[m].at # "unsent" => IdsOf[m] \subseteq recorded

\* A row of findings describes an event that the rule applies to.
Describes(f) == \A k \in DOMAIN f : f[k] \in WorkflowEvents /\ k \in RowsOf(f[k])
FoundInv ==
  /\ findings \in [FindingRows -> WorkflowEvents \cup {NoEvent}]
  /\ \A k \in FindingRows : findings[k] # NoEvent => k \in RowsOf(findings[k])
  /\ \A e \in analysed : \A k \in RowsOf(e) : findings[k] # NoEvent

\* The rows of an event that a full scan owes are in its hands, or the event is behind
\* its cursor.
FullInv ==
  /\ DOMAIN fullScan = {"at", "chunked", "cursor", "seen", "owes"}
  /\ fullScan.at \in {"idle", "read", "write"} /\ fullScan.chunked \in BOOLEAN
  /\ fullScan.cursor \in recorded \cup {NoEvent} /\ fullScan.owes \subseteq recorded
  /\ Describes(fullScan.seen)
  /\ fullScan.at = "read" =>
       \A e \in fullScan.owes :
         Behind(e, fullScan.cursor) \/ RowsOf(e) \subseteq DOMAIN fullScan.seen
  /\ fullScan.at = "write" =>
       \A e \in fullScan.owes : RowsOf(e) \subseteq DOMAIN fullScan.seen

ScanInv == EventsInv /\ ScansInv /\ FoundInv /\ FullInv

\* A full scan that is not under way, and one that begins.
LEMMA NothingIsRead ==
  /\ DOMAIN NoFullScan = {"at", "chunked", "cursor", "seen", "owes"}
  /\ NoFullScan.at = "idle" /\ NoFullScan.chunked = FALSE /\ NoFullScan.cursor = NoEvent
  /\ NoFullScan.seen = <<>> /\ NoFullScan.owes = {} /\ Describes(NoFullScan.seen)
<1>1. /\ DOMAIN NoFullScan = {"at", "chunked", "cursor", "seen", "owes"}
      /\ NoFullScan.at = "idle" /\ NoFullScan.chunked = FALSE /\ NoFullScan.cursor = NoEvent
      /\ NoFullScan.seen = <<>> /\ NoFullScan.owes = {}
  BY DEF NoFullScan
<1>2. DOMAIN <<>> = {}
  OBVIOUS
<1> QED BY <1>1, <1>2 DEF Describes

LEMMA ScanStarts == InitScan => ScanInv
<1> SUFFICES ASSUME InitScan PROVE ScanInv
  OBVIOUS
<1>1. EventsInv
  BY DEF InitScan, EventsInv
<1>4. ScansInv
  <2>1. SUFFICES ASSUME NEW m \in Scans PROVE Task(m, scan[m]) /\ scan[m].at = "unsent"
    BY DEF InitScan, ScansInv
  <2> DEFINE none == ""
  <2>2. scan[m] = [at |-> "unsent", dated |-> FALSE, todo |-> {}, of |-> none, tries |-> 0]
    BY Zenon DEF InitScan
  <2> HIDE DEF none
  <2>3. /\ DOMAIN scan[m] = {"at", "dated", "todo", "of", "tries"}
        /\ scan[m].at = "unsent" /\ scan[m].todo \subseteq {}
    BY <2>2
  <2> QED BY <2>3 DEF Task, OutsideRows, BetweenRows
<1>2. FoundInv
  BY DEF InitScan, FoundInv
<1>3. FullInv
  BY NothingIsRead DEF InitScan, FullInv
<1> QED BY <1>1, <1>2, <1>3, <1>4 DEF ScanInv

LEMMA RowsAreFindingRows == \A e \in WorkflowEvents : RowsOf(e) \subseteq FindingRows
BY DEF FindingRows

\* An upsert of rows that describe their events keeps every row there is.
LEMMA UpsertKeepsFindings ==
  ASSUME FoundInv, analysed \subseteq WorkflowEvents, NEW new, Describes(new), UpsertFindings(new)
  PROVE  /\ findings' \in [FindingRows -> WorkflowEvents \cup {NoEvent}]
         /\ \A k \in FindingRows : findings'[k] # NoEvent => k \in RowsOf(findings'[k])
         /\ \A e \in analysed : \A k \in RowsOf(e) : findings'[k] # NoEvent
         /\ \A k \in DOMAIN new \cap FindingRows : findings'[k] # NoEvent
<1>1. NoEvent \notin WorkflowEvents
  BY ScanAssumption
<1> QED BY <1>1, RowsAreFindingRows DEF FoundInv, Describes, UpsertFindings

\* Steps of one task that change neither findings nor what is known of the events.
LEMMA FoundRests ==
  ASSUME ScanInv, UNCHANGED <<findings, analysed>> PROVE FoundInv'
BY DEF ScanInv, FoundInv

LEMMA FullRests ==
  ASSUME ScanInv, UNCHANGED fullScan, recorded \subseteq recorded' PROVE FullInv'
BY DEF ScanInv, FullInv

LEMMA OthersRest ==
  ASSUME ScansInv, NEW m \in Scans, recorded \subseteq recorded',
         DOMAIN scan' = Scans, \A s \in Scans \ {m} : scan'[s] = scan[s],
         Task(m, scan'[m]), scan'[m].at # "unsent" => IdsOf[m] \subseteq recorded'
  PROVE  ScansInv'
BY DEF ScansInv, Task

LEMMA SendKeeps ==
  ASSUME ScanInv, NEW m \in Scans, NEW dated \in BOOLEAN, SendScan(m, dated) \/ SendScanFails(m)
  PROVE  ScanInv'
<1>1. FoundInv' /\ FullInv'
  BY FoundRests, FullRests DEF SendScan, SendScanFails
<1>2. EventsInv'
  <2>1. IdsOf[m] \subseteq WorkflowEvents
    BY ScanAssumption
  <2> QED BY <2>1 DEF SendScan, SendScanFails, ScanInv, EventsInv, scanBounds
<1>3. recorded \subseteq recorded' /\ IdsOf[m] \subseteq recorded'
  BY DEF SendScan, SendScanFails
<1>4. Task(m, scan[m]) /\ DOMAIN scan = Scans /\ scan[m].at = "unsent"
  BY DEF SendScan, SendScanFails, ScanInv, ScansInv
<1>5. DOMAIN scan' = Scans /\ \A s \in Scans \ {m} : scan'[s] = scan[s]
  BY <1>4 DEF SendScan, SendScanFails
<1>6. Task(m, scan'[m])
  <2>1. DOMAIN scan'[m] = DOMAIN scan[m] /\ scan'[m].at \in {"queued", "failed"}
    BY <1>4 DEF SendScan, SendScanFails, Task
  <2>2. scan'[m].todo = scan[m].todo
    BY <1>4 DEF SendScan, SendScanFails, Task
  <2> QED BY <1>4, <2>1, <2>2 DEF Task, BetweenRows, OutsideRows
<1>7. ScansInv'
  BY <1>3, <1>5, <1>6, OthersRest DEF ScanInv
<1> QED BY <1>1, <1>2, <1>7 DEF ScanInv

\* What each step of a task makes of it.
LEMMA TaskMoves ==
  ASSUME ScanInv, NEW m \in Scans,
         \/ LoadEvents(m) \/ (\E w \in scan[m].todo : GetDebounce(m, w)) \/ SetDebounce(m)
         \/ StartActivity(m) \/ FinishActivity(m) \/ EndScanTask(m) \/ ScanFails(m) \/ LoseScan(m)
         \/ StoreFindings(m)
  PROVE  /\ DOMAIN scan' = Scans /\ \A s \in Scans \ {m} : scan'[s] = scan[s]
         /\ scan[m].at # "unsent" /\ Task(m, scan'[m])
<1>1. Task(m, scan[m]) /\ DOMAIN scan = Scans
  BY DEF ScanInv, ScansInv
<1>2. DOMAIN scan' = Scans /\ \A s \in Scans \ {m} : scan'[s] = scan[s]
  BY <1>1 DEF LoadEvents, GetDebounce, SetDebounce, StartActivity, FinishActivity, EndScanTask, ScanFails,
        LoseScan, StoreFindings, Again
<1>3. ASSUME Again(m) PROVE Task(m, scan'[m])
  <2> DEFINE none == ""
  <2>1. scan'[m] = [at |-> IF scan[m].tries < 2 THEN "queued" ELSE "failed", dated |-> scan[m].dated,
                    todo |-> {}, of |-> none, tries |-> scan[m].tries + 1]
    BY <1>1, <1>3, Zenon DEF Again
  <2> HIDE DEF none
  <2>2. /\ DOMAIN scan'[m] = {"at", "dated", "todo", "of", "tries"}
        /\ scan'[m].at \in {"queued", "failed"} /\ scan'[m].todo \subseteq {}
    BY <2>1
  <2> QED BY <2>2 DEF Task, BetweenRows, OutsideRows
<1>4. ASSUME LoadEvents(m) PROVE Task(m, scan'[m])
  <2>1. CASE scan[m].dated
    BY <1>3, <1>4, <2>1 DEF LoadEvents
  <2>2. CASE ~scan[m].dated
    <3>1. scan'[m] = [scan[m] EXCEPT !.at = "get", !.todo = WorkflowsOf(m)]
      BY <1>1, <1>4, <2>2 DEF LoadEvents, WorkflowsOf
    <3> QED BY <1>1, <3>1 DEF Task, BetweenRows, OutsideRows
  <2> QED BY <2>1, <2>2
<1>5. ASSUME NEW w \in scan[m].todo, GetDebounce(m, w) PROVE Task(m, scan'[m])
  <2>1. CASE w \in claims
    <3>1. scan'[m] = [scan[m] EXCEPT !.todo = @ \ {w}] /\ scan[m].at = "get"
      BY <1>1, <1>5, <2>1 DEF GetDebounce
    <3> QED BY <1>1, <3>1 DEF Task, BetweenRows, OutsideRows
  <2>2. CASE w \notin claims
    <3>1. scan'[m] = [scan[m] EXCEPT !.at = "set", !.todo = @ \ {w}, !.of = w]
      BY <1>1, <1>5, <2>2 DEF GetDebounce
    <3> QED BY <1>1, <3>1 DEF Task, BetweenRows, OutsideRows
  <2> QED BY <2>1, <2>2
<1>6. ASSUME SetDebounce(m) PROVE Task(m, scan'[m])
  <2>1. scan'[m] = [scan[m] EXCEPT !.at = "start"] /\ scan[m].at \in BetweenRows
    BY <1>1, <1>6 DEF SetDebounce, BetweenRows
  <2> QED BY <1>1, <2>1 DEF Task, BetweenRows
<1>7. ASSUME StartActivity(m) PROVE Task(m, scan'[m])
  <2>1. scan'[m] = [scan[m] EXCEPT !.at = "store"] /\ scan[m].at \in BetweenRows
    BY <1>1, <1>7 DEF StartActivity, BetweenRows
  <2> QED BY <1>1, <2>1 DEF Task, BetweenRows
<1>8. ASSUME StoreFindings(m) PROVE Task(m, scan'[m])
  <2>1. scan'[m] = [scan[m] EXCEPT !.at = "finish"] /\ scan[m].at \in BetweenRows
    BY <1>1, <1>8 DEF StoreFindings, BetweenRows, NextGroup
  <2> QED BY <1>1, <2>1 DEF Task, BetweenRows
<1>9. ASSUME FinishActivity(m) PROVE Task(m, scan'[m])
  <2>1. scan'[m] = [scan[m] EXCEPT !.at = "get", !.of = ""]
    BY <1>1, <1>9 DEF FinishActivity
  <2> QED BY <1>1, <2>1 DEF Task, BetweenRows, OutsideRows
<1>10. ASSUME EndScanTask(m) PROVE Task(m, scan'[m])
  <2>1. scan'[m] = [scan[m] EXCEPT !.at = "done"]
    BY <1>1, <1>10 DEF EndScanTask
  <2> QED BY <1>1, <2>1 DEF Task, BetweenRows, OutsideRows
<1>11. ASSUME LoseScan(m) PROVE Task(m, scan'[m])
  <2>1. scan'[m] = [scan[m] EXCEPT !.at = "queued", !.todo = {}, !.of = ""]
    BY <1>1, <1>11 DEF LoseScan
  <2> QED BY <1>1, <2>1 DEF Task, BetweenRows, OutsideRows
<1>12. Task(m, scan'[m])
  BY <1>3, <1>4, <1>5, <1>6, <1>7, <1>8, <1>9, <1>10, <1>11 DEF ScanFails
<1>13. scan[m].at # "unsent"
  BY DEF LoadEvents, GetDebounce, SetDebounce, StartActivity, FinishActivity, EndScanTask, ScanFails,
         LoseScan, StoreFindings, AtWork
<1> QED BY <1>2, <1>12, <1>13

LEMMA TaskKeeps ==
  ASSUME ScanInv, NEW m \in Scans,
         \/ LoadEvents(m) \/ (\E w \in scan[m].todo : GetDebounce(m, w)) \/ SetDebounce(m)
         \/ StartActivity(m) \/ FinishActivity(m) \/ EndScanTask(m) \/ ScanFails(m) \/ LoseScan(m)
  PROVE  ScanInv'
<1>1. FoundInv' /\ FullInv' /\ UNCHANGED <<recorded, analysed>>
  BY FoundRests, FullRests
    DEF LoadEvents, GetDebounce, SetDebounce, StartActivity, FinishActivity, EndScanTask, ScanFails,
        LoseScan
<1>2. debounced' \subseteq recorded
  <2>1. CASE \E w \in scan[m].todo : GetDebounce(m, w)
    <3>1. IdsOf[m] \subseteq recorded
      BY <2>1 DEF GetDebounce, ScanInv, ScansInv
    <3> QED BY <2>1, <3>1 DEF GetDebounce, Group, ScanInv, EventsInv
  <2>2. CASE ~\E w \in scan[m].todo : GetDebounce(m, w)
    BY <2>2 DEF LoadEvents, SetDebounce, StartActivity, FinishActivity, EndScanTask, ScanFails,
        LoseScan, ScanInv, EventsInv
  <2> QED BY <2>1, <2>2
<1>3. scanFaults' \in Nat
  <2>1. scanFaults' = scanFaults \/ scanFaults' = scanFaults + 1
    BY DEF LoadEvents, GetDebounce, SetDebounce, StartActivity, FinishActivity, EndScanTask,
           ScanFails, LoseScan, scanBounds
  <2> QED BY <2>1 DEF ScanInv, EventsInv
<1>4. EventsInv'
  BY <1>1, <1>2, <1>3 DEF ScanInv, EventsInv
<1>5. ScansInv'
  BY <1>1, TaskMoves, OthersRest DEF ScanInv, ScansInv
<1> QED BY <1>1, <1>4, <1>5 DEF ScanInv

LEMMA StoreKeeps ==
  ASSUME ScanInv, NEW m \in Scans, StoreFindings(m)
  PROVE  ScanInv'
<1> DEFINE group == Group(m, scan[m].of)
           rows == UNION {RowsOf(e) : e \in group}
<1>1. group \subseteq WorkflowEvents /\ group \subseteq recorded
  BY ScanAssumption DEF StoreFindings, ScanInv, ScansInv, EventsInv, Group
<1>2. rows \subseteq FindingRows
  BY <1>1, RowsAreFindingRows
<1>3. PICK new \in [rows -> group] : (\A k \in rows : k \in RowsOf(new[k])) /\ UpsertFindings(new)
  BY DEF StoreFindings
<1>4. Describes(new) /\ DOMAIN new = rows
  BY <1>1, <1>3 DEF Describes
<1>5. analysed' = analysed \cup group
  BY DEF StoreFindings
<1>6. UNCHANGED <<recorded, debounced, scanFaults, fullScan>>
  BY DEF StoreFindings, scanBounds
<1>7. FoundInv /\ analysed \subseteq WorkflowEvents
  BY DEF ScanInv, EventsInv
<1> HIDE DEF group, rows
<1>8. /\ findings' \in [FindingRows -> WorkflowEvents \cup {NoEvent}]
      /\ \A k \in FindingRows : findings'[k] # NoEvent => k \in RowsOf(findings'[k])
      /\ \A e \in analysed : \A k \in RowsOf(e) : findings'[k] # NoEvent
      /\ \A k \in DOMAIN new \cap FindingRows : findings'[k] # NoEvent
  BY <1>3, <1>4, <1>7, UpsertKeepsFindings
<1>9. \A e \in group : \A k \in RowsOf(e) : findings'[k] # NoEvent
  BY <1>2, <1>4, <1>8 DEF rows
<1>10. FoundInv'
  BY <1>5, <1>8, <1>9 DEF FoundInv
<1>11. EventsInv' /\ FullInv'
  BY <1>1, <1>5, <1>6, FullRests DEF ScanInv, EventsInv
<1>12. ScansInv'
  BY <1>6, TaskMoves, OthersRest DEF ScanInv, ScansInv
<1> QED BY <1>10, <1>11, <1>12 DEF ScanInv

-----------------------------------------------------------------------------
(* WorkflowScan: the scan of all events *)

LEMMA StartKeeps ==
  ASSUME ScanInv, NEW chunked \in BOOLEAN, StartFullScan(chunked), recorded' = recorded
  PROVE  FullInv'
<1> DEFINE nothing == <<>>
<1>1. fullScan' = [at |-> "read", chunked |-> chunked, cursor |-> NoEvent, seen |-> nothing,
                   owes |-> recorded]
  BY Zenon DEF StartFullScan
<1>4. nothing = NoFullScan.seen
  BY NothingIsRead
<1> HIDE DEF nothing
<1>2. /\ DOMAIN fullScan' = {"at", "chunked", "cursor", "seen", "owes"}
      /\ fullScan'.at = "read" /\ fullScan'.chunked = chunked /\ fullScan'.cursor = NoEvent
      /\ fullScan'.seen = NoFullScan.seen /\ fullScan'.owes = recorded
  BY <1>1, <1>4
<1>3. \A e \in WorkflowEvents : Behind(e, fullScan'.cursor)
  BY <1>2 DEF Behind
<1> QED BY <1>2, <1>3, NothingIsRead DEF FullInv, ScanInv, EventsInv, Describes

\* What is kept of the events of one more query.
LEMMA KeepsDescribing ==
  ASSUME NEW seen, Describes(seen), NEW events \in SUBSET WorkflowEvents
  PROVE  /\ DOMAIN FirstKept(seen, events) = DOMAIN seen \cup UNION {RowsOf(e) : e \in events}
         /\ Describes(FirstKept(seen, events))
<1> DEFINE kept == FirstKept(seen, events)
           of(k) == {e \in events : k \in RowsOf(e)}
<1>1. DOMAIN kept = DOMAIN seen \cup UNION {RowsOf(e) : e \in events}
  BY DEF FirstKept
<1>2. ASSUME NEW k \in DOMAIN kept PROVE kept[k] \in WorkflowEvents /\ k \in RowsOf(kept[k])
  <2>1. CASE k \in DOMAIN seen
    <3>1. kept[k] = seen[k]
      BY <2>1 DEF FirstKept
    <3> QED BY <2>1, <3>1 DEF Describes
  <2>2. CASE k \notin DOMAIN seen
    <3>1. kept[k] = Newest(of(k))
      BY <2>2 DEF FirstKept
    <3>2. of(k) # {} /\ of(k) \in SUBSET WorkflowEvents
      BY <1>1, <2>2
    <3>3. Newest(of(k)) \in of(k)
      <4> HIDE DEF of
      <4> QED BY <3>2, NewestAndOldest
    <3> QED BY <3>1, <3>3
  <2> QED BY <2>1, <2>2
<1> QED BY <1>1, <1>2 DEF Describes

\* One query: what the scan owes has been read, or is behind the cursor.
LEMMA ReadKeeps == ASSUME ScanInv, ReadChunk PROVE ScanInv'
<1> DEFINE rest == {e \in recorded : Behind(e, fullScan.cursor)}
           full == fullScan.chunked /\ Cardinality(Chunk) >= ChunkSize
           seen == fullScan.seen
<1>1. EventsInv' /\ FoundInv' /\ ScansInv'
  BY DEF ReadChunk, ScanInv, EventsInv, FoundInv, ScansInv, Task, scanBounds
<1>2. /\ FullInv /\ recorded' = recorded /\ recorded \subseteq WorkflowEvents
      /\ rest \in SUBSET WorkflowEvents
  BY DEF ReadChunk, ScanInv, EventsInv
<1>3. Chunk \in SUBSET WorkflowEvents /\ Chunk \subseteq rest
  BY <1>2 DEF Chunk
<1>4. /\ DOMAIN fullScan' = {"at", "chunked", "cursor", "seen", "owes"}
      /\ fullScan'.at = (IF full THEN "read" ELSE "write")
      /\ fullScan'.chunked = fullScan.chunked /\ fullScan'.owes = fullScan.owes
      /\ fullScan'.cursor = (IF Chunk = {} THEN fullScan.cursor ELSE Oldest(Chunk))
      /\ fullScan'.seen = FirstKept(seen, Chunk)
  BY <1>2 DEF ReadChunk, FullInv
<1>5. /\ Describes(fullScan'.seen)
      /\ DOMAIN fullScan'.seen = DOMAIN seen \cup UNION {RowsOf(e) : e \in Chunk}
  <2>1. Describes(seen)
    BY <1>2 DEF FullInv
  <2> HIDE DEF seen
  <2>2. /\ Describes(FirstKept(seen, Chunk))
        /\ DOMAIN FirstKept(seen, Chunk) = DOMAIN seen \cup UNION {RowsOf(e) : e \in Chunk}
    BY <1>3, <2>1, KeepsDescribing
  <2>3. fullScan'.seen = FirstKept(seen, Chunk)
    BY <1>4
  <2> QED BY <2>2, <2>3, Zenon
<1>6. Chunk # {} => Oldest(Chunk) \in Chunk
  BY <1>3, NewestAndOldest
<1>7. fullScan'.cursor \in recorded \cup {NoEvent}
  BY <1>2, <1>3, <1>4, <1>6 DEF FullInv
<1>8. ASSUME NEW e \in rest \ Chunk PROVE full /\ \A c \in Chunk : Newer(c, e)
  <2>1. fullScan.chunked
    BY <1>8 DEF Chunk
  <2>2. Chunk \in SUBSET rest /\ \A q \in rest : q \in Chunk <=> Cardinality(NewerIn(rest, q)) < ChunkSize
    BY <2>1 DEF Chunk, NewerIn
  <2>3. ChunkSize \in Nat
    BY ScanAssumption
  <2>4. IsFiniteSet(Chunk) /\ Cardinality(Chunk) \in Nat
    BY <1>3, ScanAssumption, FS_Subset, FS_CardinalityType
  <2> HIDE DEF rest
  <2>5. /\ \A c \in Chunk, q \in rest \ Chunk : Newer(c, q)
        /\ Cardinality(Chunk) < ChunkSize => Chunk = rest
    BY <1>2, <2>2, <2>3, LimitReturnsNewest
  <2> QED BY <1>8, <2>1, <2>3, <2>4, <2>5
<1>9. ASSUME NEW e \in fullScan.owes
      PROVE  \/ RowsOf(e) \subseteq DOMAIN fullScan'.seen
             \/ full /\ Behind(e, fullScan'.cursor)
  <2>1. CASE RowsOf(e) \subseteq DOMAIN seen
    BY <1>5, <2>1
  <2>2. CASE ~(RowsOf(e) \subseteq DOMAIN seen)
    <3>1. e \in rest
      BY <1>2, <1>9, <2>2 DEF ReadChunk, FullInv
    <3>2. CASE e \in Chunk
      BY <1>5, <3>2
    <3>3. CASE e \notin Chunk
      <4>1. full /\ \A c \in Chunk : Newer(c, e)
        BY <1>8, <3>1, <3>3
      <4>2. Behind(e, fullScan'.cursor)
        BY <1>4, <1>6, <3>1, <4>1 DEF Behind
      <4> QED BY <4>1, <4>2
    <3> QED BY <3>2, <3>3
  <2> QED BY <2>1, <2>2
<1>10. FullInv'
  <2> HIDE DEF full, seen
  <2>1. /\ fullScan'.at \in {"idle", "read", "write"} /\ fullScan'.chunked \in BOOLEAN
        /\ fullScan'.owes \subseteq recorded'
    BY <1>2, <1>4 DEF FullInv
  <2>2. fullScan'.at = "write" => ~full
    BY <1>4
  <2> QED BY <1>2, <1>4, <1>5, <1>7, <1>9, <2>1, <2>2 DEF FullInv, Describes
<1> QED BY <1>1, <1>10 DEF ScanInv

LEMMA WriteKeeps == ASSUME ScanInv, WriteFullScan PROVE ScanInv'
<1>1. /\ FullInv /\ FoundInv /\ analysed \subseteq WorkflowEvents /\ recorded \subseteq WorkflowEvents
      /\ UpsertFindings(fullScan.seen) /\ Describes(fullScan.seen)
      /\ fullScan.owes \subseteq recorded
      /\ \A e \in fullScan.owes : RowsOf(e) \subseteq DOMAIN fullScan.seen
  BY DEF WriteFullScan, ScanInv, EventsInv, FullInv
<1>2. /\ findings' \in [FindingRows -> WorkflowEvents \cup {NoEvent}]
      /\ \A k \in FindingRows : findings'[k] # NoEvent => k \in RowsOf(findings'[k])
      /\ \A e \in analysed : \A k \in RowsOf(e) : findings'[k] # NoEvent
      /\ \A k \in DOMAIN fullScan.seen \cap FindingRows : findings'[k] # NoEvent
  BY <1>1, UpsertKeepsFindings
<1>3. analysed' = analysed \cup fullScan.owes
  BY DEF WriteFullScan
<1>4. FoundInv'
  BY <1>1, <1>2, <1>3, RowsAreFindingRows DEF FoundInv
<1>5. EventsInv' /\ ScansInv'
  BY <1>1, <1>3 DEF WriteFullScan, ScanInv, EventsInv, ScansInv, Task, scanBounds
<1>6. FullInv'
  BY NothingIsRead DEF WriteFullScan, FullInv, Describes
<1> QED BY <1>4, <1>5, <1>6 DEF ScanInv

LEMMA FullScanBegins ==
  ASSUME ScanInv,
         \/ BeatScan \/ (\E chunked \in BOOLEAN : AskFullScan(chunked)) \/ LoseFullScan
         \/ \E w \in claims : DebounceExpires(w)
  PROVE  ScanInv'
<1>1. UNCHANGED <<recorded, findings, scan, analysed, debounced>>
  BY DEF BeatScan, AskFullScan, LoseFullScan, DebounceExpires
<1>2. scanFaults' = scanFaults \/ scanFaults' = scanFaults + 1
  BY DEF BeatScan, AskFullScan, LoseFullScan, DebounceExpires, scanBounds
<1>3. EventsInv' /\ FoundInv' /\ ScansInv'
  BY <1>1, <1>2 DEF ScanInv, EventsInv, FoundInv, ScansInv, Task
<1>4. \/ UNCHANGED fullScan \/ fullScan' = NoFullScan
      \/ \E chunked \in BOOLEAN : StartFullScan(chunked)
  <2>1. fullScan.chunked \in BOOLEAN
    BY DEF ScanInv, FullInv
  <2> QED BY <2>1 DEF BeatScan, AskFullScan, LoseFullScan, DebounceExpires
<1>5. FullInv'
  <2>1. CASE UNCHANGED fullScan
    BY <1>1, <2>1, FullRests
  <2>2. CASE fullScan' = NoFullScan
    BY <2>2, NothingIsRead DEF FullInv, Describes
  <2>3. CASE \E chunked \in BOOLEAN : StartFullScan(chunked)
    BY <1>1, <2>3, StartKeeps
  <2> QED BY <1>4, <2>1, <2>2, <2>3
<1> QED BY <1>3, <1>5 DEF ScanInv

LEMMA ScanKeeps == ScanInv /\ [NextScan]_scanVars => ScanInv'
<1> SUFFICES ASSUME ScanInv, [NextScan]_scanVars PROVE ScanInv'
  OBVIOUS
<1>1. CASE UNCHANGED scanVars
  BY <1>1 DEF scanVars, scanBounds, ScanInv, EventsInv, ScansInv, FoundInv, FullInv, Task, Describes
<1>2. CASE \E m \in Scans, dated \in BOOLEAN : SendScan(m, dated)
  BY <1>2, SendKeeps
<1>3. CASE \E m \in Scans : ScanStep(m) \/ SendScanFails(m) \/ ScanFails(m) \/ LoseScan(m)
  BY <1>3, SendKeeps, TaskKeeps, StoreKeeps DEF ScanStep, GroupStep
<1>4. CASE \/ BeatScan \/ (\E chunked \in BOOLEAN : AskFullScan(chunked)) \/ LoseFullScan
           \/ \E w \in claims : DebounceExpires(w)
  BY <1>4, FullScanBegins
<1>5. CASE FullScanStep
  BY <1>5, ReadKeeps, WriteKeeps DEF FullScanStep
<1> QED BY <1>1, <1>2, <1>3, <1>4, <1>5 DEF NextScan

LEMMA ScanInvariant == SpecScan => []ScanInv
BY ScanStarts, ScanKeeps, PTL DEF SpecScan

\* _analyze_events_paginated: what was recorded before a full scan began has its findings
\* when it ends, wherever the chunks end and whatever is recorded and upserted meanwhile.
THEOREM NothingIsMissed == SpecScan => []FullScanMissesNothing
<1>1. ScanInv => FullScanMissesNothing
  BY DEF ScanInv, FoundInv, FullScanMissesNothing
<1> QED BY <1>1, ScanInvariant, PTL

-----------------------------------------------------------------------------
(* WorkflowScan: the activity rows that are running *)

Holds(t, w) == t.at \in {"store", "finish"} /\ t.of = w
Holding(w) == {m \in Scans : Holds(scan[m], w)}

\* A workflow has a row for each task between its two rows; more only by a fault.
RunningInv ==
  /\ running \in [Workflows -> Nat] /\ IsFiniteSet(RunningRows)
  /\ \A w \in Workflows : Cardinality(Holding(w)) <= running[w]
  /\ RunningExplained

\* One task moves: the sets of tasks lose it, gain it or stay.
LEMMA SetsOfTasks ==
  ASSUME NEW S \in SUBSET Scans, NEW T \in SUBSET Scans, NEW m \in Scans, S \ {m} = T \ {m}
  PROVE  /\ Cardinality(S) \in Nat /\ Cardinality(T) \in Nat
         /\ (m \in S <=> m \in T) => Cardinality(T) = Cardinality(S)
         /\ m \notin S /\ m \in T => Cardinality(T) = Cardinality(S) + 1
         /\ m \in S /\ m \notin T => Cardinality(T) = Cardinality(S) - 1
<1>1. IsFiniteSet(S) /\ IsFiniteSet(T)
  BY ScanAssumption, FS_Subset
<1>2. Cardinality(S) \in Nat /\ Cardinality(T) \in Nat
  BY <1>1, FS_CardinalityType
<1>3. ASSUME m \in S <=> m \in T PROVE S = T
  BY <1>3
<1>4. ASSUME m \notin S, m \in T PROVE Cardinality(T) = Cardinality(S) + 1
  <2>1. T = S \cup {m}
    BY <1>4
  <2> QED BY <1>1, <1>4, <2>1, FS_AddElement
<1>5. ASSUME m \in S, m \notin T PROVE Cardinality(T) = Cardinality(S) - 1
  <2>1. T = S \ {m}
    BY <1>5
  <2> QED BY <1>1, <1>5, <2>1, FS_RemoveElement
<1> QED BY <1>2, <1>3, <1>4, <1>5

\* The rows when one more is running, and when one is completed.
LEMMA OneMoreRow ==
  ASSUME RunningInv, NEW w \in Workflows, running' = [running EXCEPT ![w] = @ + 1]
  PROVE  /\ running' \in [Workflows -> Nat] /\ IsFiniteSet(RunningRows')
         /\ Cardinality(RunningRows') = Cardinality(RunningRows) + 1
<1>1. running \in [Workflows -> Nat] /\ running' \in [Workflows -> Nat]
  BY DEF RunningInv
<1>2. RunningRows' = RunningRows \cup {<<w, running[w] + 1>>}
  <2>1. ASSUME NEW v \in Workflows PROVE 1 .. running'[v] = (1 .. running[v]) \cup (IF v = w THEN {running[w] + 1} ELSE {})
    BY <1>1
  <2> QED BY <1>1, <2>1 DEF RunningRows
<1>3. <<w, running[w] + 1>> \notin RunningRows
  BY <1>1 DEF RunningRows
<1> QED BY <1>1, <1>2, <1>3, FS_AddElement DEF RunningInv

LEMMA OneRowLess ==
  ASSUME RunningInv, NEW w \in Workflows, running[w] > 0, running' = [running EXCEPT ![w] = @ - 1]
  PROVE  /\ running' \in [Workflows -> Nat] /\ IsFiniteSet(RunningRows')
         /\ Cardinality(RunningRows') = Cardinality(RunningRows) - 1
<1>1. running \in [Workflows -> Nat] /\ running' \in [Workflows -> Nat]
  BY DEF RunningInv
<1>2. RunningRows' = RunningRows \ {<<w, running[w]>>}
  <2>1. ASSUME NEW v \in Workflows PROVE 1 .. running'[v] = (1 .. running[v]) \ (IF v = w THEN {running[w]} ELSE {})
    BY <1>1
  <2> QED BY <1>1, <2>1 DEF RunningRows
<1>3. <<w, running[w]>> \in RunningRows
  BY <1>1 DEF RunningRows
<1> QED BY <1>1, <1>2, <1>3, FS_RemoveElement DEF RunningInv

\* What the step of one task does to the sets of tasks.
LEMMA BusyTasks ==
  ASSUME ScanInv, NEW m \in Scans, \A s \in Scans \ {m} : scan'[s] = scan[s]
  PROVE  /\ Busy \in SUBSET Scans /\ Busy' \in SUBSET Scans /\ Busy \ {m} = Busy' \ {m}
         /\ \A w \in Workflows : /\ Holding(w) \in SUBSET Scans /\ Holding(w)' \in SUBSET Scans
                                 /\ Holding(w) \ {m} = Holding(w)' \ {m}
BY DEF Busy, Holding

\* Steps that write no activity row: a task may leave its row behind by a fault.
LEMMA RowsRest ==
  ASSUME ScanInv, RunningInv, NEW m \in Scans, \A s \in Scans \ {m} : scan'[s] = scan[s],
         UNCHANGED running, \A w \in Workflows : Holds(scan'[m], w) => Holds(scan[m], w),
         scan'[m].at \in {"store", "finish"} => scan[m].at \in {"store", "finish"},
         \/ scanFaults' = scanFaults + 1
         \/ /\ scanFaults' = scanFaults
            /\ scan[m].at \in {"store", "finish"} => scan'[m].at \in {"store", "finish"}
  PROVE  RunningInv'
<1>1. scanFaults \in Nat
  BY DEF ScanInv, EventsInv
<1>2. \A w \in Workflows : Cardinality(Holding(w)') <= running'[w]
  <2> TAKE w \in Workflows
  <2>1. /\ Holding(w) \in SUBSET Scans /\ Holding(w)' \in SUBSET Scans
        /\ Holding(w) \ {m} = Holding(w)' \ {m}
    BY BusyTasks
  <2>2. m \in Holding(w)' => m \in Holding(w)
    BY DEF Holding
  <2>3. Cardinality(Holding(w)) <= running[w] /\ running[w] \in Nat /\ running' = running
    BY DEF RunningInv
  <2>4. Cardinality(Holding(w)') \in Nat /\ Cardinality(Holding(w)) \in Nat
        /\ Cardinality(Holding(w)') <= Cardinality(Holding(w))
    <3> DEFINE S == Holding(w)
               T == Holding(w)'
    <3>1. S \in SUBSET Scans /\ T \in SUBSET Scans /\ S \ {m} = T \ {m} /\ (m \in T => m \in S)
      BY <2>1, <2>2
    <3> HIDE DEF S, T
    <3>2. /\ Cardinality(S) \in Nat /\ Cardinality(T) \in Nat
          /\ (m \in S <=> m \in T) => Cardinality(T) = Cardinality(S)
          /\ m \in S /\ m \notin T => Cardinality(T) = Cardinality(S) - 1
      BY <3>1, SetsOfTasks
    <3>3. Cardinality(T) <= Cardinality(S)
      BY <3>1, <3>2
    <3> QED BY <3>2, <3>3 DEF S, T
  <2> QED BY <2>3, <2>4
<1>3. RunningExplained'
  <2> DEFINE S == Busy
             T == Busy'
             n == Cardinality(RunningRows)
  <2>1. S \in SUBSET Scans /\ T \in SUBSET Scans /\ S \ {m} = T \ {m}
    BY BusyTasks
  <2>2. (m \in S <=> scan[m].at \in {"store", "finish"}) /\ (m \in T <=> scan'[m].at \in {"store", "finish"})
    BY DEF Busy
  <2>3. n' = n /\ n <= Cardinality(S) + scanFaults /\ IsFiniteSet(RunningRows)
    BY DEF RunningInv, RunningExplained, RunningRows
  <2>4. n \in Nat
    BY <2>3, FS_CardinalityType
  <2>5. RunningExplained' <=> n' <= Cardinality(T) + scanFaults'
    BY DEF RunningExplained
  <2> HIDE DEF S, T, n
  <2>6. /\ Cardinality(S) \in Nat /\ Cardinality(T) \in Nat
        /\ (m \in S <=> m \in T) => Cardinality(T) = Cardinality(S)
        /\ m \in S /\ m \notin T => Cardinality(T) = Cardinality(S) - 1
    BY <2>1, SetsOfTasks
  <2>7. n' <= Cardinality(T) + scanFaults'
    BY <1>1, <2>2, <2>3, <2>4, <2>6
  <2> QED BY <2>5, <2>7
<1> QED BY <1>2, <1>3 DEF RunningInv, RunningRows

LEMMA StartKeepsRows ==
  ASSUME ScanInv, RunningInv, NEW m \in Scans, StartActivity(m) PROVE RunningInv'
<1> DEFINE v == scan[m].of
           n == Cardinality(RunningRows)
<1>1. /\ DOMAIN scan' = Scans /\ \A s \in Scans \ {m} : scan'[s] = scan[s]
      /\ DOMAIN scan[m] = {"at", "dated", "todo", "of", "tries"} /\ DOMAIN scan = Scans
  BY TaskMoves DEF ScanInv, ScansInv, Task
<1>2. v \in Workflows
  BY ScanAssumption DEF StartActivity, ScanInv, ScansInv, Task, BetweenRows, WorkflowsOf, Workflows
<1>3. scan[m].at = "start" /\ scan'[m].at = "store" /\ scan'[m].of = v
  BY <1>1 DEF StartActivity
<1>4. running' = [running EXCEPT ![v] = @ + 1] /\ scanFaults' = scanFaults
  BY DEF StartActivity, scanBounds
<1>5. running \in [Workflows -> Nat] /\ RunningExplained /\ IsFiniteSet(RunningRows)
  BY DEF RunningInv
<1>6. /\ running' \in [Workflows -> Nat] /\ IsFiniteSet(RunningRows')
      /\ Cardinality(RunningRows') = n + 1
  <2> HIDE DEF v
  <2> QED BY <1>2, <1>4, OneMoreRow
<1>7. \A w \in Workflows : Cardinality(Holding(w)') <= running'[w]
  <2> TAKE w \in Workflows
  <2> DEFINE S == Holding(w)
             T == Holding(w)'
  <2>1. S \in SUBSET Scans /\ T \in SUBSET Scans /\ S \ {m} = T \ {m}
    BY <1>1, BusyTasks
  <2>2. m \notin S /\ (m \in T <=> w = v)
    BY <1>3 DEF Holding, Holds
  <2>3. Cardinality(S) <= running[w]
    BY DEF RunningInv
  <2>4. running'[w] = running[w] + (IF w = v THEN 1 ELSE 0)
    BY <1>4, <1>5
  <2>5. T = Holding(w)'
    OBVIOUS
  <2> HIDE DEF S, T
  <2>6. /\ Cardinality(S) \in Nat /\ Cardinality(T) \in Nat
        /\ (m \in S <=> m \in T) => Cardinality(T) = Cardinality(S)
        /\ m \notin S /\ m \in T => Cardinality(T) = Cardinality(S) + 1
    BY <2>1, SetsOfTasks
  <2>7. Cardinality(T) <= running'[w]
    BY <1>5, <2>2, <2>3, <2>4, <2>6
  <2> QED BY <2>5, <2>7
<1>8. RunningExplained'
  <2> DEFINE S == Busy
             T == Busy'
  <2>1. S \in SUBSET Scans /\ T \in SUBSET Scans /\ S \ {m} = T \ {m}
    BY <1>1, BusyTasks
  <2>2. m \notin S /\ m \in T
    BY <1>3 DEF Busy
  <2>3. n \in Nat /\ n <= Cardinality(S) + scanFaults /\ scanFaults \in Nat
    BY <1>5, FS_CardinalityType DEF RunningExplained, ScanInv, EventsInv
  <2>4. RunningExplained' <=> Cardinality(RunningRows') <= Cardinality(T) + scanFaults'
    BY DEF RunningExplained
  <2> HIDE DEF S, T, n
  <2>5. Cardinality(S) \in Nat /\ Cardinality(T) = Cardinality(S) + 1
    BY <2>1, <2>2, SetsOfTasks
  <2>6. Cardinality(RunningRows') <= Cardinality(T) + scanFaults'
    BY <1>4, <1>6, <2>3, <2>5
  <2> QED BY <2>4, <2>6
<1> QED BY <1>6, <1>7, <1>8 DEF RunningInv

LEMMA FinishKeepsRows ==
  ASSUME ScanInv, RunningInv, NEW m \in Scans, FinishActivity(m) PROVE RunningInv'
<1> DEFINE v == scan[m].of
           n == Cardinality(RunningRows)
<1>1. /\ DOMAIN scan' = Scans /\ \A s \in Scans \ {m} : scan'[s] = scan[s]
      /\ DOMAIN scan[m] = {"at", "dated", "todo", "of", "tries"} /\ DOMAIN scan = Scans
  BY TaskMoves DEF ScanInv, ScansInv, Task
<1>2. v \in Workflows
  BY ScanAssumption DEF FinishActivity, ScanInv, ScansInv, Task, BetweenRows, WorkflowsOf, Workflows
<1>3. scan[m].at = "finish" /\ scan'[m].at = "get"
  BY <1>1 DEF FinishActivity
<1>4. running' = [running EXCEPT ![v] = @ - 1] /\ scanFaults' = scanFaults
  BY DEF FinishActivity, scanBounds
<1>5. running \in [Workflows -> Nat] /\ RunningExplained /\ IsFiniteSet(RunningRows)
  BY DEF RunningInv
<1>6. ASSUME NEW w \in Workflows
      PROVE  /\ Cardinality(Holding(w)) <= running[w] /\ Cardinality(Holding(w)) \in Nat
             /\ w = v => Cardinality(Holding(w)) >= 1 /\ Cardinality(Holding(w)') = Cardinality(Holding(w)) - 1
             /\ w # v => Cardinality(Holding(w)') = Cardinality(Holding(w))
  <2> DEFINE S == Holding(w)
             T == Holding(w)'
  <2>1. S \in SUBSET Scans /\ T \in SUBSET Scans /\ S \ {m} = T \ {m}
    BY <1>1, BusyTasks
  <2>2. m \notin T /\ (m \in S <=> w = v)
    BY <1>3 DEF Holding, Holds
  <2>3. Cardinality(S) <= running[w]
    BY DEF RunningInv
  <2>4. S = Holding(w) /\ T = Holding(w)'
    OBVIOUS
  <2> HIDE DEF S, T
  <2>5. /\ Cardinality(S) \in Nat /\ Cardinality(T) \in Nat
        /\ (m \in S <=> m \in T) => Cardinality(T) = Cardinality(S)
        /\ m \in S /\ m \notin T => Cardinality(T) = Cardinality(S) - 1
    BY <2>1, SetsOfTasks
  <2>6. /\ w = v => Cardinality(S) >= 1 /\ Cardinality(T) = Cardinality(S) - 1
        /\ w # v => Cardinality(T) = Cardinality(S)
    BY <2>2, <2>5
  <2> QED BY <2>3, <2>4, <2>5, <2>6
<1>7. running[v] > 0
  BY <1>2, <1>5, <1>6
<1>8. /\ running' \in [Workflows -> Nat] /\ IsFiniteSet(RunningRows')
      /\ Cardinality(RunningRows') = n - 1
  <2> HIDE DEF v
  <2> QED BY <1>2, <1>4, <1>7, OneRowLess
<1>9. \A w \in Workflows : Cardinality(Holding(w)') <= running'[w]
  <2> TAKE w \in Workflows
  <2>1. running'[w] = running[w] - (IF w = v THEN 1 ELSE 0)
    BY <1>4, <1>5
  <2> HIDE DEF v
  <2> QED BY <1>5, <1>6, <2>1
<1>10. RunningExplained'
  <2> DEFINE S == Busy
             T == Busy'
  <2>1. S \in SUBSET Scans /\ T \in SUBSET Scans /\ S \ {m} = T \ {m}
    BY <1>1, BusyTasks
  <2>2. m \in S /\ m \notin T
    BY <1>3 DEF Busy
  <2>3. n \in Nat /\ n <= Cardinality(S) + scanFaults /\ scanFaults \in Nat
    BY <1>5, FS_CardinalityType DEF RunningExplained, ScanInv, EventsInv
  <2>4. RunningExplained' <=> Cardinality(RunningRows') <= Cardinality(T) + scanFaults'
    BY DEF RunningExplained
  <2> HIDE DEF S, T, n
  <2>5. Cardinality(S) \in Nat /\ Cardinality(T) = Cardinality(S) - 1
    BY <2>1, <2>2, SetsOfTasks
  <2>6. Cardinality(RunningRows') <= Cardinality(T) + scanFaults'
    BY <1>4, <1>8, <2>3, <2>5
  <2> QED BY <2>4, <2>6
<1> QED BY <1>8, <1>9, <1>10 DEF RunningInv

\* Where each of the other steps takes a task.
LEMMA WhereTasksGo ==
  ASSUME ScanInv, NEW m \in Scans
  PROVE  /\ (\E dated \in BOOLEAN : SendScan(m, dated)) \/ SendScanFails(m) =>
              scan[m].at = "unsent" /\ scan'[m].at \in {"queued", "failed"}
         /\ LoadEvents(m) => scan[m].at = "queued" /\ scan'[m].at \in {"queued", "failed", "get"}
         /\ \A w \in scan[m].todo : GetDebounce(m, w) =>
              scan[m].at = "get" /\ scan'[m].at \in {"get", "set"}
         /\ SetDebounce(m) =>
              scan[m].at = "set" /\ scan'[m].at = "start" /\ scan'[m].of = scan[m].of
         /\ StartActivity(m) =>
              scan[m].at = "start" /\ scan'[m].at = "store" /\ scan'[m].of = scan[m].of
         /\ StoreFindings(m) =>
              scan[m].at = "store" /\ scan'[m].at = "finish" /\ scan'[m].of = scan[m].of
         /\ FinishActivity(m) => scan[m].at = "finish" /\ scan'[m].at = "get"
         /\ EndScanTask(m) => scan[m].at = "get" /\ scan'[m].at = "done"
         /\ ScanFails(m) \/ LoseScan(m) =>
              scanFaults' = scanFaults + 1 /\ scan'[m].at \in {"queued", "failed"}
<1>1. DOMAIN scan = Scans /\ DOMAIN scan[m] = {"at", "dated", "todo", "of", "tries"}
  BY DEF ScanInv, ScansInv, Task
<1>2. ASSUME Again(m) PROVE scan'[m].at \in {"queued", "failed"}
  <2> DEFINE none == ""
  <2>1. scan'[m] = [at |-> IF scan[m].tries < 2 THEN "queued" ELSE "failed", dated |-> scan[m].dated,
                    todo |-> {}, of |-> none, tries |-> scan[m].tries + 1]
    BY <1>1, <1>2, Zenon DEF Again
  <2> HIDE DEF none
  <2> QED BY <2>1
<1>3. (\E dated \in BOOLEAN : SendScan(m, dated)) \/ SendScanFails(m) =>
        scan[m].at = "unsent" /\ scan'[m].at \in {"queued", "failed"}
  BY <1>1 DEF SendScan, SendScanFails
<1>4. LoadEvents(m) => scan[m].at = "queued" /\ scan'[m].at \in {"queued", "failed", "get"}
  BY <1>1, <1>2 DEF LoadEvents
<1>5. \A w \in scan[m].todo : GetDebounce(m, w) =>
        scan[m].at = "get" /\ scan'[m].at \in {"get", "set"}
  BY <1>1 DEF GetDebounce
<1>6. SetDebounce(m) => scan[m].at = "set" /\ scan'[m].at = "start" /\ scan'[m].of = scan[m].of
  BY <1>1 DEF SetDebounce
<1>7. StartActivity(m) => scan[m].at = "start" /\ scan'[m].at = "store" /\ scan'[m].of = scan[m].of
  BY <1>1 DEF StartActivity
<1>8. StoreFindings(m) => scan[m].at = "store" /\ scan'[m].at = "finish" /\ scan'[m].of = scan[m].of
  BY <1>1 DEF StoreFindings, NextGroup
<1>9. FinishActivity(m) => scan[m].at = "finish" /\ scan'[m].at = "get"
  BY <1>1 DEF FinishActivity
<1>10. EndScanTask(m) => scan[m].at = "get" /\ scan'[m].at = "done"
  BY <1>1 DEF EndScanTask
<1>11. ScanFails(m) \/ LoseScan(m) =>
         scanFaults' = scanFaults + 1 /\ scan'[m].at \in {"queued", "failed"}
  BY <1>1, <1>2 DEF ScanFails, LoseScan
<1> QED BY <1>3, <1>4, <1>5, <1>6, <1>7, <1>8, <1>9, <1>10, <1>11

\* The steps of one task or of the sender move only that task.
LEMMA OneTaskMoves ==
  ASSUME ScanInv, NEW m \in Scans,
         \/ ScanStep(m) \/ SendScanFails(m) \/ ScanFails(m) \/ LoseScan(m)
         \/ \E dated \in BOOLEAN : SendScan(m, dated)
  PROVE  \A s \in Scans \ {m} : scan'[s] = scan[s]
<1>1. CASE SendScanFails(m) \/ \E dated \in BOOLEAN : SendScan(m, dated)
  BY <1>1 DEF SendScan, SendScanFails, ScanInv, ScansInv
<1>2. CASE ScanStep(m) \/ ScanFails(m) \/ LoseScan(m)
  BY <1>2, TaskMoves DEF ScanStep, GroupStep
<1> QED BY <1>1, <1>2

LEMMA RowsStart == InitScan => RunningInv
<1> SUFFICES ASSUME InitScan PROVE RunningInv
  OBVIOUS
<1>1. running = [w \in Workflows |-> 0]
  BY DEF InitScan, Workflows
<1>7. running \in [Workflows -> Nat]
  BY <1>1
<1>2. RunningRows = {}
  <2>1. \A w \in DOMAIN running : running[w] = 0
    BY <1>1
  <2> QED BY <2>1 DEF RunningRows
<1>3. \A m \in Scans : scan[m].at = "unsent"
  BY DEF InitScan
<1>4. (\A w : Holding(w) = {}) /\ Busy = {}
  BY <1>3 DEF Holding, Holds, Busy
<1>5. Cardinality({}) = 0 /\ IsFiniteSet({}) /\ scanFaults = 0
  BY FS_EmptySet DEF InitScan
<1>6. RunningExplained
  BY <1>2, <1>4, <1>5 DEF RunningExplained
<1> QED BY <1>2, <1>4, <1>5, <1>6, <1>7 DEF RunningInv

LEMMA RowsKeep == ASSUME ScanInv, RunningInv, [NextScan]_scanVars PROVE RunningInv'
<1> DEFINE between == {"store", "finish"}
<1>1. ASSUME NEW m \in Scans,
             \/ ScanStep(m) \/ SendScanFails(m) \/ ScanFails(m) \/ LoseScan(m)
             \/ \E dated \in BOOLEAN : SendScan(m, dated)
      PROVE  RunningInv'
  <2>1. CASE StartActivity(m)
    BY <2>1, StartKeepsRows
  <2>2. CASE FinishActivity(m)
    BY <2>2, FinishKeepsRows
  <2>3. CASE ScanFails(m) \/ LoseScan(m)
    <3>1. UNCHANGED running /\ scanFaults' = scanFaults + 1 /\ scan'[m].at \notin between
      BY <2>3, WhereTasksGo DEF ScanFails, LoseScan
    <3> QED BY <1>1, <3>1, OneTaskMoves, RowsRest DEF Holds
  <2>4. CASE SendScanFails(m) \/ \E dated \in BOOLEAN : SendScan(m, dated)
    <3>1. /\ UNCHANGED running /\ scanFaults' \in {scanFaults, scanFaults + 1}
          /\ scan[m].at \notin between /\ scan'[m].at \notin between
      BY <2>4, WhereTasksGo DEF SendScanFails, SendScan, scanBounds
    <3> QED BY <1>1, <3>1, OneTaskMoves, RowsRest DEF Holds
  <2>5. CASE \/ LoadEvents(m) \/ SetDebounce(m) \/ EndScanTask(m)
             \/ \E w \in scan[m].todo : GetDebounce(m, w)
    <3>1. UNCHANGED running /\ scanFaults' = scanFaults
      BY <2>5 DEF LoadEvents, SetDebounce, EndScanTask, GetDebounce, scanBounds
    <3>2. scan[m].at \notin between /\ scan'[m].at \notin between
      BY <2>5, WhereTasksGo
    <3> QED BY <1>1, <3>1, <3>2, OneTaskMoves, RowsRest DEF Holds
  <2>6. CASE StoreFindings(m)
    <3>1. UNCHANGED running /\ scanFaults' = scanFaults
      BY <2>6 DEF StoreFindings, scanBounds
    <3>2. scan[m].at \in between /\ scan'[m].at \in between /\ scan'[m].of = scan[m].of
      BY <2>6, WhereTasksGo
    <3> QED BY <1>1, <3>1, <3>2, OneTaskMoves, RowsRest DEF Holds
  <2> QED BY <1>1, <2>1, <2>2, <2>3, <2>4, <2>5, <2>6 DEF ScanStep, GroupStep
<1>2. ASSUME UNCHANGED <<running, scan>>, scanFaults' \in {scanFaults, scanFaults + 1}
      PROVE  RunningInv'
  <2>1. /\ RunningRows' = RunningRows /\ Busy' = Busy
        /\ \A w \in Workflows : Holding(w)' = Holding(w)
    BY <1>2 DEF RunningRows, Busy, Holding, Holds
  <2>2. scanFaults \in Nat /\ Cardinality(RunningRows) \in Nat /\ Cardinality(Busy) \in Nat
    <3>1. IsFiniteSet(Busy) /\ IsFiniteSet(RunningRows)
      BY ScanAssumption, FS_Subset DEF Busy, RunningInv
    <3> QED BY <3>1, FS_CardinalityType DEF ScanInv, EventsInv
  <2>3. RunningExplained'
    <3>1. Cardinality(RunningRows) <= Cardinality(Busy) + scanFaults
      BY DEF RunningInv, RunningExplained
    <3>2. Cardinality(RunningRows) <= Cardinality(Busy) + scanFaults'
      BY <1>2, <2>2, <3>1
    <3> QED BY <2>1, <3>2 DEF RunningExplained
  <2> QED BY <1>2, <2>1, <2>3 DEF RunningInv
<1>3. CASE UNCHANGED scanVars
  BY <1>2, <1>3 DEF scanVars, scanBounds
<1>4. CASE \/ BeatScan \/ (\E chunked \in BOOLEAN : AskFullScan(chunked)) \/ LoseFullScan
           \/ (\E w \in claims : DebounceExpires(w)) \/ FullScanStep
  <2>1. /\ UNCHANGED <<running, scan>>
        /\ scanFaults' = scanFaults \/ scanFaults' = scanFaults + 1
    BY <1>4 DEF BeatScan, AskFullScan, LoseFullScan, DebounceExpires, FullScanStep, ReadChunk,
                WriteFullScan, scanBounds
  <2> QED BY <1>2, <2>1
<1> QED BY <1>1, <1>3, <1>4 DEF NextScan

-----------------------------------------------------------------------------
(* WorkflowScan: what a debounce key stands for *)

\* A task between GET and the commit of its findings has a workflow in its hands.
Scanning(m, w) == scan[m].at \in {"set", "start", "store"} /\ scan[m].of = w
Covered(w) == (\E q \in analysed : WorkflowOf[q] = w) \/ (\E m \in Scans : Scanning(m, w))
SkipInv ==
  scanFaults = 0 =>
    /\ \A w \in claims : Covered(w)
    /\ \A e \in debounced : Covered(WorkflowOf[e])

LEMMA DebounceStarts == InitScan => SkipInv
BY DEF InitScan, SkipInv

\* A step of one task that keeps the workflow in hand, or has analysed it.
LEMMA StaysCovered ==
  ASSUME NEW m \in Scans, \A s \in Scans \ {m} : scan'[s] = scan[s], analysed \subseteq analysed',
         NEW w, Covered(w), Scanning(m, w) => Covered(w)'
  PROVE  Covered(w)'
BY DEF Covered, Scanning

LEMMA StoreCovers ==
  ASSUME ScanInv, NEW m \in Scans, StoreFindings(m), NEW w, Scanning(m, w) PROVE Covered(w)'
<1>1. w \in WorkflowsOf(m) /\ w = scan[m].of
  BY DEF StoreFindings, ScanInv, ScansInv, Task, BetweenRows, Scanning
<1>2. PICK q \in IdsOf[m] : WorkflowOf[q] = w
  BY <1>1 DEF WorkflowsOf
<1>3. q \in analysed'
  BY <1>1, <1>2 DEF StoreFindings, Group
<1> QED BY <1>2, <1>3 DEF Covered

LEMMA DebounceKeeps == ASSUME ScanInv, SkipInv, [NextScan]_scanVars PROVE SkipInv'
<1> SUFFICES ASSUME scanFaults' = 0
             PROVE  /\ \A w \in claims' : Covered(w)'
                    /\ \A e \in debounced' : Covered(WorkflowOf[e])'
  BY DEF SkipInv
<1>1. ASSUME NEW m \in Scans,
             \/ ScanStep(m) \/ SendScanFails(m) \/ ScanFails(m) \/ LoseScan(m)
             \/ \E dated \in BOOLEAN : SendScan(m, dated)
      PROVE  /\ \A w \in claims' : Covered(w)'
             /\ \A e \in debounced' : Covered(WorkflowOf[e])'
  <2>1. scanFaults \in Nat /\ \A s \in Scans \ {m} : scan'[s] = scan[s]
    BY <1>1, OneTaskMoves DEF ScanInv, EventsInv
  <2>2. CASE SendScanFails(m) \/ ScanFails(m) \/ LoseScan(m)
    <3>1. scanFaults' = scanFaults + 1
      BY <2>2 DEF SendScanFails, ScanFails, LoseScan
    <3> QED BY <2>1, <3>1
  <2>3. CASE \/ (\E dated \in BOOLEAN : SendScan(m, dated))
             \/ LoadEvents(m) \/ EndScanTask(m) \/ FinishActivity(m)
    <3>1. UNCHANGED <<claims, debounced, analysed, scanFaults>>
      BY <2>3 DEF SendScan, LoadEvents, EndScanTask, FinishActivity, scanBounds
    <3>2. scan[m].at \notin {"set", "start", "store"}
      BY <2>3, WhereTasksGo
    <3>3. \A w : Covered(w) => Covered(w)'
      BY <2>1, <3>1, <3>2, StaysCovered DEF Scanning
    <3> QED BY <3>1, <3>3 DEF SkipInv
  <2>4. CASE SetDebounce(m) \/ StartActivity(m)
    <3>1. /\ UNCHANGED <<debounced, analysed, scanFaults>>
          /\ claims' \subseteq claims \cup {scan[m].of}
      BY <2>4 DEF SetDebounce, StartActivity, scanBounds
    <3>2. scan'[m].at \in {"start", "store"} /\ scan'[m].of = scan[m].of
      BY <2>4, WhereTasksGo
    <3>3. ASSUME NEW w, Scanning(m, w) PROVE Covered(w)'
      BY <3>2, <3>3 DEF Covered, Scanning
    <3>4. \A w : Covered(w) => Covered(w)'
      BY <2>1, <3>1, <3>3, StaysCovered
    <3>5. \A w \in claims' : w \in claims \/ Scanning(m, w)
      <4>1. SetDebounce(m) => scan[m].at \in {"set", "start", "store"}
        BY DEF SetDebounce
      <4> QED BY <2>4, <4>1 DEF SetDebounce, StartActivity, Scanning
    <3> QED BY <3>1, <3>3, <3>4, <3>5 DEF SkipInv
  <2>5. CASE StoreFindings(m)
    <3>1. UNCHANGED <<claims, debounced, scanFaults>> /\ analysed \subseteq analysed'
      BY <2>5 DEF StoreFindings, scanBounds
    <3>2. \A w : Scanning(m, w) => Covered(w)'
      BY <2>5, StoreCovers
    <3>3. \A w : Covered(w) => Covered(w)'
      BY <2>1, <3>1, <3>2, StaysCovered
    <3> QED BY <3>1, <3>3 DEF SkipInv
  <2>6. ASSUME NEW v \in scan[m].todo, GetDebounce(m, v)
        PROVE  /\ \A w \in claims' : Covered(w)'
               /\ \A e \in debounced' : Covered(WorkflowOf[e])'
    <3>1. UNCHANGED <<claims, analysed, scanFaults>> /\ scan[m].at = "get"
      BY <2>6 DEF GetDebounce, scanBounds
    <3>2. \A w : Covered(w) => Covered(w)'
      BY <2>1, <3>1, StaysCovered DEF Scanning
    <3>3. \A e \in debounced' : e \in debounced \/ (v \in claims /\ WorkflowOf[e] = v)
      BY <2>6 DEF GetDebounce, Group
    <3> QED BY <3>1, <3>2, <3>3 DEF SkipInv
  <2> QED BY <1>1, <2>2, <2>3, <2>4, <2>5, <2>6 DEF ScanStep, GroupStep
<1>2. ASSUME UNCHANGED <<debounced, scan, scanFaults>>, claims' \subseteq claims,
             analysed \subseteq analysed'
      PROVE  /\ \A w \in claims' : Covered(w)'
             /\ \A e \in debounced' : Covered(WorkflowOf[e])'
  BY <1>2 DEF SkipInv, Covered, Scanning
<1>3. CASE UNCHANGED scanVars
  BY <1>2, <1>3 DEF scanVars, scanBounds
<1>4. CASE \/ BeatScan \/ (\E chunked \in BOOLEAN : AskFullScan(chunked))
           \/ (\E w \in claims : DebounceExpires(w)) \/ FullScanStep
  BY <1>2, <1>4
    DEF BeatScan, AskFullScan, DebounceExpires, FullScanStep, ReadChunk, WriteFullScan, scanBounds
<1>5. CASE LoseFullScan
  BY <1>5 DEF LoseFullScan, ScanInv, EventsInv
<1> QED BY <1>1, <1>3, <1>4, <1>5 DEF NextScan

\* Types; and no workflow has fewer rows that are "running" than tasks between theirs.
THEOREM ScanTypes == SpecScan => []ScanTypeOK
<1>1. ScanInv /\ RunningInv => ScanTypeOK
  BY DEF ScanInv, EventsInv, FoundInv, RunningInv, ScanTypeOK
<1>2. ScanInv /\ RunningInv /\ [NextScan]_scanVars => ScanInv' /\ RunningInv'
  BY ScanKeeps, RowsKeep
<1> QED BY <1>1, <1>2, ScanStarts, RowsStart, PTL DEF SpecScan

\* An activity row says "running" only for a task between its rows, or for a fault.
THEOREM RowsAreExplained == SpecScan => []RunningExplained
<1>1. RunningInv => RunningExplained
  BY DEF RunningInv
<1>2. ScanInv /\ RunningInv /\ [NextScan]_scanVars => ScanInv' /\ RunningInv'
  BY ScanKeeps, RowsKeep
<1> QED BY <1>1, <1>2, ScanStarts, RowsStart, PTL DEF SpecScan

\* _scan_specific_events: without a failing step, an event is skipped only beside a scan
\* of its workflow, whatever keys expire and whichever tasks read them at once.
THEOREM SkippedOnlyBesideAScan == SpecScan => []SkippedBesideAScan
<1>1. SkipInv => SkippedBesideAScan
  BY DEF SkipInv, Covered, Scanning, SkippedBesideAScan
<1>2. ScanInv /\ SkipInv /\ [NextScan]_scanVars => ScanInv' /\ SkipInv'
  BY ScanKeeps, DebounceKeeps
<1> QED BY <1>1, <1>2, ScanStarts, DebounceStarts, PTL DEF SpecScan
-----------------------------------------------------------------------------
(* Retention *)
(* The invariant *)

\* What a policy of a type may be.
DaysOf(t) == DaysAsked \cup {MinimumDays[t]}

DaysOfTypes == {f \in [DataTypes -> Nat] : \A t \in DataTypes : f[t] \in DaysOf(t)}

\* The rows, and the requests that will write them.
PolicyInv ==
  /\ time \in 1..MaxTime
  /\ policy \in DaysOfTypes
  /\ update \in [Servers -> {NoUpdate} \cup [type : DataTypes, days : DaysAsked]]

\* Nothing was the policy later than now.
HeldInv ==
  /\ DOMAIN held = DataTypes
  /\ \A t \in DataTypes : held[t] \in [DaysOf(t) -> 0..time]

\* A cache was filled with policies at a moment that is past.
CacheInv ==
  cache \in [Processes -> {NotCached} \cup [days : DaysOfTypes, at : 0..time]]

\* The task, and the rows it deletes from.
EnforceInv ==
  /\ enforcing \in [i : 0..Len(TypeOrder) + 1, gone : SUBSET (DataTypes \X {1, 2}),
                    aborted : BOOLEAN]
  /\ aged \in [DataTypes -> SUBSET {1, 2}]

\* A cached policy is the policy, or was until some moment after the cache was filled.
RecentInv ==
  \A p \in Processes : cache[p] # NotCached =>
    \A t \in DataTypes :
      LET d == cache[p].days[t] IN policy[t] = d \/ held[t][d] >= cache[p].at

RetentionInv == PolicyInv /\ HeldInv /\ CacheInv /\ EnforceInv /\ RecentInv
-----------------------------------------------------------------------------
\* A read leaves a cache that was filled by now with what is, or was since, the policy
\* (CacheAfterRead, in get_retention_policies).
LEMMA ReadIsRecent ==
  ASSUME RetentionInv, NEW p \in Processes
  PROVE  LET c == CacheAfterRead(p) IN
         /\ c \in [days : DaysOfTypes, at : 0..time]
         /\ \A t \in DataTypes : policy[t] = c.days[t] \/ held[t][c.days[t]] >= c.at
<1>1. CASE Cached(p)
  <2>1. CacheAfterRead(p) = cache[p] /\ cache[p] # NotCached
    BY <1>1 DEF CacheAfterRead, Cached
  <2> QED BY <2>1 DEF RetentionInv, CacheInv, RecentInv
<1>2. CASE ~Cached(p)
  <2>1. CacheAfterRead(p) = [days |-> policy, at |-> time]
    BY <1>2 DEF CacheAfterRead
  <2>2. policy \in DaysOfTypes /\ time \in 0..time
    BY RetentionAssumption DEF RetentionInv, PolicyInv
  <2> QED BY <2>1, <2>2
<1> QED BY <1>1, <1>2

\* A cache that is filled by a read, and nothing else, keeps the caches as they must be
\* (the assignment to _policy_cache).
LEMMA ReadKeepsCaches ==
  ASSUME RetentionInv, NEW p \in Processes,
         cache' = [cache EXCEPT ![p] = CacheAfterRead(p)],
         UNCHANGED <<time, policy, held>>
  PROVE  CacheInv' /\ RecentInv'
<1> DEFINE c == CacheAfterRead(p)
<1>1. /\ c \in [days : DaysOfTypes, at : 0..time]
      /\ \A t \in DataTypes : policy[t] = c.days[t] \/ held[t][c.days[t]] >= c.at
  BY ReadIsRecent
<1>2. \A q \in Processes : cache'[q] = IF q = p THEN c ELSE cache[q]
  BY DEF RetentionInv, CacheInv
<1> HIDE DEF c
<1>3. CacheInv'
  <2>1. cache' \in [Processes -> {NotCached} \cup [days : DaysOfTypes, at : 0..time]]
    BY <1>1, <1>2 DEF RetentionInv, CacheInv, c
  <2> QED BY <2>1 DEF CacheInv, DaysOfTypes, DaysOf
<1>4. RecentInv'
  BY <1>1, <1>2 DEF RetentionInv, RecentInv
<1> QED BY <1>3, <1>4

\* So does a cache that is emptied (invalidate_policy_cache, a process that is lost).
LEMMA DroppingKeepsCaches ==
  ASSUME RetentionInv, NEW p \in Processes,
         cache' = [cache EXCEPT ![p] = NotCached],
         UNCHANGED <<time, policy, held>>
  PROVE  CacheInv' /\ RecentInv'
<1>1. \A q \in Processes : cache'[q] = IF q = p THEN NotCached ELSE cache[q]
  BY DEF RetentionInv, CacheInv
<1>2. CacheInv'
  <2>1. cache' \in [Processes -> {NotCached} \cup [days : DaysOfTypes, at : 0..time]]
    BY <1>1 DEF RetentionInv, CacheInv
  <2> QED BY <2>1 DEF CacheInv, DaysOfTypes, DaysOf
<1>3. RecentInv'
  BY <1>1 DEF RetentionInv, RecentInv
<1> QED BY <1>2, <1>3

\* What does not touch policies and caches leaves what is said of them.
LEMMA RestKeepsCaches ==
  ASSUME RetentionInv, UNCHANGED <<time, policy, held, cache>>
  PROVE  HeldInv' /\ CacheInv' /\ RecentInv'
BY DEF RetentionInv, HeldInv, CacheInv, RecentInv, DaysOfTypes, DaysOf
-----------------------------------------------------------------------------
\* The seeded policies, with no cache and no task (migration 0041).
LEMMA InitHolds == InitRetention => RetentionInv
<1> SUFFICES ASSUME InitRetention PROVE RetentionInv
  OBVIOUS
<1> USE RetentionAssumption
<1>1. PolicyInv
  BY DEF InitRetention, PolicyInv, DaysOfTypes, DaysOf
<1>2. HeldInv
  <2>1. \A t \in DataTypes : held[t] = [d \in DaysOf(t) |-> 0]
    BY DEF InitRetention, DaysOf
  <2>2. \A t \in DataTypes : held[t] \in [DaysOf(t) -> 0..time]
    BY <2>1 DEF InitRetention
  <2> QED BY <2>2 DEF InitRetention, HeldInv
<1>3. CacheInv
  BY DEF InitRetention, CacheInv
<1>4. EnforceInv
  BY DEF InitRetention, EnforceInv, NoTask
<1>5. RecentInv
  BY DEF InitRetention, RecentInv
<1> QED BY <1>1, <1>2, <1>3, <1>4, <1>5 DEF RetentionInv

\* The request that changes a policy (update_retention_policy): it drops the cache of
\* its own process before the row is committed.
LEMMA UpdateKeepsInv ==
  ASSUME RetentionInv, NEW p \in Servers, NEW t \in DataTypes, NEW d \in DaysAsked,
         UpdatePolicy(p, t, d)
  PROVE  RetentionInv'
<1> USE RetentionAssumption
<1>1. PolicyInv'
  BY DEF RetentionInv, PolicyInv, UpdatePolicy, DaysOfTypes, DaysOf
<1>2. CacheInv' /\ RecentInv'
  BY DroppingKeepsCaches DEF UpdatePolicy, Processes
<1>3. HeldInv' /\ EnforceInv'
  BY DEF RetentionInv, HeldInv, EnforceInv, UpdatePolicy, DaysOf
<1> QED BY <1>1, <1>2, <1>3 DEF RetentionInv

\* Its commit: what was the policy until now is held as such, and every cache that has
\* it was filled before.
LEMMA CommitKeepsInv ==
  ASSUME RetentionInv, NEW p \in Servers, CommitPolicy(p)
  PROVE  RetentionInv'
<1> DEFINE u == update[p]  old == policy[u.type]
<1> USE RetentionAssumption
<1>1. u.type \in DataTypes /\ u.days \in DaysAsked
  BY DEF RetentionInv, PolicyInv, CommitPolicy
<1>2. /\ policy' = [policy EXCEPT ![u.type] = u.days]
      /\ held' = [held EXCEPT ![u.type][old] = time]
      /\ update' = [update EXCEPT ![p] = NoUpdate]
      /\ UNCHANGED <<time, cache, aged, enforcing>>
  BY DEF CommitPolicy
<1>3. old \in DaysOf(u.type) /\ time \in 1..MaxTime
  BY <1>1 DEF RetentionInv, PolicyInv, DaysOfTypes
<1> HIDE DEF u, old
<1>4. PolicyInv'
  <2>1. policy' \in DaysOfTypes
    BY <1>1, <1>2 DEF RetentionInv, PolicyInv, DaysOfTypes, DaysOf
  <2>2. update' \in [Servers -> {NoUpdate} \cup [type : DataTypes, days : DaysAsked]]
    BY <1>2 DEF RetentionInv, PolicyInv
  <2> QED BY <1>2, <2>1, <2>2 DEF RetentionInv, PolicyInv, DaysOfTypes, DaysOf
<1>5. \A t \in DataTypes : \A e \in DaysOf(t) :
        held'[t][e] = IF t = u.type /\ e = old THEN time ELSE held[t][e]
  BY <1>1, <1>2, <1>3 DEF RetentionInv, HeldInv
<1>6. HeldInv'
  <2>1. DOMAIN held' = DataTypes
    BY <1>2 DEF RetentionInv, HeldInv
  <2>2. ASSUME NEW t \in DataTypes PROVE held'[t] \in [DaysOf(t) -> 0..time]
    <3>1. held[t] \in [DaysOf(t) -> 0..time]
      BY DEF RetentionInv, HeldInv
    <3>2. held'[t] = IF t = u.type THEN [held[t] EXCEPT ![old] = time] ELSE held[t]
      BY <1>1, <1>2 DEF RetentionInv, HeldInv
    <3> QED BY <1>3, <3>1, <3>2
  <2> QED BY <1>2, <2>1, <2>2 DEF HeldInv, DaysOf
<1>7. CacheInv'
  BY <1>2 DEF RetentionInv, CacheInv, DaysOfTypes, DaysOf
<1>8. RecentInv'
  <2> SUFFICES ASSUME NEW q \in Processes, cache[q] # NotCached, NEW t \in DataTypes
               PROVE  \/ policy'[t] = cache[q].days[t]
                      \/ held'[t][cache[q].days[t]] >= cache[q].at
    BY <1>2 DEF RecentInv
  <2> DEFINE d == cache[q].days[t]
  <2>1. cache[q] \in [days : DaysOfTypes, at : 0..time]
    BY DEF RetentionInv, CacheInv
  <2>2. d \in DaysOf(t) /\ cache[q].at \in 0..time
    BY <2>1 DEF DaysOfTypes
  <2>3. policy[t] = d \/ held[t][d] >= cache[q].at
    BY DEF RetentionInv, RecentInv
  <2>4. held'[t][d] = IF t = u.type /\ d = old THEN time ELSE held[t][d]
    BY <1>5, <2>2
  <2>5. t # u.type => policy'[t] = policy[t]
    BY <1>2 DEF RetentionInv, PolicyInv, DaysOfTypes
  <2>6. t = u.type => old = policy[t]
    BY DEF old
  <2> HIDE DEF d
  <2>7. CASE t = u.type /\ d = old
    BY <1>3, <2>2, <2>4, <2>7 DEF d
  <2>8. CASE t = u.type /\ d # old
    BY <2>3, <2>4, <2>6, <2>8 DEF d
  <2>9. CASE t # u.type
    BY <2>3, <2>4, <2>5, <2>9 DEF d
  <2> QED BY <2>7, <2>8, <2>9
<1>9. EnforceInv'
  BY <1>2 DEF RetentionInv, EnforceInv
<1> QED BY <1>4, <1>6, <1>7, <1>8, <1>9 DEF RetentionInv

\* The task reads the policies through its own cache, and changes none of them
\* (enforce_all).
LEMMA EnforceKeepsInv ==
  ASSUME RetentionInv, EnforceStep
  PROVE  RetentionInv'
<1> USE RetentionAssumption
<1>1. UNCHANGED <<time, policy, held, update>>
  BY DEF EnforceStep, StartEnforcement, EnforceType, CommitEnforcement
<1>2. PolicyInv' /\ HeldInv'
  BY <1>1 DEF RetentionInv, PolicyInv, HeldInv, DaysOfTypes, DaysOf
<1>3. CacheInv' /\ RecentInv'
  <2>1. Enforcer \in Processes
    BY DEF Processes
  <2>2. \/ cache' = [cache EXCEPT ![Enforcer] = CacheAfterRead(Enforcer)]
        \/ cache' = cache
    BY DEF EnforceStep, StartEnforcement, EnforceType, CommitEnforcement
  <2>3. CASE cache' = [cache EXCEPT ![Enforcer] = CacheAfterRead(Enforcer)]
    BY <1>1, <2>1, <2>3, ReadKeepsCaches
  <2>4. CASE cache' = cache
    BY <1>1, <2>4, RestKeepsCaches
  <2> QED BY <2>2, <2>3, <2>4
<1>4. EnforceInv'
  <2>0. Len(TypeOrder) \in Nat
    OBVIOUS
  <2>1. CASE StartEnforcement
    <3>1. enforcing' = [i |-> 1, gone |-> {}, aborted |-> FALSE] /\ UNCHANGED aged
      BY <2>1 DEF StartEnforcement, NoTask
    <3>2. 1 \in 0..Len(TypeOrder) + 1
      BY <2>0
    <3> QED BY <3>1, <3>2 DEF RetentionInv, EnforceInv
  <2>2. CASE EnforceType
    <3> DEFINE t == TypeOrder[enforcing.i]
               days == CacheAfterRead(Enforcer).days[t]
               old == {<<t, r>> : r \in {q \in aged[t] : q < time - days}}
    <3>1. enforcing.i \in 1..Len(TypeOrder) /\ t \in DataTypes
      BY <2>2 DEF EnforceType, DataTypes
    <3>2. old \in SUBSET (DataTypes \X {1, 2})
      BY <3>1 DEF RetentionInv, EnforceInv
    <3>3. \/ enforcing' = [enforcing EXCEPT !.i = @ + 1, !.aborted = TRUE]
          \/ enforcing' = [enforcing EXCEPT !.i = @ + 1, !.gone = @ \cup old]
      BY <2>2 DEF EnforceType
    <3>4. UNCHANGED aged
      BY <2>2 DEF EnforceType
    <3> HIDE DEF t, days, old
    <3>5. /\ enforcing \in [i : 0..Len(TypeOrder) + 1, gone : SUBSET (DataTypes \X {1, 2}),
                            aborted : BOOLEAN]
          /\ enforcing.i + 1 \in 0..Len(TypeOrder) + 1
      BY <2>0, <3>1 DEF RetentionInv, EnforceInv
    <3>6. enforcing.gone \cup old \in SUBSET (DataTypes \X {1, 2})
      BY <3>2, <3>5
    <3>7. enforcing' \in [i : 0..Len(TypeOrder) + 1, gone : SUBSET (DataTypes \X {1, 2}),
                          aborted : BOOLEAN]
      BY <3>3, <3>5, <3>6
    <3> QED BY <3>4, <3>7 DEF RetentionInv, EnforceInv
  <2>3. CASE CommitEnforcement
    BY <2>3 DEF RetentionInv, EnforceInv, CommitEnforcement, NoTask
  <2> QED BY <2>1, <2>2, <2>3 DEF EnforceStep
<1> QED BY <1>2, <1>3, <1>4 DEF RetentionInv

\* The clock goes on; what was cached was cached before.
LEMMA TimeKeepsInv ==
  ASSUME RetentionInv, TimePasses
  PROVE  RetentionInv'
<1> USE RetentionAssumption
<1>1. /\ time' = time + 1 /\ time \in 1..MaxTime /\ time' \in 1..MaxTime
      /\ 0..time \subseteq 0..time'
      /\ UNCHANGED <<aged, policy, cache, update, enforcing, held>>
  BY DEF RetentionInv, PolicyInv, TimePasses
<1>2. PolicyInv' /\ EnforceInv' /\ RecentInv'
  BY <1>1 DEF RetentionInv, PolicyInv, EnforceInv, RecentInv, DaysOfTypes, DaysOf
<1>3. HeldInv'
  BY <1>1 DEF RetentionInv, HeldInv, DaysOf
<1>4. CacheInv'
  <2>1. cache \in [Processes -> {NotCached} \cup [days : DaysOfTypes, at : 0..time']]
    BY <1>1 DEF RetentionInv, CacheInv
  <2> QED BY <1>1, <2>1 DEF CacheInv, DaysOfTypes, DaysOf
<1> QED BY <1>2, <1>3, <1>4 DEF RetentionInv

\* The invariant is inductive: every step of NextRetention keeps it.
LEMMA StepKeepsInv ==
  RetentionInv /\ [NextRetention]_retentionVars => RetentionInv'
<1> SUFFICES ASSUME RetentionInv, [NextRetention]_retentionVars PROVE RetentionInv'
  OBVIOUS
<1>1. ASSUME NEW p \in Servers, ListPolicies(p) PROVE RetentionInv'
  <2>1. CacheInv' /\ RecentInv'
    BY <1>1, ReadKeepsCaches DEF ListPolicies, Processes
  <2> QED BY <1>1, <2>1
        DEF ListPolicies, RetentionInv, PolicyInv, HeldInv, EnforceInv, DaysOfTypes, DaysOf
<1>2. ASSUME NEW p \in Servers, CommitPolicy(p) PROVE RetentionInv'
  BY <1>2, CommitKeepsInv
<1>3. ASSUME NEW p \in Servers, AbortPolicy(p) PROVE RetentionInv'
  <2>1. HeldInv' /\ CacheInv' /\ RecentInv'
    BY <1>3, RestKeepsCaches DEF AbortPolicy
  <2> QED BY <1>3, <2>1
        DEF AbortPolicy, RetentionInv, PolicyInv, EnforceInv, DaysOfTypes, DaysOf
<1>4. ASSUME NEW p \in Servers, NEW t \in DataTypes, NEW d \in DaysAsked, UpdatePolicy(p, t, d)
      PROVE  RetentionInv'
  BY <1>4, UpdateKeepsInv
<1>5. CASE EnforceStep
  BY <1>5, EnforceKeepsInv
<1>6. CASE LoseEnforcement
  <2>1. CacheInv' /\ RecentInv'
    BY <1>6, DroppingKeepsCaches DEF LoseEnforcement, Processes
  <2>2. EnforceInv'
    BY <1>6, RetentionAssumption DEF LoseEnforcement, NoTask, RetentionInv, EnforceInv
  <2> QED BY <1>6, <2>1, <2>2
        DEF LoseEnforcement, RetentionInv, PolicyInv, HeldInv, DaysOfTypes, DaysOf
<1>7. CASE TimePasses
  BY <1>7, TimeKeepsInv
<1>8. CASE UNCHANGED retentionVars
  BY <1>8, RestKeepsCaches
     DEF retentionVars, RetentionInv, PolicyInv, EnforceInv, DaysOfTypes, DaysOf
<1> QED BY <1>1, <1>2, <1>3, <1>4, <1>5, <1>6, <1>7, <1>8 DEF NextRetention
-----------------------------------------------------------------------------
\* RetentionTypeOK: policies are days that may be asked for, caches hold one for each
\* type, and the task stays among the types.
THEOREM RetentionTyping == SpecRetention => []RetentionTypeOK
<1>1. RetentionInv => RetentionTypeOK
  <2> SUFFICES ASSUME RetentionInv PROVE RetentionTypeOK
    OBVIOUS
  <2>1. \A t \in DataTypes : policy[t] \in DaysAsked \cup {MinimumDays[t]} /\ aged[t] \subseteq {1, 2}
    BY DEF RetentionInv, PolicyInv, EnforceInv, DaysOfTypes, DaysOf
  <2>2. \A p \in Processes : cache[p] = NotCached \/ DOMAIN cache[p].days = DataTypes
    BY DEF RetentionInv, CacheInv, DaysOfTypes
  <2> QED BY <2>1, <2>2 DEF RetentionInv, PolicyInv, EnforceInv, RetentionTypeOK
<1> QED BY <1>1, InitHolds, StepKeepsInv, PTL DEF SpecRetention

\* PolicyIsRecent, of get_retention_policies: whatever requests, processes and the task
\* do side by side, the days a process works with were the policy no longer ago than
\* _CACHE_TTL_SECONDS.
THEOREM RecentPolicies == SpecRetention => []PolicyIsRecent
<1>1. RetentionInv => PolicyIsRecent
  <2> SUFFICES ASSUME RetentionInv, NEW p \in Processes, Cached(p), NEW t \in DataTypes
               PROVE  \/ policy[t] = cache[p].days[t]
                      \/ held[t][cache[p].days[t]] > time - TimeToLive
    BY DEF PolicyIsRecent
  <2> DEFINE d == cache[p].days[t]
  <2>1. cache[p] # NotCached /\ time - cache[p].at < TimeToLive
    BY DEF Cached
  <2>2. cache[p] \in [days : DaysOfTypes, at : 0..time]
    BY <2>1 DEF RetentionInv, CacheInv
  <2>3. d \in DaysOf(t) /\ cache[p].at \in 0..time
    BY <2>2 DEF DaysOfTypes
  <2>4. policy[t] = d \/ held[t][d] >= cache[p].at
    BY <2>1 DEF RetentionInv, RecentInv
  <2>5. held[t][d] \in 0..time /\ time \in 1..MaxTime
    BY <2>3 DEF RetentionInv, HeldInv, PolicyInv
  <2> HIDE DEF d
  <2>6. CASE policy[t] = d
    BY <2>6 DEF d
  <2>7. CASE held[t][d] >= cache[p].at
    <3>1. held[t][d] > time - TimeToLive
      BY <2>1, <2>3, <2>5, <2>7, RetentionAssumption
    <3> QED BY <3>1 DEF d
  <2> QED BY <2>4, <2>6, <2>7
<1> QED BY <1>1, InitHolds, StepKeepsInv, PTL DEF SpecRetention

-----------------------------------------------------------------------------
(* Mirror: the invariant *)

\* What is walked through, once it is known.
Whole == IF F.over = "org" THEN <<"org">> ELSE listing
Scopes == Range(ScopeOrder)
ScopeIn(o) == IF F.over = "org" THEN "org" ELSE ScopeOf[o]

Cursor(c) ==
  /\ c.i \in 1..Len(Whole) + 1 /\ c.page \in Nat \ {0}
  /\ c = First \/ F.batch = "all" \/ c.i <= Len(Whole)
  /\ F.over = "teams" => c.over \in {<<>>, listing}

\* The page of its scope that an object is on, for one that is not before the cutoff.
Ahead(o) ==
  {q \in here : /\ F.over = "org" \/ ScopeOf[q] = ScopeIn(o)
                /\ F.since = "query" => ~BeforeCutoff(q)
                /\ entity = "workflow_runs" => touched[q] > born[q]
                /\ Precedes(q, o)}
PageIn(o) == Cardinality(Ahead(o)) \div PageSize + 1

\* A cursor has passed an object: its scope, or its page of the scope.
IsPast(c, o) ==
  \/ c = End
  \/ \E m \in DOMAIN Whole :
       /\ Whole[m] = ScopeIn(o)
       /\ m < c.i \/ (m = c.i /\ PageIn(o) < c.page)

TimesInv ==
  /\ clock \in 1..MaxClock /\ here \subseteq Objects /\ fresh \subseteq Objects
  /\ born \in [Objects -> Nat] /\ touched \in [Objects -> Nat]
  /\ \A o \in Objects : born[o] <= touched[o] /\ touched[o] <= clock
  /\ table \in [Objects -> 0..MaxClock \cup {Never}]
  /\ since \in 0..MaxClock \cup {Never} /\ finished \in 0..MaxClock \cup {Never}

ListingInv ==
  /\ entity \in Entities /\ denied \subseteq Scopes
  /\ listing \in Seq(Scopes) /\ Len(listing) = Len(ScopeOrder) /\ Scopes \subseteq Range(listing)
  /\ \A i, j \in DOMAIN listing : listing[i] = listing[j] => i = j

SyncTaskInv ==
  /\ step \in {"idle", "fetch", "store", "save", "complete", "failed"}
  /\ Cursor(cursor) /\ (next = End \/ Cursor(next))
  /\ saved = NoRow \/ (DOMAIN saved = {"cursor", "any"} /\ Cursor(saved.cursor))
  /\ DOMAIN batch \subseteq Objects /\ \A o \in DOMAIN batch : batch[o] \in 0..MaxClock
  /\ any \in BOOLEAN /\ saved.any \in BOOLEAN
  /\ {disturbed, refused, cutShort} \subseteq BOOLEAN /\ mirrorFaults \in 0..MirrorFaults

MirrorTypes == TimesInv /\ ListingInv /\ SyncTaskInv

\* An object has its row.
Mirrored(o) == MirroredAll({o})

\* What is owed behind a cursor ...
Has(c) == \A o \in Owed : IsPast(c, o) => Mirrored(o)

Undisturbed == step # "idle" /\ ~disturbed /\ ~refused /\ Sheltered

\* ... has its row, or is among the items to store, at each step of the task.
CoverInv ==
  Undisturbed =>
    /\ Has(cursor) /\ (saved # NoRow => Has(saved.cursor))
    /\ step = "store" =>
         /\ \A o \in Owed : IsPast(next, o) => Mirrored(o) \/ o \in DOMAIN batch
         /\ \A o \in DOMAIN batch \ fresh : batch[o] = touched[o]
         /\ entity \in ReplacedByMfa => Owed \subseteq DOMAIN batch
    /\ step = "save" => Has(next)
    /\ step = "complete" /\ ~cutShort => Has(End)
-----------------------------------------------------------------------------
(* Mirror: the branches of _fetch_page *)

\* What the proofs need of the facets of a branch.
Facets(e, f) ==
  /\ f.over \in {"org", "teams", "repos"}
  /\ f.batch \in {"request", "scope", "more", "all"}
  /\ f.denied \in {"end", "raise", "skip", "advance"}
  /\ f.since \in {"ignored", "updated", "created", "query"}
  /\ f.batch = "all" => f.over = "org" /\ f.since = "ignored"
  /\ f.since = "updated" => e \in {"repositories", "branch_protections", "pull_requests", "issues"}
  /\ e \in {"pull_requests", "issues"} => f.since = "updated"
  /\ f.since = "created" => e = "deployments"
  /\ e = "workflow_runs" => f.since = "query"
  /\ e = "audit_log" => f.since = "query" /\ f.over = "org"
  /\ e = "mfa_status" => f.batch = "all"

LEMMA FacetsOfFetch == \A e \in DOMAIN Fetch : Facets(e, Fetch[e])
<1>1. DOMAIN Fetch = {"org_members", "teams", "outside_collaborators", "credential_authorizations", "org_webhooks", "repositories", "team_members", "team_repos", "branch_protections", "installations", "audit_log", "repo_commits", "workflow_runs", "pull_requests", "issues", "deployments", "repo_collaborators", "repo_webhooks", "deploy_keys", "orgs", "enterprise_members", "self_hosted_runners", "actions_permissions", "secret_scanning_alerts", "dependabot_alerts", "code_scanning_alerts", "actions_workflows", "mfa_status", "license_consumption", "ghas_active_committers"}
  BY DEF Fetch
<1>2. Facets("org_members", Fetch["org_members"])
  BY DEF Facets, Fetch, SimpleFetch
<1>3. Facets("teams", Fetch["teams"])
  BY DEF Facets, Fetch, SimpleFetch
<1>4. Facets("outside_collaborators", Fetch["outside_collaborators"])
  BY DEF Facets, Fetch, SimpleFetch
<1>5. Facets("credential_authorizations", Fetch["credential_authorizations"])
  BY DEF Facets, Fetch, SimpleFetch
<1>6. Facets("org_webhooks", Fetch["org_webhooks"])
  BY DEF Facets, Fetch, SimpleFetch
<1>7. Facets("repositories", Fetch["repositories"])
  BY DEF Facets, Fetch, RepositoriesFetch, SimpleFetch
<1>8. Facets("team_members", Fetch["team_members"])
  BY DEF Facets, Fetch, TeamMembersFetch, SimpleFetch
<1>9. Facets("team_repos", Fetch["team_repos"])
  BY DEF Facets, Fetch, TeamReposFetch, TeamMembersFetch, SimpleFetch
<1>10. Facets("branch_protections", Fetch["branch_protections"])
  BY DEF Facets, Fetch, BranchProtectionsFetch, SimpleFetch
<1>11. Facets("installations", Fetch["installations"])
  BY DEF Facets, Fetch, InstallationsFetch, SimpleFetch
<1>12. Facets("audit_log", Fetch["audit_log"])
  BY DEF Facets, Fetch, AuditLogFetch, SimpleFetch
<1>13. Facets("repo_commits", Fetch["repo_commits"])
  BY DEF Facets, Fetch, RepoCommitsFetch
<1>14. Facets("workflow_runs", Fetch["workflow_runs"])
  BY DEF Facets, Fetch, WorkflowRunsFetch
<1>15. Facets("pull_requests", Fetch["pull_requests"])
  BY DEF Facets, Fetch, PullRequestsFetch
<1>16. Facets("issues", Fetch["issues"])
  BY DEF Facets, Fetch, IssuesFetch
<1>17. Facets("deployments", Fetch["deployments"])
  BY DEF Facets, Fetch, DeploymentsFetch
<1>18. Facets("repo_collaborators", Fetch["repo_collaborators"])
  BY DEF Facets, Fetch, CollaboratorsFetch
<1>19. Facets("repo_webhooks", Fetch["repo_webhooks"])
  BY DEF Facets, Fetch, WebhooksFetch, CollaboratorsFetch
<1>20. Facets("deploy_keys", Fetch["deploy_keys"])
  BY DEF Facets, Fetch, DeployKeysFetch, CollaboratorsFetch
<1>21. Facets("orgs", Fetch["orgs"])
  BY DEF Facets, Fetch, OrgsFetch, SimpleFetch
<1>22. Facets("enterprise_members", Fetch["enterprise_members"])
  BY DEF Facets, Fetch, EnterpriseMembersFetch, SimpleFetch
<1>23. Facets("self_hosted_runners", Fetch["self_hosted_runners"])
  BY DEF Facets, Fetch, RunnersFetch, SimpleFetch
<1>24. Facets("actions_permissions", Fetch["actions_permissions"])
  BY DEF Facets, Fetch, PermissionsFetch, SimpleFetch
<1>25. Facets("secret_scanning_alerts", Fetch["secret_scanning_alerts"])
  BY DEF Facets, Fetch, SecretScanningFetch, SimpleFetch
<1>26. Facets("dependabot_alerts", Fetch["dependabot_alerts"])
  BY DEF Facets, Fetch, DependabotFetch, SecretScanningFetch, SimpleFetch
<1>27. Facets("code_scanning_alerts", Fetch["code_scanning_alerts"])
  BY DEF Facets, Fetch, CodeScanningFetch, SecretScanningFetch, SimpleFetch
<1>28. Facets("actions_workflows", Fetch["actions_workflows"])
  BY DEF Facets, Fetch, WorkflowSummaryFetch, SecretScanningFetch, SimpleFetch
<1>29. Facets("mfa_status", Fetch["mfa_status"])
  BY DEF Facets, Fetch, MfaFetch, SecretScanningFetch, SimpleFetch
<1>30. Facets("license_consumption", Fetch["license_consumption"])
  BY DEF Facets, Fetch, BillingFetch, SecretScanningFetch, SimpleFetch
<1>31. Facets("ghas_active_committers", Fetch["ghas_active_committers"])
  BY DEF Facets, Fetch, BillingFetch, SecretScanningFetch, SimpleFetch
<1> QED
  BY <1>1, <1>2, <1>3, <1>4, <1>5, <1>6, <1>7, <1>8, <1>9, <1>10, <1>11, <1>12, <1>13, <1>14, <1>15, <1>16, <1>17, <1>18, <1>19, <1>20, <1>21, <1>22, <1>23, <1>24, <1>25, <1>26, <1>27, <1>28, <1>29, <1>30, <1>31

LEMMA FacetsOfEntity == ASSUME ListingInv PROVE Facets(entity, F)
BY FacetsOfFetch, MirrorAssumption DEF ListingInv, F

-----------------------------------------------------------------------------
(* Mirror: scopes, and the order of a listing *)

LEMMA WholeIsOrdered ==
  ASSUME ListingInv
  PROVE  /\ Whole \in Seq(Scopes \cup {"org"}) /\ Len(Whole) \in Nat
         /\ DOMAIN Whole = 1..Len(Whole)
         /\ \A i, j \in DOMAIN Whole : Whole[i] = Whole[j] => i = j
         /\ \A o \in Objects : \E m \in DOMAIN Whole : Whole[m] = ScopeIn(o)
<1>1. CASE F.over = "org"
  BY <1>1 DEF Whole, ScopeIn
<1>2. CASE F.over # "org"
  <2>1. Whole = listing /\ Whole \in Seq(Scopes)
    BY <1>2 DEF Whole, ListingInv
  <2>2. ASSUME NEW o \in Objects PROVE \E m \in DOMAIN Whole : Whole[m] = ScopeIn(o)
    <3>1. ScopeIn(o) \in Scopes /\ Scopes \subseteq Range(listing)
      BY <1>2, MirrorAssumption DEF ScopeIn, Scopes, ListingInv
    <3>2. \A x \in Range(listing) : \E m \in DOMAIN listing : listing[m] = x
      BY DEF Range
    <3> QED BY <2>1, <3>1, <3>2
  <2> QED BY <2>1, <2>2 DEF ListingInv
<1> QED BY <1>1, <1>2

LEMMA OverIsWhole == ASSUME ListingInv, Cursor(cursor) PROVE Over = Whole
<1>1. CASE F.over = "org"
  BY <1>1 DEF Over, Whole
<1>2. CASE F.over = "repos"
  BY <1>2 DEF Over, Whole
<1>3. CASE F.over = "teams"
  BY <1>3 DEF Over, Whole, Cursor
<1> QED BY <1>1, <1>2, <1>3, FacetsOfEntity DEF Facets

\* A listing has an order, total and strict.
LEMMA StampIsTime ==
  ASSUME TimesInv, NEW o \in Objects
  PROVE  Stamp(o) \in Nat /\ Stamp(o) <= clock /\ Rank[o] \in Int
BY MirrorAssumption DEF Stamp, TimesInv

LEMMA PrecedesIsAnOrder ==
  ASSUME TimesInv, NEW o \in Objects, NEW q \in Objects, NEW x \in Objects
  PROVE  /\ ~Precedes(o, o)
         /\ o # q => Precedes(o, q) \/ Precedes(q, o)
         /\ Precedes(o, q) => ~Precedes(q, o)
         /\ Precedes(o, q) /\ Precedes(q, x) => Precedes(o, x)
BY StampIsTime, MirrorAssumption DEF Precedes

Preceding(s, o) == {q \in Listed(s) : Precedes(q, o)}

LEMMA PagesAreNumbers ==
  ASSUME TimesInv, NEW s, NEW o
  PROVE  /\ PageOf(s, o) \in Nat \ {0} /\ PageIn(o) \in Nat \ {0}
         /\ IsFiniteSet(Preceding(s, o)) /\ IsFiniteSet(Ahead(o))
         /\ Cardinality(Preceding(s, o)) \in Nat /\ Cardinality(Ahead(o)) \in Nat
<1>1. Preceding(s, o) \subseteq Objects /\ Ahead(o) \subseteq Objects
  BY DEF Preceding, Ahead, Listed, TimesInv
<1>2. /\ IsFiniteSet(Preceding(s, o)) /\ IsFiniteSet(Ahead(o))
      /\ Cardinality(Preceding(s, o)) \in Nat /\ Cardinality(Ahead(o)) \in Nat
  BY <1>1, MirrorAssumption, FS_Subset, FS_CardinalityType
<1>3. \A n \in Nat : n \div PageSize + 1 \in Nat \ {0}
  BY MirrorAssumption, DayOfHour
<1> QED BY <1>2, <1>3 DEF PageOf, PageIn, Preceding

\* What is on an earlier page precedes.
LEMMA EarlierPagesPrecede ==
  ASSUME TimesInv, NEW s, NEW o \in Listed(s), NEW q \in Listed(s), PageOf(s, q) < PageOf(s, o)
  PROVE  Precedes(q, o)
<1>1. o \in Objects /\ q \in Objects /\ Listed(s) \subseteq Objects
  BY DEF Listed, TimesInv
<1>2. SUFFICES ASSUME ~Precedes(q, o) PROVE PageOf(s, o) <= PageOf(s, q)
  BY PagesAreNumbers
<1>3. Preceding(s, o) \subseteq Preceding(s, q)
  BY <1>1, <1>2, PrecedesIsAnOrder DEF Preceding
<1>4. Cardinality(Preceding(s, o)) <= Cardinality(Preceding(s, q))
  BY <1>3, PagesAreNumbers, FS_Subset
<1>5. Cardinality(Preceding(s, o)) \div PageSize <= Cardinality(Preceding(s, q)) \div PageSize
  BY <1>4, PagesAreNumbers, LaterDay, MirrorAssumption
<1>6. /\ Cardinality(Preceding(s, o)) \div PageSize \in Nat
      /\ Cardinality(Preceding(s, q)) \div PageSize \in Nat
  BY PagesAreNumbers, DayOfHour, MirrorAssumption
<1> QED BY <1>5, <1>6 DEF PageOf, Preceding

-----------------------------------------------------------------------------
(* Mirror: what one call takes up *)

LEMMA OwedIsListed ==
  ASSUME TimesInv, ListingInv, NEW o \in Owed
  PROVE  o \in Objects /\ o \in here /\ ~BeforeCutoff(o) /\ o \in Listed(ScopeIn(o))
BY DEF Owed, Listed, ScopeIn, TimesInv

\* What comes behind something from before the cutoff is from before it, too.
LEMMA OldComesLast ==
  ASSUME TimesInv, ListingInv, NEW o \in here, NEW q \in here, Precedes(q, o), BeforeCutoff(q),
         F.since \in {"updated", "created", "query"},
         entity = "pull_requests" /\ since = Never => born[q] # LongAgo
  PROVE  BeforeCutoff(o)
<1>1. /\ o \in Objects /\ q \in Objects /\ since \in Int
      /\ born[o] \in Nat /\ touched[o] \in Nat /\ born[q] \in Nat /\ touched[q] \in Nat
  BY DEF TimesInv, Never
<1>2. CASE since # Never
  <2>1. Stamp(q) < since /\ NewestFirst
    BY <1>2 DEF BeforeCutoff, NewestFirst
  <2>2. Stamp(o) <= Stamp(q)
    BY <2>1, <1>1, StampIsTime DEF Precedes
  <2> QED BY <1>1, <1>2, <2>1, <2>2, StampIsTime DEF BeforeCutoff
<1>3. CASE since = Never
  <2>1. /\ entity \notin {"repositories", "branch_protections"}
        /\ (IF entity = "issues" THEN touched[q] ELSE born[q]) = LongAgo
    BY <1>3 DEF BeforeCutoff
  <2>2. F.since = "updated" => entity \in {"pull_requests", "issues"}
    BY <2>1, FacetsOfEntity DEF Facets
  <2>3. NewestFirst
    BY <2>2 DEF NewestFirst
  <2>4. Stamp(o) <= Stamp(q)
    BY <2>3, <1>1, StampIsTime DEF Precedes
  <2>5. CASE entity = "issues"
    BY <1>1, <1>3, <2>1, <2>4, <2>5, FacetsOfEntity DEF Facets, Stamp, BeforeCutoff, LongAgo
  <2>6. CASE entity # "issues"
    <3>1. F.since # "updated"
      BY <1>3, <2>1, <2>2, <2>6
    <3> QED BY <1>1, <1>3, <2>1, <2>4, <2>6, <3>1 DEF Stamp, BeforeCutoff, LongAgo
  <2> QED BY <2>5, <2>6
<1> QED BY <1>2, <1>3

\* For what is not from before the cutoff, the page does not depend on the cursor.
LEMMA PageInIsPageOf ==
  ASSUME TimesInv, ListingInv, NEW o \in here, ~BeforeCutoff(o)
  PROVE  PageIn(o) = PageOf(ScopeIn(o), o)
<1>1. ASSUME NEW q \in here, Precedes(q, o), F.since = "query" PROVE ~BeforeCutoff(q)
  <2>1. entity # "pull_requests"
    BY <1>1, FacetsOfEntity DEF Facets
  <2> QED BY <1>1, <2>1, OldComesLast
<1>2. Ahead(o) = {q \in Listed(ScopeIn(o)) : Precedes(q, o)}
  BY <1>1 DEF Ahead, Listed
<1> QED BY <1>2 DEF PageIn, PageOf

\* Nothing that is owed comes behind something past the cutoff.
LEMMA StopsAreBehind ==
  ASSUME TimesInv, ListingInv, Sheltered, NEW o \in Owed, NEW p, NEW q \in Stops(ScopeIn(o), p)
  PROVE  Precedes(o, q)
<1>1. /\ q \in here /\ BeforeCutoff(q) /\ F.since \in {"updated", "created"}
      /\ o \in here /\ o \in Objects /\ q \in Objects /\ ~BeforeCutoff(o)
  BY OwedIsListed DEF Stops, Page, Listed, TimesInv
<1>2. entity = "pull_requests" /\ since = Never => born[q] # LongAgo
  BY <1>1 DEF Sheltered
<1>3. ~Precedes(q, o) /\ q # o
  BY <1>1, <1>2, OldComesLast
<1> QED BY <1>1, <1>3, PrecedesIsAnOrder

\* An owed object is kept from its page, or comes later, and then there is more.
LEMMA PageKeepsOwed ==
  ASSUME TimesInv, ListingInv, Sheltered, NEW o \in Owed, NEW p \in Nat \ {0}
  PROVE  LET s == ScopeIn(o) IN
         /\ F.batch = "all" => o \in Kept(s, p)
         /\ PageIn(o) = p => o \in Kept(s, p)
         /\ PageIn(o) > p => HasNextPage(s, p) /\ Stops(s, p) = {}
<1> DEFINE s == ScopeIn(o)
<1>1. o \in Objects /\ o \in here /\ o \in Listed(s) /\ PageIn(o) = PageOf(s, o)
  BY OwedIsListed, PageInIsPageOf
<1>2. /\ entity \in {"branch_protections", "issues"} => o \notin Bare
      /\ \A q \in Stops(s, p) : Precedes(o, q)
  BY StopsAreBehind DEF Owed
<1>3. F.batch = "all" => o \in Kept(s, p)
  BY <1>1, <1>2 DEF Kept
<1>4. PageIn(o) = p => o \in Kept(s, p)
  BY <1>1, <1>2 DEF Kept, Page
<1>5. ASSUME PageIn(o) > p PROVE HasNextPage(s, p) /\ Stops(s, p) = {}
  <2>1. HasNextPage(s, p)
    BY <1>1, <1>5 DEF HasNextPage
  <2>2. ASSUME NEW q \in Stops(s, p) PROVE FALSE
    <3>1. q \in Listed(s) /\ PageOf(s, q) = p /\ q \in Objects
      BY DEF Stops, Page, Listed, TimesInv
    <3>2. Precedes(q, o)
      BY <1>1, <1>5, <3>1, EarlierPagesPrecede
    <3> QED BY <1>1, <1>2, <3>1, <3>2, PrecedesIsAnOrder
  <2> QED BY <2>1, <2>2
<1> QED BY <1>3, <1>4, <1>5

\* The scope at which a call returns, and those it is through with.
LEMMA LastIsMet ==
  ASSUME Over \in Seq(Range(Over)), cursor.i \in Nat, cursor.i <= Len(Over), NEW refusals
  PROVE  LET k == LastOf(refusals) IN
         /\ k \in cursor.i..Len(Over)
         /\ \A j \in cursor.i..k : j # k => F.batch \notin {"request", "all"} /\ ~MoreAt(j, refusals)
<1> DEFINE ends == {j \in cursor.i..Len(Over) :
                      \/ F.batch \in {"request", "all"} \/ MoreAt(j, refusals)
                      \/ F.batch = "scope" /\ UpTo(j, refusals) # {}}
           k == LastOf(refusals)
<1>1. k = IF ends = {} THEN Len(Over) ELSE Min(ends)
  BY DEF LastOf
<1>2. CASE ends = {}
  BY <1>1, <1>2
<1>3. CASE ends # {}
  <2>1. \E n \in ends : \A m \in ends : n <= m
    <3>1. ends \subseteq Nat
      OBVIOUS
    <3> HIDE DEF ends
    <3> QED BY <1>3, <3>1, LeastExists
  <2>2. k \in ends /\ \A m \in ends : k <= m
    BY <1>1, <1>3, <2>1 DEF Min
  <2> QED BY <2>2
<1> QED BY <1>2, <1>3

\* What a call gets past, unless it is refused, it returns.
LEMMA CallCovers ==
  ASSUME MirrorTypes, Sheltered, cursor.i <= Len(Over), NEW o \in Owed,
         IsPast(NextCursor(LastOf({}), {}), o)
  PROVE  IsPast(cursor, o) \/ o \in UpTo(LastOf({}), {})
<1> DEFINE k == LastOf({})
           s == ScopeIn(o)
<1>1. /\ TimesInv /\ ListingInv /\ Cursor(cursor) /\ Over = Whole /\ Over \in Seq(Range(Over))
      /\ cursor.i \in Nat \ {0} /\ cursor.page \in Nat \ {0} /\ Len(Over) \in Nat
      /\ DOMAIN Over = 1..Len(Over)
  <2>1. TimesInv /\ ListingInv /\ Cursor(cursor) /\ Over = Whole
    BY OverIsWhole DEF MirrorTypes, SyncTaskInv
  <2>2. Over \in Seq(Range(Over)) /\ Len(Over) \in Nat /\ DOMAIN Over = 1..Len(Over)
    BY <2>1, WholeIsOrdered DEF Range
  <2> QED BY <2>1, <2>2 DEF Cursor
<1>2. /\ k \in cursor.i..Len(Over)
      /\ \A j \in cursor.i..k : j # k => F.batch \notin {"request", "all"} /\ ~MoreAt(j, {})
  BY <1>1, LastIsMet
<1>3. PICK m \in DOMAIN Over : Over[m] = s
  BY <1>1, OwedIsListed, WholeIsOrdered
<1>4. \A j \in DOMAIN Over : Over[j] = s => j = m
  BY <1>1, <1>3, WholeIsOrdered
<1>5. PageIn(o) \in Nat \ {0} /\ \A j : PageAt(j) \in Nat \ {0}
  BY <1>1, PagesAreNumbers DEF PageAt
<1>6. m <= k /\ (m = k /\ MoreAt(k, {}) => PageIn(o) <= PageAt(k))
  <2>1. CASE MoreAt(k, {})
    <3>1. NextCursor(k, {}) = [over |-> Over, i |-> k, page |-> PageAt(k) + 1]
      BY <2>1 DEF NextCursor
    <3>2. NextCursor(k, {}) # End
      BY <1>1, <1>2, <3>1 DEF End
    <3>3. m < k \/ (m = k /\ PageIn(o) < PageAt(k) + 1)
      BY <1>1, <1>4, <3>1, <3>2 DEF IsPast
    <3> QED BY <1>2, <1>3, <1>5, <3>3
  <2>2. CASE ~MoreAt(k, {}) /\ (k < Len(Over) \/ F.batch = "all")
    <3>1. NextCursor(k, {}) = [over |-> Over, i |-> k + 1, page |-> 1]
      BY <2>2 DEF NextCursor
    <3>2. NextCursor(k, {}) # End
      BY <1>1, <1>2, <3>1 DEF End
    <3>3. m < k + 1 \/ (m = k + 1 /\ PageIn(o) < 1)
      BY <1>1, <1>4, <3>1, <3>2 DEF IsPast
    <3> QED BY <1>2, <1>3, <1>5, <2>2, <3>3
  <2>3. CASE ~MoreAt(k, {}) /\ k = Len(Over)
    BY <1>1, <1>3, <2>3
  <2> QED BY <1>2, <1>1, <2>1, <2>2, <2>3
<1>7. CASE m < cursor.i \/ (m = cursor.i /\ PageIn(o) < cursor.page)
  BY <1>1, <1>3, <1>7 DEF IsPast
<1>8. CASE ~(m < cursor.i \/ (m = cursor.i /\ PageIn(o) < cursor.page))
  <2>1. m \in cursor.i..k /\ PageAt(m) <= PageIn(o)
    BY <1>1, <1>2, <1>3, <1>5, <1>6, <1>8 DEF PageAt
  <2>2. Got(m, {}) = Kept(s, PageAt(m)) /\ Got(m, {}) \subseteq UpTo(k, {})
    BY <1>3, <2>1 DEF Got, UpTo
  <2>3. CASE F.batch = "all" \/ PageIn(o) = PageAt(m)
    BY <1>1, <1>5, <2>2, <2>3, PageKeepsOwed
  <2>4. CASE F.batch # "all" /\ PageIn(o) > PageAt(m)
    <3>1. MoreAt(m, {})
      BY <1>1, <1>3, <1>5, <2>4, PageKeepsOwed DEF MoreAt
    <3> QED BY <1>2, <1>3, <1>5, <1>6, <2>1, <2>4, <3>1
  <2> QED BY <1>5, <2>1, <2>3, <2>4
<1> QED BY <1>7, <1>8

-----------------------------------------------------------------------------
(* Mirror: types *)

LEMMA MirrorTypesAtFirst == ASSUME InitMirror PROVE MirrorTypes
<1> USE DEF InitMirror
<1>1. TimesInv
  BY MirrorAssumption DEF TimesInv, LongAgo, Never
<1>2. ListingInv
  <2>1. listing \in Seq(Scopes) /\ Len(listing) = Len(ScopeOrder) /\ Scopes \subseteq Range(listing)
    BY MirrorAssumption DEF Scopes
  <2>2. denied \subseteq Scopes
    BY MirrorAssumption DEF Scopes
  <2> QED BY <2>1, <2>2, MirrorAssumption DEF ListingInv
<1>3. SyncTaskInv
  <2>1. Cursor(First)
    BY <1>2, WholeIsOrdered DEF Cursor, First
  <2>2. mirrorFaults \in 0..MirrorFaults /\ NoRow.any \in BOOLEAN
    BY MirrorAssumption DEF NoRow
  <2>3. DOMAIN batch = {}
    BY DEF NoItems, Read
  <2> QED BY <2>1, <2>2, <2>3 DEF SyncTaskInv
<1> QED BY <1>1, <1>2, <1>3 DEF MirrorTypes

\* Only time passes on GitHub, and the repositories change places only.
LEMMA CursorsStay ==
  ASSUME ListingInv, entity' = entity, Len(listing') = Len(listing),
         listing' = listing \/ F.over = "repos", NEW c, Cursor(c)
  PROVE  Cursor(c)'
<1>1. F' = F
  BY DEF F
<1>2. CASE listing' = listing
  <2>1. Whole' = Whole
    BY <1>1, <1>2 DEF Whole
  <2> QED BY <1>1, <1>2, <2>1 DEF Cursor
<1>3. CASE F.over = "repos"
  <2>1. Len(Whole') = Len(Whole)
    BY <1>1, <1>3 DEF Whole
  <2> QED BY <1>1, <1>3, <2>1 DEF Cursor
<1> QED BY <1>2, <1>3

LEMMA MirrorTimesStay ==
  ASSUME MirrorTypes, [NextMirror]_mirrorVars
  PROVE  TimesInv'
<1> USE MirrorAssumption DEF MirrorTypes, githubVars, rowVars, taskVars, seenVars
<1>1. ASSUME NEW trigger \in {"manual", "scheduled"}, StartRun(trigger) PROVE TimesInv'
  BY <1>1 DEF StartRun, TimesInv, Never
<1>2. ASSUME NEW throttled \in BOOLEAN, FetchPage(throttled) PROVE TimesInv'
  BY <1>2 DEF FetchPage, TimesInv
<1>3. CASE CursorExpires
  BY <1>3 DEF CursorExpires, TimesInv
<1>4. CASE StoreItems
  <2>1. table' = [o \in Objects |-> IF o \in DOMAIN batch THEN Inserted(o)
                                   ELSE IF o \in Pruned THEN Never ELSE table[o]]
    BY <1>4 DEF StoreItems
  <2>2. table \in [Objects -> 0..MaxClock \cup {Never}] /\ \A o \in DOMAIN batch : batch[o] \in 0..MaxClock
    BY DEF TimesInv, SyncTaskInv
  <2>3. \A o \in DOMAIN batch : o \in Objects => Inserted(o) \in 0..MaxClock \cup {Never}
    BY <2>2 DEF Inserted
  <2>4. table' \in [Objects -> 0..MaxClock \cup {Never}]
    BY <2>1, <2>2, <2>3
  <2> QED BY <1>4, <2>4 DEF StoreItems, TimesInv
<1>5. CASE SaveCursor
  BY <1>5 DEF SaveCursor, TimesInv
<1>6. CASE CompleteEntity
  <2>1. table' \in [Objects -> 0..MaxClock \cup {Never}]
    BY <1>6 DEF CompleteEntity, TimesInv
  <2>2. clock' \in 1..MaxClock /\ finished' \in 0..MaxClock /\ clock <= clock' /\ clock \in Nat /\ clock' \in Nat
    BY <1>6 DEF CompleteEntity, TimesInv
  <2>3. \A o \in Objects : touched[o] <= clock'
    BY <2>2 DEF TimesInv
  <2> QED BY <1>6, <2>1, <2>2, <2>3 DEF CompleteEntity, TimesInv, Never
<1>7. CASE FetchFails
  BY <1>7 DEF FetchFails, TimesInv
<1>8. CASE RetryEntity
  BY <1>8 DEF RetryEntity, TimesInv
<1>9. CASE GiveUp
  BY <1>9 DEF GiveUp, TimesInv
<1>10. CASE CrashEntity
  BY <1>10 DEF CrashEntity, TimesInv
<1>11. CASE Reorder
  <2>1. clock' \in 1..MaxClock /\ clock <= clock' /\ clock \in Nat /\ clock' \in Nat
    BY <1>11 DEF Reorder, TimesInv
  <2>2. \A o \in Objects : touched[o] <= clock'
    BY <2>1 DEF TimesInv
  <2> QED BY <1>11, <2>1, <2>2 DEF Reorder, TimesInv
<1>12. ASSUME NEW o \in Objects, Touch(o) \/ Appear(o) \/ Disappear(o) PROVE TimesInv'
  <2>1. clock' \in 1..MaxClock /\ clock <= clock' /\ clock \in Nat /\ clock' \in Nat
    BY <1>12 DEF Touch, Appear, Disappear, TimesInv
  <2>2. \A q \in Objects : touched[q] <= clock'
    BY <2>1 DEF TimesInv
  <2>3. CASE Touch(o)
    BY <2>1, <2>2, <2>3 DEF Touch, TimesInv
  <2>4. CASE Appear(o)
    BY <2>1, <2>2, <2>4 DEF Appear, TimesInv
  <2>5. CASE Disappear(o)
    BY <2>1, <2>2, <2>5 DEF Disappear, TimesInv
  <2> QED BY <1>12, <2>3, <2>4, <2>5
<1>13. CASE UNCHANGED mirrorVars
  BY <1>13 DEF mirrorVars, TimesInv
<1> QED BY <1>1, <1>2, <1>3, <1>4, <1>5, <1>6, <1>7, <1>8, <1>9, <1>10, <1>11, <1>12, <1>13 DEF NextMirror

\* The repositories after the first one has become the last one.
Turned(s) == Append(Tail(s), Head(s))

LEMMA TurnedListing ==
  ASSUME NEW S, NEW s \in Seq(S), Len(s) > 1, \A i, j \in 1..Len(s) : s[i] = s[j] => i = j
  PROVE  /\ Turned(s) \in Seq(S) /\ Len(Turned(s)) = Len(s) /\ DOMAIN Turned(s) = 1..Len(s)
         /\ \A i, j \in 1..Len(s) : Turned(s)[i] = Turned(s)[j] => i = j
         /\ \A i \in 1..Len(s) : \E j \in 1..Len(s) : Turned(s)[j] = s[i]
<1> SUFFICES ASSUME NEW n \in Nat, n = Len(s), n > 1, \A i, j \in 1..n : s[i] = s[j] => i = j,
                    NEW t, t = Append(Tail(s), Head(s))
             PROVE  /\ t \in Seq(S) /\ Len(t) = n /\ DOMAIN t = 1..n
                    /\ \A i, j \in 1..n : t[i] = t[j] => i = j
                    /\ \A i \in 1..n : \E j \in 1..n : t[j] = s[i]
  BY LenProperties DEF Turned
<1> DEFINE from(i) == IF i = n THEN 1 ELSE i + 1
<1>1. /\ Tail(s) \in Seq(S) /\ Head(s) \in S /\ Head(s) = s[1] /\ Len(Tail(s)) = n - 1
      /\ \A i \in 1..n - 1 : Tail(s)[i] = s[i + 1]
  BY HeadTailProperties, LenProperties
<1>2. /\ t \in Seq(S) /\ Len(t) = n /\ t[n] = Head(s)
      /\ \A i \in 1..n - 1 : t[i] = Tail(s)[i]
  BY <1>1, AppendProperties
<1>3. DOMAIN t = 1..n /\ DOMAIN s = 1..n
  BY <1>2, LenProperties
<1>4. ASSUME NEW i \in 1..n PROVE from(i) \in 1..n /\ t[i] = s[from(i)]
  <2>1. CASE i = n
    BY <1>1, <1>2, <2>1
  <2>2. CASE i # n
    <3>1. i \in 1..n - 1
      BY <2>2
    <3> QED BY <1>1, <1>2, <2>2, <3>1
  <2> QED BY <2>1, <2>2
<1>5. ASSUME NEW i \in 1..n, NEW j \in 1..n, t[i] = t[j] PROVE i = j
  <2>1. from(i) = from(j)
    BY <1>4, <1>5
  <2> QED BY <2>1
<1>6. ASSUME NEW i \in 1..n PROVE \E j \in 1..n : t[j] = s[i]
  <2> DEFINE j == IF i = 1 THEN n ELSE i - 1
  <2>1. j \in 1..n /\ from(j) = i
    OBVIOUS
  <2>2. t[j] = s[from(j)]
    BY <1>4, <2>1
  <2> QED BY <2>1, <2>2
<1> QED BY <1>2, <1>3, <1>5, <1>6

LEMMA ListingStays ==
  ASSUME MirrorTypes, [NextMirror]_mirrorVars
  PROVE  /\ ListingInv' /\ entity' = entity /\ Len(listing') = Len(listing)
         /\ listing' = listing \/ (F.over = "repos" /\ Reorder)
<1>1. CASE UNCHANGED <<entity, listing, denied>>
  <2>1. entity' = entity /\ listing' = listing /\ denied' = denied
    BY <1>1
  <2>2. ListingInv'
    BY <2>1 DEF MirrorTypes, ListingInv
  <2> QED BY <2>1, <2>2
<1>2. CASE Reorder
  <2>1. /\ listing \in Seq(Scopes) /\ Len(listing) > 1 /\ Scopes \subseteq Range(listing)
        /\ \A i, j \in DOMAIN listing : listing[i] = listing[j] => i = j
        /\ listing' = Append(Tail(listing), Head(listing))
    BY <1>2 DEF Reorder, MirrorTypes, ListingInv
  <2>2. Len(listing) \in Nat /\ DOMAIN listing = 1..Len(listing)
    BY <2>1, LenProperties
  <2>3. /\ listing' \in Seq(Scopes) /\ Len(listing') = Len(listing) /\ DOMAIN listing' = 1..Len(listing)
        /\ \A i, j \in 1..Len(listing) : listing'[i] = listing'[j] => i = j
        /\ \A i \in 1..Len(listing) : \E j \in 1..Len(listing) : listing'[j] = listing[i]
    <3>1. /\ listing \in Seq(Scopes) /\ Len(listing) > 1
          /\ \A i, j \in 1..Len(listing) : listing[i] = listing[j] => i = j
      BY <2>1, <2>2
    <3>2. listing' = Turned(listing)
      BY <2>1 DEF Turned
    <3> QED BY <3>1, <3>2, TurnedListing
  <2>4. Scopes \subseteq Range(listing')
    <3> SUFFICES ASSUME NEW s \in Scopes PROVE \E j \in DOMAIN listing' : listing'[j] = s
      BY DEF Range
    <3>1. PICK i \in 1..Len(listing) : listing[i] = s
      BY <2>1, <2>2 DEF Range
    <3> QED BY <2>3, <3>1
  <2>5. UNCHANGED <<entity, denied>> /\ F.over = "repos"
    BY <1>2 DEF Reorder, githubVars
  <2>6. ListingInv'
    BY <2>3, <2>4, <2>5 DEF MirrorTypes, ListingInv
  <2> QED BY <1>2, <2>3, <2>5, <2>6
<1>3. UNCHANGED <<entity, listing, denied>> \/ Reorder
  BY DEF NextMirror, mirrorVars, githubVars, rowVars, StartRun, FetchPage, CursorExpires, StoreItems, SaveCursor,
         CompleteEntity, FetchFails, RetryEntity, GiveUp, CrashEntity, Touch, Appear, Disappear
<1> QED BY <1>1, <1>2, <1>3

\* The cursor behind a call is one of the walk.
LEMMA NextIsACursor ==
  ASSUME MirrorTypes, cursor.i <= Len(Over), NEW refusals
  PROVE  LET c == NextCursor(LastOf(refusals), refusals) IN c = End \/ Cursor(c)
<1> DEFINE k == LastOf(refusals)
<1>1. /\ ListingInv /\ Cursor(cursor) /\ Over = Whole /\ Over \in Seq(Range(Over))
      /\ cursor.i \in Nat \ {0} /\ Len(Over) \in Nat
  <2>1. ListingInv /\ Cursor(cursor) /\ Over = Whole
    BY OverIsWhole DEF MirrorTypes, SyncTaskInv
  <2>2. Over \in Seq(Range(Over)) /\ Len(Over) \in Nat
    BY <2>1, WholeIsOrdered DEF Range
  <2> QED BY <2>1, <2>2, WholeIsOrdered DEF Cursor
<1>2. k \in cursor.i..Len(Over) /\ k \in 1..Len(Whole)
  <2>1. k \in cursor.i..Len(Over)
    BY <1>1, LastIsMet
  <2> QED BY <1>1, <2>1
<1>3. PageAt(k) + 1 \in Nat \ {0}
  BY <1>1 DEF PageAt, Cursor
<1>4. F.over = "teams" => Over = listing
  BY <1>1 DEF Whole
<1>5. Cursor([over |-> Over, i |-> k, page |-> PageAt(k) + 1])
  BY <1>1, <1>2, <1>3, <1>4 DEF Cursor
<1>6. k < Len(Over) \/ F.batch = "all" => Cursor([over |-> Over, i |-> k + 1, page |-> 1])
  BY <1>1, <1>2, <1>4 DEF Cursor
<1> QED BY <1>5, <1>6 DEF NextCursor

LEMMA CallsListObjects ==
  ASSUME TimesInv, NEW k, NEW refusals
  PROVE  UpTo(k, refusals) \subseteq here /\ UpTo(k, refusals) \subseteq Objects
BY DEF UpTo, Got, Kept, Page, Listed, TimesInv

LEMMA MirrorTaskStays ==
  ASSUME MirrorTypes, [NextMirror]_mirrorVars
  PROVE  SyncTaskInv'
<1> DEFINE Row(r) == r = NoRow \/ (DOMAIN r = {"cursor", "any"} /\ Cursor(r.cursor))
           Items(b) == DOMAIN b \subseteq Objects /\ \A o \in DOMAIN b : b[o] \in 0..MaxClock
<1>1. /\ ListingInv /\ ListingInv' /\ entity' = entity /\ Len(listing') = Len(listing)
      /\ listing' = listing \/ F.over = "repos"
      /\ SyncTaskInv /\ TimesInv
  BY ListingStays DEF MirrorTypes
<1>2. F' = F /\ Len(Whole') = Len(Whole) /\ (F.over = "teams" => listing' = listing)
  <2>1. F' = F
    BY <1>1 DEF F
  <2>2. CASE F.over = "org"
    BY <2>1, <2>2 DEF Whole
  <2>3. CASE F.over # "org"
    BY <1>1, <2>1, <2>3 DEF Whole
  <2> QED BY <1>1, <2>1, <2>2, <2>3
<1>3. Cursor(First) /\ saved.any \in BOOLEAN /\ Cursor(ResumeCursor) /\ Row(NoRow) /\ NoRow.any \in BOOLEAN
  <2>1. Cursor(First)
    BY <1>1, WholeIsOrdered DEF Cursor, First
  <2> QED BY <1>1, <2>1 DEF SyncTaskInv, ResumeCursor, NoRow
<1>4. Items(NoItems)
  BY DEF NoItems, Read
<1>5. ASSUME NEW S, S \subseteq here PROVE Items(Read(S))
  BY <1>5, <1>1, MirrorAssumption DEF Read, TimesInv
<1>6. Row(saved) /\ Items(batch)
  BY <1>1 DEF SyncTaskInv
<1>7. ASSUME FailedRow PROVE Row(saved') /\ saved'.any \in BOOLEAN
  BY <1>1, <1>6, <1>7 DEF FailedRow, SyncTaskInv
<1> DEFINE Good == /\ step' \in {"idle", "fetch", "store", "save", "complete", "failed"}
                   /\ Cursor(cursor') /\ (next' = End \/ Cursor(next'))
                   /\ Row(saved') /\ saved'.any \in BOOLEAN /\ any' \in BOOLEAN
                   /\ Items(batch')
                   /\ disturbed' \in BOOLEAN /\ refused' \in BOOLEAN /\ cutShort' \in BOOLEAN
                   /\ mirrorFaults' \in 0..MirrorFaults
<1>8. SUFFICES Good
  <2>1. Cursor(cursor') => Cursor(cursor)'
    BY <1>2 DEF Cursor
  <2>2. Cursor(next') => Cursor(next)'
    BY <1>2 DEF Cursor
  <2>3. Row(saved') => (saved = NoRow \/ (DOMAIN saved = {"cursor", "any"} /\ Cursor(saved.cursor)))'
    BY <1>2 DEF Cursor, NoRow, End
  <2> QED BY <2>1, <2>2, <2>3 DEF SyncTaskInv
<1>9. /\ step \in {"idle", "fetch", "store", "save", "complete", "failed"}
      /\ Cursor(cursor) /\ (next = End \/ Cursor(next)) /\ any \in BOOLEAN
      /\ disturbed \in BOOLEAN /\ refused \in BOOLEAN /\ cutShort \in BOOLEAN
      /\ mirrorFaults \in 0..MirrorFaults /\ MirrorFaults \in Nat
  BY <1>1, MirrorAssumption DEF SyncTaskInv
<1> HIDE DEF Row, Items
<1> USE <1>3, <1>4, <1>6, <1>9 DEF taskVars, rowVars, seenVars, githubVars
<1>10. CASE UNCHANGED <<taskVars, saved, refused, cutShort, mirrorFaults>> /\ disturbed' \in BOOLEAN
  BY <1>10
<1>11. ASSUME NEW trigger \in {"manual", "scheduled"}, StartRun(trigger) PROVE Good
  BY <1>11 DEF StartRun
<1>12. ASSUME NEW throttled \in BOOLEAN, FetchPage(throttled) PROVE Good
  <2> DEFINE refusals == IF throttled THEN Range(ScopeOrder) \cup {"org"} ELSE denied
             last == LastOf(refusals)
  <2>1. /\ mirrorFaults' \in 0..MirrorFaults /\ refused' \in BOOLEAN
        /\ UNCHANGED <<cursor, any, disturbed>>
    BY <1>12 DEF FetchPage
  <2>2. \/ step' = "failed" /\ FailedRow /\ UNCHANGED <<batch, next, cutShort>>
        \/ /\ \/ batch' = Read({}) /\ next' = End
              \/ /\ cursor.i <= Len(Over)
                 /\ batch' = Read(UpTo(last, refusals)) /\ next' = NextCursor(last, refusals)
           /\ step' \in {"complete", "store"} /\ cutShort' \in BOOLEAN /\ saved' = saved
    BY <1>12 DEF FetchPage
  <2>3. Items(Read({})) /\ Items(Read(UpTo(last, refusals)))
    BY <1>1, <1>5, CallsListObjects
  <2>4. cursor.i <= Len(Over) => NextCursor(last, refusals) = End \/ Cursor(NextCursor(last, refusals))
    BY NextIsACursor
  <2> HIDE DEF refusals, last
  <2> QED BY <1>7, <2>1, <2>2, <2>3, <2>4
<1>13. CASE CursorExpires
  <2>1. /\ batch' = Read(Page("org", 1)) /\ next' \in {End, First} /\ refused' = TRUE /\ step' = "store"
        /\ mirrorFaults' = mirrorFaults + 1 /\ mirrorFaults < MirrorFaults
        /\ UNCHANGED <<saved, cursor, any, disturbed, cutShort>>
    BY <1>13 DEF CursorExpires
  <2>2. Items(batch')
    BY <1>5, <2>1 DEF Page, Listed
  <2> QED BY <2>1, <2>2
<1>14. CASE StoreItems
  BY <1>14 DEF StoreItems
<1>15. CASE SaveCursor
  <2>1. /\ saved' = [cursor |-> IF next = End THEN First ELSE next, any |-> any]
        /\ step' \in {"complete", "fetch"} /\ cursor' \in {cursor, next} /\ (next = End => cursor' = cursor)
        /\ batch' = NoItems /\ next' = End /\ UNCHANGED <<any, disturbed, refused, cutShort, mirrorFaults>>
    BY <1>15 DEF SaveCursor
  <2>2. Row(saved') /\ saved'.any \in BOOLEAN
    BY <2>1 DEF Row
  <2> QED BY <2>1, <2>2
<1>16. CASE CompleteEntity
  BY <1>16 DEF CompleteEntity
<1>17. CASE FetchFails
  BY <1>7, <1>17 DEF FetchFails
<1>18. CASE RetryEntity
  BY <1>18 DEF RetryEntity
<1>19. CASE GiveUp
  BY <1>19 DEF GiveUp
<1>20. CASE CrashEntity
  BY <1>20 DEF CrashEntity
<1>21. CASE Reorder
  BY <1>10, <1>21 DEF Reorder
<1>22. ASSUME NEW o \in Objects, Touch(o) \/ Appear(o) \/ Disappear(o) PROVE Good
  BY <1>10, <1>22 DEF Touch, Appear, Disappear
<1>23. CASE UNCHANGED mirrorVars
  BY <1>10, <1>23 DEF mirrorVars
<1> HIDE DEF Good
<1> QED
  BY <1>11, <1>12, <1>13, <1>14, <1>15, <1>16, <1>17, <1>18, <1>19, <1>20, <1>21, <1>22, <1>23
     DEF NextMirror

LEMMA MirrorTypesStay ==
  ASSUME MirrorTypes, [NextMirror]_mirrorVars
  PROVE  MirrorTypes'
BY MirrorTimesStay, ListingStays, MirrorTaskStays DEF MirrorTypes

-----------------------------------------------------------------------------
(* Mirror: what is behind the cursor stays mirrored *)

LEMMA NothingIsBeforeFirst ==
  ASSUME TimesInv, ListingInv, NEW o PROVE ~IsPast(First, o)
<1>1. PageIn(o) \in Nat \ {0} /\ Len(Whole) \in Nat /\ DOMAIN Whole = 1..Len(Whole)
  BY PagesAreNumbers, WholeIsOrdered
<1> QED BY <1>1 DEF IsPast, First, End

\* The task alone moves nothing of what it owes.
LEMMA StillOwed ==
  ASSUME UNCHANGED <<entity, githubVars, listing, since, fresh>>
  PROVE  /\ Owed' = Owed /\ (Sheltered' <=> Sheltered)
         /\ \A c, o : IsPast(c, o)' <=> IsPast(c, o)
         /\ table' = table => \A o : Mirrored(o)' <=> Mirrored(o)
<1> USE DEF githubVars
<1>1. F' = F /\ Whole' = Whole
  BY DEF F, Whole
<1>2. \A o : BeforeCutoff(o)' <=> BeforeCutoff(o)
  BY <1>1 DEF BeforeCutoff, Stamp
<1>3. \A q, o : Precedes(q, o)' <=> Precedes(q, o)
  BY <1>1 DEF Precedes, NewestFirst, Stamp
<1>4. \A o : ScopeIn(o)' = ScopeIn(o)
  BY <1>1 DEF ScopeIn
<1>5. \A o : Ahead(o)' = Ahead(o)
  BY <1>1, <1>2, <1>3, <1>4 DEF Ahead
<1>6. \A o : PageIn(o)' = PageIn(o)
  BY <1>5 DEF PageIn
<1>7. \A c, o : IsPast(c, o)' <=> IsPast(c, o)
  BY <1>1, <1>4, <1>6 DEF IsPast
<1>8. Owed' = Owed
  BY <1>2 DEF Owed
<1>9. Sheltered' <=> Sheltered
  BY DEF Sheltered
<1>10. table' = table => \A o : Mirrored(o)' <=> Mirrored(o)
  BY DEF Mirrored, MirroredAll
<1> QED BY <1>7, <1>8, <1>9, <1>10

\* A change comes in front of what was listed newest first, and nowhere else.
LEMMA PagesGrow ==
  ASSUME TimesInv, ListingInv, NEW x \in Objects, Touch(x) \/ Appear(x), NEW o \in Owed'
  PROVE  /\ o \in Owed /\ touched'[o] = touched[o] /\ Ahead(o) \subseteq Ahead(o)'
<1>1. /\ entity' = entity /\ listing' = listing /\ since' = since /\ F' = F /\ clock' > clock
      /\ clock \in Nat /\ clock # 0 /\ clock' \in Nat /\ here \subseteq here'
  BY DEF Touch, Appear, F, taskVars, rowVars, TimesInv
<1>2. o \notin fresh' /\ o \in here' /\ fresh' = fresh \cup {x}
  BY DEF Owed, Touch, Appear
<1>3. o # x /\ o \in here /\ o \in Objects /\ o \notin fresh
  BY <1>2 DEF Touch, Appear, TimesInv
<1>4. ASSUME NEW q \in Objects, q # x
      PROVE  touched'[q] = touched[q] /\ born'[q] = born[q]
  BY <1>4 DEF Touch, Appear, TimesInv
<1>5. ASSUME NEW q \in Objects, q # x PROVE Stamp(q)' = Stamp(q) /\ (BeforeCutoff(q)' <=> BeforeCutoff(q))
  <2>1. Stamp(q)' = Stamp(q)
    BY <1>1, <1>4, <1>5 DEF Stamp
  <2> QED BY <1>1, <1>4, <1>5, <2>1 DEF BeforeCutoff
<1>6. o \in Owed /\ touched'[o] = touched[o]
  <2>1. /\ ~BeforeCutoff(o)' /\ (entity' \in {"branch_protections", "issues"} => o \notin Bare)
        /\ (entity' = "workflow_runs" => touched'[o] > born'[o])
    BY DEF Owed
  <2>2. /\ ~BeforeCutoff(o) /\ (entity \in {"branch_protections", "issues"} => o \notin Bare)
        /\ (entity = "workflow_runs" => touched[o] > born[o])
    BY <1>1, <1>3, <1>4, <1>5, <2>1
  <2> QED BY <1>3, <1>4, <2>2 DEF Owed
<1>7. ASSUME NEW q \in Ahead(o) PROVE q \in Ahead(o)'
  <2>1. /\ q \in here /\ q \in Objects /\ (F.over = "org" \/ ScopeOf[q] = ScopeIn(o))
        /\ (F.since = "query" => ~BeforeCutoff(q))
        /\ (entity = "workflow_runs" => touched[q] > born[q]) /\ Precedes(q, o)
    BY DEF Ahead, TimesInv
  <2>2. (NewestFirst' <=> NewestFirst) /\ ScopeIn(o)' = ScopeIn(o)
    BY <1>1 DEF NewestFirst, ScopeIn
  <2>3. CASE q # x
    <3>1. Precedes(q, o)'
      BY <1>3, <1>5, <2>1, <2>2, <2>3 DEF Precedes
    <3>2. (F'.since = "query" => ~BeforeCutoff(q)') /\ (entity' = "workflow_runs" => touched'[q] > born'[q])
      BY <1>1, <1>4, <1>5, <2>1, <2>3
    <3> QED BY <1>1, <2>1, <2>2, <3>1, <3>2 DEF Ahead
  <2>4. CASE q = x
    <3>1. /\ touched'[q] = clock' /\ born'[q] = born[q] /\ born[q] \in Nat /\ touched[q] \in Nat
          /\ born[q] <= touched[q] /\ touched[q] <= clock
      BY <2>1, <2>4 DEF Touch, Appear, TimesInv
    <3>2. Stamp(q) \in Nat /\ Stamp(o) \in Nat /\ Stamp(o) <= clock /\ Stamp(o)' = Stamp(o)
      BY <1>3, <1>5, <2>1, StampIsTime
    <3>3. Stamp(q)' = Stamp(q) \/ (F.since = "updated" /\ Stamp(q)' = clock')
      BY <1>1, <3>1 DEF Stamp
    <3>4. Precedes(q, o)'
      BY <1>1, <2>1, <2>2, <3>2, <3>3 DEF Precedes
    <3>5. F.since = "query" => ~BeforeCutoff(q)'
      <4>1. SUFFICES ASSUME F.since = "query" PROVE ~BeforeCutoff(q)'
        OBVIOUS
      <4>2. entity # "issues" /\ Stamp(q)' = born[q] /\ Stamp(q) = born[q]
        BY <1>1, <3>1, <4>1, FacetsOfEntity DEF Stamp, Facets
      <4>3. ~BeforeCutoff(q)
        BY <2>1, <4>1
      <4> QED BY <1>1, <3>1, <4>2, <4>3 DEF BeforeCutoff
    <3>6. entity' = "workflow_runs" => touched'[q] > born'[q]
      BY <1>1, <3>1
    <3> QED BY <1>1, <2>1, <2>2, <3>4, <3>5, <3>6 DEF Ahead
  <2> QED BY <2>3, <2>4
<1> QED BY <1>6, <1>7

LEMMA BehindAfterChange ==
  ASSUME MirrorTypes, NEW x \in Objects, Touch(x) \/ Appear(x), NEW o \in Owed', NEW c,
         c = End \/ Cursor(c), IsPast(c, o)'
  PROVE  IsPast(c, o)
<1>1. TimesInv /\ ListingInv
  BY DEF MirrorTypes
<1>2. entity' = entity /\ listing' = listing /\ F' = F /\ here' \subseteq Objects
  BY <1>1 DEF Touch, Appear, F, rowVars, TimesInv
<1>3. Whole' = Whole /\ ScopeIn(o)' = ScopeIn(o)
  BY <1>2 DEF Whole, ScopeIn
<1>4. PageIn(o) <= PageIn(o)' /\ PageIn(o) \in Nat /\ PageIn(o)' \in Nat
  <2>1. IsFiniteSet(Ahead(o)') /\ Ahead(o) \subseteq Ahead(o)'
    <3>1. Ahead(o)' \subseteq Objects
      BY <1>2 DEF Ahead
    <3> QED BY <1>1, <3>1, PagesGrow, FS_Subset, MirrorAssumption
  <2>2. Cardinality(Ahead(o)) <= Cardinality(Ahead(o)') /\ Cardinality(Ahead(o)') \in Nat /\ Cardinality(Ahead(o)) \in Nat
    BY <1>1, <2>1, FS_Subset, FS_CardinalityType, PagesAreNumbers
  <2>3. /\ Cardinality(Ahead(o)) \div PageSize <= Cardinality(Ahead(o)') \div PageSize
        /\ Cardinality(Ahead(o)) \div PageSize \in Nat /\ Cardinality(Ahead(o)') \div PageSize \in Nat
    BY <2>2, LaterDay, DayOfHour, MirrorAssumption
  <2> QED BY <2>3 DEF PageIn
<1>5. CASE c = End
  BY <1>5 DEF IsPast
<1>6. CASE Cursor(c) /\ c # End
  <2>1. c.page \in Nat
    BY <1>6 DEF Cursor
  <2>2. PICK m \in DOMAIN Whole' : Whole'[m] = ScopeIn(o)' /\ (m < c.i \/ (m = c.i /\ PageIn(o)' < c.page))
    BY <1>6 DEF IsPast
  <2>3. m < c.i \/ (m = c.i /\ PageIn(o) < c.page)
    BY <1>4, <2>1, <2>2
  <2> QED BY <1>3, <2>2, <2>3 DEF IsPast
<1> QED BY <1>5, <1>6

\* A cursor of the next state, as the value it is.
LEMMA HasAtCursors ==
  /\ \A c : c = cursor' /\ Has(c)' => Has(cursor)'
  /\ \A c : c = next' /\ Has(c)' => Has(next)'
  /\ \A r : r = saved' /\ Has(r.cursor)' => Has(saved.cursor)'
BY DEF Has, IsPast

\* A call that nothing refuses.
LEMMA FetchCovers ==
  ASSUME MirrorTypes, CoverInv, NEW throttled \in BOOLEAN, FetchPage(throttled)
  PROVE  CoverInv'
<1> SUFFICES ASSUME Undisturbed' PROVE CoverInv'
  BY DEF CoverInv
<1>1. /\ step = "fetch" /\ UNCHANGED <<entity, githubVars, listing, since, fresh>>
      /\ table' = table /\ cursor' = cursor /\ disturbed' = disturbed
  BY DEF FetchPage
<1>2. /\ Owed' = Owed /\ (Sheltered' <=> Sheltered)
      /\ \A c, o : IsPast(c, o)' <=> IsPast(c, o)
      /\ \A o : Mirrored(o)' <=> Mirrored(o)
  BY <1>1, StillOwed
<1>3. \A c : Has(c)' <=> Has(c)
  BY <1>2 DEF Has
<1>4. ~refused' /\ ~disturbed /\ Sheltered
  BY <1>1, <1>2 DEF Undisturbed
<1>5. ~throttled /\ denied = {} /\ ~refused
  BY <1>4 DEF FetchPage
<1>6. Undisturbed /\ Has(cursor) /\ (saved # NoRow => Has(saved.cursor))
  BY <1>1, <1>4, <1>5 DEF Undisturbed, CoverInv
<1> DEFINE last == LastOf({})
           items == UpTo(last, {})
<1>7. /\ saved' = saved
      /\ \/ /\ ~(cursor.i <= Len(Over))
            /\ batch' = NoItems /\ step' = "complete" /\ cutShort' = (next' # End) /\ next' = End
         \/ /\ cursor.i <= Len(Over)
            /\ batch' = Read(items) /\ next' = NextCursor(last, {})
            /\ \/ step' = "store"
               \/ step' = "complete" /\ batch' = NoItems /\ cutShort' = (next' # End)
  BY <1>5 DEF FetchPage, NoItems
<1>8. Has(cursor)' /\ (saved' # NoRow => Has(saved.cursor)')
  BY <1>1, <1>3, <1>6, <1>7, HasAtCursors
<1>9. TimesInv /\ ListingInv /\ Over = Whole /\ Cursor(cursor) /\ Facets(entity, F)
  BY OverIsWhole, FacetsOfEntity DEF MirrorTypes, SyncTaskInv
<1>10. CASE ~(cursor.i <= Len(Over))
  <2>1. ASSUME NEW o \in Owed PROVE Mirrored(o)
    <3>1. /\ o \in Objects /\ Len(Whole) \in Nat /\ DOMAIN Whole = 1..Len(Whole)
          /\ \E m \in DOMAIN Whole : Whole[m] = ScopeIn(o)
      BY <1>9, OwedIsListed, WholeIsOrdered
    <3>2. IsPast(cursor, o)
      BY <1>9, <1>10, <3>1 DEF IsPast, Cursor
    <3> QED BY <1>6, <3>2 DEF Has
  <2>2. \A c : Has(c)'
    BY <1>2, <2>1 DEF Has
  <2> QED BY <1>7, <1>8, <1>10, <2>2 DEF CoverInv
<1>11. CASE cursor.i <= Len(Over)
  <2>1. ASSUME NEW o \in Owed, IsPast(NextCursor(last, {}), o) PROVE Mirrored(o) \/ o \in items
    BY <1>4, <1>6, <1>11, <2>1, CallCovers DEF Has
  <2>2. DOMAIN Read(items) = items /\ \A o \in items : Read(items)[o] = touched[o]
    BY DEF Read
  <2>3. CASE step' = "store"
    <3>1. ASSUME NEW o \in Owed', IsPast(next, o)' PROVE Mirrored(o)' \/ o \in DOMAIN batch'
      <4>1. PICK c : c = next'
        OBVIOUS
      <4>2. IsPast(c, o)'
        BY <3>1, <4>1 DEF IsPast
      <4> QED BY <1>2, <1>7, <1>11, <2>1, <2>2, <4>1, <4>2
    <3>2. ASSUME NEW o \in DOMAIN batch' \ fresh' PROVE batch'[o] = touched'[o]
      BY <1>1, <1>7, <1>11, <2>2 DEF githubVars
    <3>3. ASSUME entity' \in ReplacedByMfa PROVE Owed' \subseteq DOMAIN batch'
      <4>1. entity = "mfa_status" /\ F.batch = "all" /\ F.over = "org"
        BY <1>1, <1>9, <3>3 DEF ReplacedByMfa, Facets
      <4>2. Over = <<"org">> /\ cursor.i = 1
        BY <1>9, <1>11, <4>1 DEF Whole, Cursor
      <4>3. last \in cursor.i..Len(Over)
        <5>1. Over \in Seq(Range(Over))
          BY <1>9, WholeIsOrdered DEF Range
        <5> QED BY <1>11, <4>2, <5>1, LastIsMet
      <4>4. last = 1
        BY <4>2, <4>3
      <4>5. ASSUME NEW o \in Owed PROVE o \in items
        <5>1. PageAt(1) \in Nat \ {0} /\ ScopeIn(o) = "org"
          BY <1>9, <4>1 DEF PageAt, Cursor, ScopeIn
        <5>2. o \in Kept("org", PageAt(1))
          BY <1>4, <1>9, <4>1, <5>1, PageKeepsOwed
        <5>3. o \in Got(1, {})
          BY <4>2, <5>2 DEF Got
        <5> QED BY <4>2, <4>4, <5>3 DEF UpTo
      <4> QED BY <1>2, <1>7, <1>11, <2>2, <4>5
    <3> QED BY <1>8, <2>3, <3>1, <3>2, <3>3 DEF CoverInv
  <2>4. CASE step' = "complete" /\ batch' = NoItems /\ cutShort' = (next' # End)
    <3>1. items = {}
      BY <1>7, <1>11, <2>2, <2>4 DEF NoItems, Read
    <3>2. ~cutShort' => Has(End)'
      <4>1. SUFFICES ASSUME ~cutShort' PROVE Has(End)
        BY <1>3
      <4>2. NextCursor(last, {}) = End
        BY <1>7, <1>11, <2>4, <4>1
      <4> QED BY <2>1, <3>1, <4>2 DEF Has, IsPast
    <3> QED BY <1>8, <2>4, <3>2 DEF CoverInv
  <2> QED BY <1>7, <1>11, <2>3, <2>4
<1> QED BY <1>10, <1>11

\* The rows of a page, and those that its transaction deletes.
LEMMA PageCovers == ASSUME MirrorTypes, CoverInv, StoreItems PROVE CoverInv'
<1> SUFFICES ASSUME Undisturbed' PROVE CoverInv'
  BY DEF CoverInv
<1>1. /\ step = "store" /\ step' = "save" /\ UNCHANGED <<entity, githubVars, listing, since, fresh>>
      /\ UNCHANGED <<cursor, saved, next, batch, disturbed, refused>>
  BY DEF StoreItems, seenVars
<1>2. /\ Owed' = Owed /\ (Sheltered' <=> Sheltered)
      /\ \A c, o : IsPast(c, o)' <=> IsPast(c, o)
  BY <1>1, StillOwed
<1>3. Undisturbed /\ Sheltered
  BY <1>1, <1>2 DEF Undisturbed
<1>4. /\ Has(cursor) /\ (saved # NoRow => Has(saved.cursor))
      /\ \A o \in Owed : IsPast(next, o) => Mirrored(o) \/ o \in DOMAIN batch
      /\ \A o \in DOMAIN batch \ fresh : batch[o] = touched[o]
      /\ entity \in ReplacedByMfa => Owed \subseteq DOMAIN batch
  BY <1>1, <1>3 DEF CoverInv
<1>5. ASSUME NEW o \in Owed, Mirrored(o) \/ o \in DOMAIN batch PROVE Mirrored(o)'
  <2>1. /\ o \in Objects /\ o \notin fresh /\ touched[o] \in Nat
        /\ entity' = entity /\ touched' = touched
        /\ table' = [q \in Objects |-> IF q \in DOMAIN batch THEN Inserted(q)
                                      ELSE IF q \in Pruned THEN Never ELSE table[q]]
    BY <1>1 DEF Owed, MirrorTypes, TimesInv, StoreItems, githubVars
  <2>2. CASE o \in DOMAIN batch
    <3>1. batch[o] = touched[o] /\ table'[o] = Inserted(o)
      BY <1>4, <2>1, <2>2
    <3> QED BY <2>1, <3>1 DEF Mirrored, MirroredAll, Inserted, Never
  <2>3. CASE o \notin DOMAIN batch
    <3>1. o \notin Pruned
      BY <1>3, <1>4, <2>3 DEF Pruned, Sheltered
    <3>2. table'[o] = table[o]
      BY <2>1, <2>3, <3>1
    <3> QED BY <1>5, <2>1, <2>3, <3>2 DEF Mirrored, MirroredAll
  <2> QED BY <2>2, <2>3
<1>6. ASSUME NEW c, Has(c) PROVE Has(c)'
  BY <1>2, <1>5, <1>6 DEF Has
<1>7. Has(next)'
  <2>1. PICK c : c = next'
    OBVIOUS
  <2>2. \A o \in Owed : IsPast(c, o) => Mirrored(o)'
    BY <1>1, <1>4, <1>5, <2>1
  <2>3. Has(c)'
    BY <1>2, <2>2 DEF Has
  <2> QED BY <2>1, <2>3, HasAtCursors
<1>8. Has(cursor)' /\ (saved' # NoRow => Has(saved.cursor)')
  BY <1>1, <1>4, <1>6, HasAtCursors
<1> QED BY <1>1, <1>7, <1>8 DEF CoverInv

\* The row holds what the task has, and a new attempt goes on from the row.
LEMMA SaveCovers == ASSUME MirrorTypes, CoverInv, SaveCursor PROVE CoverInv'
<1> SUFFICES ASSUME Undisturbed' PROVE CoverInv'
  BY DEF CoverInv
<1>1. /\ step = "save" /\ UNCHANGED <<entity, githubVars, listing, since, fresh>>
      /\ UNCHANGED <<table, disturbed, refused, cutShort>>
      /\ saved' = [cursor |-> IF next = End THEN First ELSE next, any |-> any]
      /\ \/ next = End /\ step' = "complete" /\ cursor' = cursor
         \/ next # End /\ step' = "fetch" /\ cursor' = next
  BY DEF SaveCursor, seenVars
<1>2. /\ Owed' = Owed /\ (Sheltered' <=> Sheltered)
      /\ \A c, o : IsPast(c, o)' <=> IsPast(c, o)
      /\ \A o : Mirrored(o)' <=> Mirrored(o)
  BY <1>1, StillOwed
<1>3. \A c : Has(c)' <=> Has(c)
  BY <1>2 DEF Has
<1>4. Undisturbed
  BY <1>1, <1>2 DEF Undisturbed
<1>5. Has(cursor) /\ Has(next)
  BY <1>1, <1>4 DEF CoverInv
<1>6. Has(First)
  BY NothingIsBeforeFirst DEF Has, MirrorTypes
<1>7. Has(saved.cursor)'
  <2>1. PICK r : r = saved'
    OBVIOUS
  <2>2. Has(r.cursor)
    BY <1>1, <1>5, <1>6, <2>1
  <2> QED BY <1>3, <2>1, <2>2, HasAtCursors
<1>8. Has(cursor)'
  <2>1. PICK c : c = cursor'
    OBVIOUS
  <2>2. Has(c)
    BY <1>1, <1>5, <2>1
  <2> QED BY <1>3, <2>1, <2>2, HasAtCursors
<1>9. step' = "complete" => Has(End)'
  BY <1>1, <1>3, <1>5
<1> QED BY <1>1, <1>7, <1>8, <1>9 DEF CoverInv

LEMMA ResumeCovers ==
  ASSUME MirrorTypes, CoverInv, FetchFails \/ RetryEntity \/ CrashEntity PROVE CoverInv'
<1> SUFFICES ASSUME Undisturbed' PROVE CoverInv'
  BY DEF CoverInv
<1>1. /\ step # "idle" /\ step' \in {"fetch", "failed"}
      /\ UNCHANGED <<entity, githubVars, listing, since, fresh>>
      /\ UNCHANGED <<table, disturbed, refused, cutShort>>
      /\ \/ FailedRow /\ cursor' = cursor
         \/ saved' = saved /\ cursor' = ResumeCursor
  BY DEF FetchFails, RetryEntity, CrashEntity, seenVars, rowVars
<1>2. /\ Owed' = Owed /\ (Sheltered' <=> Sheltered)
      /\ \A c, o : IsPast(c, o)' <=> IsPast(c, o)
      /\ \A o : Mirrored(o)' <=> Mirrored(o)
  BY <1>1, StillOwed
<1>3. \A c : Has(c)' <=> Has(c)
  BY <1>2 DEF Has
<1>4. Undisturbed
  BY <1>1, <1>2 DEF Undisturbed
<1>5. Has(cursor) /\ (saved # NoRow => Has(saved.cursor)) /\ Has(First)
  BY <1>4, NothingIsBeforeFirst DEF CoverInv, Has, MirrorTypes
<1>6. saved' # NoRow => Has(saved.cursor)'
  <2>1. PICK r : r = saved'
    OBVIOUS
  <2>2. r # NoRow => Has(r.cursor)
    BY <1>1, <1>5, <2>1 DEF FailedRow
  <2> QED BY <1>3, <2>1, <2>2, HasAtCursors
<1>7. Has(cursor)'
  <2>1. PICK c : c = cursor'
    OBVIOUS
  <2>2. Has(c)
    BY <1>1, <1>5, <2>1 DEF ResumeCursor
  <2> QED BY <1>3, <2>1, <2>2, HasAtCursors
<1> QED BY <1>1, <1>6, <1>7 DEF CoverInv

LEMMA StartCovers ==
  ASSUME MirrorTypes, MirrorTypes', NEW trigger, StartRun(trigger) PROVE CoverInv'
<1>1. cursor' = First /\ saved' = NoRow /\ step' = "fetch"
  BY DEF StartRun
<1>2. ASSUME NEW o PROVE ~IsPast(First, o)'
  <2>1. Ahead(o)' \subseteq Objects
    BY DEF Ahead, MirrorTypes, TimesInv
  <2>2. Cardinality(Ahead(o)') \in Nat
    BY <2>1, FS_Subset, FS_CardinalityType, MirrorAssumption
  <2>3. PageIn(o)' \in Nat \ {0}
    BY <2>2, DayOfHour, MirrorAssumption DEF PageIn
  <2>4. Len(Whole') \in Nat /\ DOMAIN Whole' = 1..Len(Whole')
    <3>1. listing' \in Seq(Scopes)
      BY DEF MirrorTypes, ListingInv
    <3>2. CASE F'.over = "org"
      BY <3>2 DEF Whole
    <3>3. CASE F'.over # "org"
      BY <3>1, <3>3, LenProperties DEF Whole
    <3> QED BY <3>2, <3>3
  <2> QED BY <2>3, <2>4 DEF IsPast, First, End
<1>3. Has(First)'
  BY <1>2 DEF Has
<1>4. Has(cursor)'
  <2>1. PICK c : c = cursor'
    OBVIOUS
  <2> QED BY <1>1, <1>3, <2>1, HasAtCursors
<1> QED BY <1>1, <1>4 DEF CoverInv

LEMMA ChangeCovers ==
  ASSUME MirrorTypes, CoverInv, NEW x \in Objects, Touch(x) \/ Appear(x) PROVE CoverInv'
<1> SUFFICES ASSUME Undisturbed' PROVE CoverInv'
  BY DEF CoverInv
<1>1. /\ entity' = entity /\ since' = since /\ table' = table /\ step' = step /\ cursor' = cursor
      /\ saved' = saved /\ next' = next /\ batch' = batch
      /\ disturbed' = disturbed /\ refused' = refused /\ cutShort' = cutShort
      /\ here \subseteq here' /\ fresh' = fresh \cup {x}
  BY DEF Touch, Appear, rowVars, taskVars
<1>2. /\ TimesInv /\ ListingInv /\ SyncTaskInv /\ clock \in Nat
  BY DEF MirrorTypes, TimesInv
<1>3. ASSUME NEW q \in Objects, q # x PROVE touched'[q] = touched[q] /\ born'[q] = born[q]
  BY <1>2, <1>3 DEF Touch, Appear, TimesInv
<1>4. Undisturbed
  <2>1. Sheltered'
    BY DEF Undisturbed
  <2>2. \A q \in here : born'[q] # LongAgo => born[q] # LongAgo
    BY <1>2, <1>3 DEF Touch, Appear, TimesInv
  <2>3. Sheltered
    BY <1>1, <2>1, <2>2 DEF Sheltered
  <2> QED BY <1>1, <2>3 DEF Undisturbed
<1>5. ASSUME NEW o \in Owed' PROVE o \in Owed /\ (Mirrored(o) => Mirrored(o)')
  <2>1. o \in Owed /\ touched'[o] = touched[o]
    BY <1>2, PagesGrow
  <2> QED BY <1>1, <2>1 DEF Mirrored, MirroredAll
<1>6. ASSUME NEW c, c = End \/ Cursor(c), Has(c) PROVE Has(c)'
  BY <1>5, <1>6, BehindAfterChange DEF Has
<1>7. Cursor(cursor) /\ (next = End \/ Cursor(next)) /\ (saved # NoRow => Cursor(saved.cursor))
  BY <1>2 DEF SyncTaskInv
<1>8. /\ Has(cursor) /\ (saved # NoRow => Has(saved.cursor))
      /\ step = "store" =>
           /\ \A o \in Owed : IsPast(next, o) => Mirrored(o) \/ o \in DOMAIN batch
           /\ \A o \in DOMAIN batch \ fresh : batch[o] = touched[o]
           /\ entity \in ReplacedByMfa => Owed \subseteq DOMAIN batch
      /\ step = "save" => Has(next)
      /\ step = "complete" /\ ~cutShort => Has(End)
  BY <1>4 DEF CoverInv
<1>9. Has(cursor)' /\ (saved' # NoRow => Has(saved.cursor)') /\ (step' = "save" => Has(next)')
      /\ (step' = "complete" /\ ~cutShort' => Has(End)')
  BY <1>1, <1>6, <1>7, <1>8, HasAtCursors
<1>10. ASSUME step' = "store"
       PROVE  /\ \A o \in Owed' : IsPast(next, o)' => Mirrored(o)' \/ o \in DOMAIN batch'
              /\ \A o \in DOMAIN batch' \ fresh' : batch'[o] = touched'[o]
              /\ entity' \in ReplacedByMfa => Owed' \subseteq DOMAIN batch'
  <2>1. ASSUME NEW o \in Owed', IsPast(next, o)' PROVE Mirrored(o)' \/ o \in DOMAIN batch'
    <3>1. PICK c : c = next'
      OBVIOUS
    <3>2. IsPast(c, o)'
      BY <2>1, <3>1 DEF IsPast
    <3>3. IsPast(c, o)
      BY <1>1, <1>7, <3>1, <3>2, BehindAfterChange
    <3> QED BY <1>1, <1>5, <1>8, <1>10, <3>1, <3>3
  <2>2. ASSUME NEW o \in DOMAIN batch' \ fresh' PROVE batch'[o] = touched'[o]
    BY <1>1, <1>2, <1>3, <1>8, <1>10, <2>2 DEF SyncTaskInv
  <2> QED BY <1>1, <1>5, <1>8, <1>10, <2>1, <2>2
<1> QED BY <1>9, <1>10 DEF CoverInv

LEMMA CoverStays ==
  ASSUME MirrorTypes, MirrorTypes', CoverInv, [NextMirror]_mirrorVars PROVE CoverInv'
<1>1. CASE step' = "idle" \/ disturbed' \/ refused'
  BY <1>1 DEF CoverInv, Undisturbed
<1>2. ASSUME NEW trigger, StartRun(trigger) PROVE CoverInv'
  BY <1>2, StartCovers
<1>3. ASSUME NEW throttled \in BOOLEAN, FetchPage(throttled) PROVE CoverInv'
  BY <1>3, FetchCovers
<1>4. ASSUME NEW o \in Objects, Touch(o) \/ Appear(o) PROVE CoverInv'
  BY <1>4, ChangeCovers
<1>5. CASE CursorExpires
  BY <1>1, <1>5 DEF CursorExpires
<1>6. CASE CompleteEntity \/ GiveUp
  BY <1>1, <1>6 DEF CompleteEntity, GiveUp
<1>7. ASSUME Reorder \/ \E o \in Objects : Disappear(o) PROVE CoverInv'
  BY <1>1, <1>7 DEF Reorder, Disappear
<1>8. CASE UNCHANGED mirrorVars
  <2>1. /\ UNCHANGED <<entity, githubVars, listing, since, fresh>>
        /\ UNCHANGED <<table, step, cursor, saved, next, batch, disturbed, refused, cutShort>>
    BY <1>8 DEF mirrorVars, githubVars, rowVars, taskVars, seenVars
  <2>2. /\ Owed' = Owed /\ (Sheltered' <=> Sheltered)
        /\ \A c, o : IsPast(c, o)' <=> IsPast(c, o)
        /\ \A o : Mirrored(o)' <=> Mirrored(o)
    BY <2>1, StillOwed
  <2>3. \A c : Has(c)' <=> Has(c)
    BY <2>2 DEF Has
  <2>4. (Has(cursor)' <=> Has(cursor)) /\ (Has(next)' <=> Has(next))
        /\ (Has(saved.cursor)' <=> Has(saved.cursor)) /\ \A o : IsPast(next, o)' <=> IsPast(next, o)
    <3>1. Whole' = Whole /\ \A o : ScopeIn(o)' = ScopeIn(o) /\ PageIn(o)' = PageIn(o)
      BY <2>1 DEF Whole, ScopeIn, PageIn, Ahead, Precedes, BeforeCutoff, NewestFirst, Stamp, F, githubVars
    <3>2. \A o : IsPast(next, o)' <=> IsPast(next, o)
      BY <2>1, <3>1 DEF IsPast
    <3>3. \A o : (IsPast(cursor, o)' <=> IsPast(cursor, o)) /\ (IsPast(saved.cursor, o)' <=> IsPast(saved.cursor, o))
      BY <2>1, <3>1 DEF IsPast
    <3> QED BY <2>2, <3>2, <3>3 DEF Has
  <2>5. touched' = touched
    BY <2>1 DEF githubVars
  <2> QED BY <2>1, <2>2, <2>3, <2>4, <2>5 DEF CoverInv, Undisturbed
<1> QED
  BY <1>2, <1>3, <1>4, <1>5, <1>6, <1>7, <1>8, PageCovers, SaveCovers, ResumeCovers DEF NextMirror

LEMMA CoverAtFirst == ASSUME InitMirror PROVE CoverInv
BY DEF InitMirror, CoverInv, Undisturbed

\* The types of the run's state, for every number of objects, scopes and pages.
THEOREM MirrorTyping == SpecMirror => []MirrorTypeOK
<1>1. InitMirror => MirrorTypes
  BY MirrorTypesAtFirst
<1>2. MirrorTypes /\ [NextMirror]_mirrorVars => MirrorTypes'
  BY MirrorTypesStay
<1>3. MirrorTypes => MirrorTypeOK
  <2> SUFFICES ASSUME MirrorTypes PROVE MirrorTypeOK
    OBVIOUS
  <2>1. TimesInv /\ ListingInv /\ SyncTaskInv /\ Over = Whole /\ Len(Whole) \in Nat
    BY OverIsWhole, WholeIsOrdered DEF MirrorTypes, SyncTaskInv
  <2> DEFINE Walks(c) == /\ c.page \in Nat
                         /\ c = First \/ c.i \in 0..Len(Over) \/ (F.batch = "all" /\ c.i = Len(Over) + 1)
  <2>2. \A c : c = End \/ Cursor(c) => Walks(c)
    BY <2>1 DEF Cursor, End
  <2>3. saved = NoRow \/ Cursor(saved.cursor)
    BY <2>1 DEF SyncTaskInv
  <2>4. saved.cursor = End \/ Cursor(saved.cursor)
    BY <2>3 DEF NoRow
  <2>5. \A c \in {cursor, next, saved.cursor} : Walks(c)
    BY <2>1, <2>2, <2>4 DEF SyncTaskInv
  <2>6. Range(listing) = Scopes
    BY <2>1 DEF ListingInv, Range
  <2>7. born \in [Objects -> 0..MaxClock] /\ touched \in [Objects -> 0..MaxClock]
    <3>1. \A o \in Objects : born[o] \in 0..MaxClock /\ touched[o] \in 0..MaxClock
      BY <2>1, MirrorAssumption DEF TimesInv
    <3> QED BY <2>1, <3>1 DEF TimesInv
  <2>8. clock \in 0..MaxClock
    BY <2>1, MirrorAssumption DEF TimesInv
  <2> QED BY <2>1, <2>5, <2>6, <2>7, <2>8 DEF MirrorTypeOK, TimesInv, ListingInv, SyncTaskInv, Scopes
<1> QED BY <1>1, <1>2, <1>3, PTL DEF SpecMirror

\* A sync that reaches its end undisturbed has mirrored all it owes.
THEOREM QuietSyncsMirror == SpecMirror => []QuietSyncMirrors
<1>1. InitMirror => MirrorTypes /\ CoverInv
  BY MirrorTypesAtFirst, CoverAtFirst
<1>2. MirrorTypes /\ CoverInv /\ [NextMirror]_mirrorVars => MirrorTypes' /\ CoverInv'
  BY MirrorTypesStay, CoverStays
<1>3. CoverInv => QuietSyncMirrors
  <2> SUFFICES ASSUME CoverInv, step = "complete", ~disturbed, ~refused, ~cutShort, Sheltered
               PROVE  MirroredAll(Owed)
    BY DEF QuietSyncMirrors
  <2>1. \A o \in Owed : Mirrored(o)
    BY DEF CoverInv, Undisturbed, Has, IsPast
  <2> QED BY <2>1 DEF Mirrored, MirroredAll
<1> QED BY <1>1, <1>2, <1>3, PTL DEF SpecMirror
=============================================================================
