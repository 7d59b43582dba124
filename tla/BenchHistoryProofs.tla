------------------------- MODULE BenchHistoryProofs -------------------------
(***************************************************************************)
(* What the handler concludes from benchmark_runs: incidents are backed by *)
(* failed runs, the 24-hour guard disables only for cause and misses       *)
(* nothing; and of a single lane, last_benchmark_at is the latest run's    *)
(* start and the incidents are the outages of the history.  For any        *)
(* models, providers, jobs, outcomes and limits.                           *)
(***************************************************************************)
EXTENDS BenchJobProofs

Inserted(w) == worker[w].pc \notin {"idle", "probe", "insert"}

(* A lane past its insert finds its run among those of the model.          *)
OwnRun(w) ==
  \E i \in DOMAIN runs[Model(w)] :
    /\ runs[Model(w)][i].at = worker[w].at
    /\ runs[Model(w)][i].out = worker[w].out

ManyFailures(m) == Cardinality(Failures(m, DOMAIN runs[m])) >= IncidentThreshold

(* The guard of this lane has decided to disable the model.                *)
Doomed(w) ==
  \/ At(w, "disable")
  \/ /\ At(w, "backoff")
     /\ ShouldAutoDisable(worker[w].fails, worker[w].gone, DailyMax)

(* What a lane remembers is still true of the tables.                      *)
LaneHistory(w) ==
  /\ worker[w].at <= now
  /\ ~At(w, "idle") => now <= worker[w].at + JobSpan
  /\ Inserted(w) => OwnRun(w)
  /\ worker[w].pc \in {"open", "incident"} /\ worker[w].streak => ManyFailures(Model(w))
  /\ At(w, "incident") /\ worker[w].open = 0 => Failed(worker[w].out) /\ worker[w].streak
  /\ Doomed(w) => Condemned(Model(w))

(* Runs started in the past, and one of them last.                         *)
RunsHistory ==
  \A m \in Models :
    /\ \A i \in DOMAIN runs[m] : runs[m][i].at <= now
    /\ runs[m] # <<>> =>
         \E i \in DOMAIN runs[m] : \A k \in DOMAIN runs[m] : runs[m][k].at <= runs[m][i].at

HistoryInv ==
  /\ \A w \in Workers : LaneHistory(w)
  /\ RunsHistory
  /\ IncidentsJustified

(* A lane between its insert and its count will still look at the day.     *)
Counting == {"cool", "escalate", "rest", "recent", "open", "incident", "guard"}

Uncounted(m) == \E w \in Workers : worker[w].pc \in Counting /\ Model(w) = m

LastDay(m) == {i \in DOMAIN runs[m] : runs[m][i].at >= LastStart(m) + JobSpan - Day}

CallsForDisabling(m) ==
  ShouldAutoDisable(Cardinality(Failures(m, LastDay(m))), Cardinality(GoneHits(m, LastDay(m))),
                    DailyMax)

(* Once nobody has still to count, the verdict on the last day has been    *)
(* carried out, or a lane is about to.                                     *)
CaughtOrDoomed(m) ==
  runs[m] # <<>> /\ ~Uncounted(m) /\ CallsForDisabling(m) =>
    ~enabled[m] \/ \E w \in Workers : Doomed(w) /\ Model(w) = m

GuardInv == faults = 0 => \A m \in Models : CaughtOrDoomed(m)

(* The stamp is the latest start, and no run is later than a probe that is *)
(* still to be inserted.                                                   *)
StampInv ==
  faults = 0 =>
    \A m \in Models : runs[m] # <<>> =>
      /\ \E i \in DOMAIN runs[m] : runs[m][i].at = stamp[m]
      /\ \A i \in DOMAIN runs[m] : runs[m][i].at <= stamp[m]

NoneLater ==
  \A w \in Workers : worker[w].pc \in {"probe", "insert"} =>
    \A m \in Models : \A i \in DOMAIN runs[m] : runs[m][i].at <= worker[w].at

(* Rows i, ..., n of a history that all failed, and the last ones before n *)
(* that make a streak.                                                     *)
FailedIn(r, S) == \A i \in S : Failed(r[i].out)

Streak(r, n) == n >= IncidentThreshold /\ FailedIn(r, n - IncidentThreshold + 1 .. n)

(* Where outages start among the first n rows, and when one has ended.     *)
Starts(r, n) ==
  {i \in IncidentThreshold .. n :
     Streak(r, i) /\ (i = IncidentThreshold \/ ~Failed(r[i - IncidentThreshold].out))}

EndsAt(r, i, n, e) ==
  \/ FailedIn(r, i .. n) /\ e = Never
  \/ \E k \in i .. n : ~Failed(r[k].out) /\ FailedIn(r, i .. k - 1) /\ e = r[k].at

(* The incidents are the outages of the first n rows; a streak that goes   *)
(* on at row n has started somewhere.                                      *)
Mirrors(q, r, n) ==
  /\ \A k \in DOMAIN q : \E i \in Starts(r, n) : q[k].start = r[i].at /\ EndsAt(r, i, n, q[k].end)
  /\ \A i \in Starts(r, n) : \E k \in DOMAIN q : q[k].start = r[i].at
  /\ \A k, l \in DOMAIN q : k # l => q[k].start # q[l].start
  /\ Len(q) = Cardinality(Starts(r, n))
  /\ Streak(r, n) => \E i \in Starts(r, n) : FailedIn(r, i .. n)

InOrder(r) == \A i, k \in DOMAIN r : i < k => r[i].at < r[k].at

(* A lane that has stored its run and not yet judged it: the incidents     *)
(* mirror all rows but the last.                                           *)
Judging == {"cool", "escalate", "rest", "recent", "open", "incident"}

Judges(w, m) == worker[w].pc \in Judging /\ Model(w) = m

Judged(m) == IF \E w \in Workers : Judges(w, m) THEN Len(runs[m]) - 1 ELSE Len(runs[m])

Verdict(w, m) ==
  LET r == runs[m]
  IN  /\ r # <<>> /\ r[Len(r)].at = worker[w].at /\ r[Len(r)].out = worker[w].out
      /\ worker[w].pc \in {"open", "incident"} => worker[w].streak = Streak(r, Len(r))
      /\ At(w, "incident") /\ worker[w].open = 0 =>
           OpenRows(m) = {} /\ Failed(worker[w].out) /\ worker[w].streak
      /\ At(w, "incident") /\ worker[w].open # 0 => worker[w].open \in OpenRows(m)

Reflected(m) ==
  /\ InOrder(runs[m])
  /\ Mirrors(incidents[m], runs[m], Judged(m))
  /\ \A w \in Workers : Judges(w, m) => Verdict(w, m)

MirrorInv == faults = 0 => \A m \in Models : DistinctStarts(m) => Reflected(m)

-----------------------------------------------------------------------------
(* Runs are only ever added.                                               *)
Grown(m) ==
  /\ DOMAIN runs[m] \subseteq DOMAIN runs'[m]
  /\ \A i \in DOMAIN runs[m] : runs'[m][i] = runs[m][i]

LEMMA RowsFinite ==
  ASSUME TypeOK, NEW m \in Models, NEW S \in SUBSET DOMAIN runs[m]
  PROVE  IsFiniteSet(S) /\ Cardinality(S) \in Nat
<1>1. DOMAIN runs[m] = 1 .. Len(runs[m]) /\ Len(runs[m]) \in Nat
  BY DEF TypeOK
<1>2. IsFiniteSet(DOMAIN runs[m])
  BY <1>1, FS_Interval
<1> QED
  BY <1>2, FS_Subset, FS_CardinalityType

LEMMA InsertGrows ==
  ASSUME TypeInv, NEW w \in Workers,
         InsertRun(w) \/ InsertUnstamped(w) \/ InsertRepeated(w)
  PROVE  LET m == Model(w) IN
         /\ m \in Models
         /\ \A k \in Models : Grown(k)
         /\ \A k \in Models \ {m} : runs'[k] = runs[k]
         /\ \A i \in DOMAIN runs'[m] : i \in DOMAIN runs[m] \/ runs'[m][i] = NewRun(w)
         /\ \E i \in DOMAIN runs'[m] : runs'[m][i] = NewRun(w)
<1> USE DEF TypeInv
<1> DEFINE m     == Model(w)
           old   == runs[m]
           run   == NewRun(w)
           once  == Append(old, run)
           twice == Append(once, run)
<1>1. ~At(w, "idle")
  BY DEF InsertRun, InsertUnstamped, InsertRepeated, At
<1>2. m \in Models /\ old \in Seq(Run) /\ runs \in [Models -> Seq(Run)]
  BY <1>1, BusyTypes DEF TypeOK
<1>3. run \in Run
  BY <1>1, BusyTypes DEF NewRun, Run, TypeOK, Worker
<1>4. runs' = [runs EXCEPT ![m] = once] \/ runs' = [runs EXCEPT ![m] = twice]
  BY DEF InsertRun, InsertUnstamped, InsertRepeated
<1> HIDE DEF m, run
<1> DEFINE n == Len(old)
<1>5. n \in Nat /\ DOMAIN old = 1 .. n
  BY <1>2
<1>6. /\ once \in Seq(Run) /\ Len(once) = n + 1 /\ DOMAIN once = 1 .. (n + 1)
      /\ \A i \in 1 .. n : once[i] = old[i]
      /\ once[n + 1] = run
  BY <1>2, <1>3, AppendProperties
<1> HIDE DEF once
<1>7. /\ DOMAIN twice = 1 .. (n + 2)
      /\ \A i \in 1 .. n + 1 : twice[i] = once[i]
      /\ twice[n + 2] = run
  BY <1>2, <1>3, <1>5, <1>6, AppendProperties
<1> HIDE DEF twice, n
<1>8. /\ \A k \in Models \ {m} : runs'[k] = runs[k]
      /\ runs'[m] = once \/ runs'[m] = twice
  BY <1>2, <1>4
<1>9. /\ DOMAIN old \subseteq DOMAIN runs'[m]
      /\ \A i \in DOMAIN old : runs'[m][i] = old[i]
  BY <1>5, <1>6, <1>7, <1>8
<1>10. \A i \in DOMAIN runs'[m] : i \in DOMAIN old \/ runs'[m][i] = run
  <2> SUFFICES ASSUME NEW i \in DOMAIN runs'[m], i \notin DOMAIN old
               PROVE  runs'[m][i] = run
    OBVIOUS
  <2>1. CASE runs'[m] = once
    BY <1>5, <1>6, <2>1
  <2>2. CASE runs'[m] = twice
    <3>1. i = n + 1 \/ i = n + 2
      BY <1>5, <1>7, <2>2
    <3> QED
      BY <1>5, <1>6, <1>7, <2>2, <3>1
  <2> QED
    BY <1>8, <2>1, <2>2
<1>11. \E i \in DOMAIN runs'[m] : runs'[m][i] = run
  BY <1>5, <1>6, <1>7, <1>8
<1>12. \A k \in Models : Grown(k)
  BY <1>2, <1>8, <1>9 DEF Grown
<1> QED
  BY <1>2, <1>8, <1>10, <1>11, <1>12 DEF m, run

(* What the tables back up once, they back up for good.                    *)
LEMMA FactsPersist ==
  ASSUME TypeOK, TypeOK', NEW m \in Models, Grown(m)
  PROVE  /\ Failures(m, DOMAIN runs[m]) \subseteq Failures(m, DOMAIN runs[m])'
         /\ ManyFailures(m) => ManyFailures(m)'
         /\ Condemned(m) => Condemned(m)'
<1> DEFINE failed == Failures(m, DOMAIN runs[m])
<1>1. failed \subseteq failed'
  BY DEF Failures, Grown
<1>2. ManyFailures(m) => ManyFailures(m)'
  <2>1. failed' \subseteq DOMAIN runs'[m] /\ failed \subseteq DOMAIN runs[m]
    BY DEF Failures
  <2>2. IsFiniteSet(failed') /\ Cardinality(failed') \in Nat /\ Cardinality(failed) \in Nat
    <3>1. IsFiniteSet(failed) /\ Cardinality(failed) \in Nat
      BY <2>1, RowsFinite
    <3>2. DOMAIN runs'[m] = 1 .. Len(runs'[m]) /\ Len(runs'[m]) \in Nat
      BY DEF TypeOK
    <3>3. IsFiniteSet(DOMAIN runs'[m])
      BY <3>2, FS_Interval
    <3> QED
      BY <2>1, <3>1, <3>3, FS_Subset, FS_CardinalityType
  <2>3. Cardinality(failed) <= Cardinality(failed')
    BY <1>1, <2>2, FS_Subset
  <2>4. IncidentThreshold \in Nat
    BY BenchJobAssumption
  <2> QED
    BY <2>2, <2>3, <2>4 DEF ManyFailures
<1>3. Condemned(m) => Condemned(m)'
  <2> SUFFICES ASSUME NEW S \in SUBSET failed,
                      \A i, k \in S : runs[m][i].at - runs[m][k].at <= Day,
                      ShouldAutoDisable(Cardinality(S), Cardinality(GoneHits(m, S)), DailyMax)
               PROVE  Condemned(m)'
    BY DEF Condemned
  <2>1. S \subseteq DOMAIN runs[m] /\ S \in SUBSET failed'
    BY <1>1 DEF Failures
  <2>2. \A i \in S : runs'[m][i] = runs[m][i]
    BY <2>1 DEF Grown
  <2>3. GoneHits(m, S)' = GoneHits(m, S)
    BY <2>2 DEF GoneHits, Failures
  <2> QED
    BY <2>1, <2>2, <2>3 DEF Condemned
<1> QED
  BY <1>1, <1>2, <1>3

-----------------------------------------------------------------------------
(* A lane that does not move, and one that does.                           *)

LEMMA LaneKept ==
  ASSUME TypeInv, TypeOK', NEW w \in Workers, LaneHistory(w), worker'[w] = worker[w],
         now' = now, \A m \in Models : Grown(m), ~At(w, "idle") => Model(w)' = Model(w)
  PROVE  LaneHistory(w)'
<1> USE DEF TypeInv
<1>1. CASE At(w, "idle")
  BY <1>1 DEF LaneHistory, At, Inserted, Doomed
<1>2. CASE ~At(w, "idle")
  <2>1. Model(w) \in Models /\ Model(w)' = Model(w)
    BY <1>2, BusyTypes
  <2>2. Grown(Model(w))
    BY <2>1
  <2>3. OwnRun(w) => OwnRun(w)'
    BY <2>1, <2>2 DEF OwnRun, Grown
  <2>4. /\ ManyFailures(Model(w)) => ManyFailures(Model(w))'
        /\ Condemned(Model(w)) => Condemned(Model(w))'
    <3> DEFINE m == Model(w)
    <3>1. m \in Models /\ m' = m /\ Grown(m)
      BY <2>1, <2>2
    <3> HIDE DEF m
    <3>2. ASSUME NEW k \in Models, Grown(k)
          PROVE  /\ ManyFailures(k) => ManyFailures(k)'
                 /\ Condemned(k) => Condemned(k)'
      BY <3>2, FactsPersist
    <3>3. /\ ManyFailures(m) => ManyFailures(m)'
          /\ Condemned(m) => Condemned(m)'
      BY <3>1, <3>2 DEF ManyFailures, Condemned, Failures, GoneHits
    <3> QED
      BY <3>3 DEF m
  <2>5. /\ Inserted(w)' <=> Inserted(w)
        /\ Doomed(w)' <=> Doomed(w)
        /\ \A pc : At(w, pc)' <=> At(w, pc)
    BY DEF Inserted, Doomed, At
  <2> QED
    BY <2>3, <2>4, <2>5 DEF LaneHistory
<1> QED
  BY <1>1, <1>2

LEMMA LaneMoved ==
  ASSUME TypeInv, TypeOK', NEW w \in Workers, LaneHistory(w), ~At(w, "idle"),
         now' = now, jobs' = jobs, \A m \in Models : Grown(m),
         worker'[w].job = worker[w].job, worker'[w].at = worker[w].at,
         worker'[w].out = worker[w].out,
         Inserted(w) \/ OwnRun(w)',
         worker'[w].pc \in {"open", "incident"} /\ worker'[w].streak => ManyFailures(Model(w)),
         worker'[w].pc = "incident" /\ worker'[w].open = 0 =>
           Failed(worker[w].out) /\ worker'[w].streak,
         Doomed(w)' => Condemned(Model(w))
  PROVE  LaneHistory(w)'
<1> USE DEF TypeInv
<1> DEFINE m == Model(w)
<1>1. m \in Models /\ m' = m
  BY BusyTypes DEF Model
<1>2. Grown(m)
  BY <1>1
<1>3. OwnRun(w)'
  BY <1>1, <1>2 DEF LaneHistory, OwnRun, Grown
<1> HIDE DEF m
<1>4. ASSUME NEW k \in Models, Grown(k)
      PROVE  /\ ManyFailures(k) => ManyFailures(k)'
             /\ Condemned(k) => Condemned(k)'
  BY <1>4, FactsPersist
<1>5. /\ ManyFailures(m) => ManyFailures(m)'
      /\ Condemned(m) => Condemned(m)'
  BY <1>1, <1>2, <1>4 DEF ManyFailures, Condemned, Failures, GoneHits
<1> QED
  BY <1>3, <1>5 DEF LaneHistory, At, m

(* A step of a lane that changes nothing of it but where it is.            *)
LEMMA GotoHistory ==
  ASSUME TypeInv, TypeOK', NEW w \in Workers, LaneHistory(w), ~At(w, "idle"),
         now' = now, jobs' = jobs, \A m \in Models : Grown(m),
         NEW pc \in PCs \ {"idle", "open", "incident"}, Goto(w, pc),
         Inserted(w) \/ OwnRun(w)',
         pc \in {"backoff", "disable"} => Doomed(w)
  PROVE  LaneHistory(w)'
<1>1. /\ worker'[w].pc = pc
      /\ worker'[w].job = worker[w].job /\ worker'[w].at = worker[w].at
      /\ worker'[w].out = worker[w].out
  BY GotoKeeps DEF TypeInv
<1>2. Doomed(w)' => Doomed(w)
  BY <1>1 DEF Doomed, At
<1>3. Doomed(w) => Condemned(Model(w))
  BY DEF LaneHistory
<1> QED
  BY <1>1, <1>2, <1>3, LaneMoved

LEMMA NothingGrows ==
  ASSUME runs' = runs
  PROVE  \A m \in Models : Grown(m)
BY DEF Grown

-----------------------------------------------------------------------------
(* The steps of a busy lane, those that read the tables first.             *)

LEMMA ProbeHistory ==
  ASSUME TypeInv, NEW w \in Workers, LaneHistory(w), NEW o \in Outcomes, Probe(w, o)
  PROVE  LaneHistory(w)'
<1>1. PICK t \in StartedAt(w, o) :
        worker' = [worker EXCEPT ![w].pc = "insert", ![w].out = o, ![w].at = t]
  BY DEF Probe
<1>2. worker \in [Workers -> Worker] /\ worker[w] \in Worker /\ now \in Nat /\ JobSpan \in Nat
  BY BenchJobAssumption DEF TypeInv, TypeOK
<1>3. worker[w].at \in Nat
  BY <1>2 DEF Worker
<1>4. worker'[w].pc = "insert" /\ worker'[w].at = t /\ now' = now /\ ~At(w, "idle")
  BY <1>1, <1>2 DEF Probe, Worker, At
<1>5. t = worker[w].at \/ t = now
  BY DEF StartedAt
<1>6. worker[w].at <= now /\ now <= worker[w].at + JobSpan
  BY <1>4 DEF LaneHistory
<1>7. t <= now /\ now <= t + JobSpan
  BY <1>2, <1>3, <1>5, <1>6
<1> QED
  BY <1>4, <1>7 DEF LaneHistory, Inserted, At, Doomed

LEMMA InsertHistory ==
  ASSUME TypeInv, TypeOK', NEW w \in Workers, LaneHistory(w),
         InsertRun(w) \/ InsertUnstamped(w) \/ InsertRepeated(w)
  PROVE  LaneHistory(w)'
<1>1. ~At(w, "idle") /\ now' = now /\ jobs' = jobs /\ Goto(w, "cool")
  BY DEF InsertRun, InsertUnstamped, InsertRepeated, At
<1>2. /\ \A m \in Models : Grown(m)
      /\ \E i \in DOMAIN runs'[Model(w)] : runs'[Model(w)][i] = NewRun(w)
  BY InsertGrows
<1>3. /\ worker'[w].job = worker[w].job /\ worker'[w].at = worker[w].at
      /\ worker'[w].out = worker[w].out
  BY <1>1, GotoKeeps DEF TypeInv, PCs
<1>4. OwnRun(w)'
  <2>1. Model(w)' = Model(w)
    BY <1>1, <1>3 DEF Model
  <2> QED
    BY <1>2, <1>3, <2>1 DEF OwnRun, NewRun
<1> QED
  BY <1>1, <1>2, <1>4, GotoHistory DEF PCs

LEMMA ReadProviderHistory ==
  ASSUME TypeInv, TypeOK', NEW w \in Workers, LaneHistory(w), ReadProvider(w)
  PROVE  LaneHistory(w)'
<1>1. worker[w] \in Worker /\ worker \in [Workers -> Worker]
  BY DEF TypeInv, TypeOK
<1>2. /\ worker'[w].pc = "escalate"
      /\ worker'[w].job = worker[w].job /\ worker'[w].at = worker[w].at
      /\ worker'[w].out = worker[w].out
  BY <1>1 DEF ReadProvider, Worker
<1>3. ~At(w, "idle") /\ now' = now /\ jobs' = jobs /\ runs' = runs /\ Inserted(w)
  BY DEF ReadProvider, At, tables, Inserted
<1> QED
  BY <1>2, <1>3, LaneMoved, NothingGrows DEF Doomed, At

(* The streak that was seen consists of failed runs.                       *)
LEMMA ReadStreakHistory ==
  ASSUME TypeInv, TypeOK', NEW w \in Workers, LaneHistory(w), ReadStreak(w)
  PROVE  LaneHistory(w)'
<1>1. worker[w] \in Worker /\ worker \in [Workers -> Worker]
  BY DEF TypeInv, TypeOK
<1> DEFINE m == Model(w)
<1>2. PICK S \in LatestRuns(m) :
        worker' = [worker EXCEPT ![w].pc = "open",
                     ![w].streak = Cardinality(S) >= IncidentThreshold
                                   /\ \A i \in S : Failed(runs[m][i].out)]
  BY DEF ReadStreak
<1> DEFINE seen == Cardinality(S) >= IncidentThreshold /\ \A i \in S : Failed(runs[m][i].out)
<1>3. /\ worker'[w].pc = "open" /\ worker'[w].streak = seen
      /\ worker'[w].job = worker[w].job /\ worker'[w].at = worker[w].at
      /\ worker'[w].out = worker[w].out
  BY <1>1, <1>2 DEF Worker
<1>4. ~At(w, "idle") /\ now' = now /\ jobs' = jobs /\ runs' = runs /\ Inserted(w)
  BY DEF ReadStreak, At, tables, Inserted
<1>5. m \in Models
  BY <1>4, BusyTypes DEF TypeInv
<1>6. seen => ManyFailures(m)
  <2>1. S \in SUBSET DOMAIN runs[m]
    BY DEF LatestRuns
  <2>2. Failures(m, DOMAIN runs[m]) \in SUBSET DOMAIN runs[m]
    BY DEF Failures
  <2>3. seen => S \subseteq Failures(m, DOMAIN runs[m])
    BY <2>1 DEF Failures
  <2>4. /\ IsFiniteSet(Failures(m, DOMAIN runs[m])) /\ Cardinality(S) \in Nat
        /\ Cardinality(Failures(m, DOMAIN runs[m])) \in Nat
    BY <1>5, <2>1, <2>2, RowsFinite DEF TypeInv
  <2>5. seen => Cardinality(S) <= Cardinality(Failures(m, DOMAIN runs[m]))
    BY <2>3, <2>4, FS_Subset
  <2>6. IncidentThreshold \in Nat
    BY BenchJobAssumption
  <2> QED
    BY <2>4, <2>5, <2>6 DEF ManyFailures
<1> HIDE DEF seen, m
<1> QED
  BY <1>3, <1>4, <1>6, LaneMoved, NothingGrows DEF Doomed, At, m

LEMMA ReadOpenHistory ==
  ASSUME TypeInv, TypeOK', NEW w \in Workers, LaneHistory(w), ReadOpen(w)
  PROVE  LaneHistory(w)'
<1>1. worker[w] \in Worker /\ worker \in [Workers -> Worker]
  BY DEF TypeInv, TypeOK
<1>2. PICK i \in LatestOpen(Model(w)), pc \in {"incident", "guard"} :
        /\ worker' = [worker EXCEPT ![w].open = i, ![w].pc = pc]
        /\ pc = "incident" /\ i = 0 => Failed(worker[w].out) /\ worker[w].streak
  BY DEF ReadOpen
<1>3. /\ worker'[w].pc = pc /\ worker'[w].open = i
      /\ worker'[w].job = worker[w].job /\ worker'[w].at = worker[w].at
      /\ worker'[w].out = worker[w].out /\ worker'[w].streak = worker[w].streak
  BY <1>1, <1>2 DEF Worker
<1>4. ~At(w, "idle") /\ now' = now /\ jobs' = jobs /\ runs' = runs /\ Inserted(w) /\ At(w, "open")
  BY DEF ReadOpen, At, tables, Inserted
<1>5. worker[w].streak => ManyFailures(Model(w))
  BY <1>4 DEF LaneHistory, At
<1>6. ~Doomed(w)'
  BY <1>2, <1>3 DEF Doomed, At
<1> QED
  BY <1>2, <1>3, <1>4, <1>5, <1>6, LaneMoved, NothingGrows

(* The day the guard looks at is 24 hours long.                            *)
LEMMA DayCondemns ==
  ASSUME TypeOK, RunsHistory, NEW m \in Models,
         ShouldAutoDisable(Cardinality(Failures(m, DayRuns(m))),
                           Cardinality(GoneHits(m, DayRuns(m))), DailyMax)
  PROVE  Condemned(m)
<1> DEFINE S == Failures(m, DayRuns(m))
<1>1. S \in SUBSET Failures(m, DOMAIN runs[m]) /\ S \subseteq DayRuns(m)
  BY DEF Failures, DayRuns
<1>2. ASSUME NEW i \in S, NEW k \in S
      PROVE  runs[m][i].at - runs[m][k].at <= Day
  <2>1. i \in DOMAIN runs[m] /\ runs[m][i].at <= now /\ runs[m][k].at >= now - Day
    BY <1>1 DEF DayRuns, RunsHistory
  <2>2. runs[m][i] \in Run /\ runs[m][k] \in Run
    BY <1>1 DEF TypeOK, DayRuns
  <2>3. runs[m][i].at \in Nat /\ runs[m][k].at \in Nat /\ now \in Nat /\ Day \in Nat
    BY <2>2 DEF Run, TypeOK, Day, Hours, Minutes
  <2> QED
    BY <2>1, <2>3
<1>3. GoneHits(m, S) = GoneHits(m, DayRuns(m))
  BY DEF GoneHits, Failures
<1> HIDE DEF S
<1>4. ShouldAutoDisable(Cardinality(S), Cardinality(GoneHits(m, S)), DailyMax)
  BY <1>3 DEF S
<1> QED
  BY <1>1, <1>2, <1>4 DEF Condemned

LEMMA ReadDayHistory ==
  ASSUME TypeInv, TypeOK', RunsHistory, NEW w \in Workers, LaneHistory(w), ReadDay(w)
  PROVE  LaneHistory(w)'
<1>1. worker[w] \in Worker /\ worker \in [Workers -> Worker]
  BY DEF TypeInv, TypeOK
<1>2. ~At(w, "idle") /\ now' = now /\ jobs' = jobs /\ runs' = runs /\ Inserted(w)
  BY DEF ReadDay, At, tables, Inserted
<1> DEFINE fails == Cardinality(Failures(Model(w), DayRuns(Model(w))))
           gone  == Cardinality(GoneHits(Model(w), DayRuns(Model(w))))
           pc    == AfterCount(worker[w].out, fails, gone)
<1>3. worker' = [worker EXCEPT ![w].pc = pc, ![w].fails = fails, ![w].gone = gone]
  BY DEF ReadDay
<1>4. ShouldAutoDisable(fails, gone, DailyMax) => Condemned(Model(w))
  BY <1>2, BusyTypes, DayCondemns DEF TypeInv
<1>5. /\ pc \in {"backoff", "disable", "finish"}
      /\ pc = "disable" => ShouldAutoDisable(fails, gone, DailyMax)
  BY DEF AfterCount, AfterBackoff
<1> HIDE DEF fails, gone, pc
<1>6. /\ worker'[w].pc = pc /\ worker'[w].fails = fails /\ worker'[w].gone = gone
      /\ worker'[w].job = worker[w].job /\ worker'[w].at = worker[w].at
      /\ worker'[w].out = worker[w].out
  BY <1>1, <1>3 DEF Worker
<1>7. Doomed(w)' => Condemned(Model(w))
  BY <1>4, <1>5, <1>6 DEF Doomed, At
<1> QED
  BY <1>2, <1>5, <1>6, <1>7, LaneMoved, NothingGrows

(* Steps that only move the lane on.                                       *)
LEMMA MoveHistory ==
  ASSUME TypeInv, TypeOK', NEW w \in Workers, LaneHistory(w),
         \/ ClearCooldown(w) \/ NoCooldown(w) \/ BackOffProvider(w) \/ TripProvider(w)
         \/ RestModel(w) \/ BackOffModel(w) \/ Disable(w) \/ CallLost(w)
         \/ RaiseIncident(w) \/ CloseIncident(w) \/ CountFailure(w)
  PROVE  LaneHistory(w)'
<1>1. /\ ~At(w, "idle") /\ Inserted(w)
      /\ now' = now /\ jobs' = jobs /\ runs' = runs
  BY DEF ClearCooldown, NoCooldown, BackOffProvider, TripProvider, RestModel, BackOffModel,
         Disable, CallLost, RaiseIncident, CloseIncident, CountFailure, WriteIncidents,
         At, Inserted, tables
<1>2. PICK pc \in PCs \ {"idle", "open", "incident"} :
        Goto(w, pc) /\ (pc \in {"backoff", "disable"} => Doomed(w))
  <2>1. CASE \/ ClearCooldown(w) \/ NoCooldown(w) \/ BackOffProvider(w) \/ TripProvider(w)
             \/ RestModel(w) \/ Disable(w)
             \/ RaiseIncident(w) \/ CloseIncident(w) \/ CountFailure(w)
    BY <2>1 DEF ClearCooldown, NoCooldown, BackOffProvider, TripProvider, RestModel, Disable,
                RaiseIncident, CloseIncident, CountFailure, WriteIncidents, PCs
  <2>2. CASE BackOffModel(w)
    <3>1. /\ At(w, "backoff") /\ Goto(w, AfterBackoff(worker[w].fails, worker[w].gone))
      BY <2>2 DEF BackOffModel
    <3> QED
      BY <3>1 DEF AfterBackoff, Doomed, PCs
  <2>3. CASE CallLost(w)
    <3>1. Goto(w, AfterLost(w))
      BY <2>3 DEF CallLost
    <3>2. /\ AfterLost(w) \in PCs \ {"idle", "open", "incident", "backoff"}
          /\ AfterLost(w) = "disable" =>
               At(w, "backoff") /\ ShouldAutoDisable(worker[w].fails, worker[w].gone, DailyMax)
      BY <2>3 DEF CallLost, AfterLost, AfterBackoff, At, PCs
    <3> QED
      BY <3>1, <3>2 DEF Doomed
  <2> QED
    BY <2>1, <2>2, <2>3
<1> QED
  BY <1>1, <1>2, GotoHistory, NothingGrows

LEMMA LaneHistories ==
  ASSUME TypeInv, TypeOK', RunsHistory, NEW w \in Workers, LaneHistory(w),
         Handle(w) \/ Mishap(w)
  PROVE  LaneHistory(w)'
<1>1. CASE \E o \in Outcomes : Probe(w, o)
  BY <1>1, ProbeHistory
<1>2. CASE InsertRun(w) \/ InsertUnstamped(w) \/ InsertRepeated(w)
  BY <1>2, InsertHistory
<1>3. CASE ReadProvider(w) \/ ReadStreak(w) \/ ReadOpen(w) \/ ReadDay(w)
  BY <1>3, ReadProviderHistory, ReadStreakHistory, ReadOpenHistory, ReadDayHistory
<1>4. CASE \/ ClearCooldown(w) \/ NoCooldown(w) \/ BackOffProvider(w) \/ TripProvider(w)
           \/ RestModel(w) \/ BackOffModel(w) \/ Disable(w) \/ CallLost(w)
           \/ RaiseIncident(w) \/ CloseIncident(w) \/ CountFailure(w)
  BY <1>4, MoveHistory
<1>5. CASE Finish(w) \/ Crash(w)
  <2>1. worker'[w] = Idle /\ now' = now /\ now \in Nat
    BY <1>5 DEF Finish, Crash, Abandon, Release, TypeInv, TypeOK
  <2> QED
    BY <2>1 DEF LaneHistory, Inserted, Doomed, At, Idle
<1> QED
  BY <1>1, <1>2, <1>3, <1>4, <1>5 DEF Handle, Mishap

-----------------------------------------------------------------------------
(* HistoryInv is inductive.                                                *)

LEMMA LaneEffects ==
  ASSUME TypeInv, NEW w \in Workers, Handle(w) \/ Mishap(w)
  PROVE  /\ now' = now /\ Others(w) /\ ~At(w, "idle")
         /\ \A m \in Models : Grown(m)
         /\ \A j \in Jobs : jobs'[j].model = jobs[j].model
<1>1. now' = now
  BY DEF Handle, Mishap, Probe, InsertRun, InsertUnstamped, InsertRepeated, ClearCooldown,
     NoCooldown, ReadProvider, BackOffProvider, TripProvider, RestModel, ReadStreak, ReadOpen,
     RaiseIncident, CloseIncident, CountFailure, WriteIncidents, ReadDay, BackOffModel,
     Disable, Finish, CallLost, Crash, Abandon
<1>2. CASE Finish(w) \/ Crash(w)
  <2>1. ~At(w, "idle") /\ UNCHANGED tables
    BY <1>2 DEF Finish, Crash, Abandon, At
  <2>2. PICK st \in {"queued"} \cup Settled : Release(w, st)
    BY <1>2 DEF Finish, Crash, Abandon, AfterFailure, Settled
  <2> QED
    BY <1>1, <2>1, <2>2, ReleaseKeeps, NothingGrows DEF tables
<1>3. CASE ~Finish(w) /\ ~Crash(w)
  <2>1. ~At(w, "idle") /\ jobs' = jobs /\ Others(w)
    BY <1>3, LaneMoves
  <2>2. \A m \in Models : Grown(m)
    BY <1>3, LaneMoves, InsertGrows, NothingGrows
  <2> QED
    BY <1>1, <2>1, <2>2
<1> QED
  BY <1>2, <1>3

(* Lanes whose job's model stays what it was, while the tables grow.       *)
LEMMA LanesKept ==
  ASSUME TypeInv, TypeOK', NEW S \in SUBSET Workers, \A v \in S : LaneHistory(v),
         \A v \in S : worker'[v] = worker[v], now' = now, \A m \in Models : Grown(m),
         \A j \in Jobs : jobs[j].st = "running" => jobs'[j].model = jobs[j].model
  PROVE  \A v \in S : LaneHistory(v)'
<1> SUFFICES ASSUME NEW v \in S PROVE LaneHistory(v)'
  OBVIOUS
<1>1. ~At(v, "idle") => Model(v)' = Model(v)
  BY DEF TypeInv, OwnJobs, Model
<1> QED
  BY <1>1, LaneKept

(* No lane outlasts its delivery.                                          *)
LEMMA LanesTick ==
  ASSUME TypeInv, HistoryInv, NEW d \in TimeSteps, Tick(d)
  PROVE  HistoryInv'
<1>1. /\ now \in Nat /\ d \in Nat /\ now' = now + d
      /\ UNCHANGED <<jobs, runs, enabled, incidents, worker>>
  BY BenchJobAssumption DEF Tick, TypeInv, TypeOK, tables
<1>2. ASSUME NEW w \in Workers
      PROVE  LaneHistory(w)'
  <2>1. worker[w].at \in Nat /\ worker[w].at <= now
    BY DEF HistoryInv, LaneHistory, TypeInv, TypeOK, Worker
  <2>2. ~At(w, "idle") => now' <= worker[w].at + JobSpan
    BY <1>1 DEF Tick
  <2>3. worker'[w].at <= now'
    BY <1>1, <2>1
  <2>4. /\ OwnRun(w)' <=> OwnRun(w)
        /\ ManyFailures(Model(w))' <=> ManyFailures(Model(w))
        /\ Condemned(Model(w))' <=> Condemned(Model(w))
        /\ Doomed(w)' <=> Doomed(w)
    BY <1>1 DEF OwnRun, ManyFailures, Condemned, Doomed, At, Model, Failures, GoneHits
  <2>5. LaneHistory(w)
    BY DEF HistoryInv
  <2> QED
    BY <1>1, <2>2, <2>3, <2>4, <2>5 DEF LaneHistory, At, Inserted
<1>3. RunsHistory'
  <2>1. ASSUME NEW m \in Models, NEW i \in DOMAIN runs[m]
        PROVE  runs[m][i].at <= now'
    <3>1. runs[m][i] \in Run /\ runs[m][i].at <= now
      BY DEF HistoryInv, RunsHistory, TypeInv, TypeOK
    <3> QED
      BY <1>1, <3>1 DEF Run
  <2> QED
    BY <1>1, <2>1 DEF HistoryInv, RunsHistory
<1>4. IncidentsJustified'
  BY <1>1 DEF HistoryInv, IncidentsJustified, Failures
<1> QED
  BY <1>2, <1>3, <1>4 DEF HistoryInv

(* A new run is the latest, or the latest is still there.                  *)
LEMMA InsertRunsHistory ==
  ASSUME TypeInv, TypeOK', RunsHistory, NEW w \in Workers, LaneHistory(w),
         InsertRun(w) \/ InsertUnstamped(w) \/ InsertRepeated(w)
  PROVE  RunsHistory'
<1> DEFINE m   == Model(w)
           run == NewRun(w)
<1>1. /\ m \in Models
      /\ \A k \in Models : Grown(k)
      /\ \A k \in Models \ {m} : runs'[k] = runs[k]
      /\ \A i \in DOMAIN runs'[m] : i \in DOMAIN runs[m] \/ runs'[m][i] = run
      /\ \E i \in DOMAIN runs'[m] : runs'[m][i] = run
  BY InsertGrows
<1>2. now' = now /\ run.at <= now /\ run.at \in Nat
  BY DEF InsertRun, InsertUnstamped, InsertRepeated, LaneHistory, NewRun, TypeInv, TypeOK, Worker
<1> HIDE DEF run, m
<1>3. ASSUME NEW k \in Models, k # m
      PROVE  /\ \A i \in DOMAIN runs'[k] : runs'[k][i].at <= now'
             /\ runs'[k] # <<>> => \E i \in DOMAIN runs'[k] :
                                     \A n \in DOMAIN runs'[k] : runs'[k][n].at <= runs'[k][i].at
  BY <1>1, <1>2, <1>3 DEF RunsHistory
<1>4. \A i \in DOMAIN runs'[m] : runs'[m][i].at <= now'
  BY <1>1, <1>2 DEF RunsHistory, Grown
<1>5. \E i \in DOMAIN runs'[m] : \A n \in DOMAIN runs'[m] : runs'[m][n].at <= runs'[m][i].at
  <2>1. PICK new \in DOMAIN runs'[m] : runs'[m][new] = run
    BY <1>1
  <2>2. CASE runs[m] = <<>>
    <3>1. \A n \in DOMAIN runs'[m] : runs'[m][n] = run
      BY <1>1, <2>2
    <3> QED
      BY <1>2, <2>1, <3>1
  <2>3. CASE runs[m] # <<>>
    <3>1. PICK last \in DOMAIN runs[m] : \A n \in DOMAIN runs[m] : runs[m][n].at <= runs[m][last].at
      BY <1>1, <2>3 DEF RunsHistory
    <3>2. /\ last \in DOMAIN runs'[m] /\ runs'[m][last] = runs[m][last]
          /\ \A n \in DOMAIN runs[m] : runs'[m][n] = runs[m][n]
      BY <1>1, <3>1 DEF Grown
    <3>3. \A n \in DOMAIN runs[m] : runs[m][n].at \in Nat
      <4>1. ASSUME NEW n \in DOMAIN runs[m]
            PROVE  runs[m][n] \in Run
        BY <1>1, <4>1 DEF TypeInv, TypeOK
      <4> QED
        BY <4>1 DEF Run
    <3>4. CASE run.at <= runs[m][last].at
      BY <1>1, <3>1, <3>2, <3>4
    <3>5. CASE runs[m][last].at <= run.at
      <4>1. \A n \in DOMAIN runs'[m] : runs'[m][n].at <= run.at
        BY <1>1, <1>2, <3>1, <3>2, <3>3, <3>5
      <4> QED
        BY <2>1, <4>1
    <3> QED
      BY <1>2, <3>1, <3>3, <3>4, <3>5
  <2> QED
    BY <2>2, <2>3
<1> QED
  BY <1>3, <1>4, <1>5 DEF RunsHistory

(* Where the rows of availability_incidents come from.                     *)
LEMMA IncidentStarts ==
  ASSUME TypeInv, NEW w \in Workers,
         RaiseIncident(w) \/ CloseIncident(w) \/ CountFailure(w)
  PROVE  \A m \in Models : \A k \in DOMAIN incidents'[m] :
           \/ /\ k \in DOMAIN incidents[m]
              /\ incidents'[m][k].start = incidents[m][k].start
           \/ /\ RaiseIncident(w) /\ m = Model(w)
              /\ incidents'[m][k].start = worker[w].at
<1> USE DEF TypeInv
<1> DEFINE m0  == Model(w)
           old == incidents[m0]
           i   == worker[w].open
<1>1. m0 \in Models /\ At(w, "incident")
  BY IncidentWritten
<1>2. incidents \in [Models -> Seq(Incident)] /\ old \in Seq(Incident) /\ worker[w].at \in Nat
  BY <1>1 DEF TypeOK, Worker
<1>3. CASE RaiseIncident(w)
  <2> DEFINE row == [start |-> worker[w].at, end |-> Never, count |-> IncidentThreshold]
  <2>1. incidents' = [incidents EXCEPT ![m0] = Append(old, row)]
    BY <1>3 DEF RaiseIncident, WriteIncidents
  <2>2. row \in Incident /\ row.start = worker[w].at
    BY <1>2, BenchJobAssumption DEF Incident
  <2> HIDE DEF row
  <2> DEFINE n == Len(old)
  <2>3. /\ DOMAIN Append(old, row) = 1 .. (n + 1) /\ DOMAIN old = 1 .. n /\ n \in Nat
        /\ \A k \in 1 .. n : Append(old, row)[k] = old[k]
        /\ Append(old, row)[n + 1] = row
    BY <1>2, <2>2, AppendProperties
  <2>4. \A k \in DOMAIN Append(old, row) :
          (k \in DOMAIN old /\ Append(old, row)[k] = old[k]) \/ Append(old, row)[k] = row
    <3> HIDE DEF n
    <3> SUFFICES ASSUME NEW k \in 1 .. (n + 1), k # n + 1
                 PROVE  k \in 1 .. n
      BY <2>3
    <3> QED
      BY <2>3
  <2> HIDE DEF m0, n
  <2>5. ASSUME NEW m \in Models, m # m0
        PROVE  incidents'[m] = incidents[m]
    BY <1>2, <2>1, <2>5
  <2>6. incidents'[m0] = Append(old, row)
    BY <1>1, <1>2, <2>1
  <2> QED
    BY <1>1, <1>3, <2>2, <2>4, <2>5, <2>6 DEF m0
<1>4. CASE CloseIncident(w) \/ CountFailure(w)
  <2>1. i \in DOMAIN old
    BY <1>1, <1>4 DEF OpenExists, CloseIncident, CountFailure
  <2>2. old[i] \in Incident
    BY <1>2, <2>1, ElementOfSeq
  <2>3. PICK row : /\ incidents' = [incidents EXCEPT ![m0] = [old EXCEPT ![i] = row]]
                   /\ row.start = old[i].start
    <3>1. CASE CloseIncident(w)
      <4> DEFINE row == [old[i] EXCEPT !.end = worker[w].at, !.count = @ + 1]
      <4>1. row.start = old[i].start
        BY <2>2 DEF Incident
      <4>2. incidents' = [incidents EXCEPT ![m0] = [old EXCEPT ![i] = row]]
        BY <3>1 DEF CloseIncident, WriteIncidents
      <4> QED
        BY <4>1, <4>2
    <3>2. CASE CountFailure(w)
      <4> DEFINE row == [old[i] EXCEPT !.count = @ + 1]
      <4>1. row.start = old[i].start
        BY <2>2 DEF Incident
      <4>2. incidents' = [incidents EXCEPT ![m0] = [old EXCEPT ![i] = row]]
        BY <3>2 DEF CountFailure, WriteIncidents
      <4> QED
        BY <4>1, <4>2
    <3> QED
      BY <1>4, <3>1, <3>2
  <2> HIDE DEF m0, i
  <2>4. ASSUME NEW m \in Models, m # m0
        PROVE  incidents'[m] = incidents[m]
    BY <1>2, <2>3, <2>4
  <2>5. incidents'[m0] = [old EXCEPT ![i] = row]
    BY <1>1, <1>2, <2>3
  <2>6. /\ DOMAIN incidents'[m0] = DOMAIN old
        /\ \A k \in DOMAIN old : incidents'[m0][k].start = old[k].start
    BY <1>2, <2>1, <2>3, <2>5
  <2> QED
    BY <2>4, <2>6
<1> QED
  BY <1>3, <1>4

(* Whoever raises an incident has seen the streak its own run completes.   *)
LEMMA JustifiedKept ==
  ASSUME TypeInv, TypeOK', IncidentsJustified, \A m \in Models : Grown(m),
         NEW m \in Models, NEW k \in DOMAIN incidents[m],
         k \in DOMAIN incidents'[m], incidents'[m][k].start = incidents[m][k].start
  PROVE  LET failed == Failures(m, DOMAIN runs[m])'
         IN /\ Cardinality(failed) >= IncidentThreshold
            /\ \E i \in failed : runs'[m][i].at = incidents'[m][k].start
<1>1. PICK i \in Failures(m, DOMAIN runs[m]) : runs[m][i].at = incidents[m][k].start
  BY DEF IncidentsJustified
<1>2. ManyFailures(m)
  BY DEF IncidentsJustified, ManyFailures
<1>3. /\ i \in Failures(m, DOMAIN runs[m])'
      /\ Cardinality(Failures(m, DOMAIN runs[m])') >= IncidentThreshold
  BY <1>2, FactsPersist DEF ManyFailures, TypeInv
<1>4. runs'[m][i] = runs[m][i]
  BY DEF Grown, Failures
<1> QED
  BY <1>1, <1>3, <1>4

LEMMA RaiseJustified ==
  ASSUME TypeInv, NEW w \in Workers, LaneHistory(w), RaiseIncident(w)
  PROVE  LET failed == Failures(Model(w), DOMAIN runs[Model(w)])
         IN /\ Cardinality(failed) >= IncidentThreshold
            /\ \E i \in failed : runs[Model(w)][i].at = worker[w].at
<1>1. At(w, "incident") /\ worker[w].open = 0
  BY DEF RaiseIncident, WriteIncidents
<1>2. Failed(worker[w].out) /\ worker[w].streak /\ Inserted(w)
  BY <1>1 DEF LaneHistory, Inserted, At
<1>3. ManyFailures(Model(w)) /\ OwnRun(w)
  BY <1>1, <1>2 DEF LaneHistory, At
<1> QED
  BY <1>2, <1>3 DEF ManyFailures, OwnRun, Failures

LEMMA LaneKeepsHistory ==
  ASSUME TypeInv, TypeOK', HistoryInv, NEW w \in Workers, Handle(w) \/ Mishap(w)
  PROVE  HistoryInv'
<1> USE DEF HistoryInv
<1>1. /\ now' = now /\ Others(w)
      /\ \A m \in Models : Grown(m)
      /\ \A j \in Jobs : jobs'[j].model = jobs[j].model
  BY LaneEffects
<1>2. LaneHistory(w)'
  BY LaneHistories
<1>3. \A v \in Workers \ {w} : LaneHistory(v)'
  BY <1>1, LanesKept DEF Others
<1>4. RunsHistory'
  <2>1. CASE InsertRun(w) \/ InsertUnstamped(w) \/ InsertRepeated(w)
    BY <2>1, InsertRunsHistory
  <2>2. CASE runs' = runs
    BY <1>1, <2>2 DEF RunsHistory
  <2>3. Finish(w) \/ Crash(w) => runs' = runs
    BY DEF Finish, Crash, Abandon, tables
  <2> QED
    BY <2>1, <2>2, <2>3, LaneMoves
<1>5. IncidentsJustified'
  <2>1. ASSUME NEW m \in Models, NEW k \in DOMAIN incidents'[m],
               k \in DOMAIN incidents[m], incidents'[m][k].start = incidents[m][k].start
        PROVE  LET failed == Failures(m, DOMAIN runs[m])'
               IN /\ Cardinality(failed) >= IncidentThreshold
                  /\ \E i \in failed : runs'[m][i].at = incidents'[m][k].start
    BY <1>1, <2>1, JustifiedKept
  <2>2. CASE RaiseIncident(w) \/ CloseIncident(w) \/ CountFailure(w)
    <3>1. SUFFICES ASSUME NEW m \in Models, NEW k \in DOMAIN incidents'[m]
                   PROVE  LET failed == Failures(m, DOMAIN runs[m])'
                          IN /\ Cardinality(failed) >= IncidentThreshold
                             /\ \E i \in failed : runs'[m][i].at = incidents'[m][k].start
      BY DEF IncidentsJustified, Failures
    <3>2. CASE RaiseIncident(w) /\ m = Model(w) /\ incidents'[m][k].start = worker[w].at
      <4>1. runs' = runs
        BY <2>2, IncidentWritten
      <4>2. LET failed == Failures(m, DOMAIN runs[m])
            IN /\ Cardinality(failed) >= IncidentThreshold
               /\ \E i \in failed : runs[m][i].at = worker[w].at
        BY <3>2, RaiseJustified
      <4>3. Failures(m, DOMAIN runs[m])' = Failures(m, DOMAIN runs[m])
        BY <4>1 DEF Failures
      <4> QED
        BY <3>2, <4>1, <4>2, <4>3
    <3> QED
      BY <2>1, <2>2, <3>2, IncidentStarts
  <2>3. CASE ~(RaiseIncident(w) \/ CloseIncident(w) \/ CountFailure(w))
    <3>1. incidents' = incidents
      BY <2>3 DEF Handle, Mishap, Probe, InsertRun, InsertUnstamped, InsertRepeated,
         ClearCooldown, NoCooldown, ReadProvider, BackOffProvider, TripProvider, RestModel,
         ReadStreak, ReadOpen, ReadDay, BackOffModel, Disable, Finish, CallLost, Crash,
         Abandon, tables
    <3> QED
      BY <2>1, <3>1 DEF IncidentsJustified, Failures
  <2> QED
    BY <2>2, <2>3
<1> QED
  BY <1>2, <1>3, <1>4, <1>5

(* Steps of the queue and of the administrator.                            *)
LEMMA StillHistory ==
  ASSUME TypeInv, TypeOK', HistoryInv, UNCHANGED <<now, runs, incidents, worker>>,
         \A j \in Jobs : jobs[j].st = "running" => jobs'[j].model = jobs[j].model
  PROVE  HistoryInv'
<1>1. \A v \in Workers : LaneHistory(v)'
  BY LanesKept, NothingGrows DEF HistoryInv
<1> QED
  BY <1>1 DEF HistoryInv, RunsHistory, IncidentsJustified, Failures

LEMMA ReceiveHistory ==
  ASSUME TypeInv, TypeOK', HistoryInv, NEW w \in Workers, NEW j \in Jobs, Receive(w, j)
  PROVE  HistoryInv'
<1>1. /\ worker' = [worker EXCEPT ![w] = [Idle EXCEPT !.pc = "probe", !.job = j, !.at = now]]
      /\ UNCHANGED <<now, runs, incidents>>
      /\ jobs' = [jobs EXCEPT ![j].st = "running", ![j].tries = @ + 1]
  BY DEF Receive, tables
<1>2. /\ worker \in [Workers -> Worker] /\ now \in Nat /\ JobSpan \in Nat
      /\ jobs \in [Jobs -> Job]
  BY BenchJobAssumption DEF TypeInv, TypeOK
<1>3. worker'[w].pc = "probe" /\ worker'[w].at = now /\ Others(w)
  BY <1>1, <1>2 DEF Others, Idle
<1>4. LaneHistory(w)'
  BY <1>1, <1>2, <1>3 DEF LaneHistory, Inserted, Doomed, At
<1>5. \A i \in Jobs : jobs'[i].model = jobs[i].model
  BY <1>1, <1>2 DEF Job
<1>6. \A v \in Workers \ {w} : LaneHistory(v)'
  BY <1>1, <1>3, <1>5, LanesKept, NothingGrows DEF HistoryInv, Others
<1> QED
  BY <1>1, <1>4, <1>6 DEF HistoryInv, RunsHistory, IncidentsJustified, Failures

LEMMA InitHistory == Init => HistoryInv
  BY DEF Init, HistoryInv, LaneHistory, RunsHistory, IncidentsJustified, Inserted, Doomed,
     At, Idle

LEMMA StepHistory == TypeInv /\ TypeInv' /\ HistoryInv /\ [Next]_vars => HistoryInv'
<1> SUFFICES ASSUME TypeInv, TypeOK', HistoryInv, [Next]_vars
             PROVE  HistoryInv'
  BY DEF TypeInv
<1>1. ASSUME NEW j \in Jobs, NEW m \in Models, NEW via, Create(j, m, via)
      PROVE  HistoryInv'
  BY <1>1, StillHistory DEF Create, tables, TypeInv, TypeOK
<1>2. ASSUME NEW j \in Jobs, Skip(j) \/ TickKilled(j)
      PROVE  HistoryInv'
  BY <1>2, StillHistory DEF Skip, TickKilled, tables, TypeInv, TypeOK
<1>3. ASSUME NEW w \in Workers, NEW j \in Jobs, Receive(w, j)
      PROVE  HistoryInv'
  BY <1>3, ReceiveHistory
<1>4. ASSUME NEW w \in Workers, Handle(w) \/ Mishap(w)
      PROVE  HistoryInv'
  BY <1>4, LaneKeepsHistory
<1>5. CASE Admin
  <2>1. CASE \E j \in Jobs, m \in Models : AdminBenchmark(j, m)
    BY <1>1, <2>1 DEF AdminBenchmark
  <2>2. CASE ~ \E j \in Jobs, m \in Models : AdminBenchmark(j, m)
    <3>1. UNCHANGED <<now, jobs, runs, incidents, worker>>
      BY <1>5, <2>2 DEF Admin, AdminSwitch, AdminSwitchProvider, Switch, AdminReset
    <3> QED
      BY <3>1, StillHistory
  <2> QED
    BY <2>1, <2>2
<1>6. ASSUME NEW d \in TimeSteps, Tick(d)
      PROVE  HistoryInv'
  BY <1>6, LanesTick
<1>7. CASE UNCHANGED vars
  BY <1>7, StillHistory DEF vars
<1> QED
  BY <1>1, <1>2, <1>3, <1>4, <1>5, <1>6, <1>7 DEF Next, Schedule

LEMMA HistoryHolds == Spec => [](TypeInv /\ HistoryInv)
<1>1. Init => TypeInv /\ HistoryInv
  BY InitTypes, InitHistory
<1>2. TypeInv /\ TypeInv' /\ HistoryInv /\ [Next]_vars => HistoryInv'
  BY StepHistory
<1>3. Spec => []TypeInv
  BY TypeInvHolds, PTL
<1> QED
  BY <1>1, <1>2, <1>3, PTL DEF Spec

(* No outage is made up: an incident starts with a failed run of a model   *)
(* that has at least IncidentThreshold of them.                            *)
THEOREM IncidentsAreJustified == Spec => []IncidentsJustified
<1>1. HistoryInv => IncidentsJustified
  BY DEF HistoryInv
<1> QED
  BY <1>1, HistoryHolds, PTL

(* A model a probe disables has failed often enough within 24 hours.       *)
THEOREM DisablingIsJustified == Spec => AutoDisableJustified
<1>1. TypeInv /\ HistoryInv /\ [Next]_vars =>
        [\A m \in Models : enabled[m] /\ ~enabled'[m] /\ worker' # worker => Condemned(m)]_vars
  <2> SUFFICES ASSUME TypeInv, HistoryInv, [Next]_vars, NEW m \in Models,
                      enabled[m], ~enabled'[m], worker' # worker
               PROVE  Condemned(m)
    OBVIOUS
  <2>1. PICK w \in Workers : Disable(w)
    BY DEF Next, vars, Schedule, Admin, AdminBenchmark, Create, AdminSwitch,
       AdminSwitchProvider, Switch, AdminReset, Skip, TickKilled, Receive, Tick, Handle,
       Mishap, Probe, InsertRun, InsertUnstamped, InsertRepeated, ClearCooldown, NoCooldown,
       ReadProvider, BackOffProvider, TripProvider, RestModel, ReadStreak, ReadOpen,
       RaiseIncident, CloseIncident, CountFailure, WriteIncidents, ReadDay, BackOffModel,
       Finish, CallLost, Crash, Abandon, tables
  <2>2. m = Model(w)
    BY <2>1 DEF Disable, TypeInv, TypeOK
  <2>3. Doomed(w)
    BY <2>1 DEF Disable, Doomed
  <2> QED
    BY <2>2, <2>3 DEF HistoryInv, LaneHistory
<1> QED
  BY <1>1, HistoryHolds, PTL DEF Spec, AutoDisableJustified

-----------------------------------------------------------------------------
(* The guard misses nothing.                                               *)

LatestStart(s) ==
  CHOOSE t \in {s[i].at : i \in DOMAIN s} : \A i \in DOMAIN s : s[i].at <= t

LEMMA LastStartIs ==
  ASSUME TypeOK, RunsHistory, NEW m \in Models, runs[m] # <<>>
  PROVE  /\ \E i \in DOMAIN runs[m] : runs[m][i].at = LastStart(m)
         /\ \A i \in DOMAIN runs[m] : runs[m][i].at <= LastStart(m)
<1> DEFINE starts == {runs[m][i].at : i \in DOMAIN runs[m]}
           Late(t) == \A i \in DOMAIN runs[m] : runs[m][i].at <= t
<1>1. \E t \in starts : Late(t)
  BY DEF RunsHistory
<1>2. LastStart(m) = CHOOSE t \in starts : Late(t)
  BY DEF LastStart
<1>3. LastStart(m) \in starts /\ Late(LastStart(m))
  <2> HIDE DEF starts, Late
  <2> QED
    BY <1>1, <1>2
<1> QED
  BY <1>3

LEMMA CallsKept ==
  ASSUME NEW m \in Models, runs'[m] = runs[m]
  PROVE  CallsForDisabling(m)' = CallsForDisabling(m)
<1>1. LastStart(m)' = LastStart(m)
  <2>1. LastStart(m) = LatestStart(runs[m]) /\ LastStart(m)' = LatestStart(runs'[m])
    BY DEF LastStart, LatestStart
  <2> QED
    BY <2>1
<1>2. LastDay(m)' = LastDay(m)
  BY <1>1 DEF LastDay
<1>3. /\ Failures(m, LastDay(m))' = Failures(m, LastDay(m))
      /\ GoneHits(m, LastDay(m))' = GoneHits(m, LastDay(m))
  BY <1>2 DEF Failures, GoneHits
<1> QED
  BY <1>3 DEF CallsForDisabling

(* A model is still looked after when no lane of it that counts or is      *)
(* about to disable it has given up on that.                               *)
LEMMA GuardFrame ==
  ASSUME NEW m \in Models, CaughtOrDoomed(m), runs'[m] = runs[m], enabled'[m] => enabled[m],
         \A v \in Workers : Model(v) = m /\ worker[v].pc \in Counting =>
           Model(v)' = m /\ worker'[v].pc \in Counting,
         \A v \in Workers : Model(v) = m /\ Doomed(v) => Model(v)' = m /\ Doomed(v)'
  PROVE  CaughtOrDoomed(m)'
<1>1. Uncounted(m) => Uncounted(m)'
  BY DEF Uncounted
<1>2. (\E w \in Workers : Doomed(w) /\ Model(w) = m) =>
        (\E w \in Workers : Doomed(w)' /\ Model(w)' = m)
  OBVIOUS
<1>3. CallsForDisabling(m)' = CallsForDisabling(m)
  BY CallsKept
<1> QED
  BY <1>1, <1>2, <1>3 DEF CaughtOrDoomed

(* What the last day shows, the day the guard reads shows as well.         *)
LEMMA ReadDayCatches ==
  ASSUME TypeInv, RunsHistory, NEW w \in Workers, LaneHistory(w), ReadDay(w)
  PROVE  CallsForDisabling(Model(w)) => Doomed(w)'
<1> USE DEF TypeInv
<1> DEFINE m == Model(w)
<1>1. ~At(w, "idle") /\ Inserted(w) /\ worker[w] \in Worker /\ worker \in [Workers -> Worker]
  BY DEF ReadDay, At, Inserted, TypeOK
<1>2. m \in Models
  BY <1>1, BusyTypes
<1>3. LastDay(m) \subseteq DayRuns(m)
  <2>1. PICK own \in DOMAIN runs[m] : runs[m][own].at = worker[w].at
    BY <1>1 DEF LaneHistory, OwnRun
  <2>2. /\ \E i \in DOMAIN runs[m] : runs[m][i].at = LastStart(m)
        /\ runs[m][own].at <= LastStart(m)
    <3>1. runs[m] # <<>>
      BY <2>1
    <3> HIDE DEF m
    <3> QED
      BY <1>2, <2>1, <3>1, LastStartIs
  <2>3. now <= worker[w].at + JobSpan
    BY <1>1 DEF LaneHistory
  <2>4. \A i \in DOMAIN runs[m] : runs[m][i].at \in Nat
    <3>1. ASSUME NEW i \in DOMAIN runs[m] PROVE runs[m][i] \in Run
      BY <1>2, <3>1 DEF TypeOK
    <3> QED
      BY <3>1 DEF Run
  <2>5. worker[w].at <= LastStart(m) /\ LastStart(m) \in Nat
    BY <2>1, <2>2, <2>4
  <2> DEFINE start == worker[w].at
             last  == LastStart(m)
  <2>6. start \in Nat /\ last \in Nat /\ now \in Nat /\ JobSpan \in Nat /\ Day \in Nat
    BY <1>1, <2>5, BenchJobAssumption DEF Worker, TypeOK, Day, Hours, Minutes
  <2> HIDE DEF start, last, m
  <2>7. now - Day <= last + JobSpan - Day
    BY <2>3, <2>5, <2>6 DEF start, last
  <2> SUFFICES ASSUME NEW i \in DOMAIN runs[m], runs[m][i].at >= last + JobSpan - Day
               PROVE  runs[m][i].at >= now - Day
    BY DEF LastDay, DayRuns, last
  <2> QED
    BY <2>4, <2>6, <2>7
<1> DEFINE fails == Cardinality(Failures(m, DayRuns(m)))
           gone  == Cardinality(GoneHits(m, DayRuns(m)))
           pc    == AfterCount(worker[w].out, fails, gone)
<1>4. CallsForDisabling(m) => ShouldAutoDisable(fails, gone, DailyMax)
  <2>1. /\ Failures(m, LastDay(m)) \subseteq Failures(m, DayRuns(m))
        /\ GoneHits(m, LastDay(m)) \subseteq GoneHits(m, DayRuns(m))
        /\ Failures(m, DayRuns(m)) \in SUBSET DOMAIN runs[m]
        /\ GoneHits(m, DayRuns(m)) \in SUBSET DOMAIN runs[m]
    BY <1>3 DEF Failures, GoneHits, DayRuns
  <2>2. ASSUME NEW S \in SUBSET DOMAIN runs[m], NEW T \in SUBSET S
        PROVE  /\ Cardinality(S) \in Nat /\ Cardinality(T) \in Nat
               /\ Cardinality(T) <= Cardinality(S)
    <3>1. IsFiniteSet(S) /\ Cardinality(S) \in Nat
      BY <1>2, RowsFinite
    <3> QED
      BY <3>1, FS_Subset, FS_CardinalityType
  <2> DEFINE fewer == Cardinality(Failures(m, LastDay(m)))
             less  == Cardinality(GoneHits(m, LastDay(m)))
  <2>3. /\ fails \in Nat /\ fewer \in Nat /\ fewer <= fails
        /\ gone \in Nat /\ less \in Nat /\ less <= gone
    BY <2>1, <2>2
  <2>4. CallsForDisabling(m) <=> less >= GONE_MODEL_MIN_COUNT \/ fewer >= DailyMax
    BY DEF CallsForDisabling, ShouldAutoDisable
  <2>5. DailyMax \in Nat /\ GONE_MODEL_MIN_COUNT \in Nat
    BY BenchJobAssumption DEF GONE_MODEL_MIN_COUNT
  <2> HIDE DEF fails, gone, fewer, less
  <2> QED
    BY <2>3, <2>4, <2>5 DEF ShouldAutoDisable
<1>5. worker' = [worker EXCEPT ![w].pc = pc, ![w].fails = fails, ![w].gone = gone]
  BY DEF ReadDay
<1>6. ShouldAutoDisable(fails, gone, DailyMax) => pc \in {"backoff", "disable"}
  BY DEF AfterCount, AfterBackoff
<1> HIDE DEF m, fails, gone, pc
<1>7. worker'[w].pc = pc /\ worker'[w].fails = fails /\ worker'[w].gone = gone
  BY <1>1, <1>5 DEF Worker
<1>8. ShouldAutoDisable(fails, gone, DailyMax) => Doomed(w)'
  BY <1>6, <1>7 DEF Doomed, At
<1> QED
  BY <1>4, <1>8 DEF m

(* A step of a lane that keeps counting, or keeps being about to disable.  *)
LEMMA LaneGuard ==
  ASSUME TypeInv, NEW w \in Workers, Others(w),
         \A j \in Jobs : jobs'[j].model = jobs[j].model,
         worker[w].pc \in Counting \/ Doomed(w) => worker'[w].job = worker[w].job,
         worker[w].pc \in Counting => worker'[w].pc \in Counting,
         Doomed(w) => Doomed(w)',
         NEW m \in Models, CaughtOrDoomed(m), runs'[m] = runs[m], enabled'[m] => enabled[m]
  PROVE  CaughtOrDoomed(m)'
<1>1. ASSUME NEW v \in Workers, worker[v].pc \in Counting \/ Doomed(v)
      PROVE  /\ Model(v)' = Model(v)
             /\ worker[v].pc \in Counting => worker'[v].pc \in Counting
             /\ Doomed(v) => Doomed(v)'
  <2>1. ~At(v, "idle")
    BY <1>1 DEF Counting, Doomed, At
  <2>2. worker[v].job \in Jobs
    BY <2>1 DEF TypeInv, OwnJobs
  <2>3. CASE v = w
    BY <1>1, <2>2, <2>3 DEF Model
  <2>4. CASE v # w
    <3>1. worker'[v] = worker[v]
      BY <2>4 DEF Others
    <3> QED
      BY <2>2, <3>1 DEF Model, Doomed, At
  <2> QED
    BY <2>3, <2>4
<1> QED
  BY <1>1, GuardFrame

(* What a lane does to the verdict: nothing, but for the insert, after     *)
(* which it will count, the count, which decides, and the disabling.       *)
LEMMA LaneCatches ==
  ASSUME TypeInv, HistoryInv, NEW w \in Workers, Handle(w), NEW m \in Models, CaughtOrDoomed(m)
  PROVE  CaughtOrDoomed(m)'
<1> USE DEF TypeInv
<1>1. /\ Others(w) /\ \A j \in Jobs : jobs'[j].model = jobs[j].model
      /\ ~At(w, "idle")
  BY LaneEffects
<1>2. worker \in [Workers -> Worker] /\ worker[w] \in Worker /\ enabled \in [Models -> BOOLEAN]
  BY DEF TypeOK
<1>3. CASE InsertRun(w)
  <2>1. Goto(w, "cool") /\ At(w, "insert") /\ enabled' = enabled /\ jobs' = jobs
    BY <1>3 DEF InsertRun
  <2>2. worker'[w].pc = "cool" /\ worker'[w].job = worker[w].job
    BY <2>1, GotoKeeps DEF PCs
  <2>3. Model(w)' = Model(w)
    BY <2>1, <2>2 DEF Model
  <2>4. CASE m = Model(w)
    BY <2>2, <2>3, <2>4 DEF CaughtOrDoomed, Uncounted, Counting
  <2>5. CASE m # Model(w)
    <3>1. runs'[m] = runs[m]
      BY <1>3, <2>5, InsertGrows
    <3> QED
      BY <1>1, <2>1, <2>2, <3>1, LaneGuard DEF Counting, Doomed, At
  <2> QED
    BY <2>4, <2>5
<1>4. CASE ReadDay(w)
  <2>1. /\ runs' = runs /\ enabled' = enabled /\ jobs' = jobs /\ At(w, "guard")
    BY <1>4 DEF ReadDay, tables
  <2>2. worker'[w].job = worker[w].job
    <3>1. PICK pc, f, g : worker' = [worker EXCEPT ![w].pc = pc, ![w].fails = f, ![w].gone = g]
      BY <1>4 DEF ReadDay
    <3> QED
      BY <1>2, <3>1 DEF Worker
  <2>3. Model(w)' = Model(w)
    BY <2>1, <2>2 DEF Model
  <2>4. CASE m = Model(w)
    <3>1. CallsForDisabling(m)' = CallsForDisabling(m)
      BY <2>1, CallsKept
    <3>2. CallsForDisabling(m) => Doomed(w)'
      BY <1>4, <2>4, ReadDayCatches DEF HistoryInv
    <3> QED
      BY <2>3, <2>4, <3>1, <3>2 DEF CaughtOrDoomed
  <2>5. CASE m # Model(w)
    <3>1. ASSUME NEW v \in Workers, Model(v) = m, worker[v].pc \in Counting \/ Doomed(v)
          PROVE  Model(v)' = m /\ worker'[v] = worker[v]
      <4>1. worker'[v] = worker[v]
        BY <1>1, <2>5, <3>1 DEF Others
      <4> QED
        BY <2>1, <3>1, <4>1 DEF Model
    <3> QED
      BY <2>1, <3>1, GuardFrame DEF Doomed, At
  <2> QED
    BY <2>4, <2>5
<1>5. CASE Disable(w)
  <2>1. /\ runs' = runs /\ jobs' = jobs
        /\ enabled' = [enabled EXCEPT ![Model(w)] = FALSE]
    BY <1>5 DEF Disable
  <2>2. CASE m = Model(w)
    BY <1>2, <2>1, <2>2 DEF CaughtOrDoomed
  <2>3. CASE m # Model(w)
    <3>1. ASSUME NEW v \in Workers, Model(v) = m
          PROVE  Model(v)' = m /\ worker'[v] = worker[v]
      <4>1. worker'[v] = worker[v]
        BY <1>1, <2>3, <3>1 DEF Others
      <4> QED
        BY <2>1, <3>1, <4>1 DEF Model
    <3>2. enabled'[m] = enabled[m]
      BY <1>2, <2>1, <2>3
    <3> QED
      BY <2>1, <3>1, <3>2, GuardFrame DEF Doomed, At
  <2> QED
    BY <2>2, <2>3
<1>6. CASE BackOffModel(w)
  <2> DEFINE next == AfterBackoff(worker[w].fails, worker[w].gone)
  <2>1. /\ Goto(w, next) /\ At(w, "backoff") /\ runs' = runs /\ enabled' = enabled
    BY <1>6 DEF BackOffModel
  <2>2. next \in PCs /\ (Doomed(w) => next = "disable")
    BY <2>1 DEF AfterBackoff, Doomed, At, PCs
  <2> HIDE DEF next
  <2>3. worker'[w].pc = next /\ worker'[w].job = worker[w].job
    BY <2>1, <2>2, GotoKeeps
  <2>4. Doomed(w) => Doomed(w)'
    BY <2>2, <2>3 DEF Doomed, At
  <2> QED
    BY <1>1, <2>1, <2>3, <2>4, LaneGuard DEF Counting, At
<1>7. CASE Finish(w) \/ \E o \in Outcomes : Probe(w, o)
  <2>1. /\ runs' = runs /\ enabled' = enabled
        /\ worker[w].pc \in {"finish", "probe"}
    BY <1>7 DEF Finish, Probe, At, tables
  <2>2. worker[w].pc \notin Counting /\ ~Doomed(w)
    BY <2>1 DEF Counting, Doomed, At
  <2> QED
    BY <1>1, <2>1, <2>2, LaneGuard
<1>8. CASE \/ ClearCooldown(w) \/ NoCooldown(w) \/ ReadProvider(w) \/ BackOffProvider(w)
           \/ TripProvider(w) \/ RestModel(w) \/ ReadStreak(w) \/ ReadOpen(w)
           \/ RaiseIncident(w) \/ CloseIncident(w) \/ CountFailure(w)
  <2>1. /\ runs' = runs /\ enabled' = enabled /\ worker[w].pc \in Counting \ {"guard"}
    BY <1>8 DEF ClearCooldown, NoCooldown, ReadProvider, BackOffProvider, TripProvider,
       RestModel, ReadStreak, ReadOpen, RaiseIncident, CloseIncident, CountFailure,
       WriteIncidents, Counting, At, tables
  <2>2. worker'[w].pc \in Counting /\ worker'[w].job = worker[w].job
    <3>1. CASE \/ ClearCooldown(w) \/ NoCooldown(w) \/ BackOffProvider(w) \/ TripProvider(w)
               \/ RestModel(w) \/ RaiseIncident(w) \/ CloseIncident(w) \/ CountFailure(w)
      <4>1. PICK pc \in Counting : Goto(w, pc)
        BY <3>1 DEF ClearCooldown, NoCooldown, BackOffProvider, TripProvider, RestModel,
           RaiseIncident, CloseIncident, CountFailure, WriteIncidents, Counting
      <4> QED
        BY <4>1, GotoKeeps DEF Counting, PCs
    <3>2. CASE ReadProvider(w)
      BY <1>2, <3>2 DEF ReadProvider, Worker, Counting
    <3>3. CASE ReadStreak(w)
      BY <1>2, <3>3 DEF ReadStreak, Worker, Counting
    <3>4. CASE ReadOpen(w)
      <4>1. PICK i \in LatestOpen(Model(w)), pc \in {"incident", "guard"} :
              worker' = [worker EXCEPT ![w].open = i, ![w].pc = pc]
        BY <3>4 DEF ReadOpen
      <4> QED
        BY <1>2, <4>1 DEF Worker, Counting
    <3> QED
      BY <1>8, <3>1, <3>2, <3>3, <3>4
  <2>3. ~Doomed(w)
    BY <2>1 DEF Counting, Doomed, At
  <2> QED
    BY <1>1, <2>1, <2>2, <2>3, LaneGuard
<1> QED
  BY <1>3, <1>4, <1>5, <1>6, <1>7, <1>8 DEF Handle

LEMMA StepGuard ==
  ASSUME "switch" \notin AdminActs
  PROVE  TypeInv /\ TypeInv' /\ HistoryInv /\ GuardInv /\ [Next]_vars => GuardInv'
<1> SUFFICES ASSUME TypeInv, HistoryInv, GuardInv, [Next]_vars, faults' = 0, NEW m \in Models
             PROVE  CaughtOrDoomed(m)'
  BY DEF GuardInv
<1>0. faults = 0 /\ CaughtOrDoomed(m)
  <2>1. faults \in Nat /\ faults' >= faults
    BY FaultsGrow DEF TypeInv, TypeOK
  <2>2. faults = 0
    BY <2>1
  <2> QED
    BY <2>2 DEF GuardInv
<1>f. ~Fault
  BY <1>0 DEF Fault
<1>1. ASSUME UNCHANGED <<runs, enabled, worker>>,
             \A j \in Jobs : jobs[j].st = "running" => jobs'[j].model = jobs[j].model
      PROVE  CaughtOrDoomed(m)'
  <2>1. ASSUME NEW v \in Workers, worker[v].pc \in Counting \/ Doomed(v)
        PROVE  Model(v)' = Model(v) /\ (Doomed(v) => Doomed(v)')
    <3>1. ~At(v, "idle")
      BY <2>1 DEF Counting, Doomed, At
    <3> QED
      BY <1>1, <3>1 DEF TypeInv, OwnJobs, Model, Doomed, At
  <2> QED
    BY <1>0, <1>1, <2>1, GuardFrame
<1>2. ASSUME NEW j \in Jobs, NEW k \in Models, NEW via, Create(j, k, via)
      PROVE  CaughtOrDoomed(m)'
  BY <1>1, <1>2 DEF Create, tables, TypeInv, TypeOK
<1>3. ASSUME NEW j \in Jobs, Skip(j) \/ TickKilled(j)
      PROVE  CaughtOrDoomed(m)'
  BY <1>1, <1>3 DEF Skip, TickKilled, tables, TypeInv, TypeOK
<1>4. ASSUME NEW w \in Workers, NEW j \in Jobs, Receive(w, j)
      PROVE  CaughtOrDoomed(m)'
  <2>1. /\ At(w, "idle") /\ UNCHANGED <<runs, enabled>> /\ Others(w)
    BY <1>4 DEF Receive, tables, TypeInv, TypeOK, Others
  <2>2. \A i \in Jobs : jobs'[i].model = jobs[i].model
    BY <1>4 DEF Receive, TypeInv, TypeOK, Job
  <2>3. worker[w].pc \notin Counting /\ ~Doomed(w)
    BY <2>1 DEF Counting, Doomed, At
  <2> QED
    BY <1>0, <2>1, <2>2, <2>3, LaneGuard
<1>5. ASSUME NEW w \in Workers, Handle(w)
      PROVE  CaughtOrDoomed(m)'
  BY <1>0, <1>5, LaneCatches
<1>6. ASSUME NEW w \in Workers PROVE ~Mishap(w)
  BY <1>f DEF Mishap, InsertUnstamped, InsertRepeated, CallLost, Crash, Abandon
<1>7. CASE Admin
  <2>1. CASE \E j \in Jobs, k \in Models : AdminBenchmark(j, k)
    BY <1>2, <2>1 DEF AdminBenchmark
  <2>2. CASE \E ps \in SUBSET Providers, ms \in SUBSET Models : AdminReset(ps, ms)
    BY <1>1, <2>2 DEF AdminReset
  <2> QED
    BY <1>7, <2>1, <2>2 DEF Admin, AdminSwitch, AdminSwitchProvider, Switch
<1>8. CASE (\E d \in TimeSteps : Tick(d)) \/ UNCHANGED vars
  BY <1>1, <1>8 DEF Tick, vars, tables
<1> QED
  BY <1>2, <1>3, <1>4, <1>5, <1>6, <1>7, <1>8 DEF Next, Schedule

(* The guard misses nothing: however the deliveries of a model overlap, as *)
(* long as every D1 call works and no administrator switches models.       *)
THEOREM GuardMissesNothing ==
  ASSUME "switch" \notin AdminActs
  PROVE  Spec => []GuardCatchesDeadModels
<1>1. Init => GuardInv
  BY DEF Init, GuardInv, CaughtOrDoomed
<1>2. TypeInv /\ TypeInv' /\ HistoryInv /\ GuardInv /\ [Next]_vars => GuardInv'
  BY StepGuard
<1>3. GuardInv => GuardCatchesDeadModels
  <2> SUFFICES ASSUME GuardInv, NEW m \in Models,
                      faults = 0, ~Busy(m), runs[m] # <<>>, CallsForDisabling(m)
               PROVE  ~enabled[m]
    BY DEF GuardCatchesDeadModels, CallsForDisabling, LastDay
  <2>1. ~Uncounted(m) /\ ~ \E w \in Workers : Doomed(w) /\ Model(w) = m
    BY DEF Busy, Uncounted, Counting, Doomed, At
  <2> QED
    BY <2>1 DEF GuardInv, CaughtOrDoomed
<1> QED
  BY <1>1, <1>2, <1>3, HistoryHolds, PTL DEF Spec

-----------------------------------------------------------------------------
(* The stamp, with a single lane.                                          *)

LEMMA StepStamp ==
  ASSUME \A v, w \in Workers : v = w
  PROVE  TypeInv /\ TypeInv' /\ HistoryInv /\ StampInv /\ NoneLater /\ [Next]_vars
           => StampInv' /\ NoneLater'
<1> SUFFICES ASSUME TypeInv, TypeOK', HistoryInv, StampInv, NoneLater, [Next]_vars
             PROVE  StampInv' /\ NoneLater'
  BY DEF TypeInv
<1> USE DEF TypeInv
<1>0. faults' = 0 => faults = 0
  BY FaultsGrow DEF TypeOK
<1>1. ASSUME UNCHANGED <<runs, stamp>>,
             \A w \in Workers : worker'[w].pc \in {"probe", "insert"} =>
               \/ worker[w].pc \in {"probe", "insert"} /\ worker'[w].at = worker[w].at
               \/ worker'[w].at = now
      PROVE  StampInv' /\ NoneLater'
  <2>1. StampInv'
    BY <1>0, <1>1 DEF StampInv
  <2>2. \A m \in Models : \A i \in DOMAIN runs[m] : runs[m][i].at <= now
    BY DEF HistoryInv, RunsHistory
  <2> QED
    BY <1>1, <2>1, <2>2 DEF NoneLater
<1>2. ASSUME NEW w \in Workers, InsertRun(w) \/ InsertUnstamped(w) \/ InsertRepeated(w)
      PROVE  StampInv' /\ NoneLater'
  <2> DEFINE m == Model(w)
             run == NewRun(w)
  <2>1. /\ m \in Models
        /\ \A k \in Models : Grown(k)
        /\ \A k \in Models \ {m} : runs'[k] = runs[k]
        /\ \A i \in DOMAIN runs'[m] : i \in DOMAIN runs[m] \/ runs'[m][i] = run
        /\ \E i \in DOMAIN runs'[m] : runs'[m][i] = run
    BY <1>2, InsertGrows
  <2>2. Goto(w, "cool") /\ At(w, "insert")
    BY <1>2 DEF InsertRun, InsertUnstamped, InsertRepeated
  <2>3. NoneLater'
    <3>1. worker'[w].pc = "cool"
      BY <2>2, GotoKeeps DEF PCs
    <3> QED
      BY <3>1 DEF NoneLater
  <2>4. ASSUME faults' = 0 PROVE stamp' = [stamp EXCEPT ![m] = run.at]
    BY <1>0, <1>2, <2>4 DEF InsertRun, InsertUnstamped, InsertRepeated, Fault, NewRun
  <2>5. stamp \in [Models -> Nat \cup {Never}]
    BY DEF TypeOK
  <2>6. \A i \in DOMAIN runs[m] : runs[m][i].at <= run.at
    BY <2>1, <2>2 DEF NoneLater, At, NewRun
  <2>7. run.at \in Nat
    BY DEF NewRun, TypeOK, Worker
  <2> HIDE DEF m, run
  <2>8. ASSUME faults' = 0, NEW k \in Models, runs'[k] # <<>>
        PROVE  /\ \E i \in DOMAIN runs'[k] : runs'[k][i].at = stamp'[k]
               /\ \A i \in DOMAIN runs'[k] : runs'[k][i].at <= stamp'[k]
    <3>1. CASE k = m
      <4>1. stamp'[m] = run.at
        BY <2>1, <2>4, <2>5, <2>8
      <4>2. \A i \in DOMAIN runs'[m] : runs'[m][i].at <= run.at
        BY <2>1, <2>6, <2>7 DEF Grown
      <4> QED
        BY <2>1, <3>1, <4>1, <4>2
    <3>2. CASE k # m
      <4>1. stamp'[k] = stamp[k] /\ runs'[k] = runs[k]
        BY <2>1, <2>4, <2>5, <2>8, <3>2
      <4> QED
        BY <1>0, <2>8, <4>1 DEF StampInv
    <3> QED
      BY <3>1, <3>2
  <2>9. StampInv'
    BY <2>8 DEF StampInv
  <2> QED
    BY <2>3, <2>9
<1>3. ASSUME UNCHANGED <<runs, stamp, worker>>
      PROVE  StampInv' /\ NoneLater'
  BY <1>1, <1>3
<1>4. ASSUME NEW w \in Workers, NEW j \in Jobs, Receive(w, j)
      PROVE  StampInv' /\ NoneLater'
  <2>1. /\ worker' = [worker EXCEPT ![w] = [Idle EXCEPT !.pc = "probe", !.job = j, !.at = now]]
        /\ worker \in [Workers -> Worker] /\ UNCHANGED <<runs, stamp>>
    BY <1>4 DEF Receive, tables, TypeOK
  <2>2. worker'[w].at = now /\ \A v \in Workers : v = w
    BY <2>1 DEF Idle
  <2> QED
    BY <1>1, <2>1, <2>2
<1>5. ASSUME NEW w \in Workers, NEW o \in Outcomes, Probe(w, o)
      PROVE  StampInv' /\ NoneLater'
  <2>1. PICK t \in StartedAt(w, o) :
          worker' = [worker EXCEPT ![w].pc = "insert", ![w].out = o, ![w].at = t]
    BY <1>5 DEF Probe
  <2>2. /\ worker[w].pc = "probe" /\ UNCHANGED <<runs, stamp>> /\ worker \in [Workers -> Worker]
        /\ worker[w] \in Worker
    BY <1>5 DEF Probe, At, tables, TypeOK
  <2>3. worker'[w].at = t /\ (t = worker[w].at \/ t = now) /\ \A v \in Workers : v = w
    BY <2>1, <2>2 DEF StartedAt, Worker
  <2> QED
    BY <1>1, <2>2, <2>3
<1>6. ASSUME NEW w \in Workers, Handle(w) \/ Mishap(w), ~ \E o \in Outcomes : Probe(w, o),
             ~(InsertRun(w) \/ InsertUnstamped(w) \/ InsertRepeated(w))
      PROVE  StampInv' /\ NoneLater'
  <2>1. UNCHANGED <<runs, stamp>>
    BY <1>6 DEF Handle, Mishap, ClearCooldown, NoCooldown, ReadProvider, BackOffProvider,
       TripProvider, RestModel, ReadStreak, ReadOpen, RaiseIncident, CloseIncident,
       CountFailure, WriteIncidents, ReadDay, BackOffModel, Disable, Finish, CallLost, Crash,
       Abandon, tables
  <2>2. worker'[w].pc \notin {"probe", "insert"}
    <3>1. CASE Finish(w) \/ Crash(w)
      BY <3>1 DEF Finish, Crash, Abandon, Release, Idle, TypeOK
    <3>2. CASE ~Finish(w) /\ ~Crash(w)
      <4>1. ~At(w, "probe")
        BY <1>6, <3>2 DEF Handle, Mishap, ClearCooldown, NoCooldown, ReadProvider,
           BackOffProvider, TripProvider, RestModel, ReadStreak, ReadOpen, RaiseIncident,
           CloseIncident, CountFailure, WriteIncidents, ReadDay, BackOffModel, Disable,
           CallLost, At
      <4> QED
        BY <1>6, <3>2, <4>1, LaneMoves
    <3> QED
      BY <3>1, <3>2
  <2>3. \A v \in Workers : v = w
    OBVIOUS
  <2> QED
    BY <1>1, <2>1, <2>2, <2>3
<1>7. CASE Admin
  BY <1>3, <1>7 DEF Admin, AdminBenchmark, Create, AdminSwitch, AdminSwitchProvider, Switch,
     AdminReset, tables
<1>8. CASE \/ \E j \in Jobs, m \in Models, via \in {"inline", "queue"} : Schedule(j, m, via)
           \/ \E j \in Jobs : Skip(j) \/ TickKilled(j)
           \/ \E d \in TimeSteps : Tick(d)
           \/ UNCHANGED vars
  BY <1>3, <1>8 DEF Schedule, Create, Skip, TickKilled, Tick, vars, tables
<1> QED
  BY <1>2, <1>4, <1>5, <1>6, <1>7, <1>8 DEF Next

(* With one lane and a working database the stamp that the rotation sorts  *)
(* by is the start of the model's latest run.                              *)
THEOREM StampIsLatestStart ==
  ASSUME \A v, w \in Workers : v = w
  PROVE  Spec => []StampIsLatest
<1>1. Init => StampInv /\ NoneLater
  BY DEF Init, StampInv, NoneLater, Idle
<1>2. TypeInv /\ TypeInv' /\ HistoryInv /\ StampInv /\ NoneLater /\ [Next]_vars
        => StampInv' /\ NoneLater'
  BY StepStamp
<1>3. TypeInv /\ HistoryInv /\ StampInv => StampIsLatest
  <2> SUFFICES ASSUME TypeInv, HistoryInv, StampInv, NEW m \in Models, faults = 0, runs[m] # <<>>
               PROVE  stamp[m] = LastStart(m)
    BY DEF StampIsLatest
  <2>1. PICK i \in DOMAIN runs[m] : runs[m][i].at = LastStart(m)
    BY LastStartIs DEF TypeInv, HistoryInv
  <2>2. PICK k \in DOMAIN runs[m] : runs[m][k].at = stamp[m]
    BY DEF StampInv
  <2>3. runs[m][i].at <= stamp[m] /\ runs[m][k].at <= LastStart(m)
    BY LastStartIs DEF StampInv, TypeInv, HistoryInv
  <2>4. runs[m][i] \in Run /\ runs[m][k] \in Run
    BY DEF TypeInv, TypeOK
  <2> QED
    BY <2>1, <2>2, <2>3, <2>4 DEF Run
<1> QED
  BY <1>1, <1>2, <1>3, HistoryHolds, PTL DEF Spec

-----------------------------------------------------------------------------
(* Outages and incidents.  First of histories and tables as such.          *)

LEMMA RowsOf ==
  ASSUME NEW r \in Seq(Run)
  PROVE  /\ DOMAIN r = 1 .. Len(r) /\ Len(r) \in Nat
         /\ \A i \in 1 .. Len(r) : r[i] \in Run /\ r[i].at \in Nat /\ r[i].at # Never
<1>1. \A i \in 1 .. Len(r) : r[i] \in Run
  OBVIOUS
<1>2. \A i \in 1 .. Len(r) : r[i].at \in Nat
  BY <1>1 DEF Run
<1> QED
  BY <1>1, <1>2 DEF Never

LEMMA StartsFinite ==
  ASSUME NEW r, NEW n \in Nat
  PROVE  /\ Starts(r, n) \subseteq IncidentThreshold .. n
         /\ IsFiniteSet(Starts(r, n)) /\ Cardinality(Starts(r, n)) \in Nat
<1>1. Starts(r, n) \subseteq IncidentThreshold .. n
  BY DEF Starts
<1>2. IsFiniteSet(IncidentThreshold .. n)
  BY BenchJobAssumption, FS_Interval
<1> QED
  BY <1>1, <1>2, FS_Subset, FS_CardinalityType

(* Whether there is an outage is settled by the rows so far.               *)
LEMMA StartsOfPrefix ==
  ASSUME NEW r, NEW s, NEW n \in Nat, \A k \in 1 .. n : s[k] = r[k]
  PROVE  /\ Starts(s, n) = Starts(r, n)
         /\ Streak(s, n) = Streak(r, n)
         /\ \A i \in 1 .. n : FailedIn(s, i .. n) = FailedIn(r, i .. n)
<1>0. IncidentThreshold \in Nat \ {0}
  BY BenchJobAssumption
<1>1. ASSUME NEW i \in 1 .. n PROVE Streak(s, i) = Streak(r, i)
  BY <1>0, <1>1 DEF Streak, FailedIn
<1>2. Streak(s, n) = Streak(r, n)
  BY <1>0 DEF Streak, FailedIn
<1>3. ASSUME NEW i \in IncidentThreshold .. n
      PROVE  i \in Starts(s, n) <=> i \in Starts(r, n)
  <2>1. i \in 1 .. n /\ (i # IncidentThreshold => i - IncidentThreshold \in 1 .. n)
    BY <1>0
  <2> QED
    BY <1>1, <2>1 DEF Starts
<1>4. Starts(s, n) = Starts(r, n)
  BY <1>3, StartsFinite
<1>5. \A i \in 1 .. n : FailedIn(s, i .. n) = FailedIn(r, i .. n)
  BY DEF FailedIn
<1> QED
  BY <1>2, <1>4, <1>5

LEMMA MirrorsPrefix ==
  ASSUME NEW q, NEW r, NEW s, NEW n \in Nat, \A k \in 1 .. n : s[k] = r[k], Mirrors(q, r, n)
  PROVE  Mirrors(q, s, n)
<1>0. IncidentThreshold \in Nat \ {0}
  BY BenchJobAssumption
<1>1. /\ Starts(s, n) = Starts(r, n) /\ Streak(s, n) = Streak(r, n)
      /\ \A i \in 1 .. n : FailedIn(s, i .. n) = FailedIn(r, i .. n)
  BY StartsOfPrefix
<1>2. \A i \in Starts(r, n) : i \in 1 .. n /\ s[i] = r[i]
  BY <1>0, StartsFinite
<1>3. ASSUME NEW i \in 1 .. n, NEW e, EndsAt(r, i, n, e) PROVE EndsAt(s, i, n, e)
  <2>1. CASE FailedIn(r, i .. n) /\ e = Never
    BY <1>1, <2>1 DEF EndsAt
  <2>2. CASE \E k \in i .. n : ~Failed(r[k].out) /\ FailedIn(r, i .. k - 1) /\ e = r[k].at
    BY <2>2 DEF EndsAt, FailedIn
  <2> QED
    BY <1>3, <2>1, <2>2 DEF EndsAt
<1>4. \A k \in DOMAIN q : \E i \in Starts(s, n) : q[k].start = s[i].at /\ EndsAt(s, i, n, q[k].end)
  BY <1>1, <1>2, <1>3 DEF Mirrors
<1>5. \A i \in Starts(s, n) : \E k \in DOMAIN q : q[k].start = s[i].at
  BY <1>1, <1>2 DEF Mirrors
<1>6. Streak(s, n) => \E i \in Starts(s, n) : FailedIn(s, i .. n)
  BY <1>1, <1>2 DEF Mirrors
<1> QED
  BY <1>1, <1>4, <1>5, <1>6 DEF Mirrors

(* One row more.                                                           *)
LEMMA NextStarts ==
  ASSUME NEW r, NEW n \in Nat
  PROVE  Starts(r, n + 1) = Starts(r, n) \cup (Starts(r, n + 1) \cap {n + 1})
<1>1. IncidentThreshold .. n + 1 \subseteq (IncidentThreshold .. n) \cup {n + 1}
  BY BenchJobAssumption
<1>2. IncidentThreshold .. n \subseteq IncidentThreshold .. n + 1
  BY BenchJobAssumption
<1> QED
  BY <1>1, <1>2 DEF Starts

LEMMA NextEnd ==
  ASSUME NEW r, NEW n \in Nat, NEW i \in 1 .. n, NEW e, EndsAt(r, i, n, e)
  PROVE  /\ e # Never \/ Failed(r[n + 1].out) => EndsAt(r, i, n + 1, e)
         /\ FailedIn(r, i .. n) /\ ~Failed(r[n + 1].out) => EndsAt(r, i, n + 1, r[n + 1].at)
<1>1. i .. n + 1 = (i .. n) \cup {n + 1} /\ n + 1 \in i .. n + 1 /\ (n + 1) - 1 = n
  OBVIOUS
<1>2. FailedIn(r, i .. n) /\ Failed(r[n + 1].out) => FailedIn(r, i .. n + 1)
  BY <1>1 DEF FailedIn
<1>3. CASE FailedIn(r, i .. n) /\ e = Never
  BY <1>1, <1>2, <1>3 DEF EndsAt
<1>4. CASE \E k \in i .. n : ~Failed(r[k].out) /\ FailedIn(r, i .. k - 1) /\ e = r[k].at
  <2>1. EndsAt(r, i, n + 1, e)
    BY <1>1, <1>4 DEF EndsAt
  <2>2. ~FailedIn(r, i .. n)
    BY <1>4 DEF FailedIn
  <2> QED
    BY <2>1, <2>2
<1> QED
  BY <1>3, <1>4 DEF EndsAt

(* A streak that does not start with the next row has started before.      *)
LEMMA StreakGoesOn ==
  ASSUME NEW q, NEW r, NEW n \in Nat, Mirrors(q, r, n), Streak(r, n + 1),
         n + 1 \notin Starts(r, n + 1)
  PROVE  \E i \in Starts(r, n) : FailedIn(r, i .. n)
<1>0. IncidentThreshold \in Nat \ {0}
  BY BenchJobAssumption
<1>1. /\ n + 1 >= IncidentThreshold
      /\ FailedIn(r, (n + 1) - IncidentThreshold + 1 .. n + 1)
  BY DEF Streak
<1>2. n + 1 \in IncidentThreshold .. n + 1
  BY <1>0, <1>1
<1>3. n + 1 # IncidentThreshold /\ Failed(r[(n + 1) - IncidentThreshold].out)
  BY <1>2 DEF Starts
<1>4. Streak(r, n)
  <2>1. n >= IncidentThreshold
    BY <1>0, <1>1, <1>3
  <2>2. ASSUME NEW k \in n - IncidentThreshold + 1 .. n PROVE Failed(r[k].out)
    <3>1. CASE k = (n + 1) - IncidentThreshold
      BY <1>3, <3>1
    <3>2. CASE k # (n + 1) - IncidentThreshold
      <4>1. k \in (n + 1) - IncidentThreshold + 1 .. n + 1
        BY <1>0, <3>2
      <4> QED
        BY <1>1, <4>1 DEF FailedIn
    <3> QED
      BY <3>1, <3>2
  <2> QED
    BY <2>1, <2>2 DEF Streak, FailedIn
<1> QED
  BY <1>4 DEF Mirrors

(* Two outages are not under way at the same time.                         *)
LEMMA OneUnderWay ==
  ASSUME NEW r, NEW n \in Nat, NEW i \in Starts(r, n), NEW j \in Starts(r, n),
         FailedIn(r, i .. n), FailedIn(r, j .. n)
  PROVE  i = j
<1>0. IncidentThreshold \in Nat \ {0}
  BY BenchJobAssumption
<1>1. ASSUME NEW a \in Starts(r, n), NEW b \in Starts(r, n), FailedIn(r, a .. n), a < b
      PROVE  FALSE
  <2>1. /\ a \in IncidentThreshold .. n /\ b \in IncidentThreshold .. n
        /\ FailedIn(r, a - IncidentThreshold + 1 .. a)
        /\ b = IncidentThreshold \/ ~Failed(r[b - IncidentThreshold].out)
    BY DEF Starts, Streak
  <2>2. b # IncidentThreshold
    BY <1>0, <1>1, <2>1
  <2>3. \/ b - IncidentThreshold \in a - IncidentThreshold + 1 .. a
        \/ b - IncidentThreshold \in a .. n
    BY <1>0, <1>1, <2>1
  <2> QED
    BY <1>1, <2>1, <2>2, <2>3 DEF FailedIn
<1>2. i \in Nat /\ j \in Nat
  BY <1>0, StartsFinite
<1> QED
  BY <1>1, <1>2

(* An open incident is of the outage under way.                            *)
LEMMA OpenIsUnderWay ==
  ASSUME NEW q, NEW r \in Seq(Run), NEW n \in Nat, n <= Len(r), Mirrors(q, r, n),
         NEW k \in DOMAIN q, q[k].end = Never
  PROVE  \E i \in Starts(r, n) : q[k].start = r[i].at /\ FailedIn(r, i .. n)
<1>1. PICK i \in Starts(r, n) : q[k].start = r[i].at /\ EndsAt(r, i, n, q[k].end)
  BY DEF Mirrors
<1>2. i \in 1 .. n
  BY BenchJobAssumption, StartsFinite
<1>3. \A l \in i .. n : r[l].at # Never
  BY <1>2, RowsOf
<1> QED
  BY <1>1, <1>3 DEF EndsAt

LEMMA StartApart ==
  ASSUME NEW r \in Seq(Run), NEW n \in Nat, n <= Len(r), InOrder(r),
         NEW i \in Starts(r, n), NEW j \in Starts(r, n), r[i].at = r[j].at
  PROVE  i = j
<1>1. i \in 1 .. Len(r) /\ j \in 1 .. Len(r)
  BY BenchJobAssumption, StartsFinite, RowsOf
<1> QED
  BY <1>1, RowsOf DEF InOrder

(* The next row starts no outage: the table need only keep its ends right. *)
LEMMA NotStarted ==
  ASSUME NEW q \in Seq(Incident), NEW s \in Seq(Incident), NEW r, NEW n \in Nat,
         Mirrors(q, r, n), n + 1 \notin Starts(r, n + 1), Len(s) = Len(q),
         \A k \in DOMAIN q : s[k].start = q[k].start,
         \A k \in DOMAIN q, i \in Starts(r, n) :
           q[k].start = r[i].at /\ EndsAt(r, i, n, q[k].end) => EndsAt(r, i, n + 1, s[k].end)
  PROVE  Mirrors(s, r, n + 1)
<1>1. Starts(r, n + 1) = Starts(r, n) /\ DOMAIN s = DOMAIN q
  <2>1. Starts(r, n + 1) \cap {n + 1} = {}
    OBVIOUS
  <2>2. Starts(r, n + 1) = Starts(r, n)
    BY <2>1, NextStarts
  <2>3. DOMAIN s = 1 .. Len(s) /\ DOMAIN q = 1 .. Len(q)
    OBVIOUS
  <2> QED
    BY <2>2, <2>3
<1>2. ASSUME Streak(r, n + 1) PROVE \E i \in Starts(r, n) : FailedIn(r, i .. n + 1)
  <2>1. PICK i \in Starts(r, n) : FailedIn(r, i .. n)
    BY <1>2, StreakGoesOn
  <2>2. i \in 1 .. n /\ IncidentThreshold \in Nat \ {0}
    BY BenchJobAssumption, StartsFinite
  <2>3. n + 1 \in (n + 1) - IncidentThreshold + 1 .. n + 1
    BY <2>2
  <2>4. Failed(r[n + 1].out)
    BY <1>2, <2>3 DEF Streak, FailedIn
  <2>5. i .. n + 1 = (i .. n) \cup {n + 1}
    BY <2>2
  <2> QED
    BY <2>1, <2>4, <2>5 DEF FailedIn
<1>3. \A k \in DOMAIN s : \E i \in Starts(r, n) :
        s[k].start = r[i].at /\ EndsAt(r, i, n + 1, s[k].end)
  BY <1>1 DEF Mirrors
<1>4. \A i \in Starts(r, n) : \E k \in DOMAIN s : s[k].start = r[i].at
  BY <1>1 DEF Mirrors
<1>5. \A k, l \in DOMAIN s : k # l => s[k].start # s[l].start
  BY <1>1 DEF Mirrors
<1> QED
  BY <1>1, <1>2, <1>3, <1>4, <1>5 DEF Mirrors

LEMMA StreakFails ==
  ASSUME NEW r, NEW n \in Nat, Streak(r, n)
  PROVE  Failed(r[n].out)
<1>1. n \in n - IncidentThreshold + 1 .. n
  BY BenchJobAssumption DEF Streak
<1> QED
  BY <1>1 DEF Streak, FailedIn

LEMMA StartFails ==
  ASSUME NEW r, NEW n \in Nat, n \in Starts(r, n)
  PROVE  Streak(r, n) /\ Failed(r[n].out)
BY StreakFails DEF Starts

(* What the handler does to the table, by verdict: nothing,                *)
LEMMA Quiet ==
  ASSUME NEW q \in Seq(Incident), NEW r, NEW n \in Nat, Mirrors(q, r, n),
         \A k \in DOMAIN q : q[k].end # Never, ~Streak(r, n + 1)
  PROVE  Mirrors(q, r, n + 1)
<1>1. n + 1 \notin Starts(r, n + 1)
  BY StartFails
<1>2. \A i \in Starts(r, n) : i \in 1 .. n
  BY BenchJobAssumption, StartsFinite
<1> QED
  BY <1>1, <1>2, NextEnd, NotStarted

(* count one failure more,                                                 *)
LEMMA Counted ==
  ASSUME NEW q \in Seq(Incident), NEW s \in Seq(Incident), NEW r \in Seq(Run), NEW n \in Nat,
         n + 1 <= Len(r), Mirrors(q, r, n), Failed(r[n + 1].out),
         NEW o \in DOMAIN q, q[o].end = Never, Len(s) = Len(q),
         \A k \in DOMAIN q : s[k].start = q[k].start /\ s[k].end = q[k].end
  PROVE  Mirrors(s, r, n + 1)
<1>1. PICK i \in Starts(r, n) : FailedIn(r, i .. n)
  BY OpenIsUnderWay, RowsOf
<1>2. \A j \in Starts(r, n) : j \in 1 .. n
  BY BenchJobAssumption, StartsFinite
<1>3. n + 1 \notin Starts(r, n + 1)
  <2>1. SUFFICES ASSUME n + 1 \in Starts(r, n + 1) PROVE FALSE
    OBVIOUS
  <2>2. i .. n + 1 = (i .. n) \cup {n + 1} /\ n + 1 .. n + 1 = {n + 1} /\ n + 1 \in Nat
    BY <1>2
  <2>3. FailedIn(r, i .. n + 1) /\ FailedIn(r, n + 1 .. n + 1) /\ i \in Starts(r, n + 1)
    BY <1>1, <2>2, NextStarts DEF FailedIn
  <2>4. i = n + 1
    BY <2>1, <2>2, <2>3, OneUnderWay
  <2> QED
    BY <1>2, <2>4
<1> QED
  BY <1>2, <1>3, NextEnd, NotStarted

(* close the incident,                                                     *)
LEMMA Closed ==
  ASSUME NEW q \in Seq(Incident), NEW s \in Seq(Incident), NEW r \in Seq(Run), NEW n \in Nat,
         n + 1 <= Len(r), InOrder(r), Mirrors(q, r, n), ~Failed(r[n + 1].out),
         NEW o \in DOMAIN q, q[o].end = Never, Len(s) = Len(q),
         \A k \in DOMAIN q : s[k].start = q[k].start,
         \A k \in DOMAIN q : s[k].end = (IF k = o THEN r[n + 1].at ELSE q[k].end)
  PROVE  Mirrors(s, r, n + 1)
<1>0. n <= Len(r)
  BY RowsOf
<1>1. PICK i \in Starts(r, n) : q[o].start = r[i].at /\ FailedIn(r, i .. n)
  BY <1>0, OpenIsUnderWay
<1>2. \A j \in Starts(r, n) : j \in 1 .. n
  BY BenchJobAssumption, StartsFinite
<1>3. n + 1 \notin Starts(r, n + 1)
  BY StartFails
<1>4. ASSUME NEW k \in DOMAIN q, k # o PROVE q[k].end # Never
  <2>1. SUFFICES ASSUME q[k].end = Never PROVE FALSE
    OBVIOUS
  <2>2. PICK j \in Starts(r, n) : q[k].start = r[j].at /\ FailedIn(r, j .. n)
    BY <1>0, <2>1, OpenIsUnderWay
  <2>3. i = j
    BY <1>1, <2>2, OneUnderWay
  <2> QED
    BY <1>1, <1>4, <2>2, <2>3 DEF Mirrors
<1>5. ASSUME NEW k \in DOMAIN q, NEW j \in Starts(r, n),
             q[k].start = r[j].at, EndsAt(r, j, n, q[k].end)
      PROVE  EndsAt(r, j, n + 1, s[k].end)
  <2>1. CASE k = o
    <3>1. j = i
      BY <1>0, <1>1, <1>5, <2>1, StartApart
    <3> QED
      BY <1>1, <1>2, <1>5, <2>1, <3>1, NextEnd
  <2>2. CASE k # o
    BY <1>2, <1>4, <1>5, <2>2, NextEnd
  <2> QED
    BY <2>1, <2>2
<1> QED
  BY <1>3, <1>5, NotStarted

(* or open one.                                                            *)
LEMMA Raised ==
  ASSUME NEW q \in Seq(Incident), NEW r \in Seq(Run), NEW n \in Nat,
         n + 1 <= Len(r), InOrder(r), Mirrors(q, r, n), Streak(r, n + 1),
         \A k \in DOMAIN q : q[k].end # Never,
         NEW row \in Incident, row.start = r[n + 1].at, row.end = Never
  PROVE  Mirrors(Append(q, row), r, n + 1)
<1> DEFINE s == Append(q, row)
<1>0. n <= Len(r) /\ n + 1 \in 1 .. Len(r) /\ DOMAIN r = 1 .. Len(r) /\ Failed(r[n + 1].out)
  BY RowsOf, StreakFails
<1>2. \A j \in Starts(r, n) : j \in 1 .. n
  BY BenchJobAssumption, StartsFinite
<1>3. n + 1 \in Starts(r, n + 1)
  <2>1. SUFFICES ASSUME n + 1 \notin Starts(r, n + 1) PROVE FALSE
    OBVIOUS
  <2>2. PICK i \in Starts(r, n) : FailedIn(r, i .. n)
    BY <2>1, StreakGoesOn
  <2>3. PICK k \in DOMAIN q : q[k].start = r[i].at
    BY DEF Mirrors
  <2>4. PICK j \in Starts(r, n) : q[k].start = r[j].at /\ EndsAt(r, j, n, q[k].end)
    BY DEF Mirrors
  <2>5. i = j
    BY <1>0, <2>3, <2>4, StartApart
  <2> QED
    BY <2>2, <2>4, <2>5 DEF EndsAt, FailedIn
<1>4. Starts(r, n + 1) = Starts(r, n) \cup {n + 1} /\ n + 1 \notin Starts(r, n)
  BY <1>2, <1>3, NextStarts
<1>5. Cardinality(Starts(r, n + 1)) = Cardinality(Starts(r, n)) + 1
  BY <1>4, StartsFinite, FS_AddElement
<1>6. /\ s \in Seq(Incident) /\ Len(s) = Len(q) + 1 /\ Len(q) \in Nat
      /\ DOMAIN s = (DOMAIN q) \cup {Len(q) + 1} /\ s[Len(q) + 1] = row
      /\ \A k \in DOMAIN q : s[k] = q[k]
  OBVIOUS
<1>7. FailedIn(r, n + 1 .. n + 1)
  <2>1. n + 1 .. n + 1 = {n + 1}
    OBVIOUS
  <2> QED
    BY <1>0, <2>1 DEF FailedIn
<1>8. \A j \in Starts(r, n) : r[j].at # r[n + 1].at
  <2> SUFFICES ASSUME NEW j \in Starts(r, n) PROVE r[j].at # r[n + 1].at
    OBVIOUS
  <2>1. j \in 1 .. n /\ Len(r) \in Nat
    BY <1>2, RowsOf
  <2>2. j \in DOMAIN r /\ n + 1 \in DOMAIN r /\ j < n + 1
    BY <1>0, <2>1
  <2>3. r[j].at < r[n + 1].at
    BY <2>2 DEF InOrder
  <2>4. r[j].at \in Nat /\ r[n + 1].at \in Nat
    BY <1>0, <2>2, RowsOf
  <2> QED
    BY <2>3, <2>4
<1> HIDE DEF s
<1>9. ASSUME NEW k \in DOMAIN s
      PROVE  \E i \in Starts(r, n + 1) : s[k].start = r[i].at /\ EndsAt(r, i, n + 1, s[k].end)
  <2>1. CASE k \in DOMAIN q
    <3>1. PICK i \in Starts(r, n) : q[k].start = r[i].at /\ EndsAt(r, i, n, q[k].end)
      BY <2>1 DEF Mirrors
    <3>2. EndsAt(r, i, n + 1, q[k].end)
      BY <1>0, <1>2, <3>1, NextEnd
    <3> QED
      BY <1>4, <1>6, <2>1, <3>1, <3>2
  <2>2. CASE k \notin DOMAIN q
    <3>1. s[k] = row
      BY <1>6, <1>9, <2>2
    <3>2. EndsAt(r, n + 1, n + 1, Never)
      BY <1>7 DEF EndsAt
    <3> QED
      BY <1>3, <3>1, <3>2
  <2> QED
    BY <2>1, <2>2
<1>10. ASSUME NEW i \in Starts(r, n + 1) PROVE \E k \in DOMAIN s : s[k].start = r[i].at
  <2>1. CASE i = n + 1
    BY <1>6, <2>1
  <2>2. CASE i # n + 1
    <3>1. \E k \in DOMAIN q : q[k].start = r[i].at
      BY <1>4, <1>10, <2>2 DEF Mirrors
    <3> QED
      BY <1>6, <3>1
  <2> QED
    BY <2>1, <2>2
<1>11. ASSUME NEW k \in DOMAIN s, NEW l \in DOMAIN s, k # l PROVE s[k].start # s[l].start
  <2>1. \A j \in DOMAIN q : q[j].start # row.start
    BY <1>8 DEF Mirrors
  <2>2. \A j \in DOMAIN q, o \in DOMAIN q : j # o => q[j].start # q[o].start
    BY DEF Mirrors
  <2> QED
    BY <1>6, <1>11, <2>1, <2>2
<1>12. Len(s) = Cardinality(Starts(r, n + 1))
  BY <1>5, <1>6 DEF Mirrors
<1> QED
  BY <1>3, <1>7, <1>9, <1>10, <1>11, <1>12 DEF Mirrors, s

(* With distinct starts in order, the latest runs are the last rows.       *)
LEMMA LatestAreLast ==
  ASSUME TypeOK, NEW m \in Models, InOrder(runs[m]), NEW S \in LatestRuns(m)
  PROVE  (Cardinality(S) >= IncidentThreshold /\ \A i \in S : Failed(runs[m][i].out))
           = Streak(runs[m], Len(runs[m]))
<1> DEFINE r == runs[m]
           n == Len(r)
           T == IncidentThreshold
           W == n - T + 1 .. n
<1>0. r \in Seq(Run) /\ n \in Nat /\ DOMAIN r = 1 .. n /\ T \in Nat \ {0}
  BY BenchJobAssumption DEF TypeOK
<1>1. /\ S \subseteq 1 .. n /\ Cardinality(S) = Earlier(T, n)
      /\ \A i \in S, k \in 1 .. n \ S : r[i].at >= r[k].at
  BY <1>0 DEF LatestRuns
<1>2. IsFiniteSet(S) /\ Cardinality(S) \in Nat
  <2>1. IsFiniteSet(1 .. n)
    BY <1>0, FS_Interval
  <2> QED
    BY <1>1, <2>1, FS_Subset, FS_CardinalityType
<1>3. ASSUME NEW i \in S, NEW k \in 1 .. n \ S PROVE k < i
  <2>1. i \in 1 .. n /\ r[i].at >= r[k].at /\ i # k
    BY <1>1
  <2>2. r[i].at \in Nat /\ r[k].at \in Nat
    BY <1>0, <2>1, RowsOf
  <2>3. ~(r[i].at < r[k].at)
    BY <2>1, <2>2
  <2>4. ~(i < k)
    BY <1>0, <2>1, <2>3 DEF InOrder
  <2> QED
    BY <1>0, <2>1, <2>4
<1> HIDE DEF r, n
<1>4. CASE n < T
  <2>1. ~(Cardinality(S) >= T)
    BY <1>0, <1>1, <1>4 DEF Earlier
  <2> QED
    BY <1>0, <1>4, <2>1 DEF Streak, r, n
<1>5. CASE n >= T
  <2>1. Cardinality(S) = T /\ W \subseteq 1 .. n
    BY <1>0, <1>1, <1>5 DEF Earlier
  <2>2. IsFiniteSet(W) /\ Cardinality(W) = T
    <3>1. n - T + 1 \in Int /\ n \in Int /\ ~(n - T + 1 > n) /\ n - (n - T + 1) + 1 = T
      BY <1>0
    <3> QED
      BY <3>1, FS_Interval
  <2>3. S \subseteq W
    <3>1. SUFFICES ASSUME NEW i \in S, i \notin W PROVE FALSE
      OBVIOUS
    <3>2. i \in 1 .. n /\ i < n - T + 1
      BY <1>0, <1>1, <3>1
    <3>3. ASSUME NEW k \in W, k \notin S PROVE FALSE
      <4>1. k \in 1 .. n \ S /\ i < k
        BY <1>0, <2>1, <3>2, <3>3
      <4> QED
        BY <1>0, <1>3, <3>2, <4>1
    <3>4. W \in SUBSET S /\ W # S
      BY <3>1, <3>3
    <3> QED
      BY <1>2, <2>1, <2>2, <3>4, FS_Subset
  <2>4. S = W
    BY <2>1, <2>2, <2>3, FS_Subset
  <2>5. Streak(r, n) = (\A i \in W : Failed(r[i].out))
    BY <1>5 DEF Streak, FailedIn
  <2>6. Cardinality(S) >= T
    BY <1>0, <2>1
  <2>7. (\A i \in S : Failed(r[i].out)) = (\A i \in W : Failed(r[i].out))
    BY <2>4
  <2> HIDE DEF T, W
  <2>8. (Cardinality(S) >= T /\ \A i \in S : Failed(r[i].out)) = Streak(r, n)
    BY <2>5, <2>6, <2>7
  <2> QED
    BY <2>8 DEF r, n, T
<1> QED
  BY <1>0, <1>4, <1>5

(* A table that mirrors all rows is the one the property asks for.         *)
LEMMA MirrorShows ==
  ASSUME TypeOK, NEW m \in Models, InOrder(runs[m]),
         Mirrors(incidents[m], runs[m], Len(runs[m]))
  PROVE  /\ {[start |-> incidents[m][k].start, end |-> incidents[m][k].end] :
               k \in DOMAIN incidents[m]} = {Outage(m, i) : i \in StreakStarts(m)}
         /\ Len(incidents[m]) = Cardinality(StreakStarts(m))
<1> DEFINE r == runs[m]
           n == Len(r)
           q == incidents[m]
<1>0. r \in Seq(Run) /\ n \in Nat /\ n <= Len(r) /\ IncidentThreshold \in Nat \ {0}
  BY BenchJobAssumption DEF TypeOK
<1>1. StreakStarts(m) = Starts(r, n)
  BY <1>0 DEF StreakStarts, Starts, Streak, FailedIn
<1>2. ASSUME NEW i \in Starts(r, n), NEW e, EndsAt(r, i, n, e)
      PROVE  Outage(m, i) = [start |-> r[i].at, end |-> e]
  <2>0. i \in 1 .. n /\ EndOfStreak(m, i) = {k \in i .. n : ~Failed(r[k].out)}
    BY <1>0, StartsFinite DEF EndOfStreak
  <2>1. CASE FailedIn(r, i .. n) /\ e = Never
    <3>1. EndOfStreak(m, i) = {}
      BY <2>0, <2>1 DEF FailedIn
    <3> QED
      BY <2>1, <3>1 DEF Outage
  <2>2. CASE \E k \in i .. n : ~Failed(r[k].out) /\ FailedIn(r, i .. k - 1) /\ e = r[k].at
    <3>1. PICK k \in i .. n : ~Failed(r[k].out) /\ FailedIn(r, i .. k - 1) /\ e = r[k].at
      BY <2>2
    <3>2. k \in EndOfStreak(m, i) /\ EndOfStreak(m, i) # {}
      BY <2>0, <3>1
    <3>3. ASSUME NEW j \in EndOfStreak(m, i) PROVE k <= j
      <4>1. j \in i .. n /\ j \notin i .. k - 1
        BY <2>0, <3>1, <3>3 DEF FailedIn
      <4> QED
        BY <1>0, <2>0, <3>1, <4>1
    <3>4. ASSUME NEW j \in EndOfStreak(m, i), \A l \in EndOfStreak(m, i) : j <= l PROVE j = k
      <4>1. j <= k /\ k <= j /\ j \in i .. n
        BY <2>0, <3>2, <3>3, <3>4
      <4> QED
        BY <1>0, <2>0, <3>1, <4>1
    <3>5. (CHOOSE j \in EndOfStreak(m, i) : \A l \in EndOfStreak(m, i) : j <= l) = k
      BY <3>2, <3>3, <3>4
    <3> QED
      BY <3>1, <3>2, <3>5 DEF Outage
  <2> QED
    BY <1>2, <2>1, <2>2 DEF EndsAt
<1> HIDE DEF r, n, q
<1>3. Mirrors(q, r, n) /\ InOrder(r)
  BY DEF q, r, n
<1>4. ASSUME NEW k \in DOMAIN q
      PROVE  \E i \in Starts(r, n) : [start |-> q[k].start, end |-> q[k].end] = Outage(m, i)
  BY <1>2, <1>3 DEF Mirrors
<1>5. ASSUME NEW i \in Starts(r, n)
      PROVE  \E k \in DOMAIN q : [start |-> q[k].start, end |-> q[k].end] = Outage(m, i)
  <2>1. PICK k \in DOMAIN q : q[k].start = r[i].at
    BY <1>3 DEF Mirrors
  <2>2. PICK j \in Starts(r, n) : q[k].start = r[j].at /\ EndsAt(r, j, n, q[k].end)
    BY <1>3 DEF Mirrors
  <2>3. i = j
    BY <1>0, <1>3, <2>1, <2>2, StartApart
  <2> QED
    BY <1>2, <2>2, <2>3
<1>6. {[start |-> q[k].start, end |-> q[k].end] : k \in DOMAIN q}
        = {Outage(m, i) : i \in Starts(r, n)}
  BY <1>4, <1>5
<1>7. Len(q) = Cardinality(Starts(r, n))
  BY <1>3 DEF Mirrors
<1> QED
  BY <1>1, <1>6, <1>7 DEF q

(* The steps of the one lane.                                              *)
LEMMA ReflectedFrame ==
  ASSUME NEW m \in Models, Reflected(m), runs'[m] = runs[m], incidents'[m] = incidents[m],
         \A v \in Workers : Judges(v, m)' <=> Judges(v, m),
         \A v \in Workers : Judges(v, m) =>
           /\ worker'[v].at = worker[v].at /\ worker'[v].out = worker[v].out
           /\ worker'[v] = worker[v] \/ worker'[v].pc \notin {"open", "incident"}
  PROVE  Reflected(m)'
<1>1. Judged(m)' = Judged(m)
  BY DEF Judged
<1>2. OpenRows(m)' = OpenRows(m)
  BY DEF OpenRows
<1>3. ASSUME NEW v \in Workers, Judges(v, m) PROVE Verdict(v, m)'
  <2>1. Verdict(v, m)
    BY <1>3 DEF Reflected
  <2> QED
    BY <1>2, <1>3, <2>1 DEF Verdict, At
<1> QED
  BY <1>1, <1>3 DEF Reflected

LEMMA JudgedNow ==
  ASSUME \A u, v \in Workers : u = v, NEW w \in Workers, worker'[w].pc \notin Judging,
         NEW m \in Models, InOrder(runs'[m]), Mirrors(incidents'[m], runs'[m], Len(runs'[m]))
  PROVE  Reflected(m)'
<1>1. \A v \in Workers : ~Judges(v, m)'
  BY DEF Judges
<1>2. Judged(m)' = Len(runs'[m])
  BY <1>1 DEF Judged
<1> QED
  BY <1>1, <1>2 DEF Reflected

LEMMA JudgingOne ==
  ASSUME TypeOK, NEW w \in Workers, NEW m \in Models, Judges(w, m), Reflected(m),
         NEW n, n = Len(runs[m]) - 1
  PROVE  /\ n \in Nat /\ n + 1 = Len(runs[m])
         /\ Mirrors(incidents[m], runs[m], n) /\ InOrder(runs[m])
         /\ runs[m][n + 1].at = worker[w].at /\ runs[m][n + 1].out = worker[w].out
<1>1. Verdict(w, m) /\ Judged(m) = n
  BY DEF Reflected, Judged
<1>2. runs[m] \in Seq(Run) /\ runs[m] # <<>>
  BY <1>1 DEF TypeOK, Verdict
<1>3. Len(runs[m]) \in Nat \ {0}
  BY <1>2
<1>4. n \in Nat /\ n + 1 = Len(runs[m])
  BY <1>3
<1> QED
  BY <1>1, <1>4 DEF Reflected, Verdict

LEMMA InsertReflects ==
  ASSUME TypeInv, TypeOK', NoneLater, \A u, v \in Workers : u = v,
         NEW w \in Workers, InsertRun(w), NEW m \in Models, m = Model(w),
         DistinctStarts(m) => Reflected(m), DistinctStarts(m)'
  PROVE  Reflected(m)'
<1> USE DEF TypeInv
<1> DEFINE r == runs[m]
           s == runs'[m]
           n == Len(r)
           run == NewRun(w)
<1>1. /\ At(w, "insert") /\ Goto(w, "cool") /\ jobs' = jobs /\ incidents' = incidents
      /\ runs' = [runs EXCEPT ![m] = Append(@, run)]
  BY DEF InsertRun
<1>2. /\ worker'[w].pc = "cool" /\ worker'[w].job = worker[w].job
      /\ worker'[w].at = worker[w].at /\ worker'[w].out = worker[w].out
  BY <1>1, GotoKeeps DEF PCs
<1>3. runs \in [Models -> Seq(Run)] /\ r \in Seq(Run) /\ n \in Nat /\ DOMAIN r = 1 .. n
  BY DEF TypeOK
<1>4. s = Append(r, run)
  BY <1>1, <1>3
<1>5. /\ Len(s) = n + 1 /\ s[n + 1] = run /\ DOMAIN s = 1 .. n + 1 /\ s # <<>>
      /\ \A k \in 1 .. n : s[k] = r[k]
  BY <1>3, <1>4
<1>6. Reflected(m)
  <2>0. \A i, k \in 1 .. n + 1 : i # k => s[i].at # s[k].at
    <3>1. \A i, k \in DOMAIN s : i # k => s[i].at # s[k].at
      BY DEF DistinctStarts
    <3> QED
      BY <1>5, <3>1
  <2>1. \A i, k \in 1 .. n : i # k => s[i].at # s[k].at
    <3>1. 1 .. n \subseteq 1 .. n + 1
      BY <1>3
    <3> QED
      BY <2>0, <3>1
  <2>2. DistinctStarts(m)
    BY <1>3, <1>5, <2>1 DEF DistinctStarts
  <2> QED
    BY <2>2
<1>7. \A v \in Workers : ~Judges(v, m)
  BY <1>1 DEF Judges, Judging, At
<1>8. Judges(w, m)'
  BY <1>1, <1>2 DEF Judges, Judging, Model
<1>9. Judged(m) = n /\ Judged(m)' = n
  <2>1. Judged(m) = n
    BY <1>7 DEF Judged
  <2>2. Judged(m)' = Len(s) - 1
    BY <1>8 DEF Judged
  <2>3. Len(s) - 1 = n
    BY <1>3, <1>5
  <2> QED
    BY <2>1, <2>2, <2>3
<1>10. ASSUME NEW i \in DOMAIN s, NEW k \in DOMAIN s, i < k PROVE s[i].at < s[k].at
  <2>1. CASE k = n + 1
    <3>1. i \in 1 .. n /\ s[i] = r[i] /\ s[k] = run
      BY <1>3, <1>5, <1>10, <2>1
    <3>2. r[i].at <= run.at
      BY <1>1, <1>3, <3>1 DEF NoneLater, NewRun, At
    <3>3. r[i].at # run.at
      BY <1>10, <3>1 DEF DistinctStarts
    <3>4. r[i].at \in Nat /\ run.at \in Nat
      BY <1>3, <3>1, RowsOf DEF NewRun, TypeOK, Worker
    <3> QED
      BY <3>1, <3>2, <3>3, <3>4
  <2>2. CASE k # n + 1
    <3>1. i \in 1 .. n /\ k \in 1 .. n /\ s[i] = r[i] /\ s[k] = r[k]
      BY <1>3, <1>5, <1>10, <2>2
    <3> QED
      BY <1>3, <1>6, <1>10, <3>1 DEF Reflected, InOrder
  <2> QED
    BY <2>1, <2>2
<1> HIDE DEF r, s, n, run
<1>11. InOrder(s)
  BY <1>10 DEF InOrder
<1>12. Mirrors(incidents[m], s, n)
  <2>1. Mirrors(incidents[m], r, n)
    BY <1>6, <1>9 DEF Reflected, r
  <2> QED
    BY <1>3, <1>5, <2>1, MirrorsPrefix
<1>13. Verdict(w, m)'
  <2>1. run.at = worker[w].at /\ run.out = worker[w].out
    BY DEF run, NewRun
  <2>2. s[Len(s)] = run
    BY <1>5
  <2> QED
    BY <1>2, <1>5, <2>1, <2>2 DEF Verdict, At, s
<1> QED
  BY <1>1, <1>9, <1>11, <1>12, <1>13 DEF Reflected, s

LEMMA ReadStreakReflects ==
  ASSUME TypeInv, \A u, v \in Workers : u = v,
         NEW w \in Workers, ReadStreak(w), NEW m \in Models, m = Model(w), Reflected(m)
  PROVE  Reflected(m)'
<1> USE DEF TypeInv
<1>1. PICK S \in LatestRuns(m) :
        worker' = [worker EXCEPT ![w].pc = "open",
                     ![w].streak = Cardinality(S) >= IncidentThreshold
                                   /\ \A i \in S : Failed(runs[m][i].out)]
  BY DEF ReadStreak
<1>2. At(w, "recent") /\ jobs' = jobs /\ runs' = runs /\ incidents' = incidents
  BY DEF ReadStreak, tables
<1>3. InOrder(runs[m]) /\ (Judges(w, m) => Verdict(w, m)) /\ Judges(w, m)
  BY <1>2 DEF Reflected, Judges, Judging, At
<1>4. /\ worker'[w].pc = "open" /\ worker'[w].job = worker[w].job
      /\ worker'[w].at = worker[w].at /\ worker'[w].out = worker[w].out
      /\ worker'[w].streak = (Cardinality(S) >= IncidentThreshold
                              /\ \A i \in S : Failed(runs[m][i].out))
  BY <1>1 DEF TypeOK, Worker
<1>5. worker'[w].streak = Streak(runs[m], Len(runs[m]))
  BY <1>3, <1>4, LatestAreLast
<1>6. Verdict(w, m)'
  BY <1>2, <1>3, <1>4, <1>5 DEF Verdict, At
<1>7. Judges(w, m)'
  BY <1>2, <1>4 DEF Judges, Judging, Model
<1>8. Judged(m)' = Judged(m)
  BY <1>2, <1>3, <1>7 DEF Judged
<1> QED
  BY <1>2, <1>6, <1>8 DEF Reflected

LEMMA ReadOpenReflects ==
  ASSUME TypeInv, \A u, v \in Workers : u = v,
         NEW w \in Workers, ReadOpen(w), NEW m \in Models, m = Model(w), Reflected(m)
  PROVE  Reflected(m)'
<1> USE DEF TypeInv
<1>1. PICK i \in LatestOpen(m) :
        worker' = [worker EXCEPT ![w].open = i,
                     ![w].pc = IF i # 0 \/ (Failed(worker[w].out) /\ worker[w].streak)
                               THEN "incident" ELSE "guard"]
  BY DEF ReadOpen
<1>2. At(w, "open") /\ jobs' = jobs /\ runs' = runs /\ incidents' = incidents
  BY DEF ReadOpen, tables
<1>3. Judges(w, m) /\ Verdict(w, m)
  BY <1>2 DEF Reflected, Judges, Judging, At
<1>4. /\ worker'[w].job = worker[w].job /\ worker'[w].at = worker[w].at
      /\ worker'[w].out = worker[w].out /\ worker'[w].streak = worker[w].streak
      /\ worker'[w].open = i
      /\ worker'[w].pc = IF i # 0 \/ (Failed(worker[w].out) /\ worker[w].streak)
                         THEN "incident" ELSE "guard"
  BY <1>1 DEF TypeOK, Worker
<1>5. IF i = 0 THEN OpenRows(m) = {} ELSE i \in OpenRows(m)
  <2>1. incidents[m] \in Seq(Incident)
    BY DEF TypeOK
  <2>2. 0 \notin OpenRows(m)
    BY <2>1 DEF OpenRows
  <2> QED
    BY <2>2 DEF LatestOpen
<1>6. CASE i # 0 \/ (Failed(worker[w].out) /\ worker[w].streak)
  <2>1. worker'[w].pc = "incident" /\ OpenRows(m)' = OpenRows(m)
    BY <1>2, <1>4, <1>6 DEF OpenRows
  <2>2. Verdict(w, m)'
    BY <1>2, <1>3, <1>4, <1>5, <1>6, <2>1 DEF Verdict, At
  <2>3. Judges(w, m)'
    BY <1>2, <1>3, <1>4, <2>1 DEF Judges, Judging, Model
  <2>4. Judged(m)' = Judged(m)
    BY <1>2, <1>3, <2>3 DEF Judged
  <2> QED
    BY <1>2, <2>2, <2>4 DEF Reflected
<1>7. CASE i = 0 /\ ~(Failed(worker[w].out) /\ worker[w].streak)
  <2> DEFINE r == runs[m]
             q == incidents[m]
             n == Len(r) - 1
  <2>1. /\ n \in Nat /\ n + 1 = Len(r) /\ Mirrors(q, r, n) /\ InOrder(r)
        /\ r[n + 1].out = worker[w].out
    BY <1>3, JudgingOne
  <2>2. q \in Seq(Incident) /\ \A k \in DOMAIN q : q[k].end # Never
    BY <1>5, <1>7 DEF TypeOK, OpenRows
  <2>3. worker[w].streak = Streak(r, n + 1)
    BY <1>2, <1>3, <2>1 DEF Verdict, At
  <2> HIDE DEF n
  <2>4. ~Streak(r, n + 1)
    <3>1. n + 1 \in Nat
      BY <2>1
    <3> QED
      BY <1>7, <2>1, <2>3, <3>1, StreakFails
  <2>5. Mirrors(q, r, Len(r))
    BY <2>1, <2>2, <2>4, Quiet
  <2>6. worker'[w].pc \notin Judging
    BY <1>4, <1>7 DEF Judging
  <2>7. InOrder(runs'[m]) /\ Mirrors(incidents'[m], runs'[m], Len(runs'[m]))
    BY <1>2, <2>1, <2>5
  <2> QED
    BY <2>6, <2>7, JudgedNow
<1> QED
  BY <1>6, <1>7

LEMMA WriteReflects ==
  ASSUME TypeInv, TypeOK', \A u, v \in Workers : u = v, NEW w \in Workers,
         RaiseIncident(w) \/ CloseIncident(w) \/ CountFailure(w),
         NEW m \in Models, m = Model(w), Reflected(m)
  PROVE  Reflected(m)'
<1> USE DEF TypeInv
<1> DEFINE r == runs[m]
           q == incidents[m]
           s == incidents'[m]
           n == Len(r) - 1
<1>1. At(w, "incident") /\ Goto(w, "guard") /\ runs' = runs
  BY DEF RaiseIncident, CloseIncident, CountFailure, WriteIncidents
<1>2. worker'[w].pc \notin Judging
  BY <1>1, GotoKeeps DEF PCs, Judging
<1>3. Judges(w, m) /\ Verdict(w, m)
  BY <1>1 DEF Reflected, Judges, Judging, At
<1>4. /\ n \in Nat /\ n + 1 = Len(r) /\ Mirrors(q, r, n) /\ InOrder(r)
      /\ r[n + 1].out = worker[w].out /\ r[n + 1].at = worker[w].at
  BY <1>3, JudgingOne
<1>5. /\ incidents \in [Models -> Seq(Incident)] /\ r \in Seq(Run)
      /\ q \in Seq(Incident) /\ s \in Seq(Incident) /\ n + 1 <= Len(r)
  BY <1>4 DEF TypeOK
<1>6. ASSUME NEW rows, WriteIncidents(w, rows) PROVE s = rows
  BY <1>5, <1>6 DEF WriteIncidents
<1>7. worker[w].open # 0 => worker[w].open \in DOMAIN q /\ q[worker[w].open].end = Never
  BY <1>1, <1>3 DEF Verdict, OpenRows
<1>8. CASE RaiseIncident(w)
  <2> DEFINE row == [start |-> worker[w].at, end |-> Never, count |-> IncidentThreshold]
  <2>1. s = Append(q, row) /\ worker[w].open = 0
    BY <1>6, <1>8 DEF RaiseIncident
  <2>2. OpenRows(m) = {} /\ Streak(r, n + 1)
    BY <1>1, <1>3, <1>4, <2>1 DEF Verdict, At
  <2>3. \A k \in DOMAIN q : q[k].end # Never
    BY <2>2 DEF OpenRows
  <2>4. row \in Incident /\ row.start = r[n + 1].at /\ row.end = Never
    BY <1>4, BenchJobAssumption DEF Incident, TypeOK, Worker
  <2> HIDE DEF row, n, q, r
  <2>5. Mirrors(s, r, Len(r))
    BY <1>4, <1>5, <2>1, <2>2, <2>3, <2>4, Raised
  <2> QED
    BY <1>1, <1>2, <1>4, <2>5, JudgedNow DEF r
<1>9. CASE CloseIncident(w)
  <2>1. /\ s = [q EXCEPT ![worker[w].open].end = worker[w].at, ![worker[w].open].count = @ + 1]
        /\ worker[w].open # 0 /\ ~Failed(worker[w].out)
    BY <1>6, <1>9 DEF CloseIncident
  <2>2. PICK o \in DOMAIN q : o = worker[w].open /\ q[o].end = Never
    BY <1>7, <2>1
  <2>3. /\ Len(s) = Len(q)
        /\ \A k \in DOMAIN q : s[k].start = q[k].start
        /\ \A k \in DOMAIN q : s[k].end = (IF k = o THEN r[n + 1].at ELSE q[k].end)
    <3>1. DOMAIN s = DOMAIN q /\ \A k \in DOMAIN q : q[k] \in Incident
      BY <1>5, <2>1
    <3>2. Len(s) = Len(q)
      BY <1>5, <3>1
    <3>3. \A k \in DOMAIN q : k # o => s[k] = q[k]
      BY <1>5, <2>1, <2>2
    <3>4. s[o].start = q[o].start /\ s[o].end = worker[w].at
      <4> DEFINE row == [q[o] EXCEPT !.end = worker[w].at, !.count = @ + 1]
      <4>1. s = [q EXCEPT ![o] = row]
        BY <2>1, <2>2
      <4>2. row.start = q[o].start /\ row.end = worker[w].at
        BY <3>1 DEF Incident
      <4> HIDE DEF row
      <4>3. s[o] = row
        BY <4>1
      <4> QED
        BY <4>2, <4>3
    <3> QED
      BY <1>4, <3>2, <3>3, <3>4
  <2> HIDE DEF n, q, r, s
  <2>4. Mirrors(s, r, n + 1)
    <3>1. ~Failed(r[n + 1].out) /\ q[o].end = Never
      BY <1>4, <2>1, <2>2
    <3> QED
      BY <1>4, <1>5, <2>3, <3>1, Closed
  <2> QED
    BY <1>1, <1>2, <1>4, <2>4, JudgedNow DEF n, r, s
<1>10. CASE CountFailure(w)
  <2>1. /\ s = [q EXCEPT ![worker[w].open].count = @ + 1]
        /\ worker[w].open # 0 /\ Failed(worker[w].out)
    BY <1>6, <1>10 DEF CountFailure
  <2>2. PICK o \in DOMAIN q : o = worker[w].open /\ q[o].end = Never
    BY <1>7, <2>1
  <2>3. Len(s) = Len(q) /\ \A k \in DOMAIN q : s[k].start = q[k].start /\ s[k].end = q[k].end
    <3>1. DOMAIN s = DOMAIN q /\ \A k \in DOMAIN q : q[k] \in Incident
      BY <1>5, <2>1
    <3>2. Len(s) = Len(q)
      BY <1>5, <3>1
    <3>3. \A k \in DOMAIN q : k # o => s[k] = q[k]
      BY <1>5, <2>1, <2>2
    <3>4. s[o].start = q[o].start /\ s[o].end = q[o].end
      BY <1>5, <2>1, <2>2, <3>1 DEF Incident
    <3> QED
      BY <3>2, <3>3, <3>4
  <2> HIDE DEF n, q, r, s
  <2>4. Mirrors(s, r, n + 1)
    <3>1. Failed(r[n + 1].out) /\ q[o].end = Never
      BY <1>4, <2>1, <2>2
    <3> QED
      BY <1>4, <1>5, <2>3, <3>1, Counted
  <2> QED
    BY <1>1, <1>2, <1>4, <2>4, JudgedNow DEF n, r, s
<1> QED
  BY <1>8, <1>9, <1>10

LEMMA LaneReflects ==
  ASSUME TypeInv, TypeOK', NoneLater, \A u, v \in Workers : u = v, NEW w \in Workers, Handle(w),
         NEW m \in Models, DistinctStarts(m) => Reflected(m), DistinctStarts(m)'
  PROVE  Reflected(m)'
<1> USE DEF TypeInv
<1>0. worker \in [Workers -> Worker] /\ worker[w] \in Worker
  BY DEF TypeOK
<1>1. ~Crash(w)
  <2>1. faults' = faults
    BY DEF Handle, Probe, InsertRun, ClearCooldown, NoCooldown, ReadProvider, BackOffProvider,
       TripProvider, RestModel, ReadStreak, ReadOpen, RaiseIncident, CloseIncident,
       CountFailure, WriteIncidents, ReadDay, BackOffModel, Disable, Finish
  <2> QED
    BY <2>1 DEF Crash, Abandon, Fault, TypeOK
<1>2. ~At(w, "idle") /\ Model(w) \in Models
  BY LaneEffects, BusyTypes
<1>3. Model(w)' = Model(w) \/ worker'[w].pc = "idle"
  <2>1. CASE Finish(w)
    BY <1>0, <2>1 DEF Finish, Release, Idle
  <2>2. CASE ~Finish(w)
    BY <1>1, <2>2, LaneMoves DEF Model
  <2> QED
    BY <2>1, <2>2
<1>4. ASSUME runs'[m] = runs[m] PROVE Reflected(m)
  BY <1>4 DEF DistinctStarts
<1>5. CASE InsertRun(w)
  <2>1. CASE m = Model(w)
    BY <1>5, <2>1, InsertReflects
  <2>2. CASE m # Model(w)
    <3>1. runs'[m] = runs[m] /\ incidents' = incidents
      BY <1>5, <2>2, InsertGrows DEF InsertRun
    <3>2. \A v \in Workers : ~Judges(v, m) /\ ~Judges(v, m)'
      BY <1>3, <2>2 DEF Judges, Judging
    <3> QED
      BY <1>4, <3>1, <3>2, ReflectedFrame
  <2> QED
    BY <2>1, <2>2
<1>6. ASSUME runs' = runs, m # Model(w)
      PROVE  Reflected(m)'
  <2>1. incidents'[m] = incidents[m]
    <3>1. CASE RaiseIncident(w) \/ CloseIncident(w) \/ CountFailure(w)
      <4>1. incidents \in [Models -> Seq(Incident)]
        BY DEF TypeOK
      <4>2. PICK rows : incidents' = [incidents EXCEPT ![Model(w)] = rows]
        BY <3>1 DEF RaiseIncident, CloseIncident, CountFailure, WriteIncidents
      <4> QED
        BY <1>6, <4>1, <4>2
    <3>2. CASE ~(RaiseIncident(w) \/ CloseIncident(w) \/ CountFailure(w))
      BY <3>2 DEF Handle, Probe, InsertRun, ClearCooldown, NoCooldown, ReadProvider,
         BackOffProvider, TripProvider, RestModel, ReadStreak, ReadOpen, ReadDay, BackOffModel,
         Disable, Finish, tables
    <3> QED
      BY <3>1, <3>2
  <2>2. \A v \in Workers : ~Judges(v, m) /\ ~Judges(v, m)'
    BY <1>3, <1>6 DEF Judges, Judging
  <2> QED
    BY <1>4, <1>6, <2>1, <2>2, ReflectedFrame
<1>7. CASE ReadStreak(w)
  <2>1. runs' = runs
    BY <1>7 DEF ReadStreak, tables
  <2> QED
    BY <1>4, <1>6, <1>7, <2>1, ReadStreakReflects
<1>8. CASE ReadOpen(w)
  <2>1. runs' = runs
    BY <1>8 DEF ReadOpen, tables
  <2> QED
    BY <1>4, <1>6, <1>8, <2>1, ReadOpenReflects
<1>9. CASE RaiseIncident(w) \/ CloseIncident(w) \/ CountFailure(w)
  <2>1. runs' = runs
    BY <1>9 DEF RaiseIncident, CloseIncident, CountFailure, WriteIncidents
  <2> QED
    BY <1>4, <1>6, <1>9, <2>1, WriteReflects
<1>10. CASE \/ ClearCooldown(w) \/ NoCooldown(w) \/ ReadProvider(w) \/ BackOffProvider(w)
            \/ TripProvider(w) \/ RestModel(w)
  <2>1. /\ runs' = runs /\ incidents' = incidents
        /\ worker[w].pc \in {"cool", "escalate", "rest"}
    BY <1>10 DEF ClearCooldown, NoCooldown, ReadProvider, BackOffProvider, TripProvider,
       RestModel, At, tables
  <2>2. /\ worker'[w].at = worker[w].at /\ worker'[w].out = worker[w].out
        /\ worker'[w].pc \in {"escalate", "rest", "recent"}
    <3>1. CASE ReadProvider(w)
      BY <1>0, <3>1 DEF ReadProvider, Worker
    <3>2. CASE ~ReadProvider(w)
      <4>1. PICK pc \in {"escalate", "rest", "recent"} : Goto(w, pc)
        BY <1>10, <3>2 DEF ClearCooldown, NoCooldown, BackOffProvider, TripProvider, RestModel
      <4> QED
        BY <4>1, GotoKeeps DEF PCs
    <3> QED
      BY <3>1, <3>2
  <2>3. \A v \in Workers : v = w
    OBVIOUS
  <2>4. \A v \in Workers : Judges(v, m)' <=> Judges(v, m)
    BY <1>3, <2>1, <2>2, <2>3 DEF Judges, Judging
  <2> QED
    BY <1>4, <2>1, <2>2, <2>3, <2>4, ReflectedFrame
<1>11. CASE \/ ReadDay(w) \/ BackOffModel(w) \/ Disable(w) \/ Finish(w)
            \/ \E o \in Outcomes : Probe(w, o)
  <2>1. /\ runs' = runs /\ incidents' = incidents
        /\ worker[w].pc \in {"guard", "backoff", "disable", "finish", "probe"}
    BY <1>11 DEF ReadDay, BackOffModel, Disable, Finish, Probe, At, tables
  <2>2. worker'[w].pc \notin Judging
    <3>1. CASE ReadDay(w)
      <4>1. PICK f, g :
              worker' = [worker EXCEPT ![w].pc = AfterCount(worker[w].out, f, g),
                                       ![w].fails = f, ![w].gone = g]
        BY <3>1 DEF ReadDay
      <4>2. worker'[w].pc = AfterCount(worker[w].out, f, g)
        BY <1>0, <4>1 DEF Worker
      <4> QED
        BY <4>2 DEF AfterCount, AfterBackoff, Judging
    <3>2. CASE BackOffModel(w) \/ Disable(w)
      <4>1. PICK pc \in {"disable", "finish"} : Goto(w, pc)
        BY <3>2 DEF BackOffModel, Disable, AfterBackoff
      <4> QED
        BY <4>1, GotoKeeps DEF PCs, Judging
    <3>3. CASE Finish(w)
      BY <1>0, <3>3 DEF Finish, Release, Idle, Judging
    <3>4. CASE \E o \in Outcomes : Probe(w, o)
      BY <1>0, <3>4 DEF Probe, Worker, Judging
    <3> QED
      BY <1>11, <3>1, <3>2, <3>3, <3>4
  <2>3. \A v \in Workers : v = w
    OBVIOUS
  <2>4. \A v \in Workers : ~Judges(v, m) /\ ~Judges(v, m)'
    BY <2>1, <2>2, <2>3 DEF Judges, Judging
  <2> QED
    BY <1>4, <2>1, <2>4, ReflectedFrame
<1> QED
  BY <1>5, <1>7, <1>8, <1>9, <1>10, <1>11 DEF Handle

LEMMA StepMirror ==
  ASSUME \A u, v \in Workers : u = v
  PROVE  TypeInv /\ TypeInv' /\ NoneLater /\ MirrorInv /\ [Next]_vars => MirrorInv'
<1> SUFFICES ASSUME TypeInv, TypeInv', NoneLater, MirrorInv, [Next]_vars, faults' = 0,
                    NEW m \in Models, DistinctStarts(m)'
             PROVE  Reflected(m)'
  BY DEF MirrorInv
<1> USE DEF TypeInv
<1>0. faults = 0
  <2>1. faults \in Nat /\ faults' >= faults
    BY FaultsGrow DEF TypeOK
  <2> QED
    BY <2>1
<1>f. ~Fault
  BY <1>0 DEF Fault
<1>1. DistinctStarts(m) => Reflected(m)
  BY <1>0 DEF MirrorInv
<1>2. ASSUME UNCHANGED <<runs, incidents, worker>>,
             \A j \in Jobs : jobs[j].st = "running" => jobs'[j].model = jobs[j].model
      PROVE  Reflected(m)'
  <2>1. Reflected(m)
    BY <1>1, <1>2 DEF DistinctStarts
  <2>2. ASSUME NEW v \in Workers PROVE Judges(v, m)' <=> Judges(v, m)
    <3>1. CASE At(v, "idle")
      BY <1>2, <3>1 DEF Judges, Judging, At
    <3>2. CASE ~At(v, "idle")
      BY <1>2, <3>2 DEF OwnJobs, Judges, Model
    <3> QED
      BY <3>1, <3>2
  <2> QED
    BY <1>2, <2>1, <2>2, ReflectedFrame
<1>3. ASSUME NEW j \in Jobs, NEW k \in Models, NEW via, Create(j, k, via)
      PROVE  Reflected(m)'
  BY <1>2, <1>3 DEF Create, tables, TypeOK
<1>4. ASSUME NEW j \in Jobs, Skip(j) \/ TickKilled(j)
      PROVE  Reflected(m)'
  BY <1>2, <1>4 DEF Skip, TickKilled, tables, TypeOK
<1>5. ASSUME NEW w \in Workers, NEW j \in Jobs, Receive(w, j)
      PROVE  Reflected(m)'
  <2>1. At(w, "idle") /\ UNCHANGED <<runs, incidents>>
    BY <1>5 DEF Receive, tables
  <2>2. worker'[w].pc = "probe"
    BY <1>5 DEF Receive, TypeOK, Idle
  <2>3. \A v \in Workers : v = w
    OBVIOUS
  <2>4. \A v \in Workers : ~Judges(v, m) /\ ~Judges(v, m)'
    BY <2>1, <2>2, <2>3 DEF Judges, Judging, At
  <2>5. Reflected(m)
    BY <1>1, <2>1 DEF DistinctStarts
  <2> QED
    BY <2>1, <2>4, <2>5, ReflectedFrame
<1>6. ASSUME NEW w \in Workers, Handle(w)
      PROVE  Reflected(m)'
  BY <1>1, <1>6, LaneReflects
<1>7. ASSUME NEW w \in Workers PROVE ~Mishap(w)
  BY <1>f DEF Mishap, InsertUnstamped, InsertRepeated, CallLost, Crash, Abandon
<1>8. CASE Admin
  BY <1>2, <1>3, <1>8 DEF Admin, AdminBenchmark, AdminSwitch, AdminSwitchProvider, Switch,
     AdminReset
<1>9. CASE (\E d \in TimeSteps : Tick(d)) \/ UNCHANGED vars
  BY <1>2, <1>9 DEF Tick, vars, tables
<1> QED
  BY <1>3, <1>4, <1>5, <1>6, <1>7, <1>8, <1>9 DEF Next, Schedule

(* An incident is an outage: with one lane and a working database, the     *)
(* availability_incidents that updateIncidents leaves behind for a model   *)
(* are exactly its outages, each once, with its start and its end, for any *)
(* threshold and however many outages and recoveries, as long as no two    *)
(* probes started in the same instant.                                     *)
THEOREM IncidentsAreOutages ==
  ASSUME \A u, v \in Workers : u = v
  PROVE  Spec => []IncidentsMirrorRuns
<1>1. Init => StampInv /\ NoneLater /\ MirrorInv
  <2>1. Init => StampInv /\ NoneLater
    BY DEF Init, StampInv, NoneLater, Idle
  <2>2. ASSUME Init, NEW m \in Models PROVE Reflected(m)
    <3>1. /\ runs[m] = <<>> /\ incidents[m] = <<>> /\ Judged(m) = 0
      BY <2>2 DEF Init, Judged, Judges, Judging, Idle
    <3>2. Starts(<<>>, 0) = {} /\ ~Streak(<<>>, 0)
      BY BenchJobAssumption DEF Starts, Streak
    <3>3. Mirrors(<<>>, <<>>, 0) /\ InOrder(<<>>)
      BY <3>2, FS_EmptySet DEF Mirrors, InOrder
    <3>4. \A w \in Workers : ~Judges(w, m)
      BY <2>2 DEF Init, Judges, Judging, Idle
    <3> QED
      BY <3>1, <3>3, <3>4 DEF Reflected
  <2> QED
    BY <2>1, <2>2 DEF MirrorInv
<1>2. TypeInv /\ TypeInv' /\ HistoryInv /\ StampInv /\ NoneLater /\ [Next]_vars
        => StampInv' /\ NoneLater'
  BY StepStamp
<1>3. TypeInv /\ TypeInv' /\ NoneLater /\ MirrorInv /\ [Next]_vars => MirrorInv'
  BY StepMirror
<1>4. TypeInv /\ MirrorInv => IncidentsMirrorRuns
  <2> SUFFICES ASSUME TypeInv, MirrorInv, NEW m \in Models,
                      faults = 0, ~Busy(m), DistinctStarts(m)
               PROVE  /\ {[start |-> incidents[m][k].start, end |-> incidents[m][k].end] :
                            k \in DOMAIN incidents[m]} = {Outage(m, i) : i \in StreakStarts(m)}
                      /\ Len(incidents[m]) = Cardinality(StreakStarts(m))
    BY DEF IncidentsMirrorRuns
  <2>1. Reflected(m)
    BY DEF MirrorInv
  <2>2. \A w \in Workers : ~Judges(w, m)
    BY DEF Busy, Judges, Judging, At
  <2>3. Judged(m) = Len(runs[m])
    BY <2>2 DEF Judged
  <2> QED
    BY <2>1, <2>3, MirrorShows DEF Reflected, TypeInv
<1> QED
  BY <1>1, <1>2, <1>3, <1>4, HistoryHolds, PTL DEF Spec
=============================================================================
