--------------------------- MODULE BenchJobProofs ---------------------------
(***************************************************************************)
(* Proofs about BenchJob for any models, providers, jobs and outcomes, any *)
(* finite set of lanes, any limits and any number of faults: its type      *)
(* invariant and its promises, and that it implements JobLedger and keeps  *)
(* the ledger's.                                                           *)
(***************************************************************************)
EXTENDS BenchJob, FiniteSetTheorems, SequenceTheorems, TLAPS

(* A busy lane has a running job, and no two lanes the same one.           *)
OwnJobs ==
  \A w \in Workers : ~At(w, "idle") =>
    /\ worker[w].job \in Jobs
    /\ jobs[worker[w].job].st = "running"
    /\ \A v \in Workers \ {w} : ~At(v, "idle") => worker[v].job # worker[w].job

(* Where a lane stands tells which cooldown rule brought it there.         *)
RuleKept ==
  \A w \in Workers :
    /\ At(w, "escalate") => Rule(w) \in EscalatingRules
    /\ At(w, "rest") => Rule(w) \in ProviderRules

(* The incident a lane has read exists.                                    *)
OpenExists ==
  \A w \in Workers : At(w, "incident") =>
    worker[w].open = 0 \/ worker[w].open \in DOMAIN incidents[Model(w)]

TypeInv == TypeOK /\ OwnJobs /\ RuleKept /\ OpenExists

(* Counting the lanes about to raise an incident makes IncidentBound       *)
(* inductive: one is added only while no incident is open.                 *)
RaisersBounded ==
  \A m \in Models :
    Cardinality(OpenRows(m)) + Cardinality(Raisers(m)) <= Cardinality(Workers)

-----------------------------------------------------------------------------
(* The rules of Cooldown.                                                  *)

(* Every failure that has a rule rests the model, for at most 10 minutes.  *)
LEMMA ModelRestType ==
  ASSUME NEW r \in Rules \ {"clear", "none"}
  PROVE  ModelRest[r] \in 0 .. Day
BY DEF Rules, ModelRest, Day, Hours, Minutes

LEMMA CooldownRuleType ==
  ASSUME NEW o
  PROVE  CooldownRule(o) \in Rules
BY DEF CooldownRule, Rules

LEMMA EarlierType ==
  ASSUME NEW x \in Nat, NEW c \in Nat
  PROVE  Earlier(x, c) \in 0 .. c
BY DEF Earlier

LEMMA LaterType ==
  ASSUME NEW x \in Int, NEW c \in Nat
  PROVE  Later(x, c) \in Nat
BY DEF Later

(* Doubling never passes the cap.                                          *)
LEMMA EscalatedDurationBounded ==
  ASSUME NEW remaining \in Int, NEW base \in Nat, NEW cap \in Nat, base <= cap
  PROVE  EscalatedDuration(remaining, base, cap) \in 0 .. cap
<1> DEFINE twice  == 2 * remaining
           wanted == Later(twice, base)
<1>1. CASE remaining <= 0
  BY <1>1 DEF EscalatedDuration
<1>2. CASE ~(remaining <= 0)
  <2>1. EscalatedDuration(remaining, base, cap) = Earlier(wanted, cap)
    BY <1>2 DEF EscalatedDuration
  <2>2. twice \in Int
    OBVIOUS
  <2> HIDE DEF twice
  <2>3. wanted \in Nat
    BY <2>2, LaterType
  <2> HIDE DEF wanted
  <2>4. Earlier(wanted, cap) \in 0 .. cap
    BY <2>3, EarlierType
  <2> QED
    BY <2>1, <2>4
<1> QED
  BY <1>1, <1>2

LEMMA RateLimitCapBounded ==
  ASSUME NEW r \in Nat, r <= 2880
  PROVE  /\ RateLimitCap(r) \in Nat /\ 2 <= RateLimitCap(r)
         /\ RateLimitCap(r) <= 2880 /\ r <= RateLimitCap(r)
<1>1. COOLDOWN_MAX = 240 /\ Minutes(15) = 30
  BY DEF COOLDOWN_MAX, Hours, Minutes
<1>2. CASE r > 0
  BY <1>1, <1>2 DEF RateLimitCap, Later
<1>3. CASE ~(r > 0)
  BY <1>1, <1>3 DEF RateLimitCap, Earlier
<1> QED
  BY <1>2, <1>3

(* A provider is backed off for at most 24 hours, whatever is left of its  *)
(* cooldown and whatever Retry-After it sent.                              *)
LEMMA ProviderBackoffBounded ==
  ASSUME NEW o \in Outcome, NEW remaining \in Int
  PROVE  ProviderBackoff(o, remaining) \in 0 .. Day
<1> DEFINE base  == BackoffBase(o)
           cap   == BackoffCap(o)
           after == o.retryAfter
<1>1. after \in Nat /\ after <= 2880
  <2>1. MAX_RETRY_AFTER = 2880
    BY DEF MAX_RETRY_AFTER, Day, Hours, Minutes
  <2>2. after \in 0 .. MAX_RETRY_AFTER
    BY DEF Outcome
  <2> HIDE DEF after
  <2> QED
    BY <2>1, <2>2
<1>2. base \in Nat /\ cap \in Nat /\ cap <= 2880 /\ base <= cap
  <2>1. CASE CooldownRule(o) = "quota"
    <3>1. base = 30 /\ cap = 240
      BY <2>1 DEF BackoffBase, BackoffCap, COOLDOWN_MAX, Hours, Minutes
    <3> QED
      BY <3>1
  <2>2. CASE CooldownRule(o) # "quota"
    <3>1. cap = RateLimitCap(after)
      BY <2>2 DEF BackoffCap
    <3>2. base = IF after > 0 THEN after ELSE 2
      BY <2>2 DEF BackoffBase, Minutes
    <3>3. /\ cap \in Nat /\ 2 <= cap
          /\ cap <= 2880 /\ after <= cap
      <4> HIDE DEF after
      <4> QED
        BY <1>1, <3>1, RateLimitCapBounded
    <3> HIDE DEF base, cap, after
    <3> QED
      BY <1>1, <3>2, <3>3
  <2> QED
    BY <2>1, <2>2
<1> HIDE DEF base, cap
<1> DEFINE duration == EscalatedDuration(remaining, base, cap)
<1>3. duration \in 0 .. cap
  BY <1>2, EscalatedDurationBounded
<1>4. Day = 2880
  BY DEF Day, Hours, Minutes
<1>5. ProviderBackoff(o, remaining) = duration
  BY DEF ProviderBackoff, base, cap
<1> HIDE DEF duration
<1>6. duration \in 0 .. 2880
  BY <1>2, <1>3
<1> QED
  BY <1>4, <1>5, <1>6

(* The guard's doubling stops at 24 hours for any number of failures.      *)
LEMMA ModelBackoffBounded ==
  ASSUME NEW o, NEW failures \in Nat
  PROVE  EscalatedModelCooldown(GuardBase(o), failures) \in 0 .. Day
<1>1. GuardBase(o) \in {4, 6, 20}
  BY DEF GuardBase, Minutes
<1>2. ASSUME NEW i \in 1 .. 20
      PROVE  TwoTo[i] \in Nat
  BY DEF TwoTo
<1>3. failures > 1 => Earlier(failures - 1, 20) \in 1 .. 20
  BY DEF Earlier
<1>4. ASSUME failures > 1
      PROVE  GuardBase(o) * TwoTo[Earlier(failures - 1, 20)] \in Nat
  BY <1>1, <1>2, <1>3, <1>4
<1>5. ASSUME NEW x \in Nat
      PROVE  Earlier(x, MODEL_COOLDOWN_CAP) \in 0 .. Day
  BY DEF Earlier, MODEL_COOLDOWN_CAP, Day, Hours, Minutes
<1>6. GuardBase(o) \in Nat
  BY <1>1
<1> QED
  BY <1>4, <1>5, <1>6 DEF EscalatedModelCooldown

-----------------------------------------------------------------------------
(* Steps of a lane.                                                        *)

Others(w) == \A v \in Workers \ {w} : worker'[v] = worker[v]

(* Moving a lane on changes nothing but its program counter.               *)
LEMMA GotoKeeps ==
  ASSUME TypeOK, NEW w \in Workers, NEW pc \in PCs, Goto(w, pc)
  PROVE  /\ worker' \in [Workers -> Worker]
         /\ Others(w)
         /\ worker'[w].pc = pc
         /\ worker'[w].job = worker[w].job /\ worker'[w].at = worker[w].at
         /\ worker'[w].out = worker[w].out /\ worker'[w].open = worker[w].open
BY DEF TypeOK, Goto, Others, Worker

LEMMA LaneUpdate ==
  ASSUME TypeOK, NEW w \in Workers, NEW r \in Worker, worker' = [worker EXCEPT ![w] = r]
  PROVE  worker' \in [Workers -> Worker] /\ Others(w) /\ worker'[w] = r
BY DEF TypeOK, Others

(* A busy lane's model, provider and outcome are what they should be.      *)
LEMMA BusyTypes ==
  ASSUME TypeOK, OwnJobs, NEW w \in Workers, ~At(w, "idle")
  PROVE  /\ worker[w].job \in Jobs
         /\ Model(w) \in Models /\ Prov(w) \in Providers
         /\ worker[w].out \in Outcome
<1>1. worker[w].job \in Jobs
  BY DEF OwnJobs
<1>2. Model(w) \in Models
  BY <1>1 DEF TypeOK, Model, Job
<1>3. Prov(w) \in Providers
  BY <1>2, BenchJobAssumption DEF Prov
<1>4. worker[w].out \in Outcome
  BY DEF TypeOK, Worker
<1> QED
  BY <1>1, <1>2, <1>3, <1>4

(* What a step of a busy lane has to show to keep the lanes consistent.    *)
LEMMA LaneStep ==
  ASSUME OwnJobs, RuleKept, OpenExists, NEW w \in Workers, ~At(w, "idle"),
         TypeOK, UNCHANGED jobs, Others(w),
         worker'[w].job = worker[w].job, worker'[w].pc # "idle",
         \A m \in Models : DOMAIN incidents[m] \subseteq DOMAIN incidents'[m],
         worker'[w].pc = "escalate" => CooldownRule(worker'[w].out) \in EscalatingRules,
         worker'[w].pc = "rest" => CooldownRule(worker'[w].out) \in ProviderRules,
         worker'[w].pc = "incident" =>
           worker'[w].open = 0 \/ worker'[w].open \in DOMAIN incidents'[Model(w)]
  PROVE  OwnJobs' /\ RuleKept' /\ OpenExists'
<1>1. OwnJobs'
  BY DEF OwnJobs, Others, At
<1>2. RuleKept'
  BY DEF RuleKept, Others, At, Rule
<1>3. OpenExists'
  <2>1. ASSUME NEW v \in Workers \ {w}, At(v, "incident")'
        PROVE  (worker[v].open = 0 \/ worker[v].open \in DOMAIN incidents[Model(v)])'
    <3>1. worker'[v] = worker[v] /\ At(v, "incident")
      BY <2>1 DEF Others, At
    <3>2. Model(v) \in Models
      BY <3>1, BusyTypes DEF At
    <3> QED
      BY <3>1, <3>2 DEF OpenExists, Model
  <2>2. At(w, "incident")' =>
          (worker[w].open = 0 \/ worker[w].open \in DOMAIN incidents[Model(w)])'
    BY DEF At, Model
  <2> QED
    BY <2>1, <2>2 DEF OpenExists
<1> QED
  BY <1>1, <1>2, <1>3

-----------------------------------------------------------------------------
(* Each step of a busy lane keeps TypeInv and CooldownsBounded.            *)

(* Steps that write no table.                                              *)
LEMMA ProbeKeeps ==
  ASSUME TypeInv, NEW w \in Workers, NEW o \in Outcomes, Probe(w, o)
  PROVE  TypeInv'
<1> USE DEF TypeInv
<1>1. ~At(w, "idle") /\ o \in Outcome /\ worker[w] \in Worker /\ now \in Nat
  BY BenchJobAssumption DEF Probe, At, TypeOK
<1>t. PICK t \in StartedAt(w, o) :
        worker' = [worker EXCEPT ![w].pc = "insert", ![w].out = o, ![w].at = t]
  BY DEF Probe
<1>n. t \in Nat
  BY <1>1, <1>t DEF StartedAt, Worker
<1> DEFINE r == [worker[w] EXCEPT !.pc = "insert", !.out = o, !.at = t]
<1>2. /\ r \in Worker /\ r.pc = "insert" /\ r.job = worker[w].job
      /\ worker' = [worker EXCEPT ![w] = r]
  BY <1>1, <1>t, <1>n DEF Worker, PCs
<1> HIDE DEF r
<1>3. worker' \in [Workers -> Worker] /\ Others(w) /\ worker'[w] = r
  BY <1>2, LaneUpdate
<1>4. OwnJobs' /\ RuleKept' /\ OpenExists'
  BY <1>1, <1>2, <1>3, LaneStep DEF Probe, tables
<1> QED
  BY <1>3, <1>4 DEF TypeOK, Probe, tables

LEMMA GotoStep ==
  ASSUME TypeInv, NEW w \in Workers, NEW pc \in PCs \ {"idle", "escalate", "rest", "incident"},
         ~At(w, "idle"), Goto(w, pc), UNCHANGED jobs,
         \A m \in Models : DOMAIN incidents[m] \subseteq DOMAIN incidents'[m]
  PROVE  worker' \in [Workers -> Worker] /\ OwnJobs' /\ RuleKept' /\ OpenExists'
<1> USE DEF TypeInv
<1>1. worker' \in [Workers -> Worker] /\ Others(w) /\ worker'[w].pc = pc
      /\ worker'[w].job = worker[w].job
  BY GotoKeeps
<1> QED
  BY <1>1, LaneStep

LEMMA InsertKeeps ==
  ASSUME TypeInv, NEW w \in Workers,
         InsertRun(w) \/ InsertUnstamped(w) \/ InsertRepeated(w)
  PROVE  TypeInv'
<1> USE DEF TypeInv
<1>1. ~At(w, "idle") /\ Goto(w, "cool") /\ UNCHANGED <<jobs, incidents>>
  BY DEF InsertRun, InsertUnstamped, InsertRepeated, At
<1>2. NewRun(w) \in Run
  BY <1>1, BusyTypes DEF NewRun, Run, TypeOK, Worker
<1>3. runs' \in [Models -> Seq(Run)]
  <2> DEFINE once  == Append(runs[Model(w)], NewRun(w))
             twice == Append(once, NewRun(w))
  <2>1. runs' = [runs EXCEPT ![Model(w)] = once] \/ runs' = [runs EXCEPT ![Model(w)] = twice]
    BY DEF InsertRun, InsertUnstamped, InsertRepeated
  <2>2. Model(w) \in Models /\ runs[Model(w)] \in Seq(Run)
    BY <1>1, BusyTypes DEF TypeOK
  <2>3. once \in Seq(Run)
    BY <1>2, <2>2, AppendProperties
  <2> HIDE DEF once
  <2>4. twice \in Seq(Run)
    BY <1>2, <2>3, AppendProperties
  <2> HIDE DEF twice
  <2> QED
    BY <2>1, <2>2, <2>3, <2>4 DEF TypeOK
<1>4. stamp' \in [Models -> Nat \cup {Never}] /\ faults' \in Nat
  <2> DEFINE start == worker[w].at
  <2>1. start \in Nat /\ stamp \in [Models -> Nat \cup {Never}] /\ faults \in Nat
    BY DEF TypeOK, Worker
  <2>2. stamp' = stamp \/ stamp' = [stamp EXCEPT ![Model(w)] = start]
    BY DEF InsertRun, InsertUnstamped, InsertRepeated
  <2>3. faults' = faults \/ faults' = faults + 1
    BY DEF InsertRun, InsertUnstamped, InsertRepeated, Fault
  <2> HIDE DEF start
  <2>4. stamp' \in [Models -> Nat \cup {Never}]
    BY <2>1, <2>2
  <2>5. faults' \in Nat
    BY <2>1, <2>3
  <2> QED
    BY <2>4, <2>5
<1>5. worker' \in [Workers -> Worker] /\ OwnJobs' /\ RuleKept' /\ OpenExists'
  BY <1>1, GotoStep DEF PCs
<1> QED
  BY <1>3, <1>4, <1>5 DEF InsertRun, InsertUnstamped, InsertRepeated, TypeOK

(* Setting a cooldown to at most a day from now.                           *)
LEMMA SetModelCoolKeeps ==
  ASSUME TypeOK, CooldownsBounded, NEW m \in Models, NEW d \in 0 .. Day,
         modelCool' = [modelCool EXCEPT ![m] = now + d] \/ SetModelCool(m, 0),
         UNCHANGED <<now, provCool>>
  PROVE  modelCool' \in [Models -> Nat] /\ CooldownsBounded'
<1>1. Day = 2880
  BY DEF Day, Hours, Minutes
<1>2. PICK until \in 0 .. (now + Day) : modelCool' = [modelCool EXCEPT ![m] = until]
  <2>1. 0 \in 0 .. (now + Day) /\ now + d \in 0 .. (now + Day)
    BY <1>1 DEF TypeOK
  <2> QED
    BY <2>1 DEF SetModelCool
<1> QED
  BY <1>1, <1>2 DEF TypeOK, CooldownsBounded

LEMMA SetProvCoolKeeps ==
  ASSUME TypeOK, CooldownsBounded, NEW p \in Providers, NEW d \in 0 .. Day,
         SetProvCool(p, now + d), UNCHANGED <<now, modelCool>>
  PROVE  provCool' \in [Providers -> Nat] /\ CooldownsBounded'
BY DEF TypeOK, CooldownsBounded, SetProvCool, Day, Hours, Minutes

LEMMA ClearKeeps ==
  ASSUME TypeInv, CooldownsBounded, NEW w \in Workers, ClearCooldown(w) \/ NoCooldown(w)
  PROVE  TypeInv' /\ CooldownsBounded'
<1> USE DEF TypeInv
<1>1. ~At(w, "idle") /\ Goto(w, "recent") /\ UNCHANGED <<now, jobs, incidents, provCool>>
  BY DEF ClearCooldown, NoCooldown, At, tables
<1>2. worker' \in [Workers -> Worker] /\ OwnJobs' /\ RuleKept' /\ OpenExists'
  BY <1>1, GotoStep DEF PCs
<1>3. modelCool' \in [Models -> Nat] /\ CooldownsBounded'
  <2>1. CASE ClearCooldown(w)
    BY <2>1, <1>1, BusyTypes DEF ClearCooldown, SetModelCool, CooldownsBounded, TypeOK,
       Day, Hours, Minutes
  <2>2. CASE NoCooldown(w)
    BY <2>2 DEF NoCooldown, tables, CooldownsBounded, TypeOK
  <2> QED
    BY <2>1, <2>2
<1> QED
  BY <1>2, <1>3 DEF ClearCooldown, NoCooldown, tables, TypeOK

LEMMA ReadProviderKeeps ==
  ASSUME TypeInv, NEW w \in Workers, ReadProvider(w)
  PROVE  TypeInv'
<1> USE DEF TypeInv
<1> DEFINE r == [worker[w] EXCEPT !.pc = "escalate", !.remaining = provCool[Prov(w)] - now]
<1>1. ~At(w, "idle") /\ worker[w] \in Worker /\ provCool[Prov(w)] - now \in Int
  BY BusyTypes DEF ReadProvider, At, TypeOK
<1>2. /\ r \in Worker /\ r.pc = "escalate" /\ r.job = worker[w].job
      /\ r.out = worker[w].out
      /\ worker' = [worker EXCEPT ![w] = r]
  BY <1>1 DEF ReadProvider, Worker, PCs
<1> HIDE DEF r
<1>3. worker' \in [Workers -> Worker] /\ Others(w) /\ worker'[w] = r
  BY <1>2, LaneUpdate
<1>4. OwnJobs' /\ RuleKept' /\ OpenExists'
  BY <1>1, <1>2, <1>3, LaneStep DEF ReadProvider, tables, Rule
<1> QED
  BY <1>3, <1>4 DEF TypeOK, ReadProvider, tables

(* Both ways of setting a provider's cooldown.                             *)
LEMMA ProviderKeeps ==
  ASSUME TypeInv, CooldownsBounded, NEW w \in Workers, BackOffProvider(w) \/ TripProvider(w)
  PROVE  TypeInv' /\ CooldownsBounded'
<1> USE DEF TypeInv
<1>1. ~At(w, "idle") /\ Goto(w, "rest")
      /\ UNCHANGED <<now, jobs, runs, stamp, enabled, modelCool, incidents, faults>>
  BY DEF BackOffProvider, TripProvider, At
<1>2. Prov(w) \in Providers /\ worker[w].out \in Outcome /\ worker[w].remaining \in Int
  BY <1>1, BusyTypes DEF TypeOK, Worker
<1>3. PICK d \in 0 .. Day : SetProvCool(Prov(w), now + d)
  <2>1. CASE BackOffProvider(w)
    BY <2>1, <1>2, ProviderBackoffBounded DEF BackOffProvider
  <2>2. CASE TripProvider(w)
    BY <2>2 DEF TripProvider, Day, Hours, Minutes
  <2> QED
    BY <2>1, <2>2
<1>4. provCool' \in [Providers -> Nat] /\ CooldownsBounded'
  BY <1>1, <1>2, <1>3, SetProvCoolKeeps
<1>5. worker' \in [Workers -> Worker] /\ Others(w) /\ worker'[w].pc = "rest"
      /\ worker'[w].job = worker[w].job /\ worker'[w].out = worker[w].out
  BY <1>1, GotoKeeps DEF PCs
<1>6. CooldownRule(worker'[w].out) \in ProviderRules
  BY <1>5 DEF BackOffProvider, TripProvider, RuleKept, Rule, ProviderRules
<1>7. OwnJobs' /\ RuleKept' /\ OpenExists'
  BY <1>1, <1>5, <1>6, LaneStep
<1> QED
  BY <1>1, <1>4, <1>5, <1>7 DEF TypeOK

LEMMA RestModelKeeps ==
  ASSUME TypeInv, CooldownsBounded, NEW w \in Workers, RestModel(w)
  PROVE  TypeInv' /\ CooldownsBounded'
<1> USE DEF TypeInv
<1>1. ~At(w, "idle") /\ Goto(w, "recent")
      /\ UNCHANGED <<now, jobs, runs, stamp, enabled, provCool, incidents, faults>>
  BY DEF RestModel, At
<1>2. Rule(w) \in Rules \ {"clear", "none"}
  BY CooldownRuleType DEF RestModel, Rule, RuleKept, ProviderRules, EscalatingRules
<1>3. modelCool' \in [Models -> Nat] /\ CooldownsBounded'
  <2>1. modelCool' = [modelCool EXCEPT ![Model(w)] = now + ModelRest[Rule(w)]]
    BY DEF RestModel, SetModelCool
  <2> QED
    BY <2>1, <1>1, <1>2, ModelRestType, BusyTypes, SetModelCoolKeeps
<1>4. worker' \in [Workers -> Worker] /\ OwnJobs' /\ RuleKept' /\ OpenExists'
  BY <1>1, GotoStep DEF PCs
<1> QED
  BY <1>1, <1>3, <1>4 DEF TypeOK

LEMMA BackOffModelKeeps ==
  ASSUME TypeInv, CooldownsBounded, NEW w \in Workers, BackOffModel(w)
  PROVE  TypeInv' /\ CooldownsBounded'
<1> USE DEF TypeInv
<1> DEFINE next == AfterBackoff(worker[w].fails, worker[w].gone)
<1>1. ~At(w, "idle") /\ Goto(w, next)
      /\ UNCHANGED <<now, jobs, runs, stamp, enabled, provCool, incidents, faults>>
  BY DEF BackOffModel, At
<1>2. next \in PCs \ {"idle", "escalate", "rest", "incident"}
  BY DEF AfterBackoff, PCs
<1>3. modelCool' \in [Models -> Nat] /\ CooldownsBounded'
  <2>1. worker[w].fails \in Nat
    BY DEF TypeOK, Worker
  <2>2. modelCool' = [modelCool EXCEPT ![Model(w)] =
          now + EscalatedModelCooldown(GuardBase(worker[w].out), worker[w].fails)]
    BY DEF BackOffModel, SetModelCool
  <2> QED
    BY <2>1, <2>2, <1>1, ModelBackoffBounded, BusyTypes, SetModelCoolKeeps
<1>4. worker' \in [Workers -> Worker] /\ OwnJobs' /\ RuleKept' /\ OpenExists'
  BY <1>1, <1>2, GotoStep
<1> QED
  BY <1>1, <1>3, <1>4 DEF TypeOK

(* The reads of updateIncidents and of the guard.                          *)
LEMMA ReadStreakKeeps ==
  ASSUME TypeInv, NEW w \in Workers, ReadStreak(w)
  PROVE  TypeInv'
<1> USE DEF TypeInv
<1>1. PICK b \in BOOLEAN : worker' = [worker EXCEPT ![w].pc = "open", ![w].streak = b]
  BY DEF ReadStreak
<1> DEFINE r == [worker[w] EXCEPT !.pc = "open", !.streak = b]
<1>2. ~At(w, "idle") /\ worker[w] \in Worker
  BY DEF ReadStreak, At, TypeOK
<1>3. /\ r \in Worker /\ r.pc = "open" /\ r.job = worker[w].job
      /\ worker' = [worker EXCEPT ![w] = r]
  BY <1>1, <1>2 DEF Worker, PCs
<1> HIDE DEF r
<1>4. worker' \in [Workers -> Worker] /\ Others(w) /\ worker'[w] = r
  BY <1>3, LaneUpdate
<1>5. OwnJobs' /\ RuleKept' /\ OpenExists'
  BY <1>2, <1>3, <1>4, LaneStep DEF ReadStreak, tables
<1> QED
  BY <1>4, <1>5 DEF TypeOK, ReadStreak, tables

LEMMA ReadOpenKeeps ==
  ASSUME TypeInv, NEW w \in Workers, ReadOpen(w)
  PROVE  TypeInv'
<1> USE DEF TypeInv
<1>1. PICK i \in LatestOpen(Model(w)), pc \in {"incident", "guard"} :
        worker' = [worker EXCEPT ![w].open = i, ![w].pc = pc]
  BY DEF ReadOpen
<1>2. ~At(w, "idle") /\ worker[w] \in Worker /\ Model(w) \in Models
  BY BusyTypes DEF ReadOpen, At, TypeOK
<1>3. i \in Nat /\ (i = 0 \/ i \in DOMAIN incidents[Model(w)])
  <2>1. incidents[Model(w)] \in Seq(Incident)
    BY <1>2 DEF TypeOK
  <2>2. DOMAIN incidents[Model(w)] \subseteq Nat
    BY <2>1
  <2> QED
    BY <2>2, <1>1 DEF LatestOpen, OpenRows
<1> DEFINE r == [worker[w] EXCEPT !.open = i, !.pc = pc]
<1>4. /\ r \in Worker /\ r.pc = pc /\ r.open = i /\ r.job = worker[w].job
      /\ worker' = [worker EXCEPT ![w] = r]
  BY <1>1, <1>2, <1>3 DEF Worker, PCs
<1> HIDE DEF r
<1>5. worker' \in [Workers -> Worker] /\ Others(w) /\ worker'[w] = r
  BY <1>4, LaneUpdate
<1>6. UNCHANGED <<jobs, incidents>>
  BY DEF ReadOpen, tables
<1>7. OwnJobs' /\ RuleKept' /\ OpenExists'
  BY <1>2, <1>3, <1>4, <1>5, <1>6, LaneStep
<1> QED
  BY <1>5, <1>7 DEF TypeOK, ReadOpen, tables

LEMMA ReadDayKeeps ==
  ASSUME TypeInv, NEW w \in Workers, ReadDay(w)
  PROVE  TypeInv'
<1> USE DEF TypeInv
<1>1. ~At(w, "idle") /\ worker[w] \in Worker /\ Model(w) \in Models
  BY BusyTypes DEF ReadDay, At, TypeOK
<1> DEFINE fails == Cardinality(Failures(Model(w), DayRuns(Model(w))))
           gone  == Cardinality(GoneHits(Model(w), DayRuns(Model(w))))
           pc    == AfterCount(worker[w].out, fails, gone)
           r     == [worker[w] EXCEPT !.pc = pc, !.fails = fails, !.gone = gone]
<1>2. fails \in Nat /\ gone \in Nat
  <2>1. IsFiniteSet(1 .. Len(runs[Model(w)]))
    BY <1>1, FS_Interval DEF TypeOK
  <2>2. DOMAIN runs[Model(w)] = 1 .. Len(runs[Model(w)])
    BY <1>1 DEF TypeOK
  <2>3. /\ Failures(Model(w), DayRuns(Model(w))) \subseteq DOMAIN runs[Model(w)]
        /\ GoneHits(Model(w), DayRuns(Model(w))) \subseteq DOMAIN runs[Model(w)]
    BY DEF Failures, GoneHits, DayRuns
  <2> QED
    BY <2>1, <2>2, <2>3, FS_Subset, FS_CardinalityType
<1>3. pc \in {"backoff", "disable", "finish"}
  BY DEF AfterCount, AfterBackoff
<1>4. worker' = [worker EXCEPT ![w].pc = pc, ![w].fails = fails, ![w].gone = gone]
  BY DEF ReadDay
<1> HIDE DEF fails, gone, pc
<1>5. /\ r \in Worker /\ r.pc = pc /\ r.job = worker[w].job
      /\ worker' = [worker EXCEPT ![w] = r]
  BY <1>1, <1>2, <1>3, <1>4 DEF Worker, PCs
<1> HIDE DEF r
<1>6. worker' \in [Workers -> Worker] /\ Others(w) /\ worker'[w] = r
  BY <1>5, LaneUpdate
<1>7. UNCHANGED <<jobs, incidents>>
  BY DEF ReadDay, tables
<1>8. OwnJobs' /\ RuleKept' /\ OpenExists'
  BY <1>1, <1>3, <1>5, <1>6, <1>7, LaneStep
<1> QED
  BY <1>6, <1>8 DEF TypeOK, ReadDay, tables

-----------------------------------------------------------------------------
(* Writing incidents: a row is appended, or one row changes in place.      *)
LEMMA IncidentUpdate ==
  ASSUME NEW r \in Incident, NEW t \in Nat
  PROVE  /\ [r EXCEPT !.count = @ + 1] \in Incident
         /\ [r EXCEPT !.end = t, !.count = @ + 1] \in Incident
<1>1. r.count + 1 \in Nat
  BY DEF Incident
<1>2. ASSUME NEW n \in Nat
      PROVE  [r EXCEPT !.count = n] \in Incident
  BY DEF Incident
<1>3. ASSUME NEW n \in Nat
      PROVE  [r EXCEPT !.end = t, !.count = n] \in Incident
  BY DEF Incident
<1> QED
  BY <1>1, <1>2, <1>3

LEMMA IncidentWritten ==
  ASSUME TypeInv, NEW w \in Workers,
         RaiseIncident(w) \/ CloseIncident(w) \/ CountFailure(w)
  PROVE  /\ Model(w) \in Models
         /\ ~At(w, "idle") /\ At(w, "incident") /\ Goto(w, "guard")
         /\ UNCHANGED <<now, jobs, runs, stamp, enabled, modelCool, provCool, faults>>
         /\ incidents' \in [Models -> Seq(Incident)]
         /\ \A m \in Models : DOMAIN incidents[m] \subseteq DOMAIN incidents'[m]
<1> USE DEF TypeInv
<1>1. /\ At(w, "incident") /\ ~At(w, "idle") /\ Goto(w, "guard")
      /\ UNCHANGED <<now, jobs, runs, stamp, enabled, modelCool, provCool, faults>>
  BY DEF RaiseIncident, CloseIncident, CountFailure, WriteIncidents, At
<1>2. Model(w) \in Models /\ worker[w].at \in Nat /\ incidents[Model(w)] \in Seq(Incident)
      /\ incidents \in [Models -> Seq(Incident)]
  BY <1>1, BusyTypes DEF TypeOK, Worker
<1> DEFINE old == incidents[Model(w)]
<1>3. ASSUME NEW new \in Seq(Incident), DOMAIN old \subseteq DOMAIN new,
             WriteIncidents(w, new)
      PROVE  /\ incidents' \in [Models -> Seq(Incident)]
             /\ \A m \in Models : DOMAIN incidents[m] \subseteq DOMAIN incidents'[m]
  BY <1>2, <1>3 DEF WriteIncidents
<1>4. CASE RaiseIncident(w)
  <2> DEFINE row == [start |-> worker[w].at, end |-> Never, count |-> IncidentThreshold]
             new == Append(old, row)
  <2>1. row \in Incident
    BY <1>2, BenchJobAssumption DEF Incident
  <2>2. new \in Seq(Incident) /\ DOMAIN old \subseteq DOMAIN new
    <3> HIDE DEF row
    <3> QED
      BY <1>2, <2>1, AppendProperties
  <2>3. WriteIncidents(w, new)
    BY <1>4 DEF RaiseIncident
  <2> QED
    BY <1>1, <1>2, <1>3, <2>2, <2>3
<1>5. ASSUME NEW row \in Incident, NEW i \in DOMAIN old,
             WriteIncidents(w, [old EXCEPT ![i] = row])
      PROVE  /\ incidents' \in [Models -> Seq(Incident)]
             /\ \A m \in Models : DOMAIN incidents[m] \subseteq DOMAIN incidents'[m]
  <2>1. [old EXCEPT ![i] = row] \in Seq(Incident)
    BY <1>2, <1>5, ExceptSeq
  <2> QED
    BY <2>1, <1>2, <1>3, <1>5
<1>6. ASSUME CloseIncident(w) \/ CountFailure(w)
      PROVE  worker[w].open \in DOMAIN old /\ old[worker[w].open] \in Incident
  <2>1. worker[w].open \in DOMAIN old
    BY <1>1, <1>6 DEF OpenExists, CloseIncident, CountFailure
  <2> QED
    BY <2>1, <1>2, ElementOfSeq
<1>7. CASE CloseIncident(w)
  <2> DEFINE i == worker[w].open
             row == [old[i] EXCEPT !.end = worker[w].at, !.count = @ + 1]
  <2>1. i \in DOMAIN old /\ old[i] \in Incident
    BY <1>6, <1>7
  <2>2. row \in Incident
    BY <1>2, <2>1, IncidentUpdate
  <2>3. WriteIncidents(w, [old EXCEPT ![i] = row])
    BY <1>7 DEF CloseIncident
  <2> HIDE DEF row, i
  <2> QED
    BY <1>1, <1>2, <1>5, <2>1, <2>2, <2>3
<1>8. CASE CountFailure(w)
  <2> DEFINE i == worker[w].open
             row == [old[i] EXCEPT !.count = @ + 1]
  <2>1. i \in DOMAIN old /\ old[i] \in Incident
    BY <1>6, <1>8
  <2>2. row \in Incident
    BY <1>2, <2>1, IncidentUpdate
  <2>3. WriteIncidents(w, [old EXCEPT ![i] = row])
    BY <1>8 DEF CountFailure
  <2> HIDE DEF row, i
  <2> QED
    BY <1>1, <1>2, <1>5, <2>1, <2>2, <2>3
<1> QED
  BY <1>4, <1>7, <1>8, <1>1, <1>2

LEMMA IncidentKeeps ==
  ASSUME TypeInv, NEW w \in Workers,
         RaiseIncident(w) \/ CloseIncident(w) \/ CountFailure(w)
  PROVE  TypeInv'
<1> USE DEF TypeInv
<1>1. worker' \in [Workers -> Worker] /\ OwnJobs' /\ RuleKept' /\ OpenExists'
  BY IncidentWritten, GotoStep DEF PCs
<1> QED
  BY <1>1, IncidentWritten DEF TypeOK

-----------------------------------------------------------------------------
(* The end of a delivery, and the steps that are not a lane's own.         *)

LEMMA IdleType == Idle \in Worker
BY DEF Idle, NoOutcome, Worker, PCs, Outcome, Statuses, MAX_RETRY_AFTER, Day, Hours, Minutes

(* A lane that lets go of its job becomes idle; the other lanes' jobs are  *)
(* other jobs.                                                             *)
LEMMA ReleaseKeeps ==
  ASSUME TypeInv, NEW w \in Workers, ~At(w, "idle"), NEW st \in {"queued"} \cup Settled,
         Release(w, st), UNCHANGED incidents
  PROVE  /\ worker' \in [Workers -> Worker] /\ Others(w) /\ worker'[w] = Idle
         /\ jobs' \in [Jobs -> Job]
         /\ \A j \in Jobs : jobs'[j].model = jobs[j].model
         /\ OwnJobs' /\ RuleKept' /\ OpenExists'
<1> USE DEF TypeInv
<1>2. worker' \in [Workers -> Worker] /\ Others(w) /\ worker'[w] = Idle
  BY IdleType, LaneUpdate DEF Release
<1>3. worker[w].job \in Jobs
  BY BusyTypes
<1>4. /\ jobs' \in [Jobs -> Job]
      /\ \A j \in Jobs : jobs'[j].model = jobs[j].model
      /\ \A j \in Jobs : j # worker[w].job => jobs'[j] = jobs[j]
  BY <1>3 DEF Release, TypeOK, Job, Settled
<1>5. ASSUME NEW v \in Workers, ~At(v, "idle")'
      PROVE  /\ v # w /\ ~At(v, "idle") /\ worker'[v] = worker[v]
             /\ worker[v].job \in Jobs /\ worker[v].job # worker[w].job
             /\ jobs'[worker[v].job] = jobs[worker[v].job]
  <2>1. v # w
    BY <1>5, <1>2 DEF At, Idle
  <2>2. worker'[v] = worker[v] /\ ~At(v, "idle")
    BY <2>1, <1>2, <1>5 DEF Others, At
  <2>3. worker[v].job \in Jobs /\ worker[v].job # worker[w].job
    BY <2>1, <2>2 DEF OwnJobs
  <2> QED
    BY <2>1, <2>2, <2>3, <1>4
<1>6. OwnJobs'
  BY <1>5 DEF OwnJobs, At
<1>7. RuleKept'
  <2>1. ASSUME NEW v \in Workers, At(v, "escalate")' \/ At(v, "rest")'
        PROVE  ~At(v, "idle")'
    BY <2>1 DEF At
  <2> QED
    BY <1>5, <2>1 DEF RuleKept, Rule, At
<1>8. OpenExists'
  <2>1. ASSUME NEW v \in Workers, At(v, "incident")'
        PROVE  ~At(v, "idle")'
    BY <2>1 DEF At
  <2> QED
    BY <1>5, <2>1 DEF OpenExists, Model, At
<1> QED
  BY <1>2, <1>4, <1>6, <1>7, <1>8

(* Jobs that no lane holds may change; lanes, tables and models of running *)
(* jobs do not.                                                            *)
LEMMA IdleJobKeeps ==
  ASSUME TypeInv, NEW j \in Jobs, jobs[j].st # "running", NEW new \in Job,
         jobs' = [jobs EXCEPT ![j] = new], UNCHANGED <<worker, incidents>>
  PROVE  jobs' \in [Jobs -> Job] /\ OwnJobs' /\ RuleKept' /\ OpenExists'
<1> USE DEF TypeInv
<1>1. jobs' \in [Jobs -> Job] /\ \A k \in Jobs \ {j} : jobs'[k] = jobs[k]
  BY DEF TypeOK
<1>2. ASSUME NEW v \in Workers, ~At(v, "idle")
      PROVE  worker[v].job \in Jobs /\ jobs'[worker[v].job] = jobs[worker[v].job]
  BY <1>1, <1>2 DEF OwnJobs
<1>3. OwnJobs' /\ RuleKept'
  BY <1>2 DEF OwnJobs, RuleKept, Rule, At
<1>4. OpenExists'
  BY <1>2 DEF OpenExists, Model, At
<1> QED
  BY <1>1, <1>3, <1>4

LEMMA CreateKeeps ==
  ASSUME TypeInv, NEW j \in Jobs, NEW m \in Models, NEW via \in {"inline", "queue"},
         Create(j, m, via)
  PROVE  TypeInv'
<1> DEFINE new == [st |-> "queued", model |-> m, via |-> via, tries |-> 0]
<1>1. new \in Job /\ jobs[j].st # "running"
  BY DEF Create, Job, Settled
<1>2. jobs' = [jobs EXCEPT ![j] = new] /\ UNCHANGED <<worker, incidents>>
  BY DEF Create, tables
<1> HIDE DEF new
<1>3. jobs' \in [Jobs -> Job] /\ OwnJobs' /\ RuleKept' /\ OpenExists'
  BY <1>1, <1>2, IdleJobKeeps
<1> QED
  BY <1>3 DEF TypeInv, TypeOK, Create, tables

LEMMA ReceiveKeeps ==
  ASSUME TypeInv, NEW w \in Workers, NEW j \in Jobs, Receive(w, j)
  PROVE  TypeInv'
<1> USE DEF TypeInv
<1> DEFINE r == [Idle EXCEPT !.pc = "probe", !.job = j, !.at = now]
           new == [jobs[j] EXCEPT !.st = "running", !.tries = @ + 1]
<1>1. r \in Worker /\ r.pc = "probe" /\ r.job = j
  <2>1. ASSUME NEW lane \in Worker, NEW t \in Nat
        PROVE  LET s == [lane EXCEPT !.pc = "probe", !.job = j, !.at = t]
               IN s \in Worker /\ s.pc = "probe" /\ s.job = j
    BY DEF Worker, PCs
  <2>2. now \in Nat
    BY DEF TypeOK
  <2> QED
    BY <2>1, <2>2, IdleType
<1>2. new \in Job /\ new.st = "running"
  <2>1. jobs[j] \in Job
    BY DEF TypeOK
  <2>2. ASSUME NEW job \in Job, NEW n \in Nat
        PROVE  LET s == [job EXCEPT !.st = "running", !.tries = n]
               IN s \in Job /\ s.st = "running"
    BY DEF Job
  <2>3. jobs[j].tries + 1 \in Nat
    BY <2>1 DEF Job
  <2> QED
    BY <2>1, <2>2, <2>3
<1>3. At(w, "idle") /\ jobs[j].st = "queued" /\ worker' = [worker EXCEPT ![w] = r]
      /\ jobs' = [jobs EXCEPT ![j] = new] /\ UNCHANGED <<now, tables, faults>>
  BY DEF Receive
<1> HIDE DEF r, new
<1>4. worker' \in [Workers -> Worker] /\ Others(w) /\ worker'[w] = r
  BY <1>1, <1>3, LaneUpdate
<1>5. jobs' \in [Jobs -> Job] /\ jobs'[j] = new /\ \A k \in Jobs \ {j} : jobs'[k] = jobs[k]
  BY <1>2, <1>3 DEF TypeOK
<1>6. ASSUME NEW v \in Workers, v # w, ~At(v, "idle")'
      PROVE  /\ ~At(v, "idle") /\ worker'[v] = worker[v]
             /\ worker[v].job \in Jobs /\ worker[v].job # j
             /\ jobs'[worker[v].job] = jobs[worker[v].job]
  <2>1. worker'[v] = worker[v] /\ ~At(v, "idle")
    BY <1>4, <1>6 DEF Others, At
  <2>2. worker[v].job \in Jobs /\ worker[v].job # j
    BY <2>1, <1>3 DEF OwnJobs
  <2> QED
    BY <2>1, <2>2, <1>5
<1>7. OwnJobs'
  BY <1>1, <1>2, <1>4, <1>5, <1>6 DEF OwnJobs, At
<1>8. RuleKept'
  <2>1. ASSUME NEW v \in Workers, At(v, "escalate")' \/ At(v, "rest")'
        PROVE  v # w /\ ~At(v, "idle")'
    BY <2>1, <1>1, <1>4 DEF At
  <2> QED
    BY <1>6, <2>1 DEF RuleKept, Rule, At
<1>9. OpenExists'
  <2>1. ASSUME NEW v \in Workers, At(v, "incident")'
        PROVE  v # w /\ ~At(v, "idle")'
    BY <2>1, <1>1, <1>4 DEF At
  <2>2. UNCHANGED incidents
    BY <1>3 DEF tables
  <2> QED
    BY <1>6, <2>1, <2>2 DEF OpenExists, Model, At
<1> QED
  BY <1>3, <1>4, <1>5, <1>7, <1>8, <1>9 DEF TypeOK, tables

LEMMA SkipKeeps ==
  ASSUME TypeInv, NEW j \in Jobs, Skip(j) \/ TickKilled(j)
  PROVE  TypeInv'
<1> USE DEF TypeInv
<1>1. jobs[j] \in Job /\ jobs[j].st # "running" /\ UNCHANGED <<now, tables, worker>>
  BY DEF Skip, TickKilled, TypeOK
<1>2. PICK new \in Job : jobs' = [jobs EXCEPT ![j] = new]
  <2>1. ASSUME NEW st \in Settled, NEW n \in Nat
        PROVE  /\ [jobs[j] EXCEPT !.st = st, !.tries = n] \in Job
               /\ [jobs[j] EXCEPT !.st = st] \in Job
    BY <1>1 DEF Job
  <2>2. jobs[j].tries + 1 \in Nat /\ "done" \in Settled /\ "dropped" \in Settled
    BY <1>1 DEF Job, Settled
  <2>3. CASE Skip(j)
    <3>1. jobs' = [jobs EXCEPT ![j] = [jobs[j] EXCEPT !.st = "done", !.tries = @ + 1]]
      BY <2>3 DEF Skip
    <3> QED
      BY <3>1, <2>1, <2>2
  <2>4. CASE TickKilled(j)
    <3>1. jobs' = [jobs EXCEPT ![j] = [jobs[j] EXCEPT !.st = "dropped"]]
      BY <2>4 DEF TickKilled
    <3> QED
      BY <3>1, <2>1, <2>2
  <2> QED
    BY <2>3, <2>4
<1>3. jobs' \in [Jobs -> Job] /\ OwnJobs' /\ RuleKept' /\ OpenExists'
  BY <1>1, <1>2, IdleJobKeeps DEF tables
<1>4. faults' \in Nat
  BY DEF Skip, TickKilled, Fault, TypeOK
<1> QED
  BY <1>1, <1>3, <1>4 DEF TypeOK, tables

LEMMA DisableKeeps ==
  ASSUME TypeInv, NEW w \in Workers, Disable(w)
  PROVE  TypeInv'
<1> USE DEF TypeInv
<1>1. ~At(w, "idle") /\ Goto(w, "finish") /\ UNCHANGED <<jobs, incidents>>
  BY DEF Disable, At
<1>2. worker' \in [Workers -> Worker] /\ OwnJobs' /\ RuleKept' /\ OpenExists'
  BY <1>1, GotoStep DEF PCs
<1>3. enabled' \in [Models -> BOOLEAN]
  BY <1>1, BusyTypes DEF Disable, TypeOK
<1> QED
  BY <1>2, <1>3 DEF Disable, TypeOK

LEMMA EndKeeps ==
  ASSUME TypeInv, NEW w \in Workers, Finish(w) \/ Crash(w)
  PROVE  TypeInv'
<1> USE DEF TypeInv
<1>1. ~At(w, "idle") /\ UNCHANGED <<now, tables>> /\ faults' \in Nat
  BY DEF Finish, Crash, Abandon, Fault, At, TypeOK
<1>2. PICK st \in {"queued"} \cup Settled : Release(w, st)
  BY DEF Finish, Crash, Abandon, AfterFailure, Settled
<1>3. /\ worker' \in [Workers -> Worker] /\ jobs' \in [Jobs -> Job]
      /\ OwnJobs' /\ RuleKept' /\ OpenExists'
  BY <1>1, <1>2, ReleaseKeeps DEF tables
<1> QED
  BY <1>1, <1>3 DEF TypeOK, tables

LEMMA CallLostKeeps ==
  ASSUME TypeInv, NEW w \in Workers, CallLost(w)
  PROVE  TypeInv'
<1> USE DEF TypeInv
<1> DEFINE pc == AfterLost(w)
<1>1. ~At(w, "idle") /\ Goto(w, pc) /\ UNCHANGED <<now, jobs, tables>> /\ faults' \in Nat
  BY DEF CallLost, Fault, At, TypeOK
<1>2. /\ pc \in {"escalate", "rest", "recent", "disable", "finish"}
      /\ pc = "escalate" => Rule(w) \in EscalatingRules
      /\ pc = "rest" => Rule(w) \in ProviderRules
  <2>1. CASE At(w, "cool")
    BY <2>1 DEF AfterLost, At, ProviderRules
  <2>2. CASE At(w, "escalate")
    BY <2>2 DEF AfterLost, At, RuleKept, ProviderRules
  <2>3. CASE ~At(w, "cool") /\ ~At(w, "escalate")
    BY <2>3 DEF CallLost, AfterLost, At, AfterBackoff
  <2> QED
    BY <2>1, <2>2, <2>3
<1> HIDE DEF pc
<1>3. worker' \in [Workers -> Worker] /\ Others(w) /\ worker'[w].pc = pc
      /\ worker'[w].job = worker[w].job /\ worker'[w].out = worker[w].out
  BY <1>1, <1>2, GotoKeeps DEF PCs
<1>4. OwnJobs' /\ RuleKept' /\ OpenExists'
  BY <1>1, <1>2, <1>3, LaneStep DEF Rule, tables
<1> QED
  BY <1>1, <1>3, <1>4 DEF TypeOK, tables

LEMMA AdminKeeps ==
  ASSUME TypeInv, CooldownsBounded,
         NEW ps, NEW ms, NEW e \in BOOLEAN, Switch(ps, ms, e) \/ AdminReset(ps, ms)
  PROVE  TypeInv' /\ CooldownsBounded'
<1> USE DEF TypeInv
<1>1. UNCHANGED <<now, jobs, runs, stamp, incidents, worker>>
      /\ (ClearCooldowns(ps, ms) \/ UNCHANGED <<provCool, modelCool>>)
  BY DEF Switch, AdminReset
<1>2. enabled' \in [Models -> BOOLEAN] /\ faults' \in Nat
  <2>1. CASE Switch(ps, ms, e)
    <3>1. enabled' \in [Models -> BOOLEAN]
      BY <2>1, Zenon DEF Switch, TypeOK
    <3>2. faults' \in Nat
      BY <2>1 DEF Switch, Fault, TypeOK
    <3> QED
      BY <3>1, <3>2
  <2>2. CASE AdminReset(ps, ms)
    BY <2>2 DEF AdminReset, TypeOK
  <2> QED
    BY <2>1, <2>2
<1>3. /\ modelCool' \in [Models -> Nat] /\ provCool' \in [Providers -> Nat]
      /\ CooldownsBounded'
  <2>1. CASE ClearCooldowns(ps, ms)
    <3>1. 0 <= now + Day
      BY DEF TypeOK, Day, Hours, Minutes
    <3> QED
      BY <2>1, <3>1, <1>1 DEF ClearCooldowns, CooldownsBounded, TypeOK
  <2>2. CASE UNCHANGED <<provCool, modelCool>>
    BY <2>2, <1>1 DEF CooldownsBounded, TypeOK
  <2> QED
    BY <1>1, <2>1, <2>2
<1>4. OwnJobs' /\ RuleKept' /\ OpenExists'
  BY <1>1 DEF OwnJobs, RuleKept, OpenExists, At, Rule, Model
<1> QED
  BY <1>1, <1>2, <1>3, <1>4 DEF TypeOK

LEMMA TickKeeps ==
  ASSUME TypeInv, CooldownsBounded, NEW d \in TimeSteps, Tick(d)
  PROVE  TypeInv' /\ CooldownsBounded'
<1> USE DEF TypeInv
<1>1. d \in Nat /\ now' = now + d /\ now \in Nat /\ UNCHANGED <<jobs, tables, worker, faults>>
  BY BenchJobAssumption DEF Tick, TypeOK
<1>2. CooldownsBounded'
  <2>1. Day \in Nat
    BY DEF Day, Hours, Minutes
  <2> QED
    BY <1>1, <2>1 DEF CooldownsBounded, tables, TypeOK
<1>3. OwnJobs' /\ RuleKept' /\ OpenExists'
  BY <1>1 DEF tables, OwnJobs, RuleKept, OpenExists, At, Rule, Model
<1> QED
  BY <1>1, <1>2, <1>3 DEF TypeOK, tables

-----------------------------------------------------------------------------
LEMMA InitTypes == Init => TypeInv /\ CooldownsBounded
<1> SUFFICES ASSUME Init PROVE TypeInv /\ CooldownsBounded
  OBVIOUS
<1>1. (CHOOSE m \in Models : TRUE) \in Models
  BY BenchJobAssumption
<1>2. TypeOK
  BY <1>1, IdleType DEF Init, TypeOK, Job, Settled, Never
<1>3. OwnJobs /\ RuleKept /\ OpenExists
  BY DEF Init, OwnJobs, RuleKept, OpenExists, At, Idle
<1>4. CooldownsBounded
  BY DEF Init, CooldownsBounded, Day, Hours, Minutes
<1> QED
  BY <1>2, <1>3, <1>4 DEF TypeInv

LEMMA CoolUnchanged ==
  ASSUME CooldownsBounded, UNCHANGED <<now, modelCool, provCool>>
  PROVE  CooldownsBounded'
BY DEF CooldownsBounded

LEMMA StepTypes == TypeInv /\ CooldownsBounded /\ [Next]_vars => TypeInv' /\ CooldownsBounded'
<1> SUFFICES ASSUME TypeInv, CooldownsBounded, [Next]_vars
             PROVE  TypeInv' /\ CooldownsBounded'
  OBVIOUS
<1>1. ASSUME NEW j \in Jobs, NEW m \in Models, NEW via \in {"inline", "queue"},
             Schedule(j, m, via) \/ AdminBenchmark(j, m)
      PROVE  TypeInv' /\ CooldownsBounded'
  <2>1. PICK by \in {"inline", "queue"} : Create(j, m, by)
    BY <1>1 DEF Schedule, AdminBenchmark
  <2> QED
    BY <2>1, CreateKeeps, CoolUnchanged DEF Create, tables
<1>2. CASE \E ms \in SUBSET Models, e \in BOOLEAN : AdminSwitch(ms, e)
  BY <1>2, AdminKeeps DEF AdminSwitch
<1>3. CASE \E p \in Providers, e \in BOOLEAN : AdminSwitchProvider(p, e)
  BY <1>3, AdminKeeps DEF AdminSwitchProvider
<1>4. CASE \E ps \in SUBSET Providers, ms \in SUBSET Models : AdminReset(ps, ms)
  BY <1>4, AdminKeeps
<1>5. ASSUME NEW j \in Jobs, Skip(j) \/ TickKilled(j)
      PROVE  TypeInv' /\ CooldownsBounded'
  BY <1>5, SkipKeeps, CoolUnchanged DEF Skip, TickKilled, tables
<1>6. ASSUME NEW w \in Workers, NEW j \in Jobs, Receive(w, j)
      PROVE  TypeInv' /\ CooldownsBounded'
  BY <1>6, ReceiveKeeps, CoolUnchanged DEF Receive, tables
<1>7. ASSUME NEW w \in Workers, Handle(w)
      PROVE  TypeInv' /\ CooldownsBounded'
  <2>1. CASE \E o \in Outcomes : Probe(w, o)
    BY <2>1, ProbeKeeps, CoolUnchanged DEF Probe, tables
  <2>2. CASE InsertRun(w)
    BY <2>2, InsertKeeps, CoolUnchanged DEF InsertRun
  <2>3. CASE ClearCooldown(w) \/ NoCooldown(w)
    BY <2>3, ClearKeeps
  <2>4. CASE ReadProvider(w)
    BY <2>4, ReadProviderKeeps, CoolUnchanged DEF ReadProvider, tables
  <2>5. CASE BackOffProvider(w) \/ TripProvider(w)
    BY <2>5, ProviderKeeps
  <2>6. CASE RestModel(w)
    BY <2>6, RestModelKeeps
  <2>7. CASE ReadStreak(w)
    BY <2>7, ReadStreakKeeps, CoolUnchanged DEF ReadStreak, tables
  <2>8. CASE ReadOpen(w)
    BY <2>8, ReadOpenKeeps, CoolUnchanged DEF ReadOpen, tables
  <2>9. CASE RaiseIncident(w) \/ CloseIncident(w) \/ CountFailure(w)
    BY <2>9, IncidentKeeps, IncidentWritten, CoolUnchanged
  <2>10. CASE ReadDay(w)
    BY <2>10, ReadDayKeeps, CoolUnchanged DEF ReadDay, tables
  <2>11. CASE BackOffModel(w)
    BY <2>11, BackOffModelKeeps
  <2>12. CASE Disable(w)
    BY <2>12, DisableKeeps, CoolUnchanged DEF Disable
  <2>13. CASE Finish(w)
    BY <2>13, EndKeeps, CoolUnchanged DEF Finish, tables
  <2> QED
    BY <1>7, <2>1, <2>2, <2>3, <2>4, <2>5, <2>6, <2>7, <2>8, <2>9, <2>10, <2>11,
       <2>12, <2>13 DEF Handle
<1>8. ASSUME NEW w \in Workers, Mishap(w)
      PROVE  TypeInv' /\ CooldownsBounded'
  <2>1. CASE InsertUnstamped(w) \/ InsertRepeated(w)
    BY <2>1, InsertKeeps, CoolUnchanged DEF InsertUnstamped, InsertRepeated
  <2>2. CASE CallLost(w)
    BY <2>2, CallLostKeeps, CoolUnchanged DEF CallLost, tables
  <2>3. CASE Crash(w)
    BY <2>3, EndKeeps, CoolUnchanged DEF Crash, Abandon, tables
  <2> QED
    BY <1>8, <2>1, <2>2, <2>3 DEF Mishap
<1>9. ASSUME NEW d \in TimeSteps, Tick(d)
      PROVE  TypeInv' /\ CooldownsBounded'
  BY <1>9, TickKeeps
<1>10. CASE UNCHANGED vars
  BY <1>10 DEF vars, TypeInv, TypeOK, OwnJobs, RuleKept, OpenExists, CooldownsBounded,
               At, Rule, Model
<1> QED
  BY <1>1, <1>2, <1>3, <1>4, <1>5, <1>6, <1>7, <1>8, <1>9, <1>10 DEF Next, Admin

LEMMA TypeInvHolds == Spec => [](TypeInv /\ CooldownsBounded)
  BY InitTypes, StepTypes, PTL DEF Spec

(* Every variable keeps its type; in particular no rule of the handler is  *)
(* applied where it is not defined, and no cooldown is before time 0.      *)
THEOREM TypeCorrect == Spec => []TypeOK
<1>1. TypeInv => TypeOK
  BY DEF TypeInv
<1> QED
  BY <1>1, TypeInvHolds, PTL

(* Whatever the outcomes, their order, the lanes and the faults, nothing   *)
(* is ever cooled for more than 24 hours from now.                         *)
THEOREM CooldownsAreBounded == Spec => []CooldownsBounded
  BY TypeInvHolds, PTL

-----------------------------------------------------------------------------
(* The bound on open incidents.                                            *)

LEMMA Finiteness ==
  ASSUME TypeOK, NEW m \in Models
  PROVE  /\ IsFiniteSet(OpenRows(m)) /\ Cardinality(OpenRows(m)) \in Nat
         /\ IsFiniteSet(Raisers(m)) /\ Cardinality(Raisers(m)) \in Nat
         /\ Cardinality(Raisers(m)) <= Cardinality(Workers)
         /\ Cardinality(Workers) \in Nat
<1>1. DOMAIN incidents[m] = 1 .. Len(incidents[m]) /\ Len(incidents[m]) \in Nat
  BY DEF TypeOK
<1>2. IsFiniteSet(OpenRows(m)) /\ Cardinality(OpenRows(m)) \in Nat
  <2>1. IsFiniteSet(1 .. Len(incidents[m]))
    <3>1. ASSUME NEW k \in Nat PROVE IsFiniteSet(1 .. k)
      BY FS_Interval
    <3> QED
      BY <1>1, <3>1
  <2>2. OpenRows(m) \subseteq 1 .. Len(incidents[m])
    BY <1>1 DEF OpenRows
  <2> QED
    BY <2>1, <2>2, FS_Subset, FS_CardinalityType
<1>3. Raisers(m) \subseteq Workers
  BY DEF Raisers
<1> QED
  BY <1>2, <1>3, WorkersAssumption, FS_Subset, FS_CardinalityType

(* Fewer open incidents and fewer raisers keep the bound.                  *)
LEMMA FewerKeeps ==
  ASSUME TypeOK, TypeOK', RaisersBounded,
         \A m \in Models : OpenRows(m)' \subseteq OpenRows(m),
         \A m \in Models : Raisers(m)' \subseteq Raisers(m)
  PROVE  RaisersBounded'
<1>1. SUFFICES ASSUME NEW m \in Models
      PROVE  Cardinality(OpenRows(m)') + Cardinality(Raisers(m)') <= Cardinality(Workers)
  BY DEF RaisersBounded
<1>2. /\ Cardinality(OpenRows(m)') <= Cardinality(OpenRows(m))
      /\ Cardinality(Raisers(m)') <= Cardinality(Raisers(m))
      /\ Cardinality(OpenRows(m)') \in Nat /\ Cardinality(Raisers(m)') \in Nat
  BY Finiteness, FS_Subset, FS_CardinalityType
<1> QED
  BY <1>2, Finiteness DEF RaisersBounded

(* A step after which the lane that took it, if any, is not about to write *)
(* an incident, and which leaves the other lanes and the models of running *)
(* jobs alone, adds no raiser.                                             *)
LEMMA NoNewRaiser ==
  ASSUME TypeInv,
         \A v \in Workers : At(v, "incident")' => worker'[v] = worker[v],
         \A j \in Jobs : jobs[j].st = "running" => jobs'[j].model = jobs[j].model,
         NEW m \in Models
  PROVE  Raisers(m)' \subseteq Raisers(m)
<1> SUFFICES ASSUME NEW v \in Workers, At(v, "incident")', Model(v)' = m,
                    worker'[v].open = 0
             PROVE  v \in Raisers(m)
  BY DEF Raisers
<1>2. worker'[v] = worker[v] /\ At(v, "incident") /\ ~At(v, "idle")
  BY DEF At
<1>3. worker[v].job \in Jobs /\ jobs[worker[v].job].st = "running"
  BY <1>2 DEF TypeInv, OwnJobs
<1>4. Model(v) = m
  BY <1>2, <1>3 DEF Model
<1> QED
  BY <1>2, <1>4 DEF Raisers

(* Reading the open incident: only if there is none does the lane become a *)
(* raiser, and there are no more raisers than lanes.                       *)
LEMMA ReadOpenBounded ==
  ASSUME TypeInv, TypeOK', RaisersBounded, NEW w \in Workers, ReadOpen(w)
  PROVE  RaisersBounded'
<1> USE DEF TypeInv
<1>1. UNCHANGED <<jobs, incidents>>
  BY DEF ReadOpen, tables
<1>2. \A m \in Models : OpenRows(m)' = OpenRows(m)
  BY <1>1 DEF OpenRows
<1>3. PICK i \in LatestOpen(Model(w)), pc \in PCs :
        worker' = [worker EXCEPT ![w].open = i, ![w].pc = pc]
  BY DEF ReadOpen, PCs
<1>4. Others(w) /\ worker'[w].open = i /\ worker'[w].job = worker[w].job
  BY <1>3 DEF Others, TypeOK, Worker
<1>5. ~At(w, "idle") /\ Model(w) \in Models
  BY BusyTypes DEF ReadOpen, At
<1>6. Model(w)' = Model(w)
  BY <1>1, <1>4 DEF Model
<1>7. SUFFICES ASSUME NEW m \in Models
      PROVE  Cardinality(OpenRows(m)') + Cardinality(Raisers(m)') <= Cardinality(Workers)
  BY DEF RaisersBounded
<1>8. CASE m = Model(w) /\ OpenRows(m) = {}
  <2>1. Cardinality(OpenRows(m)') = 0
    BY <1>2, <1>8, FS_EmptySet
  <2>2. Cardinality(Raisers(m)') <= Cardinality(Workers) /\ Cardinality(Raisers(m)') \in Nat
    <3>1. Raisers(m)' \subseteq Workers
      BY DEF Raisers
    <3> QED
      BY <3>1, WorkersAssumption, FS_Subset, FS_CardinalityType
  <2> QED
    BY <2>1, <2>2, Finiteness
<1>9. CASE m # Model(w) \/ OpenRows(m) # {}
  <2>1. w \notin Raisers(m)'
    <3>1. CASE m # Model(w)
      BY <3>1, <1>6 DEF Raisers
    <3>2. CASE m = Model(w) /\ OpenRows(m) # {}
      <4>1. i \in OpenRows(m)
        BY <3>2, <1>3 DEF LatestOpen
      <4>2. i # 0
        BY <4>1 DEF OpenRows, TypeOK
      <4> QED
        BY <4>2, <1>4 DEF Raisers
    <3> QED
      BY <1>9, <3>1, <3>2
  <2>2. Raisers(m)' \subseteq Raisers(m)
    <3>1. SUFFICES ASSUME NEW v \in Workers \ {w}, At(v, "incident")', Model(v)' = m,
                          worker'[v].open = 0
                   PROVE  v \in Raisers(m)
      BY <2>1 DEF Raisers
    <3>2. worker'[v] = worker[v]
      BY <1>4 DEF Others
    <3> QED
      BY <3>1, <3>2, <1>1 DEF Raisers, At, Model
  <2>3. /\ Cardinality(Raisers(m)') <= Cardinality(Raisers(m))
        /\ Cardinality(Raisers(m)') \in Nat
    BY <2>2, Finiteness, FS_Subset, FS_CardinalityType
  <2> QED
    BY <2>3, <1>2, Finiteness DEF RaisersBounded
<1> QED
  BY <1>8, <1>9

(* Raising turns a raiser into an open incident.                           *)
LEMMA RaiseBounded ==
  ASSUME TypeInv, TypeOK', RaisersBounded, NEW w \in Workers, RaiseIncident(w)
  PROVE  RaisersBounded'
<1> USE DEF TypeInv
<1>1. /\ Model(w) \in Models /\ At(w, "incident") /\ Goto(w, "guard")
      /\ UNCHANGED jobs
  BY IncidentWritten
<1>2. /\ Others(w) /\ worker'[w].pc = "guard" /\ worker'[w].job = worker[w].job
  BY <1>1, GotoKeeps DEF PCs
<1>3. ASSUME NEW m \in Models
      PROVE  Raisers(m)' \subseteq Raisers(m) \ {w}
  <2>1. SUFFICES ASSUME NEW v \in Workers, At(v, "incident")', Model(v)' = m,
                        worker'[v].open = 0
                 PROVE  v \in Raisers(m) /\ v # w
    BY DEF Raisers
  <2>2. v # w
    BY <1>2, <2>1 DEF At
  <2>3. worker'[v] = worker[v]
    BY <2>2, <1>2 DEF Others
  <2> QED
    BY <2>2, <2>3, <1>1, <2>1 DEF Raisers, At, Model
<1>4. w \in Raisers(Model(w))
  BY <1>1 DEF Raisers, RaiseIncident
<1> DEFINE n == Len(incidents[Model(w)])
<1>5. /\ n \in Nat
      /\ \A m \in Models \ {Model(w)} : OpenRows(m)' = OpenRows(m)
      /\ OpenRows(Model(w))' \subseteq OpenRows(Model(w)) \cup {n + 1}
  <2> DEFINE row == [start |-> worker[w].at, end |-> Never, count |-> IncidentThreshold]
  <2>1. incidents' = [incidents EXCEPT ![Model(w)] = Append(incidents[Model(w)], row)]
    BY DEF RaiseIncident, WriteIncidents
  <2>2. incidents \in [Models -> Seq(Incident)] /\ incidents[Model(w)] \in Seq(Incident)
    BY <1>1 DEF TypeOK
  <2>3. \A m \in Models \ {Model(w)} : incidents'[m] = incidents[m]
    BY <2>1, <2>2
  <2>4. incidents'[Model(w)] = Append(incidents[Model(w)], row)
    BY <2>1, <2>2, <1>1
  <2>5. row \in Incident
    BY BenchJobAssumption DEF Incident, TypeOK, Worker
  <2> HIDE DEF row
  <2>6. /\ DOMAIN incidents'[Model(w)] = 1 .. (n + 1)
        /\ \A k \in 1 .. n : incidents'[Model(w)][k] = incidents[Model(w)][k]
        /\ DOMAIN incidents[Model(w)] = 1 .. n /\ n \in Nat
    BY <2>2, <2>4, <2>5, AppendProperties
  <2>7. Model(w)' = Model(w)
    BY <1>1, <1>2 DEF Model
  <2>8. OpenRows(Model(w))' \subseteq OpenRows(Model(w)) \cup {n + 1}
    <3>1. SUFFICES ASSUME NEW k \in 1 .. (n + 1), incidents'[Model(w)][k].end = Never,
                          k # n + 1
                   PROVE  k \in OpenRows(Model(w))
      BY <2>6, <2>7 DEF OpenRows
    <3>2. k \in 1 .. n
      BY <2>6, <3>1
    <3> QED
      BY <3>1, <3>2, <2>6 DEF OpenRows
  <2> QED
    BY <2>3, <2>6, <2>8 DEF OpenRows
<1>6. SUFFICES ASSUME NEW m \in Models
      PROVE  Cardinality(OpenRows(m)') + Cardinality(Raisers(m)') <= Cardinality(Workers)
  BY DEF RaisersBounded
<1>7. CASE m = Model(w)
  <2>1. /\ Cardinality(OpenRows(m)') <= Cardinality(OpenRows(m)) + 1
        /\ Cardinality(OpenRows(m)') \in Nat
    <3> IsFiniteSet(OpenRows(m)) /\ Cardinality(OpenRows(m)) \in Nat
      BY Finiteness
    <3>1. /\ IsFiniteSet(OpenRows(m) \cup {n + 1})
          /\ Cardinality(OpenRows(m) \cup {n + 1}) <= Cardinality(OpenRows(m)) + 1
      <4>1. ASSUME NEW S, NEW x, IsFiniteSet(S), Cardinality(S) \in Nat
            PROVE  /\ IsFiniteSet(S \cup {x})
                   /\ Cardinality(S \cup {x}) <= Cardinality(S) + 1
        <5>1. /\ IsFiniteSet(S \cup {x})
              /\ Cardinality(S \cup {x})
                   = IF x \in S THEN Cardinality(S) ELSE Cardinality(S) + 1
          BY <4>1, FS_AddElement
        <5> HIDE DEF n
        <5> QED
          BY <4>1, <5>1
      <4> QED
        BY <4>1
    <3>2. OpenRows(m)' \subseteq OpenRows(m) \cup {n + 1}
      <4>1. Model(w)' = Model(w)
        BY <1>1, <1>2 DEF Model
      <4> QED
        BY <1>5, <1>7, <4>1 DEF OpenRows
    <3> QED
      BY <3>1, <3>2, FS_Subset, FS_CardinalityType
  <2>2. /\ Cardinality(Raisers(m)') <= Cardinality(Raisers(m)) - 1
        /\ Cardinality(Raisers(m)') \in Nat
    <3>1. /\ IsFiniteSet(Raisers(m) \ {w})
          /\ Cardinality(Raisers(m) \ {w}) = Cardinality(Raisers(m)) - 1
      BY <1>4, <1>7, Finiteness, FS_RemoveElement
    <3> QED
      BY <3>1, <1>3, FS_Subset, FS_CardinalityType
  <2> QED
    BY <2>1, <2>2, Finiteness DEF RaisersBounded
<1>8. CASE m # Model(w)
  <2>1. OpenRows(m)' = OpenRows(m)
    BY <1>5, <1>8
  <2>2. Cardinality(Raisers(m)') <= Cardinality(Raisers(m)) /\ Cardinality(Raisers(m)') \in Nat
    BY <1>3, Finiteness, FS_Subset, FS_CardinalityType
  <2> QED
    BY <2>1, <2>2, Finiteness DEF RaisersBounded
<1> QED
  BY <1>7, <1>8

(* Closing an incident or counting a failure opens none.                   *)
LEMMA UpdateBounded ==
  ASSUME TypeInv, TypeOK', RaisersBounded, NEW w \in Workers,
         CloseIncident(w) \/ CountFailure(w)
  PROVE  RaisersBounded'
<1> USE DEF TypeInv
<1>1. /\ Model(w) \in Models /\ At(w, "incident") /\ Goto(w, "guard")
      /\ UNCHANGED jobs
  BY IncidentWritten
<1>2. /\ Others(w) /\ worker'[w].pc = "guard"
  BY <1>1, GotoKeeps DEF PCs
<1>3. \A m \in Models : Raisers(m)' \subseteq Raisers(m)
  BY <1>1, <1>2, NoNewRaiser DEF Others, At
<1> DEFINE old == incidents[Model(w)]
           i == worker[w].open
<1>4. old \in Seq(Incident) /\ incidents \in [Models -> Seq(Incident)]
  BY <1>1 DEF TypeOK
<1>5. i \in DOMAIN old
  BY <1>1 DEF OpenExists, CloseIncident, CountFailure
<1>6. PICK row : incidents' = [incidents EXCEPT ![Model(w)] = [old EXCEPT ![i] = row]]
                 /\ (row.end = Never => old[i].end = Never)
  <2>1. old[i] \in Incident /\ worker[w].at \in Nat
    <3>1. old[i] \in Incident
      BY <1>4, <1>5, ElementOfSeq
    <3>2. worker[w].at \in Nat
      BY DEF TypeOK, Worker
    <3> QED
      BY <3>1, <3>2
  <2>2. CASE CloseIncident(w)
    <3> DEFINE row == [old[i] EXCEPT !.end = worker[w].at, !.count = @ + 1]
    <3>1. row.end # Never
      BY <2>1 DEF Incident, Never
    <3>2. incidents' = [incidents EXCEPT ![Model(w)] = [old EXCEPT ![i] = row]]
      BY <2>2 DEF CloseIncident, WriteIncidents
    <3> QED
      BY <3>1, <3>2
  <2>3. CASE CountFailure(w)
    <3> DEFINE row == [old[i] EXCEPT !.count = @ + 1]
    <3>1. row.end = old[i].end
      BY <2>1 DEF Incident
    <3>2. incidents' = [incidents EXCEPT ![Model(w)] = [old EXCEPT ![i] = row]]
      BY <2>3 DEF CountFailure, WriteIncidents
    <3> QED
      BY <3>1, <3>2
  <2> QED
    BY <2>2, <2>3
<1>7. ASSUME NEW m \in Models
      PROVE  OpenRows(m)' \subseteq OpenRows(m)
  <2>1. DOMAIN incidents'[m] = DOMAIN incidents[m]
    BY <1>4, <1>6
  <2>2. ASSUME NEW k \in DOMAIN incidents[m], incidents'[m][k].end = Never
        PROVE  incidents[m][k].end = Never
    <3>1. CASE m = Model(w) /\ k = i
      BY <3>1, <2>2, <1>1, <1>4, <1>5, <1>6
    <3>2. CASE m # Model(w) \/ k # i
      BY <3>2, <2>2, <1>1, <1>4, <1>6
    <3> QED
      BY <3>1, <3>2
  <2> QED
    BY <2>1, <2>2 DEF OpenRows
<1> QED
  BY <1>3, <1>7, FewerKeeps

-----------------------------------------------------------------------------
IndInv == TypeInv /\ CooldownsBounded /\ RaisersBounded

(* Steps that write no incident and after which no lane is newly about to. *)
LEMMA QuietKeeps ==
  ASSUME TypeInv, TypeOK', RaisersBounded, UNCHANGED incidents,
         \A v \in Workers : At(v, "incident")' => worker'[v] = worker[v],
         \A j \in Jobs : jobs[j].st = "running" => jobs'[j].model = jobs[j].model
  PROVE  RaisersBounded'
<1>1. \A m \in Models : OpenRows(m)' \subseteq OpenRows(m)
  BY DEF OpenRows
<1>2. \A m \in Models : Raisers(m)' \subseteq Raisers(m)
  BY NoNewRaiser
<1> QED
  BY <1>1, <1>2, FewerKeeps DEF TypeInv

(* The program counters a lane's step can end at.                          *)
LEMMA LaneQuiet ==
  ASSUME TypeInv, NEW w \in Workers, NEW pc \in PCs \ {"incident"}, Goto(w, pc)
  PROVE  \A v \in Workers : At(v, "incident")' => worker'[v] = worker[v]
BY GotoKeeps DEF TypeInv, Others, At

LEMMA StepBounded == IndInv /\ TypeInv' /\ [Next]_vars => RaisersBounded'
<1> SUFFICES ASSUME IndInv, TypeInv', [Next]_vars PROVE RaisersBounded'
  OBVIOUS
<1> USE DEF IndInv
<1>0. TypeOK /\ TypeOK'
  BY DEF TypeInv
<1>1. ASSUME NEW w \in Workers, NEW pc \in PCs \ {"incident"}, Goto(w, pc),
             UNCHANGED <<jobs, incidents>>
      PROVE  RaisersBounded'
  BY <1>0, <1>1, LaneQuiet, QuietKeeps
<1>2. ASSUME NEW w \in Workers, NEW r, r.pc # "incident",
             worker' = [worker EXCEPT ![w] = r], UNCHANGED incidents,
             \A j \in Jobs : jobs'[j].model = jobs[j].model
      PROVE  RaisersBounded'
  <2>1. \A v \in Workers : At(v, "incident")' => worker'[v] = worker[v]
    BY <1>0, <1>2 DEF TypeOK, At
  <2> QED
    BY <1>0, <1>2, <2>1, QuietKeeps
<1>3. ASSUME UNCHANGED <<worker, incidents>>,
             \A j \in Jobs : jobs[j].st = "running" => jobs'[j].model = jobs[j].model
      PROVE  RaisersBounded'
  BY <1>0, <1>3, QuietKeeps
<1>4. ASSUME NEW j \in Jobs, NEW m \in Models, NEW via \in {"inline", "queue"},
             Schedule(j, m, via) \/ AdminBenchmark(j, m)
      PROVE  RaisersBounded'
  BY <1>0, <1>3, <1>4 DEF Schedule, AdminBenchmark, Create, tables, TypeOK
<1>5. ASSUME Admin
      PROVE  RaisersBounded'
  <2>1. CASE \E j \in Jobs, m \in Models : AdminBenchmark(j, m)
    BY <2>1, <1>4
  <2>2. CASE ~ \E j \in Jobs, m \in Models : AdminBenchmark(j, m)
    BY <2>2, <1>3, <1>5 DEF Admin, AdminSwitch, AdminSwitchProvider, Switch, AdminReset
  <2> QED
    BY <2>1, <2>2
<1>6. ASSUME NEW j \in Jobs, Skip(j) \/ TickKilled(j)
      PROVE  RaisersBounded'
  BY <1>0, <1>3, <1>6 DEF Skip, TickKilled, tables, TypeOK
<1>7. ASSUME NEW w \in Workers, NEW j \in Jobs, Receive(w, j)
      PROVE  RaisersBounded'
  <2> DEFINE r == [Idle EXCEPT !.pc = "probe", !.job = j, !.at = now]
  <2>1. r.pc # "incident" /\ worker' = [worker EXCEPT ![w] = r] /\ UNCHANGED incidents
    BY <1>7 DEF Receive, tables, Idle
  <2>2. \A k \in Jobs : jobs'[k].model = jobs[k].model
    BY <1>0, <1>7 DEF Receive, TypeOK, Job
  <2> HIDE DEF r
  <2> QED
    BY <1>2, <2>1, <2>2
<1>8. ASSUME NEW w \in Workers, NEW st, Release(w, st), ~At(w, "idle"), UNCHANGED incidents
      PROVE  RaisersBounded'
  <2>1. \A k \in Jobs : jobs'[k].model = jobs[k].model
    BY <1>0, <1>8 DEF Release, TypeOK, Job
  <2>2. Idle.pc # "incident" /\ worker' = [worker EXCEPT ![w] = Idle]
    BY <1>8 DEF Idle, Release
  <2> QED
    BY <1>2, <1>8, <2>1, <2>2
<1>9. ASSUME NEW w \in Workers, Handle(w)
      PROVE  RaisersBounded'
  <2>1. ASSUME NEW o \in Outcomes, Probe(w, o)
        PROVE  RaisersBounded'
    <3>t. PICK t \in StartedAt(w, o) :
            worker' = [worker EXCEPT ![w].pc = "insert", ![w].out = o, ![w].at = t]
      BY <2>1 DEF Probe
    <3> DEFINE r == [worker[w] EXCEPT !.pc = "insert", !.out = o, !.at = t]
    <3>1. r.pc # "incident" /\ worker' = [worker EXCEPT ![w] = r]
      BY <1>0, <3>t DEF TypeOK, Worker
    <3> HIDE DEF r
    <3> QED
      BY <1>2, <2>1, <3>1 DEF Probe, tables
  <2>2. CASE ReadProvider(w)
    <3> DEFINE r == [worker[w] EXCEPT !.pc = "escalate", !.remaining = provCool[Prov(w)] - now]
    <3>1. r.pc # "incident" /\ worker' = [worker EXCEPT ![w] = r]
      BY <1>0, <2>2 DEF ReadProvider, TypeOK, Worker
    <3> HIDE DEF r
    <3> QED
      BY <1>2, <2>2, <3>1 DEF ReadProvider, tables
  <2>3. CASE ReadStreak(w)
    <3>1. PICK b \in BOOLEAN : worker' = [worker EXCEPT ![w].pc = "open", ![w].streak = b]
      BY <2>3 DEF ReadStreak
    <3> DEFINE r == [worker[w] EXCEPT !.pc = "open", !.streak = b]
    <3>2. r.pc # "incident" /\ worker' = [worker EXCEPT ![w] = r]
      BY <1>0, <3>1 DEF TypeOK, Worker
    <3> HIDE DEF r
    <3> QED
      BY <1>2, <2>3, <3>2 DEF ReadStreak, tables
  <2>4. CASE ReadOpen(w)
    BY <1>0, <2>4, ReadOpenBounded
  <2>5. CASE RaiseIncident(w)
    BY <1>0, <2>5, RaiseBounded
  <2>6. CASE CloseIncident(w) \/ CountFailure(w)
    BY <1>0, <2>6, UpdateBounded
  <2>7. CASE ReadDay(w)
    <3> DEFINE fails == Cardinality(Failures(Model(w), DayRuns(Model(w))))
               gone  == Cardinality(GoneHits(Model(w), DayRuns(Model(w))))
               pc    == AfterCount(worker[w].out, fails, gone)
               r     == [worker[w] EXCEPT !.pc = pc, !.fails = fails, !.gone = gone]
    <3>1. pc # "incident"
      BY DEF AfterCount, AfterBackoff
    <3>2. worker' = [worker EXCEPT ![w].pc = pc, ![w].fails = fails, ![w].gone = gone]
      BY <2>7 DEF ReadDay
    <3> HIDE DEF fails, gone, pc
    <3>3. r.pc # "incident" /\ worker' = [worker EXCEPT ![w] = r]
      BY <1>0, <3>1, <3>2 DEF TypeOK, Worker
    <3> HIDE DEF r
    <3> QED
      BY <1>2, <2>7, <3>3 DEF ReadDay, tables
  <2>8. CASE InsertRun(w) \/ ClearCooldown(w) \/ NoCooldown(w) \/ BackOffProvider(w)
             \/ TripProvider(w) \/ RestModel(w) \/ Disable(w)
    BY <1>1, <2>8 DEF InsertRun, ClearCooldown, NoCooldown, BackOffProvider, TripProvider,
                      RestModel, Disable, tables, PCs
  <2>9. CASE BackOffModel(w)
    BY <1>1, <2>9 DEF BackOffModel, AfterBackoff, PCs
  <2>10. CASE Finish(w)
    BY <1>8, <2>10 DEF Finish, At, tables
  <2> QED
    BY <1>9, <2>1, <2>2, <2>3, <2>4, <2>5, <2>6, <2>7, <2>8, <2>9, <2>10 DEF Handle
<1>10. ASSUME NEW w \in Workers, Mishap(w)
       PROVE  RaisersBounded'
  <2>1. CASE InsertUnstamped(w) \/ InsertRepeated(w)
    BY <1>1, <2>1 DEF InsertUnstamped, InsertRepeated, PCs
  <2>2. CASE CallLost(w)
    <3>1. AfterLost(w) \in PCs \ {"incident"}
      BY DEF AfterLost, AfterBackoff, PCs
    <3> QED
      BY <1>1, <2>2, <3>1 DEF CallLost, tables
  <2>3. CASE Crash(w)
    BY <1>8, <2>3 DEF Crash, Abandon, tables
  <2> QED
    BY <1>10, <2>1, <2>2, <2>3 DEF Mishap
<1>11. ASSUME NEW d \in TimeSteps, Tick(d)
       PROVE  RaisersBounded'
  BY <1>3, <1>11 DEF Tick, tables
<1>12. CASE UNCHANGED vars
  BY <1>3, <1>12 DEF vars
<1> QED
  BY <1>4, <1>5, <1>6, <1>7, <1>9, <1>10, <1>11, <1>12 DEF Next

LEMMA InitBounded == Init => RaisersBounded
<1> SUFFICES ASSUME Init, NEW m \in Models
             PROVE  Cardinality(OpenRows(m)) + Cardinality(Raisers(m)) <= Cardinality(Workers)
  BY DEF RaisersBounded
<1>1. OpenRows(m) = {} /\ Raisers(m) = {}
  BY DEF Init, OpenRows, Raisers, At, Idle
<1>2. Cardinality({}) = 0 /\ Cardinality(Workers) \in Nat
  BY WorkersAssumption, FS_EmptySet, FS_CardinalityType
<1> QED
  BY <1>1, <1>2

(* However many lanes measure a model at once, they leave at most one open *)
(* incident each; in particular a single lane never leaves two.            *)
THEOREM IncidentsAreBounded == Spec => []IncidentBound
<1>1. Init => IndInv
  BY InitTypes, InitBounded DEF IndInv
<1>2. IndInv /\ [Next]_vars => IndInv'
  BY StepTypes, StepBounded DEF IndInv
<1>3. IndInv => IncidentBound
  <2> SUFFICES ASSUME IndInv, NEW m \in Models
               PROVE  Cardinality(OpenRows(m)) <= Cardinality(Workers)
    BY DEF IncidentBound
  <2> QED
    BY Finiteness DEF IndInv, TypeInv, RaisersBounded
<1> QED
  BY <1>1, <1>2, <1>3, PTL DEF Spec

-----------------------------------------------------------------------------
(* The ledger.                                                             *)

(* A lane handles a job that somebody can measure, and beyond the insert   *)
(* the job has its row.                                                    *)
LaneLedger ==
  \A w \in Workers : ~At(w, "idle") =>
    /\ Model(w) \in Routable
    /\ worker[w].pc \notin {"probe", "insert"} => HasRow(worker[w].job)

RunningCounted == \A j \in Jobs : jobs[j].st = "running" => jobs[j].tries > 0

FreshJobs == \A j \in Jobs : jobs[j].st = "none" => jobs[j].tries = 0

LedgerInv == LaneLedger /\ RunningCounted /\ FreshJobs

-----------------------------------------------------------------------------
(* What a change of one job, or of the runs, looks like in the ledger.     *)

LEMMA JobMoves ==
  ASSUME TypeOK, NEW j \in Jobs, NEW r \in Job,
         jobs' = [jobs EXCEPT ![j] = r], runs' = runs
  PROVE  /\ phases' = [phases EXCEPT ![j] = Phase(r)]
         /\ ways' = [ways EXCEPT ![j] = r.via]
         /\ deliveries' = [deliveries EXCEPT ![j] = r.tries]
         /\ r.via = jobs[j].via => ways' = ways
         /\ r.tries = jobs[j].tries => deliveries' = deliveries
         /\ measured' = measured
<1>1. jobs \in [Jobs -> Job] /\ jobs' \in [Jobs -> Job]
  BY DEF TypeOK
<1>2. \A i \in Jobs : jobs'[i] = IF i = j THEN r ELSE jobs[i]
  BY <1>1
<1>3. phases' = [phases EXCEPT ![j] = Phase(r)]
  <2>1. phases' = [i \in Jobs |-> Phase(jobs'[i])]
    BY DEF phases, Phase
  <2>2. \A i \in Jobs : Phase(jobs'[i]) = IF i = j THEN Phase(r) ELSE Phase(jobs[i])
    BY <1>2
  <2>3. phases = [i \in Jobs |-> Phase(jobs[i])]
    BY DEF phases
  <2> QED
    BY <2>1, <2>2, <2>3
<1>4. ways' = [ways EXCEPT ![j] = r.via] /\ (r.via = jobs[j].via => ways' = ways)
  <2>1. ways' = [i \in Jobs |-> jobs'[i].via] /\ ways = [i \in Jobs |-> jobs[i].via]
    BY DEF ways
  <2>2. \A i \in Jobs : jobs'[i].via = IF i = j THEN r.via ELSE jobs[i].via
    BY <1>2
  <2> QED
    BY <2>1, <2>2
<1>5. /\ deliveries' = [deliveries EXCEPT ![j] = r.tries]
      /\ r.tries = jobs[j].tries => deliveries' = deliveries
  <2>1. /\ deliveries' = [i \in Jobs |-> jobs'[i].tries]
        /\ deliveries = [i \in Jobs |-> jobs[i].tries]
    BY DEF deliveries
  <2>2. \A i \in Jobs : jobs'[i].tries = IF i = j THEN r.tries ELSE jobs[i].tries
    BY <1>2
  <2> QED
    BY <2>1, <2>2
<1>6. measured' = measured
  BY DEF measured, HasRow
<1> QED
  BY <1>3, <1>4, <1>5, <1>6

LEMMA NothingMoves ==
  ASSUME UNCHANGED <<jobs, runs>>
  PROVE  UNCHANGED Ledger!vars
BY DEF Ledger!vars, phases, ways, deliveries, measured, HasRow, Phase

LEMMA Phases ==
  ASSUME TypeOK, NEW j \in Jobs
  PROVE  /\ phases[j] = Phase(jobs[j])
         /\ jobs[j].st = "none" => phases[j] = "none"
         /\ jobs[j].st = "queued" => phases[j] = "waiting"
         /\ jobs[j].st = "running" => phases[j] = "handled"
         /\ ways[j] = jobs[j].via
         /\ deliveries[j] = jobs[j].tries
         /\ jobs[j] \in Job /\ jobs[j].tries \in Nat
BY DEF phases, ways, deliveries, Phase, PhaseOf, TypeOK, Job

(* The ledger's actions, over what a job looks like there.                 *)
LEMMA LedgerActions ==
  ASSUME NEW j \in Jobs
  PROVE  /\ \A v : Ledger!Create(j, v) <=>
              /\ phases[j] = "none" /\ phases' = [phases EXCEPT ![j] = "waiting"]
              /\ ways' = [ways EXCEPT ![j] = v]
              /\ deliveries' = deliveries /\ measured' = measured
         /\ Ledger!Deliver(j) <=>
              /\ phases[j] = "waiting" /\ phases' = [phases EXCEPT ![j] = "handled"]
              /\ deliveries' = [deliveries EXCEPT ![j] = deliveries[j] + 1]
              /\ ways' = ways /\ measured' = measured
         /\ Ledger!Ignore(j) <=>
              /\ phases[j] = "waiting" /\ phases' = [phases EXCEPT ![j] = "ignored"]
              /\ deliveries' = [deliveries EXCEPT ![j] = deliveries[j] + 1]
              /\ ways' = ways /\ measured' = measured
BY DEF Ledger!Create, Ledger!Deliver, Ledger!Ignore, Ledger!Move, Ledger!Count

LEMMA LedgerEnds ==
  ASSUME NEW j \in Jobs
  PROVE  /\ Ledger!Acknowledge(j) <=>
              /\ j \in measured
              /\ phases[j] = "handled" /\ phases' = [phases EXCEPT ![j] = "done"]
              /\ ways' = ways /\ deliveries' = deliveries /\ measured' = measured
         /\ Ledger!Redeliver(j) <=>
              /\ deliveries[j] < (IF ways[j] = "inline" THEN 1 ELSE MaxRetries + 1)
              /\ phases[j] = "handled" /\ phases' = [phases EXCEPT ![j] = "waiting"]
              /\ ways' = ways /\ deliveries' = deliveries /\ measured' = measured
         /\ Ledger!GiveUp(j) <=>
              /\ phases' = [phases EXCEPT ![j] = "given_up"]
              /\ \/ /\ phases[j] = "handled"
                    /\ deliveries[j] >= (IF ways[j] = "inline" THEN 1 ELSE MaxRetries + 1)
                 \/ ways[j] = "inline" /\ phases[j] = "waiting"
              /\ ways' = ways /\ deliveries' = deliveries /\ measured' = measured
BY DEF Ledger!Acknowledge, Ledger!Redeliver, Ledger!GiveUp, Ledger!Move, Ledger!Limit

(* A job that is moved on.                                                 *)
LEMMA JobAt ==
  ASSUME NEW job \in Job, NEW st \in {"queued", "running"} \cup Settled
  PROVE  LET r == [job EXCEPT !.st = st]
         IN  /\ r \in Job /\ r.st = st /\ r.via = job.via
             /\ r.tries = job.tries /\ r.model = job.model
BY DEF Job, Settled

(* A step of a lane that neither begins nor ends a job is on the way from  *)
(* the probe, through the insert of the run, to the end.                   *)
LEMMA LaneMoves ==
  ASSUME TypeInv, NEW w \in Workers,
         Handle(w) \/ Mishap(w), ~Finish(w), ~Crash(w)
  PROVE  /\ ~At(w, "idle") /\ jobs' = jobs
         /\ Others(w) /\ worker'[w].job = worker[w].job
         /\ \/ At(w, "probe") /\ worker'[w].pc = "insert" /\ runs' = runs
            \/ InsertRun(w) \/ InsertUnstamped(w) \/ InsertRepeated(w)
            \/ /\ worker[w].pc \notin {"idle", "probe", "insert"} /\ runs' = runs
               /\ worker'[w].pc \notin {"idle", "probe", "insert"}
<1> USE DEF TypeInv
<1>0. worker \in [Workers -> Worker] /\ worker[w] \in Worker
  BY DEF TypeOK
<1>1. ASSUME NEW o \in Outcomes, Probe(w, o)
      PROVE  /\ At(w, "probe") /\ worker'[w].pc = "insert"
             /\ Others(w) /\ worker'[w].job = worker[w].job
             /\ jobs' = jobs /\ runs' = runs
  <2>1. PICK t \in StartedAt(w, o) :
          worker' = [worker EXCEPT ![w].pc = "insert", ![w].out = o, ![w].at = t]
    BY <1>1 DEF Probe
  <2> QED
    BY <1>0, <1>1, <2>1 DEF Probe, tables, Others, Worker
<1>2. ASSUME NEW pc \in PCs, Goto(w, pc)
      PROVE  Others(w) /\ worker'[w].job = worker[w].job /\ worker'[w].pc = pc
  BY <1>2, GotoKeeps
<1>3. CASE InsertRun(w) \/ InsertUnstamped(w) \/ InsertRepeated(w)
  <2>1. ~At(w, "idle") /\ Goto(w, "cool") /\ jobs' = jobs /\ "cool" \in PCs
    BY <1>3 DEF InsertRun, InsertUnstamped, InsertRepeated, At, PCs
  <2> QED
    BY <1>2, <1>3, <2>1
<1> DEFINE Middle == PCs \ {"idle", "probe", "insert"}
<1>4. CASE ClearCooldown(w) \/ NoCooldown(w) \/ BackOffProvider(w) \/ TripProvider(w)
           \/ RestModel(w) \/ BackOffModel(w) \/ Disable(w)
  <2>1. PICK pc \in Middle : Goto(w, pc)
    BY <1>4 DEF ClearCooldown, NoCooldown, BackOffProvider, TripProvider, RestModel,
                BackOffModel, Disable, AfterBackoff, PCs
  <2>2. /\ worker[w].pc \notin {"idle", "probe", "insert"}
        /\ jobs' = jobs /\ runs' = runs
    BY <1>4 DEF ClearCooldown, NoCooldown, BackOffProvider, TripProvider, RestModel,
                BackOffModel, Disable, At, tables
  <2> QED
    BY <1>2, <2>1, <2>2 DEF At
<1>5. CASE RaiseIncident(w) \/ CloseIncident(w) \/ CountFailure(w)
  <2>1. Goto(w, "guard") /\ At(w, "incident") /\ jobs' = jobs /\ runs' = runs
    BY <1>5 DEF RaiseIncident, CloseIncident, CountFailure, WriteIncidents
  <2> QED
    BY <1>2, <2>1 DEF At, PCs
<1>6. CASE CallLost(w)
  <2>1. AfterLost(w) \in Middle
    BY DEF AfterLost, AfterBackoff, PCs
  <2>2. /\ Goto(w, AfterLost(w)) /\ jobs' = jobs /\ runs' = runs
        /\ worker[w].pc \notin {"idle", "probe", "insert"}
    BY <1>6 DEF CallLost, tables
  <2> QED
    BY <1>2, <2>1, <2>2 DEF At
<1>7. CASE ReadProvider(w) \/ ReadOpen(w) \/ ReadStreak(w) \/ ReadDay(w)
  <2>1. /\ worker[w].pc \notin {"idle", "probe", "insert"}
        /\ jobs' = jobs /\ runs' = runs
    BY <1>7 DEF ReadProvider, ReadOpen, ReadStreak, ReadDay, At, tables
  <2> DEFINE Moved(pc) == /\ Others(w) /\ worker'[w].job = worker[w].job
                          /\ worker'[w].pc = pc
  <2>2. \E pc \in Middle : Moved(pc)
    <3>1. ASSUME NEW x, NEW y, worker' = [worker EXCEPT ![w].pc = x, ![w].remaining = y]
          PROVE  Moved(x)
      BY <1>0, <3>1 DEF Others, Worker
    <3>2. ASSUME NEW x, NEW y, worker' = [worker EXCEPT ![w].open = x, ![w].pc = y]
          PROVE  Moved(y)
      BY <1>0, <3>2 DEF Others, Worker
    <3>3. ASSUME NEW x, worker' = [worker EXCEPT ![w].pc = "open", ![w].streak = x]
          PROVE  Moved("open")
      BY <1>0, <3>3 DEF Others, Worker
    <3>4. ASSUME NEW x, NEW y, NEW z,
                 worker' = [worker EXCEPT ![w].pc = x, ![w].fails = y, ![w].gone = z]
          PROVE  Moved(x)
      BY <1>0, <3>4 DEF Others, Worker
    <3> HIDE DEF Moved
    <3>5. CASE ReadProvider(w)
      BY <3>1, <3>5 DEF ReadProvider, PCs
    <3>6. CASE ReadOpen(w)
      <4>1. PICK i \in LatestOpen(Model(w)), pc \in {"incident", "guard"} :
              worker' = [worker EXCEPT ![w].open = i, ![w].pc = pc]
        BY <3>6 DEF ReadOpen
      <4> QED
        BY <3>2, <4>1 DEF PCs
    <3>7. CASE ReadStreak(w)
      BY <3>3, <3>7 DEF ReadStreak, PCs
    <3>8. CASE ReadDay(w)
      <4>1. PICK pc, f, g :
              /\ worker' = [worker EXCEPT ![w].pc = pc, ![w].fails = f, ![w].gone = g]
              /\ pc \in {"backoff", "disable", "finish"}
        BY <3>8 DEF ReadDay, AfterCount, AfterBackoff
      <4> QED
        BY <3>4, <4>1 DEF PCs
    <3> QED
      BY <1>7, <3>5, <3>6, <3>7, <3>8
  <2> QED
    BY <2>1, <2>2 DEF At
<1> QED
  BY <1>1, <1>3, <1>4, <1>5, <1>6, <1>7 DEF Handle, Mishap, At

(* The insert adds a row for the lane's job and for no other.              *)
LEMMA InsertMeasures ==
  ASSUME TypeInv, NEW w \in Workers,
         InsertRun(w) \/ InsertUnstamped(w) \/ InsertRepeated(w)
  PROVE  measured' = measured \cup {worker[w].job} /\ HasRow(worker[w].job)'
<1> USE DEF TypeInv
<1> DEFINE m   == Model(w)
           job == worker[w].job
           run == NewRun(w)
           old == runs[m]
           new == runs'[m]
<1>1. ~At(w, "idle") /\ Goto(w, "cool")
  BY DEF InsertRun, InsertUnstamped, InsertRepeated, At
<1>2. m \in Models /\ job \in Jobs /\ old \in Seq(Run) /\ runs \in [Models -> Seq(Run)]
  BY <1>1, BusyTypes DEF TypeOK
<1>3. run \in Run /\ run.job = job
  BY <1>1, BusyTypes DEF NewRun, Run, TypeOK, Worker
<1>4. /\ runs' = [runs EXCEPT ![m] = Append(old, run)]
         \/ runs' = [runs EXCEPT ![m] = Append(Append(old, run), run)]
      /\ job' = job
  BY <1>1, GotoKeeps DEF InsertRun, InsertUnstamped, InsertRepeated, PCs
<1> HIDE DEF m, run
<1>5. ASSUME NEW s \in Seq(Run)
      PROVE  /\ Append(s, run) \in Seq(Run)
             /\ DOMAIN Append(s, run) = DOMAIN s \cup {Len(s) + 1}
             /\ \A i \in DOMAIN s : Append(s, run)[i] = s[i]
             /\ Append(s, run)[Len(s) + 1] = run
  <2>1. /\ Append(s, run) \in Seq(Run)
        /\ DOMAIN Append(s, run) = 1 .. Len(s) + 1
        /\ \A i \in 1 .. Len(s) : Append(s, run)[i] = s[i]
        /\ Append(s, run)[Len(s) + 1] = run
        /\ DOMAIN s = 1 .. Len(s) /\ Len(s) \in Nat
    BY <1>3, <1>5, AppendProperties
  <2> QED
    BY <2>1
<1> DEFINE Has(s, j) == \E i \in DOMAIN s : s[i].job = j
<1>6. ASSUME NEW s \in Seq(Run), NEW j
      PROVE  Has(Append(s, run), j) <=> Has(s, j) \/ j = job
  BY <1>3, <1>5
<1>7. \A j : Has(new, j) <=> Has(old, j) \/ j = job
  <2>1. CASE runs' = [runs EXCEPT ![m] = Append(old, run)]
    <3>1. new = Append(old, run)
      BY <1>2, <2>1
    <3> HIDE DEF Has, old, new, job
    <3> QED
      BY <1>2, <1>6, <3>1
  <2>2. CASE runs' = [runs EXCEPT ![m] = Append(Append(old, run), run)]
    <3>1. new = Append(Append(old, run), run)
      BY <1>2, <2>2
    <3>2. Append(old, run) \in Seq(Run)
      BY <1>2, <1>5
    <3> HIDE DEF Has, old, new, job
    <3> QED
      BY <1>2, <1>6, <3>1, <3>2
  <2> QED
    BY <1>4, <2>1, <2>2
<1>8. \A k \in Models : k # m => runs'[k] = runs[k]
  BY <1>2, <1>4
<1>9. ASSUME NEW j
      PROVE  HasRow(j)' <=> HasRow(j) \/ j = job
  <2>1. HasRow(j)' <=> \E k \in Models : Has(runs'[k], j)
    BY DEF HasRow
  <2>2. HasRow(j) <=> \E k \in Models : Has(runs[k], j)
    BY DEF HasRow
  <2> HIDE DEF Has, job
  <2> QED
    BY <1>2, <1>7, <1>8, <2>1, <2>2
<1>10. measured' = {j \in Jobs : HasRow(j)'} /\ measured = {j \in Jobs : HasRow(j)}
  BY DEF measured
<1> QED
  BY <1>2, <1>4, <1>9, <1>10

-----------------------------------------------------------------------------
(* LedgerInv is inductive.                                                 *)

LEMMA InitLedger == Init => LedgerInv /\ Ledger!Init
<1> SUFFICES ASSUME Init PROVE LedgerInv /\ Ledger!Init
  OBVIOUS
<1>1. LedgerInv
  BY DEF Init, LedgerInv, LaneLedger, RunningCounted, FreshJobs, At, Idle
<1>2. phases = [j \in Jobs |-> "none"]
  BY DEF Init, phases, Phase, PhaseOf
<1>3. ways = [j \in Jobs |-> "queue"] /\ deliveries = [j \in Jobs |-> 0]
  BY DEF Init, ways, deliveries
<1>4. measured = {}
  BY DEF Init, measured, HasRow
<1> QED
  BY <1>1, <1>2, <1>3, <1>4 DEF Ledger!Init

(* Jobs that no lane has may change, as long as none starts to run.        *)
LEMMA JobStepKeeps ==
  ASSUME TypeInv, LedgerInv, UNCHANGED <<worker, runs>>, NEW j \in Jobs, NEW r \in Job,
         jobs' = [jobs EXCEPT ![j] = r],
         jobs[j].st # "running", r.st \notin {"none", "running"}
  PROVE  LedgerInv'
<1> USE DEF TypeInv, LedgerInv
<1>1. \A i \in Jobs : jobs'[i] = IF i = j THEN r ELSE jobs[i]
  BY DEF TypeOK
<1>2. ASSUME NEW w \in Workers, ~At(w, "idle")
      PROVE  Model(w)' = Model(w) /\ Model(w) \in Routable
             /\ (worker[w].pc \notin {"probe", "insert"} => HasRow(worker[w].job)')
  <2>1. worker[w].job \in Jobs /\ worker[w].job # j
    BY <1>2 DEF OwnJobs
  <2>2. HasRow(worker[w].job)' = HasRow(worker[w].job)
    BY DEF HasRow
  <2> QED
    BY <1>1, <1>2, <2>1, <2>2 DEF LaneLedger, Model
<1>3. LaneLedger'
  BY <1>2 DEF LaneLedger, At
<1> QED
  BY <1>1, <1>3 DEF RunningCounted, FreshJobs

LEMMA LaneStepKeeps ==
  ASSUME TypeInv, LedgerInv, NEW w \in Workers,
         Handle(w) \/ Mishap(w), ~Finish(w), ~Crash(w)
  PROVE  LedgerInv'
<1> USE DEF TypeInv, LedgerInv
<1>1. /\ ~At(w, "idle") /\ jobs' = jobs
      /\ Others(w) /\ worker'[w].job = worker[w].job
  BY LaneMoves
<1>2. measured \subseteq measured'
  <2>1. CASE InsertRun(w) \/ InsertUnstamped(w) \/ InsertRepeated(w)
    BY <2>1, InsertMeasures
  <2>2. CASE runs' = runs
    BY <2>2 DEF measured, HasRow
  <2> QED
    BY <2>1, <2>2, LaneMoves
<1>3. ASSUME NEW v \in Workers, ~At(v, "idle")'
      PROVE  /\ Model(v)' \in Routable
             /\ worker'[v].pc \notin {"probe", "insert"} => worker'[v].job \in measured'
  <2>1. CASE v = w
    <3>1. Model(w)' = Model(w) /\ Model(w) \in Routable /\ worker[w].job \in Jobs
      BY <1>1 DEF Model, LaneLedger, OwnJobs
    <3>2. worker'[w].pc \notin {"probe", "insert"} => worker[w].job \in measured'
      <4>1. CASE InsertRun(w) \/ InsertUnstamped(w) \/ InsertRepeated(w)
        BY <4>1, InsertMeasures
      <4>2. CASE worker[w].pc \notin {"idle", "probe", "insert"} /\ runs' = runs
        <5>1. HasRow(worker[w].job)
          BY <1>1, <4>2 DEF LaneLedger
        <5> QED
          BY <1>2, <3>1, <5>1 DEF measured
      <4> QED
        BY <4>1, <4>2, LaneMoves
    <3> QED
      BY <1>1, <2>1, <3>1, <3>2
  <2>2. CASE v # w
    <3>1. worker'[v] = worker[v] /\ ~At(v, "idle")
      BY <1>1, <1>3, <2>2 DEF Others, At
    <3>2. worker[v].job \in Jobs
      BY <3>1 DEF OwnJobs
    <3>3. worker[v].pc \notin {"probe", "insert"} => worker[v].job \in measured
      BY <3>1, <3>2 DEF LaneLedger, measured
    <3>4. Model(v)' = Model(v) /\ Model(v) \in Routable
      BY <1>1, <3>1 DEF LaneLedger, Model
    <3> QED
      BY <1>2, <3>1, <3>3, <3>4
  <2> QED
    BY <2>1, <2>2
<1>4. LaneLedger'
  BY <1>3 DEF LaneLedger, measured
<1> QED
  BY <1>1, <1>4 DEF RunningCounted, FreshJobs

(* A lane takes a job it did not have, or gives up the one it has.         *)
LEMMA ReceiveKeepsLedger ==
  ASSUME TypeInv, LedgerInv, NEW w \in Workers, NEW j \in Jobs, Receive(w, j)
  PROVE  LedgerInv'
<1> USE DEF TypeInv, LedgerInv
<1> DEFINE r == [Idle EXCEPT !.pc = "probe", !.job = j, !.at = now]
           new == [jobs[j] EXCEPT !.st = "running", !.tries = @ + 1]
<1>1. /\ At(w, "idle") /\ jobs[j].st = "queued" /\ jobs[j].model \in Routable
      /\ worker' = [worker EXCEPT ![w] = r] /\ jobs' = [jobs EXCEPT ![j] = new]
      /\ runs' = runs
  BY DEF Receive, tables
<1>2. r.pc = "probe" /\ r.job = j
  BY DEF Idle
<1>3. jobs[j].tries \in Nat /\ jobs[j] \in Job
  BY DEF TypeOK, Job
<1>4. new.model \in Routable /\ new.st = "running" /\ new.tries > 0
  BY <1>1, <1>3 DEF Job
<1> HIDE DEF r, new
<1>5. /\ \A i \in Jobs : jobs'[i] = IF i = j THEN new ELSE jobs[i]
      /\ \A v \in Workers : worker'[v] = IF v = w THEN r ELSE worker[v]
      /\ measured' = measured
  BY <1>1 DEF TypeOK, measured, HasRow
<1>6. ASSUME NEW v \in Workers, ~At(v, "idle")'
      PROVE  /\ Model(v)' \in Routable
             /\ worker'[v].pc \notin {"probe", "insert"} => worker'[v].job \in measured'
  <2>1. CASE v = w
    BY <1>2, <1>4, <1>5, <2>1 DEF Model
  <2>2. CASE v # w
    <3>1. worker'[v] = worker[v] /\ ~At(v, "idle")
      BY <1>5, <1>6, <2>2 DEF At
    <3>2. worker[v].job \in Jobs /\ worker[v].job # j
      BY <1>1, <3>1 DEF OwnJobs
    <3> QED
      BY <1>5, <3>1, <3>2 DEF LaneLedger, Model, measured
  <2> QED
    BY <2>1, <2>2
<1>7. LaneLedger'
  BY <1>6 DEF LaneLedger, measured
<1> QED
  BY <1>4, <1>5, <1>7 DEF RunningCounted, FreshJobs

LEMMA ReleaseKeepsLedger ==
  ASSUME TypeInv, LedgerInv, NEW w \in Workers, ~At(w, "idle"),
         NEW st \in {"queued"} \cup Settled, Release(w, st), runs' = runs
  PROVE  LedgerInv'
<1> USE DEF TypeInv, LedgerInv
<1> DEFINE j == worker[w].job
           new == [jobs[j] EXCEPT !.st = st]
<1>1. j \in Jobs
  BY DEF OwnJobs
<1>2. jobs' = [jobs EXCEPT ![j] = new] /\ worker' = [worker EXCEPT ![w] = Idle]
  BY DEF Release
<1>3. new.st = st /\ st \notin {"none", "running"}
  <2>1. jobs[j] \in Job
    BY <1>1 DEF TypeOK
  <2> QED
    BY <2>1 DEF Job, Settled
<1> HIDE DEF new
<1>4. /\ \A i \in Jobs : jobs'[i] = IF i = j THEN new ELSE jobs[i]
      /\ \A v \in Workers : worker'[v] = IF v = w THEN Idle ELSE worker[v]
      /\ measured' = measured
  BY <1>1, <1>2 DEF TypeOK, measured, HasRow
<1>5. ASSUME NEW v \in Workers, ~At(v, "idle")'
      PROVE  /\ Model(v)' \in Routable
             /\ worker'[v].pc \notin {"probe", "insert"} => worker'[v].job \in measured'
  <2>1. v # w /\ worker'[v] = worker[v] /\ ~At(v, "idle")
    BY <1>4, <1>5 DEF At, Idle
  <2>2. worker[v].job \in Jobs /\ worker[v].job # j
    BY <2>1 DEF OwnJobs
  <2> QED
    BY <1>4, <2>1, <2>2 DEF LaneLedger, Model, measured
<1>6. LaneLedger'
  BY <1>5 DEF LaneLedger, measured
<1> QED
  BY <1>3, <1>4, <1>6 DEF RunningCounted, FreshJobs

-----------------------------------------------------------------------------
(* Every step is a step of the ledger, or leaves it alone.                 *)

LEMMA CreateLedger ==
  ASSUME TypeInv, LedgerInv, NEW j \in Jobs, NEW m \in Models,
         NEW via \in {"inline", "queue"}, Create(j, m, via)
  PROVE  LedgerInv' /\ Ledger!Create(j, via)
<1> USE DEF TypeInv, LedgerInv
<1> DEFINE r == [st |-> "queued", model |-> m, via |-> via, tries |-> 0]
<1>1. /\ r \in Job /\ r.st = "queued" /\ r.via = via /\ r.tries = 0
      /\ Phase(r) = "waiting"
  BY DEF Job, Phase, PhaseOf
<1>2. /\ jobs[j].st = "none" /\ jobs' = [jobs EXCEPT ![j] = r]
      /\ UNCHANGED <<worker, runs>>
  BY DEF Create, tables
<1> HIDE DEF r
<1>3. LedgerInv'
  BY <1>1, <1>2, JobStepKeeps
<1>4. jobs[j].tries = 0
  BY <1>2 DEF FreshJobs
<1>5. /\ phases[j] = "none" /\ phases' = [phases EXCEPT ![j] = "waiting"]
      /\ ways' = [ways EXCEPT ![j] = via]
      /\ deliveries' = deliveries /\ measured' = measured
  <2>1. /\ phases' = [phases EXCEPT ![j] = Phase(r)]
        /\ ways' = [ways EXCEPT ![j] = r.via]
        /\ deliveries' = [deliveries EXCEPT ![j] = r.tries]
        /\ r.via = jobs[j].via => ways' = ways
        /\ r.tries = jobs[j].tries => deliveries' = deliveries
        /\ measured' = measured
    BY <1>1, <1>2, <1>3, JobMoves
  <2> QED
    BY <1>1, <1>2, <1>4, <2>1, Phases
<1> QED
  BY <1>3, <1>5, LedgerActions

LEMMA SkipLedger ==
  ASSUME TypeInv, LedgerInv, NEW j \in Jobs, Skip(j)
  PROVE  LedgerInv' /\ Ledger!Ignore(j)
<1> USE DEF TypeInv, LedgerInv
<1> DEFINE r == [jobs[j] EXCEPT !.st = "done", !.tries = @ + 1]
<1>1. /\ jobs[j].st = "queued" /\ jobs[j].model \notin Routable
      /\ jobs' = [jobs EXCEPT ![j] = r] /\ UNCHANGED <<worker, runs>>
  BY DEF Skip, tables
<1>2. jobs[j] \in Job /\ jobs[j].tries \in Nat
  BY Phases
<1>3. /\ r \in Job /\ r.st = "done" /\ r.via = jobs[j].via /\ r.tries = jobs[j].tries + 1
      /\ r.model = jobs[j].model
  <2>1. ASSUME NEW job \in Job, NEW n \in Nat
        PROVE  LET s == [job EXCEPT !.st = "done", !.tries = n]
               IN  /\ s \in Job /\ s.st = "done" /\ s.via = job.via
                   /\ s.tries = n /\ s.model = job.model
    BY DEF Job, Settled
  <2>2. jobs[j].tries + 1 \in Nat
    BY <1>2
  <2> QED
    BY <1>2, <2>1, <2>2
<1> HIDE DEF r
<1>4. Phase(r) = "ignored"
  BY <1>1, <1>3 DEF Phase
<1>5. LedgerInv'
  BY <1>1, <1>3, JobStepKeeps
<1>6. /\ phases[j] = "waiting" /\ phases' = [phases EXCEPT ![j] = "ignored"]
      /\ deliveries' = [deliveries EXCEPT ![j] = deliveries[j] + 1]
      /\ ways' = ways /\ measured' = measured
  <2>1. /\ phases' = [phases EXCEPT ![j] = Phase(r)]
        /\ ways' = [ways EXCEPT ![j] = r.via]
        /\ deliveries' = [deliveries EXCEPT ![j] = r.tries]
        /\ r.via = jobs[j].via => ways' = ways
        /\ r.tries = jobs[j].tries => deliveries' = deliveries
        /\ measured' = measured
    BY <1>1, <1>2, <1>3, JobMoves
  <2> QED
    BY <1>1, <1>3, <1>4, <2>1, Phases
<1> QED
  BY <1>5, <1>6, LedgerActions

LEMMA TickKilledLedger ==
  ASSUME TypeInv, LedgerInv, NEW j \in Jobs, TickKilled(j)
  PROVE  LedgerInv' /\ Ledger!GiveUp(j)
<1> USE DEF TypeInv, LedgerInv
<1> DEFINE r == [jobs[j] EXCEPT !.st = "dropped"]
<1>1. /\ jobs[j].st = "queued" /\ jobs[j].via = "inline"
      /\ jobs' = [jobs EXCEPT ![j] = r] /\ UNCHANGED <<worker, runs>>
  BY DEF TickKilled, tables
<1>2. jobs[j] \in Job
  BY Phases
<1>3. /\ r \in Job /\ r.st = "dropped" /\ r.via = jobs[j].via /\ r.tries = jobs[j].tries
  BY <1>2, JobAt DEF Settled
<1> HIDE DEF r
<1>4. Phase(r) = "given_up"
  BY <1>3 DEF Phase, PhaseOf
<1>5. LedgerInv'
  BY <1>1, <1>3, JobStepKeeps
<1>6. /\ phases[j] = "waiting" /\ phases' = [phases EXCEPT ![j] = "given_up"]
      /\ ways[j] = "inline"
      /\ ways' = ways /\ deliveries' = deliveries /\ measured' = measured
  <2>1. /\ phases' = [phases EXCEPT ![j] = Phase(r)]
        /\ ways' = [ways EXCEPT ![j] = r.via]
        /\ deliveries' = [deliveries EXCEPT ![j] = r.tries]
        /\ r.via = jobs[j].via => ways' = ways
        /\ r.tries = jobs[j].tries => deliveries' = deliveries
        /\ measured' = measured
    BY <1>1, <1>2, <1>3, JobMoves
  <2> QED
    BY <1>1, <1>3, <1>4, <2>1, Phases
<1> QED
  BY <1>5, <1>6, LedgerEnds

LEMMA ReceiveLedger ==
  ASSUME TypeInv, LedgerInv, NEW w \in Workers, NEW j \in Jobs, Receive(w, j)
  PROVE  Ledger!Deliver(j)
<1> USE DEF TypeInv, LedgerInv
<1> DEFINE r == [jobs[j] EXCEPT !.st = "running", !.tries = @ + 1]
<1>1. jobs[j].st = "queued" /\ jobs' = [jobs EXCEPT ![j] = r] /\ runs' = runs
  BY DEF Receive, tables
<1>2. jobs[j] \in Job /\ jobs[j].tries \in Nat
  BY Phases
<1>3. r \in Job /\ r.st = "running" /\ r.via = jobs[j].via /\ r.tries = jobs[j].tries + 1
  <2>1. ASSUME NEW job \in Job, NEW n \in Nat
        PROVE  LET s == [job EXCEPT !.st = "running", !.tries = n]
               IN  /\ s \in Job /\ s.st = "running" /\ s.via = job.via
                   /\ s.tries = n /\ s.model = job.model
    BY DEF Job, Settled
  <2>2. jobs[j].tries + 1 \in Nat
    BY <1>2
  <2> QED
    BY <1>2, <2>1, <2>2
<1> HIDE DEF r
<1>4. Phase(r) = "handled"
  BY <1>3 DEF Phase, PhaseOf
<1>5. /\ phases[j] = "waiting" /\ phases' = [phases EXCEPT ![j] = "handled"]
      /\ deliveries' = [deliveries EXCEPT ![j] = deliveries[j] + 1]
      /\ ways' = ways /\ measured' = measured
  <2>1. /\ phases' = [phases EXCEPT ![j] = Phase(r)]
        /\ ways' = [ways EXCEPT ![j] = r.via]
        /\ deliveries' = [deliveries EXCEPT ![j] = r.tries]
        /\ r.via = jobs[j].via => ways' = ways
        /\ r.tries = jobs[j].tries => deliveries' = deliveries
        /\ measured' = measured
    BY <1>1, <1>2, <1>3, JobMoves
  <2> QED
    BY <1>1, <1>3, <1>4, <2>1, Phases
<1> QED
  BY <1>5, LedgerActions

(* What ending a job looks like in the ledger.                             *)
LEMMA ReleaseMoves ==
  ASSUME TypeInv, LedgerInv, NEW w \in Workers, ~At(w, "idle"),
         NEW st \in {"queued"} \cup Settled, Release(w, st), runs' = runs
  PROVE  LET j == worker[w].job
         IN  /\ j \in Jobs /\ phases[j] = "handled" /\ jobs[j].model \in Routable
             /\ phases' = [phases EXCEPT ![j] = PhaseOf[st]]
             /\ ways' = ways /\ deliveries' = deliveries /\ measured' = measured
<1> USE DEF TypeInv, LedgerInv
<1> DEFINE j == worker[w].job
           r == [jobs[j] EXCEPT !.st = st]
<1>1. j \in Jobs /\ jobs[j].st = "running" /\ jobs[j].model \in Routable
  BY DEF OwnJobs, LaneLedger, Model
<1>2. jobs' = [jobs EXCEPT ![j] = r]
  BY DEF Release
<1>3. jobs[j] \in Job
  BY <1>1, Phases
<1> HIDE DEF j
<1>4. r \in Job /\ r.st = st /\ r.via = jobs[j].via /\ r.tries = jobs[j].tries
      /\ r.model = jobs[j].model
  BY <1>3, JobAt
<1> HIDE DEF r
<1>5. Phase(r) = PhaseOf[st]
  BY <1>1, <1>4 DEF Phase
<1>6. /\ phases' = [phases EXCEPT ![j] = Phase(r)]
      /\ r.via = jobs[j].via => ways' = ways
      /\ r.tries = jobs[j].tries => deliveries' = deliveries
      /\ measured' = measured
  BY <1>1, <1>2, <1>4, JobMoves
<1>7. phases[j] = "handled"
  BY <1>1, Phases
<1> QED
  BY <1>1, <1>4, <1>5, <1>6, <1>7 DEF j

LEMMA FinishLedger ==
  ASSUME TypeInv, LedgerInv, NEW w \in Workers, Finish(w)
  PROVE  LedgerInv' /\ Ledger!Acknowledge(worker[w].job)
<1> USE DEF TypeInv, LedgerInv
<1> DEFINE j == worker[w].job
<1>1. ~At(w, "idle") /\ Release(w, "done") /\ runs' = runs /\ "done" \in Settled
  BY DEF Finish, At, tables, Settled
<1>2. LedgerInv'
  BY <1>1, ReleaseKeepsLedger
<1>3. /\ j \in Jobs /\ phases[j] = "handled"
      /\ phases' = [phases EXCEPT ![j] = PhaseOf["done"]]
      /\ ways' = ways /\ deliveries' = deliveries /\ measured' = measured
  BY <1>1, ReleaseMoves
<1>4. j \in measured
  BY <1>1, <1>3 DEF LaneLedger, measured, Finish, At
<1>5. PhaseOf["done"] = "done"
  BY DEF PhaseOf
<1> HIDE DEF j
<1>6. Ledger!Acknowledge(j)
  BY <1>3, <1>4, <1>5, LedgerEnds
<1> QED
  BY <1>2, <1>6 DEF j

LEMMA CrashLedger ==
  ASSUME TypeInv, LedgerInv, NEW w \in Workers, Crash(w)
  PROVE  /\ LedgerInv'
         /\ Ledger!Redeliver(worker[w].job) \/ Ledger!GiveUp(worker[w].job)
<1> USE DEF TypeInv, LedgerInv
<1> DEFINE j  == worker[w].job
           st == AfterFailure(j)
<1>1. ~At(w, "idle") /\ Release(w, st) /\ runs' = runs
  BY DEF Crash, Abandon, tables
<1>2. st \in {"queued"} \cup Settled
  BY DEF AfterFailure, Settled
<1>3. LedgerInv'
  BY <1>1, <1>2, ReleaseKeepsLedger
<1>4. /\ j \in Jobs /\ phases[j] = "handled"
      /\ phases' = [phases EXCEPT ![j] = PhaseOf[st]]
      /\ ways' = ways /\ deliveries' = deliveries /\ measured' = measured
  BY <1>1, <1>2, ReleaseMoves
<1>5. /\ deliveries[j] = jobs[j].tries /\ ways[j] = jobs[j].via
      /\ jobs[j].tries \in Nat /\ jobs[j].tries > 0 /\ MaxRetries \in Nat
  <2>1. jobs[j].st = "running"
    BY <1>1 DEF OwnJobs
  <2> QED
    BY <1>4, <2>1, Phases, BenchJobAssumption DEF RunningCounted
<1> HIDE DEF j
<1>6. \/ st = "queued" /\ ways[j] # "inline" /\ deliveries[j] < MaxRetries + 1
      \/ /\ st \in {"dead", "dropped"}
         /\ deliveries[j] >= (IF ways[j] = "inline" THEN 1 ELSE MaxRetries + 1)
  BY <1>5 DEF AfterFailure
<1> HIDE DEF st
<1>7. /\ PhaseOf["queued"] = "waiting" /\ PhaseOf["dead"] = "given_up"
      /\ PhaseOf["dropped"] = "given_up"
  BY DEF PhaseOf
<1>8. Ledger!Redeliver(j) \/ Ledger!GiveUp(j)
  BY <1>4, <1>6, <1>7, LedgerEnds
<1> QED
  BY <1>3, <1>8 DEF j

LEMMA LaneLedgers ==
  ASSUME TypeInv, LedgerInv, NEW w \in Workers,
         Handle(w) \/ Mishap(w), ~Finish(w), ~Crash(w)
  PROVE  Ledger!Measure(worker[w].job) \/ UNCHANGED Ledger!vars
<1> USE DEF TypeInv, LedgerInv
<1>1. CASE InsertRun(w) \/ InsertUnstamped(w) \/ InsertRepeated(w)
  <2>1. measured' = measured \cup {worker[w].job}
    BY <1>1, InsertMeasures
  <2>2. worker[w].job \in Jobs /\ jobs[worker[w].job].st = "running" /\ jobs' = jobs
    BY LaneMoves DEF OwnJobs
  <2>3. phases[worker[w].job] = "handled"
    BY <2>2, Phases
  <2>4. phases' = phases /\ ways' = ways /\ deliveries' = deliveries
    BY <2>2 DEF phases, ways, deliveries, Phase
  <2> QED
    BY <2>1, <2>3, <2>4 DEF Ledger!Measure
<1>2. CASE runs' = runs
  BY <1>2, LaneMoves, NothingMoves
<1> QED
  BY <1>1, <1>2, LaneMoves

-----------------------------------------------------------------------------
LEMMA StillKeeps ==
  ASSUME LedgerInv, UNCHANGED <<jobs, runs, worker>>
  PROVE  LedgerInv' /\ UNCHANGED Ledger!vars
<1>1. LedgerInv'
  BY DEF LedgerInv, LaneLedger, RunningCounted, FreshJobs, At, Model, HasRow
<1> QED
  BY <1>1, NothingMoves

LEMMA StepLedger ==
  TypeInv /\ LedgerInv /\ [Next]_vars => LedgerInv' /\ [Ledger!Next]_(Ledger!vars)
<1> SUFFICES ASSUME TypeInv, LedgerInv, [Next]_vars
             PROVE  LedgerInv' /\ [Ledger!Next]_(Ledger!vars)
  OBVIOUS
<1> DEFINE Goal == LedgerInv' /\ [Ledger!Next]_(Ledger!vars)
<1>0. ASSUME NEW j \in Jobs
      PROVE  /\ \A v \in {"inline", "queue"} : Ledger!Create(j, v) => Ledger!Next
             /\ Ledger!Deliver(j) \/ Ledger!Ignore(j) \/ Ledger!Measure(j)
                \/ Ledger!Acknowledge(j) \/ Ledger!Redeliver(j) \/ Ledger!GiveUp(j)
                => Ledger!Next
  BY <1>0 DEF Ledger!Next
<1>1. ASSUME NEW j \in Jobs, NEW m \in Models, NEW via \in {"inline", "queue"},
             Schedule(j, m, via) \/ AdminBenchmark(j, m)
      PROVE  Goal
  <2>1. PICK by \in {"inline", "queue"} : Create(j, m, by)
    BY <1>1 DEF Schedule, AdminBenchmark
  <2> QED
    BY <1>0, <2>1, CreateLedger
<1>2. ASSUME UNCHANGED <<jobs, runs, worker>>
      PROVE  Goal
  BY <1>2, StillKeeps
<1>3. ASSUME NEW j \in Jobs, Skip(j) \/ TickKilled(j)
      PROVE  Goal
  BY <1>0, <1>3, SkipLedger, TickKilledLedger
<1>4. ASSUME NEW w \in Workers, NEW j \in Jobs, Receive(w, j)
      PROVE  Goal
  BY <1>0, <1>4, ReceiveLedger, ReceiveKeepsLedger
<1>5. ASSUME NEW w \in Workers, Handle(w) \/ Mishap(w)
      PROVE  Goal
  <2>1. CASE Finish(w)
    <3>1. worker[w].job \in Jobs
      BY <2>1 DEF TypeInv, OwnJobs, Finish, At
    <3> QED
      BY <1>0, <2>1, <3>1, FinishLedger
  <2>2. CASE Crash(w)
    <3>1. worker[w].job \in Jobs
      BY <2>2 DEF TypeInv, OwnJobs, Crash
    <3> QED
      BY <1>0, <2>2, <3>1, CrashLedger
  <2>3. CASE ~Finish(w) /\ ~Crash(w)
    <3>1. worker[w].job \in Jobs
      BY <1>5, <2>3, LaneMoves DEF TypeInv, OwnJobs
    <3>2. LedgerInv'
      BY <1>5, <2>3, LaneStepKeeps
    <3>3. Ledger!Measure(worker[w].job) \/ UNCHANGED Ledger!vars
      BY <1>5, <2>3, LaneLedgers
    <3> QED
      BY <1>0, <3>1, <3>2, <3>3
  <2> QED
    BY <2>1, <2>2, <2>3
<1>6. CASE Admin
  <2>1. CASE \E j \in Jobs, m \in Models : AdminBenchmark(j, m)
    BY <1>1, <2>1
  <2>2. CASE ~ \E j \in Jobs, m \in Models : AdminBenchmark(j, m)
    BY <1>2, <1>6, <2>2 DEF Admin, AdminSwitch, AdminSwitchProvider, Switch, AdminReset
  <2> QED
    BY <2>1, <2>2
<1>7. CASE (\E d \in TimeSteps : Tick(d)) \/ UNCHANGED vars
  BY <1>2, <1>7 DEF Tick, vars, tables
<1> QED
  BY <1>1, <1>3, <1>4, <1>5, <1>6, <1>7 DEF Next

(* The handler with its lanes, statements, lost calls and crashes is an    *)
(* implementation of the ledger: seen from the queue, nothing it does is   *)
(* anything but a delivery, a measurement, an acknowledgement, a           *)
(* redelivery or giving up, each under the ledger's conditions.            *)
THEOREM ImplementsLedger == Spec => KeepsLedger
<1>1. Init => LedgerInv /\ Ledger!Init
  BY InitLedger
<1>2. TypeInv /\ LedgerInv /\ [Next]_vars => LedgerInv' /\ [Ledger!Next]_(Ledger!vars)
  BY StepLedger
<1>3. Spec => []TypeInv
  BY TypeInvHolds, PTL
<1>4. Spec => Ledger!Init /\ [][Ledger!Next]_(Ledger!vars)
  BY <1>1, <1>2, <1>3, PTL DEF Spec
<1> QED
  BY <1>4 DEF KeepsLedger, Ledger!Spec

-----------------------------------------------------------------------------
(* The ledger keeps its promise, for any jobs and any number of retries.   *)

(* A job that waits for a delivery has one left.                           *)
DeliveriesLeft ==
  \A j \in Jobs :
    /\ phases[j] = "none" => deliveries[j] = 0
    /\ phases[j] = "waiting" => deliveries[j] < Ledger!Limit(j)
    /\ phases[j] = "handled" => deliveries[j] > 0

PromiseInvariant == Ledger!TypeOK /\ DeliveriesLeft /\ Ledger!Promise

LEMMA LimitType ==
  ASSUME MaxRetries \in Nat, NEW j
  PROVE  Ledger!Limit(j) \in Nat /\ Ledger!Limit(j) > 0
BY DEF Ledger!Limit

LEMMA CreateKeepsPromise ==
  ASSUME MaxRetries \in Nat, PromiseInvariant, NEW i \in Jobs, NEW v \in {"inline",
  "queue"},
         Ledger!Create(i, v)
  PROVE  PromiseInvariant'
<1> USE DEF PromiseInvariant, Ledger!TypeOK
<1>1. /\ phases' = [phases EXCEPT ![i] = "waiting"] /\ phases[i] = "none"
      /\ ways' = [ways EXCEPT ![i] = v]
      /\ deliveries' = deliveries /\ measured' = measured
  BY DEF Ledger!Create, Ledger!Move
<1>2. Ledger!TypeOK'
  BY <1>1 DEF Ledger!Phases
<1>3. \A j \in Jobs : j # i => Ledger!Limit(j)' = Ledger!Limit(j)
  BY <1>1 DEF Ledger!Limit
<1>4. Ledger!Limit(i)' \in Nat /\ Ledger!Limit(i)' > 0 /\ deliveries[i] = 0
  BY <1>1 DEF DeliveriesLeft, Ledger!Limit
<1>5. DeliveriesLeft'
  BY <1>1, <1>3, <1>4 DEF DeliveriesLeft
<1>6. Ledger!Promise'
  BY <1>1, <1>3, <1>4 DEF Ledger!Promise
<1> QED
  BY <1>2, <1>5, <1>6

(* The other steps leave the way of every job alone.                       *)
LEMMA StepKeepsPromise ==
  ASSUME MaxRetries \in Nat, PromiseInvariant, NEW i \in Jobs,
         Ledger!Deliver(i) \/ Ledger!Ignore(i) \/ Ledger!Measure(i) \/
         Ledger!Acknowledge(i) \/ Ledger!Redeliver(i) \/ Ledger!GiveUp(i)
  PROVE  PromiseInvariant'
<1> USE DEF PromiseInvariant, Ledger!TypeOK
<1>1. \A j \in Jobs : /\ Ledger!Limit(j)' = Ledger!Limit(j)
                      /\ Ledger!Limit(j) \in Nat /\ Ledger!Limit(j) > 0
  BY DEF Ledger!Limit, Ledger!Deliver, Ledger!Ignore, Ledger!Measure,
         Ledger!Acknowledge, Ledger!Redeliver, Ledger!GiveUp
<1>2. Ledger!TypeOK'
  BY DEF Ledger!Phases, Ledger!Deliver, Ledger!Ignore, Ledger!Measure,
         Ledger!Acknowledge, Ledger!Redeliver, Ledger!GiveUp, Ledger!Move, Ledger!Count
<1>3. CASE Ledger!Deliver(i) \/ Ledger!Ignore(i)
  BY <1>1, <1>2, <1>3 DEF DeliveriesLeft, Ledger!Promise, Ledger!Deliver, Ledger!Ignore,
                          Ledger!Move, Ledger!Count
<1>4. CASE Ledger!Measure(i)
  BY <1>1, <1>2, <1>4 DEF DeliveriesLeft, Ledger!Promise, Ledger!Measure
<1>5. CASE Ledger!Acknowledge(i)
  BY <1>1, <1>2, <1>5 DEF DeliveriesLeft, Ledger!Promise, Ledger!Acknowledge, Ledger!Move
<1>6. CASE Ledger!Redeliver(i)
  BY <1>1, <1>2, <1>6 DEF DeliveriesLeft, Ledger!Promise, Ledger!Redeliver, Ledger!Move
<1>7. CASE Ledger!GiveUp(i)
  BY <1>1, <1>2, <1>7 DEF DeliveriesLeft, Ledger!Promise, Ledger!GiveUp, Ledger!Move
<1> QED
  BY <1>3, <1>4, <1>5, <1>6, <1>7

(* Every measurement of a job belongs to one of its deliveries, which are  *)
(* never more than max_retries allows, and a job that counts as done was   *)
(* measured.                                                               *)
THEOREM PromiseHolds ==
  ASSUME MaxRetries \in Nat
  PROVE  Ledger!Spec => []Ledger!Promise
<1>1. Ledger!Init => PromiseInvariant
  BY DEF Ledger!Init, PromiseInvariant, Ledger!TypeOK, Ledger!Phases, DeliveriesLeft,
         Ledger!Promise, Ledger!Limit
<1>2. PromiseInvariant /\ [Ledger!Next]_(Ledger!vars) => PromiseInvariant'
  <2> SUFFICES ASSUME PromiseInvariant, [Ledger!Next]_(Ledger!vars) PROVE PromiseInvariant'
    OBVIOUS
  <2>1. CASE Ledger!Next
    BY <2>1, CreateKeepsPromise, StepKeepsPromise DEF Ledger!Next
  <2>2. CASE UNCHANGED Ledger!vars
    BY <2>2 DEF Ledger!vars, PromiseInvariant, Ledger!TypeOK, DeliveriesLeft,
                Ledger!Promise, Ledger!Limit
  <2> QED
    BY <2>1, <2>2
<1>3. PromiseInvariant => Ledger!Promise
  BY DEF PromiseInvariant
<1> QED
  BY <1>1, <1>2, <1>3, PTL DEF Ledger!Spec

(* So what the ledger promises holds of the handler.                       *)
THEOREM LedgerPromise == Spec => []Ledger!Promise
BY BenchJobAssumption, ImplementsLedger, PromiseHolds, PTL DEF KeepsLedger

-----------------------------------------------------------------------------
(* RunLedger: how many rows a job leaves in benchmark_runs, whatever fails *)
(* and however often it is delivered.                                      *)

(* A job on its way to the insert may still leave a row: the delivery that *)
(* it counts is one ahead of its rows.                                     *)
OnItsWay(j) ==
  \E w \in Workers : worker[w].pc \in {"probe", "insert"} /\ worker[w].job = j

Coming(j) == IF OnItsWay(j) THEN 1 ELSE 0

RowsBounded ==
  \A j \in Jobs :
    /\ IsFiniteSet(Rows(j))
    /\ Cardinality(Rows(j)) + Coming(j) <= jobs[j].tries + faults

Limit(job) == IF job.via = "inline" THEN 1 ELSE MaxRetries + 1

(* A waiting job has a delivery left, one acknowledged has been measured.  *)
JobsAccounted ==
  \A j \in Jobs :
    /\ jobs[j].tries <= Limit(jobs[j])
    /\ jobs[j].st = "queued" => jobs[j].tries < Limit(jobs[j])
    /\ jobs[j].st = "done" /\ jobs[j].model \in Routable => HasRow(j)

RunsInv == RowsBounded /\ JobsAccounted

-----------------------------------------------------------------------------
(* The rows of a job.                                                      *)

LEMMA RowsAre ==
  ASSUME NEW j
  PROVE  /\ \A p \in Rows(j) : \E m \in Models : \E i \in DOMAIN runs[m] :
              p = <<m, i>> /\ runs[m][i].job = j
         /\ \A m \in Models : \A i \in DOMAIN runs[m] :
              runs[m][i].job = j => <<m, i>> \in Rows(j)
         /\ HasRow(j) <=> Rows(j) # {}
<1>1. \A p \in Rows(j) : \E m \in Models : \E i \in DOMAIN runs[m] :
        p = <<m, i>> /\ runs[m][i].job = j
  BY DEF Rows
<1>2. \A m \in Models : \A i \in DOMAIN runs[m] :
        runs[m][i].job = j => <<m, i>> \in Rows(j)
  BY DEF Rows
<1>3. HasRow(j) <=> Rows(j) # {}
  BY <1>1, <1>2 DEF HasRow
<1> QED
  BY <1>1, <1>2, <1>3

(* An insert adds one row, or two, to those of the lane's job.             *)
LEMMA InsertAddsRows ==
  ASSUME TypeInv, NEW w \in Workers,
         InsertRun(w) \/ InsertUnstamped(w) \/ InsertRepeated(w),
         NEW j \in Jobs
  PROVE  LET m == Model(w)
             n == Len(runs[m])
         IN  /\ j # worker[w].job => Rows(j)' \subseteq Rows(j)
             /\ Rows(j)' \subseteq Rows(j) \cup {<<m, n + 1>>, <<m, n + 2>>}
             /\ ~InsertRepeated(w) => Rows(j)' \subseteq Rows(j) \cup {<<m, n + 1>>}
<1> USE DEF TypeInv
<1> DEFINE m   == Model(w)
           n   == Len(runs[m])
           job == worker[w].job
           run == NewRun(w)
           old == runs[m]
           once  == Append(old, run)
           twice == Append(once, run)
<1>1. ~At(w, "idle") /\ Goto(w, "cool")
  BY DEF InsertRun, InsertUnstamped, InsertRepeated, At
<1>2. /\ m \in Models /\ job \in Jobs /\ old \in Seq(Run) /\ n \in Nat
      /\ runs \in [Models -> Seq(Run)] /\ DOMAIN old = 1 .. n
  BY <1>1, BusyTypes DEF TypeOK
<1>3. run \in Run /\ run.job = job
  BY <1>1, BusyTypes DEF NewRun, Run, TypeOK, Worker
<1> HIDE DEF m, run
<1>4. /\ once \in Seq(Run) /\ Len(once) = n + 1
      /\ DOMAIN once = 1 .. (n + 1)
      /\ \A i \in 1 .. n : once[i] = old[i]
      /\ once[n + 1] = run
  BY <1>2, <1>3, AppendProperties
<1> HIDE DEF once
<1>5. /\ DOMAIN twice = 1 .. (n + 2)
      /\ \A i \in 1 .. (n + 1) : twice[i] = once[i]
      /\ twice[n + 2] = run
  BY <1>2, <1>3, <1>4, AppendProperties
<1> HIDE DEF twice, n
<1>6. /\ ~InsertRepeated(w) => runs' = [runs EXCEPT ![m] = once]
      /\ runs' = [runs EXCEPT ![m] = once] \/ runs' = [runs EXCEPT ![m] = twice]
  BY DEF InsertRun, InsertUnstamped, InsertRepeated, m, run, once, twice
<1>7. ASSUME NEW k \in Models, NEW i, i \in DOMAIN runs'[k], runs'[k][i].job = j
      PROVE  \/ i \in DOMAIN runs[k] /\ runs[k][i].job = j
             \/ /\ k = m /\ j = job
                /\ i = n + 1 \/ (i = n + 2 /\ runs' = [runs EXCEPT ![m] = twice])
  <2>1. CASE k # m
    BY <1>2, <1>6, <1>7, <2>1
  <2>2. CASE k = m /\ runs' = [runs EXCEPT ![m] = once]
    <3>1. runs'[k] = once
      BY <1>2, <2>2
    <3>2. i \in 1 .. n \/ i = n + 1
      BY <1>2, <1>4, <1>7, <3>1
    <3>3. CASE i \in 1 .. n
      BY <1>2, <1>4, <1>7, <2>2, <3>1, <3>3
    <3>4. CASE i = n + 1
      <4>1. runs'[k][i] = run
        BY <1>4, <3>1, <3>4
      <4>2. j = job
        BY <1>3, <1>7, <4>1
      <4> QED
        BY <1>2, <2>2, <3>4, <4>2
    <3> QED
      BY <3>2, <3>3, <3>4
  <2>3. CASE k = m /\ runs' = [runs EXCEPT ![m] = twice]
    <3>1. runs'[k] = twice
      BY <1>2, <2>3
    <3>2. i \in 1 .. n \/ i = n + 1 \/ i = n + 2
      BY <1>2, <1>5, <1>7, <3>1
    <3>3. CASE i \in 1 .. n
      BY <1>2, <1>4, <1>5, <1>7, <2>3, <3>1, <3>3
    <3>4. CASE i = n + 1
      BY <1>2, <1>3, <1>4, <1>5, <1>7, <2>3, <3>1, <3>4
    <3>5. CASE i = n + 2
      BY <1>3, <1>5, <1>7, <2>3, <3>1, <3>5
    <3> QED
      BY <3>2, <3>3, <3>4, <3>5
  <2> QED
    BY <1>6, <2>1, <2>2, <2>3
<1>8. ~InsertRepeated(w) => runs' # [runs EXCEPT ![m] = twice]
  <2>1. once # twice
    BY <1>2, <1>4, <1>5
  <2>2. [runs EXCEPT ![m] = once][m] = once /\ [runs EXCEPT ![m] = twice][m] = twice
    BY <1>2
  <2> QED
    BY <1>6, <2>1, <2>2
<1>9. ASSUME NEW p \in Rows(j)'
      PROVE  \/ p \in Rows(j)
             \/ /\ j = job
                /\ p = <<m, n + 1>> \/ (p = <<m, n + 2>> /\ InsertRepeated(w))
  <2>1. PICK k \in Models : \E i \in DOMAIN runs'[k] : p = <<k, i>> /\ runs'[k][i].job = j
    BY <1>9 DEF Rows
  <2>2. PICK i \in DOMAIN runs'[k] : p = <<k, i>> /\ runs'[k][i].job = j
    BY <2>1
  <2> QED
    BY <1>7, <1>8, <2>2, RowsAre
<1> QED
  BY <1>9 DEF m, n

LEMMA OneMore ==
  ASSUME NEW S, IsFiniteSet(S), NEW x, NEW T, T \subseteq S \cup {x}
  PROVE  IsFiniteSet(T) /\ Cardinality(T) <= Cardinality(S) + 1
<1>1. /\ IsFiniteSet(S \cup {x}) /\ Cardinality(S) \in Nat
      /\ Cardinality(S \cup {x}) <= Cardinality(S) + 1
  <2>1. /\ IsFiniteSet(S \cup {x})
        /\ Cardinality(S \cup {x}) = IF x \in S THEN Cardinality(S) ELSE Cardinality(S) + 1
    BY FS_AddElement
  <2>2. Cardinality(S) \in Nat
    BY FS_CardinalityType
  <2> QED
    BY <2>1, <2>2
<1>2. /\ IsFiniteSet(T) /\ Cardinality(T) <= Cardinality(S \cup {x})
      /\ Cardinality(T) \in Nat /\ Cardinality(S \cup {x}) \in Nat
  BY <1>1, FS_Subset, FS_CardinalityType
<1> QED
  BY <1>1, <1>2

LEMMA TwoMore ==
  ASSUME NEW S, IsFiniteSet(S), NEW x, NEW y, NEW T, T \subseteq S \cup {x, y}
  PROVE  IsFiniteSet(T) /\ Cardinality(T) <= Cardinality(S) + 2
<1>1. IsFiniteSet(S \cup {x}) /\ Cardinality(S \cup {x}) <= Cardinality(S) + 1
  BY OneMore
<1>2. T \subseteq (S \cup {x}) \cup {y}
  OBVIOUS
<1>3. IsFiniteSet(T) /\ Cardinality(T) <= Cardinality(S \cup {x}) + 1
  BY <1>1, <1>2, OneMore
<1>4. /\ Cardinality(S) \in Nat /\ Cardinality(S \cup {x}) \in Nat
      /\ Cardinality(T) \in Nat
  BY <1>1, <1>3, FS_CardinalityType
<1> QED
  BY <1>1, <1>3, <1>4

-----------------------------------------------------------------------------
(* RowsBounded is kept by steps that insert nothing ...                    *)
LEMMA QuietRows ==
  ASSUME TypeOK, TypeOK', RowsBounded, runs' = runs, faults' >= faults,
         \A j \in Jobs : jobs'[j].tries - jobs[j].tries >= Coming(j)' - Coming(j)
  PROVE  RowsBounded'
<1>1. ASSUME NEW j \in Jobs
      PROVE  IsFiniteSet(Rows(j)') /\ Cardinality(Rows(j)') + Coming(j)' <= jobs'[j].tries + faults'
  <2>1. Rows(j)' = Rows(j)
    BY DEF Rows
  <2>2. Cardinality(Rows(j)) \in Nat
    BY FS_CardinalityType DEF RowsBounded
  <2>3. Coming(j) \in Nat /\ Coming(j)' \in Nat
    BY DEF Coming
  <2>4. /\ jobs[j].tries \in Nat /\ jobs'[j].tries \in Nat
        /\ faults \in Nat /\ faults' \in Nat
    BY DEF TypeOK, Job
  <2>5. jobs'[j].tries - jobs[j].tries >= Coming(j)' - Coming(j)
    OBVIOUS
  <2>6. IsFiniteSet(Rows(j)) /\ Cardinality(Rows(j)) + Coming(j) <= jobs[j].tries + faults
    BY DEF RowsBounded
  <2>7. ASSUME NEW k \in Nat, NEW c \in Nat, NEW d \in Nat, NEW t \in Nat, NEW u \in Nat,
               NEW f \in Nat, NEW g \in Nat,
               u - t >= d - c, k + c <= t + f, g >= f
        PROVE  k + d <= u + g
    BY <2>7
  <2> QED
    BY <2>1, <2>2, <2>3, <2>4, <2>5, <2>6, <2>7
<1> QED
  BY <1>1 DEF RowsBounded

(* ... and by the inserts, which take the lane's job off its way.          *)
LEMMA InsertRows ==
  ASSUME TypeInv, TypeOK', RowsBounded, NEW w \in Workers,
         InsertRun(w) \/ InsertUnstamped(w) \/ InsertRepeated(w)
  PROVE  RowsBounded'
<1> USE DEF TypeInv
<1> DEFINE job == worker[w].job
<1>1. /\ At(w, "insert") /\ Goto(w, "cool") /\ jobs' = jobs
      /\ faults' >= faults /\ (InsertRepeated(w) => faults' = faults + 1)
      /\ faults \in Nat /\ faults' \in Nat
  BY DEF InsertRun, InsertUnstamped, InsertRepeated, Fault, TypeOK
<1>2. Others(w) /\ worker'[w].pc = "cool" /\ worker'[w].job = worker[w].job
  BY <1>1, GotoKeeps DEF PCs
<1>3. ~At(w, "idle") /\ OnItsWay(job)
  BY <1>1 DEF At, OnItsWay
<1>4. ~OnItsWay(job)'
  <2>1. SUFFICES ASSUME NEW v \in Workers, worker'[v].pc \in {"probe", "insert"},
                        worker'[v].job = job'
                 PROVE  FALSE
    BY DEF OnItsWay
  <2>2. v # w /\ worker'[v] = worker[v] /\ job' = job
    BY <1>2, <2>1 DEF Others
  <2>3. ~At(v, "idle")
    BY <2>1, <2>2 DEF At
  <2> QED
    BY <1>3, <2>1, <2>2, <2>3 DEF OwnJobs
<1>5. job' = job
  BY <1>2
<1>6. ASSUME NEW j \in Jobs
      PROVE  IsFiniteSet(Rows(j)') /\ Cardinality(Rows(j)') + Coming(j)' <= jobs'[j].tries + faults'
  <2>1. /\ IsFiniteSet(Rows(j)) /\ Cardinality(Rows(j)) \in Nat
        /\ Cardinality(Rows(j)) + Coming(j) <= jobs[j].tries + faults
        /\ jobs'[j] = jobs[j] /\ jobs[j].tries \in Nat
    BY <1>1, FS_CardinalityType DEF RowsBounded, TypeOK, Job
  <2>2. CASE j # job
    <3>1. /\ IsFiniteSet(Rows(j)') /\ Cardinality(Rows(j)') <= Cardinality(Rows(j))
          /\ Cardinality(Rows(j)') \in Nat
      BY <2>1, <2>2, InsertAddsRows, FS_Subset, FS_CardinalityType
    <3>2. Coming(j)' = Coming(j)
      <4>1. OnItsWay(j)' => OnItsWay(j)
        <5>1. SUFFICES ASSUME NEW v \in Workers, worker'[v].pc \in {"probe", "insert"},
                              worker'[v].job = j
                       PROVE  OnItsWay(j)
          BY DEF OnItsWay
        <5>2. worker'[v] = worker[v]
          BY <1>2, <5>1 DEF Others
        <5> QED
          BY <5>1, <5>2 DEF OnItsWay
      <4>2. OnItsWay(j) => OnItsWay(j)'
        <5>1. SUFFICES ASSUME NEW v \in Workers, worker[v].pc \in {"probe", "insert"},
                              worker[v].job = j
                       PROVE  OnItsWay(j)'
          BY DEF OnItsWay
        <5>2. worker'[v] = worker[v]
          BY <1>2, <2>2, <5>1 DEF Others
        <5> QED
          BY <5>1, <5>2 DEF OnItsWay
      <4> QED
        BY <4>1, <4>2 DEF Coming
    <3>3. Coming(j) \in Nat
      BY DEF Coming
    <3> QED
      BY <1>1, <2>1, <3>1, <3>2, <3>3
  <2>3. CASE j = job
    <3>1. Coming(j) = 1 /\ Coming(j)' = 0
      BY <1>3, <1>4, <1>5, <2>3 DEF Coming
    <3>2. /\ IsFiniteSet(Rows(j)') /\ Cardinality(Rows(j)') \in Nat
          /\ \/ Cardinality(Rows(j)') <= Cardinality(Rows(j)) + 1
             \/ InsertRepeated(w) /\ Cardinality(Rows(j)') <= Cardinality(Rows(j)) + 2
      <4>1. CASE InsertRepeated(w)
        <5> DEFINE x == <<Model(w), Len(runs[Model(w)]) + 1>>
                   y == <<Model(w), Len(runs[Model(w)]) + 2>>
        <5>1. Rows(j)' \subseteq Rows(j) \cup {x, y}
          BY InsertAddsRows
        <5> HIDE DEF x, y
        <5>2. IsFiniteSet(Rows(j)') /\ Cardinality(Rows(j)') <= Cardinality(Rows(j)) + 2
          BY <2>1, <5>1, TwoMore
        <5> QED
          BY <4>1, <5>2, FS_CardinalityType
      <4>2. CASE ~InsertRepeated(w)
        BY <2>1, <4>2, InsertAddsRows, OneMore, FS_CardinalityType
      <4> QED
        BY <4>1, <4>2
    <3> QED
      BY <1>1, <2>1, <3>1, <3>2
  <2> QED
    BY <2>2, <2>3
<1> QED
  BY <1>6 DEF RowsBounded

-----------------------------------------------------------------------------
(* What a job may become.                                                  *)
Accounted(j, r) ==
  /\ r.tries <= Limit(r)
  /\ r.st = "queued" => r.tries < Limit(r)
  /\ r.st = "done" /\ r.model \in Routable => HasRow(j)

LEMMA AccountKept ==
  ASSUME TypeOK, JobsAccounted, NEW j \in Jobs, NEW r \in Job,
         jobs' = [jobs EXCEPT ![j] = r], runs' = runs, Accounted(j, r)
  PROVE  JobsAccounted'
<1>1. \A i \in Jobs : jobs'[i] = IF i = j THEN r ELSE jobs[i]
  BY DEF TypeOK
<1>2. \A i \in Jobs : HasRow(i)' <=> HasRow(i)
  BY DEF HasRow
<1> QED
  BY <1>1, <1>2 DEF JobsAccounted, Accounted, Limit

(* A step that leaves the lanes alone leaves alone what is on its way.     *)
LEMMA ComingKept ==
  ASSUME worker' = worker, NEW j
  PROVE  Coming(j)' = Coming(j) /\ Coming(j) \in Nat
BY DEF Coming, OnItsWay

LEMMA FaultsGrow ==
  ASSUME TypeOK, [Next]_vars
  PROVE  faults' >= faults
<1>1. faults \in Nat
  BY DEF TypeOK
<1>2. faults' = faults \/ faults' = faults + 1
  BY DEF Next, vars, Schedule, Admin, AdminBenchmark, Create, AdminSwitch, AdminSwitchProvider,
     Switch, AdminReset, Skip, TickKilled, Receive, Tick, Handle, Mishap, Probe, InsertRun,
     InsertUnstamped, InsertRepeated, ClearCooldown, NoCooldown, ReadProvider, BackOffProvider,
     TripProvider, RestModel, ReadStreak, ReadOpen, RaiseIncident, CloseIncident, CountFailure,
     WriteIncidents, ReadDay, BackOffModel, Disable, Finish, CallLost, Crash, Abandon, Fault
<1> QED
  BY <1>1, <1>2

-----------------------------------------------------------------------------
(* Each kind of step keeps RunsInv.                                        *)

LEMMA IdleJobRuns ==
  ASSUME TypeInv, TypeOK', LedgerInv, RunsInv, faults' >= faults, NEW j \in Jobs,
         \/ \E m \in Models, via \in {"inline", "queue"} : Create(j, m, via)
         \/ Skip(j) \/ TickKilled(j)
  PROVE  RunsInv'
<1> USE DEF TypeInv, RunsInv
<1>1. runs' = runs /\ worker' = worker /\ MaxRetries \in Nat
  BY BenchJobAssumption DEF Create, Skip, TickKilled, tables
<1>2. /\ jobs[j] \in Job /\ jobs[j].tries \in Nat
      /\ jobs[j].tries <= Limit(jobs[j])
      /\ jobs[j].st = "queued" => jobs[j].tries < Limit(jobs[j])
      /\ Limit(jobs[j]) \in Nat
  BY <1>1, Phases DEF JobsAccounted, Limit
<1> DEFINE Advance(r) == /\ jobs' = [jobs EXCEPT ![j] = r]
                         /\ r.tries \in Nat /\ r.tries >= jobs[j].tries
                         /\ Accounted(j, r)
<1>3. \E r \in Job : Advance(r)
  <2>1. ASSUME NEW m \in Models, NEW via \in {"inline", "queue"}, Create(j, m, via)
        PROVE  \E r \in Job : Advance(r)
    <3> DEFINE r == [st |-> "queued", model |-> m, via |-> via, tries |-> 0]
    <3>1. r \in Job /\ r.st = "queued" /\ r.tries = 0
      BY DEF Job
    <3>2. jobs' = [jobs EXCEPT ![j] = r] /\ jobs[j].tries = 0
      BY <2>1 DEF Create, LedgerInv, FreshJobs
    <3> HIDE DEF r
    <3>3. Limit(r) \in Nat /\ Limit(r) > 0
      BY <1>1 DEF Limit
    <3>4. Advance(r)
      BY <3>1, <3>2, <3>3 DEF Accounted
    <3> QED
      BY <3>1, <3>4
  <2>2. CASE Skip(j)
    <3> DEFINE r == [jobs[j] EXCEPT !.st = "done", !.tries = @ + 1]
    <3>1. /\ jobs[j].st = "queued" /\ jobs[j].model \notin Routable
          /\ jobs' = [jobs EXCEPT ![j] = r]
      BY <2>2 DEF Skip
    <3>2. /\ r \in Job /\ r.st = "done" /\ r.via = jobs[j].via
          /\ r.tries = jobs[j].tries + 1 /\ r.model = jobs[j].model
      <4>1. ASSUME NEW job \in Job, NEW n \in Nat
            PROVE  LET s == [job EXCEPT !.st = "done", !.tries = n]
                   IN  /\ s \in Job /\ s.st = "done" /\ s.via = job.via
                       /\ s.tries = n /\ s.model = job.model
        BY DEF Job, Settled
      <4>2. jobs[j].tries + 1 \in Nat
        BY <1>2
      <4> QED
        BY <1>2, <4>1, <4>2
    <3> HIDE DEF r
    <3>3. Limit(r) = Limit(jobs[j])
      BY <3>2 DEF Limit
    <3>4. Advance(r)
      BY <1>2, <3>1, <3>2, <3>3 DEF Accounted
    <3> QED
      BY <3>2, <3>4
  <2>3. CASE TickKilled(j)
    <3> DEFINE r == [jobs[j] EXCEPT !.st = "dropped"]
    <3>1. jobs' = [jobs EXCEPT ![j] = r]
      BY <2>3 DEF TickKilled
    <3>2. /\ r \in Job /\ r.st = "dropped" /\ r.via = jobs[j].via
          /\ r.tries = jobs[j].tries /\ r.model = jobs[j].model
      BY <1>2, JobAt DEF Settled
    <3> HIDE DEF r
    <3>3. Limit(r) = Limit(jobs[j])
      BY <3>2 DEF Limit
    <3>4. Advance(r)
      BY <1>2, <3>1, <3>2, <3>3 DEF Accounted
    <3> QED
      BY <3>2, <3>4
  <2> QED
    BY <2>1, <2>2, <2>3
<1>p. PICK r \in Job : Advance(r)
  BY <1>3
<1>4. JobsAccounted'
  BY <1>1, <1>p, AccountKept
<1>5. ASSUME NEW i \in Jobs
      PROVE  jobs'[i].tries - jobs[i].tries >= Coming(i)' - Coming(i)
  <2>1. jobs'[i].tries \in Nat /\ jobs[i].tries \in Nat
    BY DEF TypeOK, Job
  <2>2. jobs'[i].tries >= jobs[i].tries
    <3>1. jobs'[i] = IF i = j THEN r ELSE jobs[i]
      BY <1>p DEF TypeOK
    <3> QED
      BY <1>p, <2>1, <3>1
  <2> QED
    BY <1>1, <2>1, <2>2, ComingKept
<1>6. RowsBounded'
  BY <1>1, <1>5, QuietRows
<1> QED
  BY <1>4, <1>6

LEMMA ReceiveRuns ==
  ASSUME TypeInv, TypeOK', RunsInv, NEW w \in Workers, NEW j \in Jobs, Receive(w, j)
  PROVE  RunsInv'
<1> USE DEF TypeInv, RunsInv
<1> DEFINE r == [jobs[j] EXCEPT !.st = "running", !.tries = @ + 1]
<1>1. /\ At(w, "idle") /\ jobs[j].st = "queued" /\ jobs' = [jobs EXCEPT ![j] = r]
      /\ runs' = runs /\ faults' = faults /\ MaxRetries \in Nat
  BY BenchJobAssumption DEF Receive, tables
<1>2. jobs[j] \in Job /\ jobs[j].tries \in Nat /\ jobs[j].tries < Limit(jobs[j])
      /\ Limit(jobs[j]) \in Nat
  BY <1>1, Phases DEF JobsAccounted, Limit
<1>3. r \in Job /\ r.st = "running" /\ r.via = jobs[j].via /\ r.tries = jobs[j].tries + 1
  <2>1. ASSUME NEW job \in Job, NEW n \in Nat
        PROVE  LET s == [job EXCEPT !.st = "running", !.tries = n]
               IN  /\ s \in Job /\ s.st = "running" /\ s.via = job.via
                   /\ s.tries = n /\ s.model = job.model
    BY DEF Job, Settled
  <2>2. jobs[j].tries + 1 \in Nat
    BY <1>2
  <2> QED
    BY <1>2, <2>1, <2>2
<1> HIDE DEF r
<1>4. JobsAccounted'
  <2>1. Limit(r) = Limit(jobs[j])
    BY <1>3 DEF Limit
  <2>2. Accounted(j, r)
    BY <1>2, <1>3, <2>1 DEF Accounted
  <2> QED
    BY <1>1, <1>3, <2>2, AccountKept
<1>5. /\ \A v \in Workers \ {w} : worker'[v] = worker[v]
      /\ worker'[w].job = j
  BY DEF Receive, TypeOK, Idle
<1>6. ASSUME NEW i \in Jobs
      PROVE  jobs'[i].tries - jobs[i].tries >= Coming(i)' - Coming(i)
  <2>1. jobs[i].tries \in Nat
    BY DEF TypeOK, Job
  <2>2. CASE i = j
    <3>1. jobs'[i].tries - jobs[i].tries = 1
      BY <1>1, <1>2, <1>3, <2>1, <2>2 DEF TypeOK
    <3>2. Coming(i) \in 0 .. 1 /\ Coming(i)' \in 0 .. 1
      BY DEF Coming
    <3> QED
      BY <3>1, <3>2
  <2>3. CASE i # j
    <3>1. jobs'[i].tries - jobs[i].tries = 0
      BY <1>1, <2>1, <2>3 DEF TypeOK
    <3>2. OnItsWay(i)' => OnItsWay(i)
      <4>1. SUFFICES ASSUME NEW v \in Workers, worker'[v].pc \in {"probe", "insert"},
                            worker'[v].job = i
                     PROVE  OnItsWay(i)
        BY DEF OnItsWay
      <4>2. worker'[v] = worker[v]
        BY <1>5, <2>3, <4>1
      <4> QED
        BY <4>1, <4>2 DEF OnItsWay
    <3>3. Coming(i)' - Coming(i) <= 0
      BY <3>2 DEF Coming
    <3>4. Coming(i) \in 0 .. 1 /\ Coming(i)' \in 0 .. 1
      BY DEF Coming
    <3> QED
      BY <3>1, <3>3, <3>4
  <2> QED
    BY <2>2, <2>3
<1>7. RowsBounded'
  BY <1>1, <1>6, QuietRows DEF TypeOK
<1> QED
  BY <1>4, <1>7

(* Acknowledged, to be redelivered, or given up.                           *)
LEMMA ReleaseRuns ==
  ASSUME TypeInv, TypeOK', LedgerInv, RunsInv, faults' >= faults, NEW w \in Workers,
         Finish(w) \/ Crash(w)
  PROVE  RunsInv'
<1> USE DEF TypeInv, RunsInv
<1> DEFINE j  == worker[w].job
           st == IF Finish(w) THEN "done" ELSE AfterFailure(j)
           r  == [jobs[j] EXCEPT !.st = st]
<1>1. /\ ~At(w, "idle") /\ Release(w, st) /\ runs' = runs
      /\ st \in {"queued"} \cup Settled /\ MaxRetries \in Nat
  BY BenchJobAssumption DEF Finish, Crash, Abandon, At, tables, AfterFailure, Settled
<1>2. j \in Jobs /\ jobs[j] \in Job /\ jobs[j].tries \in Nat /\ jobs[j].st = "running"
  BY <1>1, Phases DEF OwnJobs
<1>3. jobs' = [jobs EXCEPT ![j] = r] /\ worker' = [worker EXCEPT ![w] = Idle]
  BY <1>1 DEF Release
<1>4. r \in Job /\ r.st = st /\ r.via = jobs[j].via /\ r.tries = jobs[j].tries
      /\ r.model = jobs[j].model
  BY <1>1, <1>2, JobAt
<1>5. /\ Limit(r) = Limit(jobs[j]) /\ jobs[j].tries <= Limit(jobs[j])
      /\ jobs[j].tries > 0
  BY <1>2, <1>4 DEF Limit, JobsAccounted, LedgerInv, RunningCounted
<1>6. r.st = "queued" => r.tries < Limit(r)
  <2> SUFFICES ASSUME st = "queued" PROVE jobs[j].tries < Limit(jobs[j])
    BY <1>4, <1>5
  <2>1. jobs[j].via # "inline" /\ ~(jobs[j].tries > MaxRetries)
    BY DEF AfterFailure
  <2> QED
    BY <1>1, <1>2, <2>1 DEF Limit
<1>7. r.st = "done" => HasRow(j)
  <2> SUFFICES ASSUME st = "done" PROVE HasRow(j)
    BY <1>4
  <2>1. At(w, "finish")
    BY DEF Finish, AfterFailure
  <2> QED
    BY <2>1 DEF LedgerInv, LaneLedger, At
<1>8. Accounted(j, r)
  BY <1>2, <1>4, <1>5, <1>6, <1>7 DEF Accounted
<1> HIDE DEF r, st
<1>9. JobsAccounted'
  BY <1>1, <1>2, <1>3, <1>4, <1>8, AccountKept
<1>10. ASSUME NEW i \in Jobs
       PROVE  jobs'[i].tries - jobs[i].tries >= Coming(i)' - Coming(i)
  <2>1. jobs[i].tries \in Nat /\ jobs'[i].tries = jobs[i].tries
    BY <1>2, <1>3, <1>4 DEF TypeOK, Job
  <2>2. OnItsWay(i)' => OnItsWay(i)
    <3>1. SUFFICES ASSUME NEW v \in Workers, worker'[v].pc \in {"probe", "insert"},
                          worker'[v].job = i
                   PROVE  OnItsWay(i)
      BY DEF OnItsWay
    <3>2. worker'[v] = worker[v]
      BY <1>3, <3>1 DEF TypeOK, Idle
    <3> QED
      BY <3>1, <3>2 DEF OnItsWay
  <2>3. Coming(i)' - Coming(i) <= 0 /\ Coming(i) \in 0 .. 1 /\ Coming(i)' \in 0 .. 1
    BY <2>2 DEF Coming
  <2> QED
    BY <2>1, <2>3
<1>11. RowsBounded'
  BY <1>1, <1>10, QuietRows
<1> QED
  BY <1>9, <1>11

LEMMA LaneRuns ==
  ASSUME TypeInv, TypeOK', LedgerInv, RunsInv, faults' >= faults, NEW w \in Workers,
         Handle(w) \/ Mishap(w), ~Finish(w), ~Crash(w)
  PROVE  RunsInv'
<1> USE DEF TypeInv, RunsInv
<1>1. /\ jobs' = jobs /\ Others(w) /\ worker'[w].job = worker[w].job
  BY LaneMoves
<1>2. CASE InsertRun(w) \/ InsertUnstamped(w) \/ InsertRepeated(w)
  <2>1. RowsBounded'
    BY <1>2, InsertRows
  <2>2. \A i \in Jobs : HasRow(i) => HasRow(i)'
    BY <1>2, InsertMeasures DEF measured
  <2>3. JobsAccounted'
    BY <1>1, <2>2 DEF JobsAccounted, Limit
  <2> QED
    BY <2>1, <2>3
<1>3. CASE /\ runs' = runs
           /\ worker'[w].pc \in {"probe", "insert"} => worker[w].pc \in {"probe", "insert"}
  <2>1. \A i \in Jobs : HasRow(i) <=> HasRow(i)'
    BY <1>3 DEF HasRow
  <2>2. JobsAccounted'
    BY <1>1, <2>1 DEF JobsAccounted, Limit
  <2>3. ASSUME NEW i \in Jobs
        PROVE  jobs'[i].tries - jobs[i].tries >= Coming(i)' - Coming(i)
    <3>1. OnItsWay(i)' => OnItsWay(i)
      <4>1. SUFFICES ASSUME NEW v \in Workers, worker'[v].pc \in {"probe", "insert"},
                            worker'[v].job = i
                     PROVE  OnItsWay(i)
        BY DEF OnItsWay
      <4>2. worker[v].job = i /\ worker[v].pc \in {"probe", "insert"}
        BY <1>1, <1>3, <4>1 DEF Others
      <4> QED
        BY <4>2 DEF OnItsWay
    <3>2. Coming(i)' - Coming(i) <= 0 /\ Coming(i) \in 0 .. 1 /\ Coming(i)' \in 0 .. 1
      BY <3>1 DEF Coming
    <3>3. jobs[i].tries \in Nat
      BY DEF TypeOK, Job
    <3> QED
      BY <1>1, <3>2, <3>3
  <2>4. RowsBounded'
    BY <1>3, <2>3, QuietRows
  <2> QED
    BY <2>2, <2>4
<1> QED
  BY <1>2, <1>3, LaneMoves DEF At

LEMMA StillRuns ==
  ASSUME RunsInv, UNCHANGED <<jobs, runs, worker>>, TypeOK, TypeOK', faults' >= faults
  PROVE  RunsInv'
<1>1. JobsAccounted'
  BY DEF RunsInv, JobsAccounted, Limit, HasRow
<1>2. ASSUME NEW j \in Jobs
      PROVE  jobs'[j].tries - jobs[j].tries >= Coming(j)' - Coming(j)
  BY ComingKept DEF TypeOK, Job
<1>3. RowsBounded'
  BY <1>2, QuietRows DEF RunsInv
<1> QED
  BY <1>1, <1>3 DEF RunsInv

-----------------------------------------------------------------------------
LEMMA InitRuns == Init => RunsInv
<1> SUFFICES ASSUME Init PROVE RunsInv
  OBVIOUS
<1>1. ASSUME NEW j \in Jobs
      PROVE  Rows(j) = {} /\ Coming(j) = 0 /\ jobs[j].tries = 0 /\ jobs[j].st = "none"
  BY DEF Init, Rows, Coming, OnItsWay, Idle
<1>2. IsFiniteSet({}) /\ Cardinality({}) = 0
  BY FS_EmptySet
<1>3. faults = 0
  BY DEF Init
<1>4. RowsBounded
  BY <1>1, <1>2, <1>3 DEF RowsBounded
<1>5. JobsAccounted
  BY <1>1, BenchJobAssumption DEF JobsAccounted, Limit
<1> QED
  BY <1>4, <1>5 DEF RunsInv

LEMMA StepRuns ==
  TypeInv /\ TypeInv' /\ LedgerInv /\ RunsInv /\ [Next]_vars => RunsInv'
<1> SUFFICES ASSUME TypeInv, TypeOK', LedgerInv, RunsInv, [Next]_vars
             PROVE  RunsInv'
  BY DEF TypeInv
<1>0. faults' >= faults
  BY FaultsGrow DEF TypeInv
<1>1. ASSUME NEW j \in Jobs, NEW m \in Models, NEW via \in {"inline", "queue"},
             Schedule(j, m, via) \/ AdminBenchmark(j, m)
      PROVE  RunsInv'
  <2>1. PICK by \in {"inline", "queue"} : Create(j, m, by)
    BY <1>1 DEF Schedule, AdminBenchmark
  <2> QED
    BY <1>0, <2>1, IdleJobRuns
<1>2. ASSUME UNCHANGED <<jobs, runs, worker>>
      PROVE  RunsInv'
  BY <1>0, <1>2, StillRuns DEF TypeInv
<1>3. ASSUME NEW j \in Jobs, Skip(j) \/ TickKilled(j)
      PROVE  RunsInv'
  BY <1>0, <1>3, IdleJobRuns
<1>4. ASSUME NEW w \in Workers, NEW j \in Jobs, Receive(w, j)
      PROVE  RunsInv'
  BY <1>4, ReceiveRuns
<1>5. ASSUME NEW w \in Workers, Handle(w) \/ Mishap(w)
      PROVE  RunsInv'
  BY <1>0, <1>5, ReleaseRuns, LaneRuns
<1>6. CASE Admin
  <2>1. CASE \E j \in Jobs, m \in Models : AdminBenchmark(j, m)
    BY <1>1, <2>1
  <2>2. CASE ~ \E j \in Jobs, m \in Models : AdminBenchmark(j, m)
    BY <1>2, <1>6, <2>2 DEF Admin, AdminSwitch, AdminSwitchProvider, Switch, AdminReset
  <2> QED
    BY <2>1, <2>2
<1>7. CASE (\E d \in TimeSteps : Tick(d)) \/ UNCHANGED vars
  BY <1>2, <1>7 DEF Tick, vars, tables
<1> QED
  BY <1>1, <1>3, <1>4, <1>5, <1>6, <1>7 DEF Next

(* Whatever fails, a job leaves no more rows than it had deliveries and    *)
(* D1 had failures, is delivered no more often than max_retries allows,    *)
(* and is acknowledged only after it left a row.                           *)
THEOREM RunsAreAccounted == Spec => []RunLedger
<1>1. Init => LedgerInv /\ RunsInv
  BY InitLedger, InitRuns
<1>2. TypeInv /\ LedgerInv /\ [Next]_vars => LedgerInv'
  BY StepLedger
<1>3. TypeInv /\ TypeInv' /\ LedgerInv /\ RunsInv /\ [Next]_vars => RunsInv'
  BY StepRuns
<1>4. Spec => []TypeInv
  BY TypeInvHolds, PTL
<1>5. TypeInv /\ RunsInv => RunLedger
  <2> SUFFICES ASSUME TypeInv, RunsInv, NEW j \in Jobs
               PROVE  /\ Cardinality(Rows(j)) <= jobs[j].tries + faults
                      /\ jobs[j].st = "done" /\ jobs[j].model \in Routable => Rows(j) # {}
                      /\ jobs[j].tries <= (IF jobs[j].via = "inline" THEN 1 ELSE MaxRetries + 1)
    BY DEF RunLedger
  <2>1. Cardinality(Rows(j)) \in Nat /\ Coming(j) \in Nat
    BY FS_CardinalityType DEF RunsInv, RowsBounded, Coming
  <2>2. jobs[j].tries \in Nat /\ faults \in Nat
    BY DEF TypeInv, TypeOK, Job
  <2>3. Cardinality(Rows(j)) + Coming(j) <= jobs[j].tries + faults
    BY DEF RunsInv, RowsBounded
  <2>4. Cardinality(Rows(j)) <= jobs[j].tries + faults
    BY <2>1, <2>2, <2>3
  <2> QED
    BY <2>4, RowsAre DEF RunsInv, JobsAccounted, Limit
<1> QED
  BY <1>1, <1>2, <1>3, <1>4, <1>5, PTL DEF Spec
=============================================================================
