------------------------------ MODULE BenchJob ------------------------------
(***************************************************************************)
(* The life of a benchmark job: selected by a scheduler tick or queued by  *)
(* an administrator, delivered at least once by bench-queue (or run inline *)
(* by the tick), probed against its provider, recorded in benchmark_runs,  *)
(* and judged: cooldowns, availability incidents, the 24-hour guard        *)
(* (src/benchmark/scheduler.ts handleBenchJob and updateIncidents,         *)
(* src/index.ts queue, src/db/cooldown.ts, src/db/queries.ts).             *)
(*                                                                         *)
(* A worker is one lane that handles jobs one after the other: a provider  *)
(* lane of a queue invocation, or the inline loop of a tick.  D1 executes  *)
(* one statement at a time and other workers run between any two of them,  *)
(* so each statement of the handler is a step of its own.                  *)
(***************************************************************************)
EXTENDS Cooldown, Sequences

CONSTANTS
  Models, Providers,
  ProviderOf,         \* the provider of each model
  Routable,           \* models with a row and a provider adapter
  Jobs,               \* identities of the jobs that may ever be created
  NoJob,
  Workers,
  Outcomes,           \* the outcomes a probe may have, a subset of Outcome
  IncidentThreshold,  \* INCIDENT_THRESHOLD
  DailyMax,           \* AUTO_DISABLE_MAX_DAILY_FAILURES
  MaxRetries,         \* max_retries of bench-queue
  AdminActs,          \* which administrator requests are considered
  TimeSteps, Horizon, \* bounds: how time advances, and the last instant
  JobSpan,            \* bound: how long a delivery may take
  MaxFaults           \* bound: failing D1 calls and killed invocations

ASSUME BenchJobAssumption ==
  /\ Models # {}
  /\ ProviderOf \in [Models -> Providers]
  /\ Routable \subseteq Models
  /\ NoJob \notin Jobs
  /\ Outcomes \subseteq Outcome
  /\ IncidentThreshold \in Nat \ {0}
  /\ DailyMax \in Nat \ {0}
  /\ MaxRetries \in Nat
  /\ AdminActs \subseteq {"benchmark", "switch", "reset"}
  /\ TimeSteps \subseteq Nat \ {0}
  /\ Horizon \in Nat
  /\ JobSpan \in Nat
  /\ MaxFaults \in Nat

ASSUME WorkersAssumption == IsFiniteSet(Workers)

VARIABLES
  now,        \* the clock
  jobs,       \* jobs[j]: where a job is, its model, its way in, its deliveries
  runs,       \* runs[m]: benchmark_runs rows of a model, in insertion order
  stamp,      \* stamp[m]: models.last_benchmark_at, Never before the first run
  enabled,    \* enabled[m]: models.benchmark_enabled
  modelCool,  \* modelCool[m]: cooldown_until of the model's row, 0 if no row
  provCool,   \* provCool[p]: cooldown_until of the provider's row, 0 if no row
  incidents,  \* incidents[m]: availability_incidents rows, in insertion order
  worker,     \* worker[w]: what a lane is doing
  faults      \* failures so far

vars == <<now, jobs, runs, stamp, enabled, modelCool, provCool, incidents,
          worker, faults>>
tables == <<runs, stamp, enabled, modelCool, provCool, incidents>>

Never == -1
Settled == {"done", "dead", "dropped"}

Job      == [st : {"none", "queued", "running"} \cup Settled, model : Models,
             via : {"inline", "queue"}, tries : Nat]
Run      == [at : Nat, out : Outcome, job : Jobs]
Incident == [start : Nat, end : Nat \cup {Never}, count : Nat]

PCs == {"idle", "probe", "insert", "cool", "escalate", "rest", "recent", "open",
        "incident", "guard", "backoff", "disable", "finish"}

Worker == [pc : PCs, job : Jobs \cup {NoJob},
           at : Nat,                   \* request_started_at
           out : Outcome,              \* result
           remaining : Int,            \* of the provider cooldown, as read
           streak : BOOLEAN,           \* failStreak >= threshold, as read
           open : Nat,                 \* the open incident's row, 0 if none, as read
           fails : Nat, gone : Nat]    \* countDayFailures, as read

NoOutcome == [status |-> "UNKNOWN_ERROR", http |-> 0, says |-> {}, retryAfter |-> 0]

Idle == [pc |-> "idle", job |-> NoJob, at |-> 0, out |-> NoOutcome, remaining |-> 0,
         streak |-> FALSE, open |-> 0, fails |-> 0, gone |-> 0]

TypeOK ==
  /\ now \in Nat
  /\ jobs \in [Jobs -> Job]
  /\ runs \in [Models -> Seq(Run)]
  /\ stamp \in [Models -> Nat \cup {Never}]
  /\ enabled \in [Models -> BOOLEAN]
  /\ modelCool \in [Models -> Nat]
  /\ provCool \in [Providers -> Nat]
  /\ incidents \in [Models -> Seq(Incident)]
  /\ worker \in [Workers -> Worker]
  /\ faults \in Nat

Init ==
  /\ now = 0
  /\ jobs = [j \in Jobs |-> [st |-> "none", model |-> CHOOSE m \in Models : TRUE,
                             via |-> "queue", tries |-> 0]]
  /\ runs = [m \in Models |-> <<>>]
  /\ stamp = [m \in Models |-> Never]
  /\ enabled = [m \in Models |-> TRUE]
  /\ modelCool = [m \in Models |-> 0]
  /\ provCool = [p \in Providers |-> 0]
  /\ incidents = [m \in Models |-> <<>>]
  /\ worker = [w \in Workers |-> Idle]
  /\ faults = 0

-----------------------------------------------------------------------------
(* Shorthands for a worker's job.                                          *)

Model(w) == jobs[worker[w].job].model
Prov(w)  == ProviderOf[Model(w)]
Rule(w)  == CooldownRule(worker[w].out)
At(w, pc) == worker[w].pc = pc

Goto(w, pc) == worker' = [worker EXCEPT ![w].pc = pc]

Fault == faults < MaxFaults /\ faults' = faults + 1

-----------------------------------------------------------------------------
(* How jobs come into being.                                               *)

(* The scheduler's candidate query and cooldown filter.  Which eligible    *)
(* models a tick picks (caps, rate budget, rotation) is left open here.    *)
Eligible(m) ==
  /\ enabled[m]
  /\ modelCool[m] <= now
  /\ provCool[ProviderOf[m]] <= now

Create(j, m, via) ==
  /\ jobs[j].st = "none"
  /\ jobs' = [jobs EXCEPT ![j] = [st |-> "queued", model |-> m, via |-> via, tries |-> 0]]
  /\ UNCHANGED <<now, tables, worker, faults>>

Schedule(j, m, via) == Eligible(m) /\ Create(j, m, via)

(* POST /admin/benchmark queues any stored model, enabled or not.          *)
AdminBenchmark(j, m) == "benchmark" \in AdminActs /\ Create(j, m, "queue")

-----------------------------------------------------------------------------
(* Delivery.                                                               *)

(* Takes a message that was delivered before for one that was handled.     *)
Receive_bug(w, j) ==
  /\ At(w, "idle")
  /\ jobs[j].st = "queued"
  /\ jobs[j].model \in Routable
  /\ jobs' = [jobs EXCEPT ![j].st = "running", ![j].tries = @ + 1]
  /\ worker' = [worker EXCEPT ![w] = [Idle EXCEPT !.pc = IF jobs[j].tries = 0 THEN "probe" ELSE "finish",
                                                  !.job = j, !.at = now]]
  /\ UNCHANGED <<now, tables, faults>>

Receive(w, j) ==
  /\ At(w, "idle")
  /\ jobs[j].st = "queued"
  /\ jobs[j].model \in Routable
  /\ jobs' = [jobs EXCEPT ![j].st = "running", ![j].tries = @ + 1]
  /\ worker' = [worker EXCEPT ![w] = [Idle EXCEPT !.pc = "probe", !.job = j, !.at = now]]
  /\ UNCHANGED <<now, tables, faults>>

(* No adapter for the provider, or no row for the model: the handler       *)
(* returns at once and the message is acknowledged.                        *)
Skip(j) ==
  /\ jobs[j].st = "queued"
  /\ jobs[j].model \notin Routable
  /\ jobs' = [jobs EXCEPT ![j].st = "done", ![j].tries = @ + 1]
  /\ UNCHANGED <<now, tables, worker, faults>>

(* Bug variants of operators, used only to confirm that the properties can *)
(* fail, end in _bug: here one delivery too many.                          *)
AfterFailure_bug(j) ==
  IF jobs[j].via = "inline" THEN "dropped"
  ELSE IF jobs[j].tries > MaxRetries + 1 THEN "dead" ELSE "queued"

(* Where a job goes when its handler throws or its invocation dies: an     *)
(* inline job is not retried, a message is redelivered until its retries   *)
(* are used up and then moves to bench-dlq.                                *)
AfterFailure(j) ==
  IF jobs[j].via = "inline" THEN "dropped"
  ELSE IF jobs[j].tries > MaxRetries THEN "dead" ELSE "queued"

Release(w, st) ==
  /\ jobs' = [jobs EXCEPT ![worker[w].job].st = st]
  /\ worker' = [worker EXCEPT ![w] = Idle]

Abandon(w) ==
  /\ Fault
  /\ Release(w, AfterFailure(worker[w].job))
  /\ UNCHANGED <<now, tables>>

(* The invocation is killed between two statements.                        *)
Crash(w) == ~At(w, "idle") /\ Abandon(w)

(* The tick dies before it reaches an inline job.                          *)
TickKilled(j) ==
  /\ jobs[j].st = "queued" /\ jobs[j].via = "inline"
  /\ Fault
  /\ jobs' = [jobs EXCEPT ![j].st = "dropped"]
  /\ UNCHANGED <<now, tables, worker>>

-----------------------------------------------------------------------------
(* The handler, from the provider's answer to the acknowledgement.  A D1   *)
(* failure that the handler does not catch (insert, streak and open reads, *)
(* incident write) throws: that is Crash.  One it catches is CallLost.     *)

(* A run starts when its probe did, one whose adapter threw when it threw. *)
StartedAt(w, o) ==
  IF o.status = "UNKNOWN_ERROR" THEN {worker[w].at, now} ELSE {worker[w].at}

(* The provider answered, timed out, or its adapter threw.                 *)
Probe(w, o) ==
  /\ At(w, "probe")
  /\ \E t \in StartedAt(w, o) :
       worker' = [worker EXCEPT ![w].pc = "insert", ![w].out = o, ![w].at = t]
  /\ UNCHANGED <<now, jobs, tables, faults>>

NewRun(w) == [at |-> worker[w].at, out |-> worker[w].out, job |-> worker[w].job]

(* Stamps the time of the insert.                                          *)
InsertRun_bug(w) ==
  /\ At(w, "insert")
  /\ runs' = [runs EXCEPT ![Model(w)] = Append(@, NewRun(w))]
  /\ stamp' = [stamp EXCEPT ![Model(w)] = now]
  /\ Goto(w, "cool")
  /\ UNCHANGED <<now, jobs, enabled, modelCool, provCool, incidents, faults>>

(* insertBenchmarkRun: the row and the LRU stamp in one D1 batch.          *)
InsertRun(w) ==
  /\ At(w, "insert")
  /\ runs' = [runs EXCEPT ![Model(w)] = Append(@, NewRun(w))]
  /\ stamp' = [stamp EXCEPT ![Model(w)] = worker[w].at]
  /\ Goto(w, "cool")
  /\ UNCHANGED <<now, jobs, enabled, modelCool, provCool, incidents, faults>>

(* The batch failed and the insert alone went through.                     *)
InsertUnstamped(w) ==
  /\ At(w, "insert") /\ Fault
  /\ runs' = [runs EXCEPT ![Model(w)] = Append(@, NewRun(w))]
  /\ Goto(w, "cool")
  /\ UNCHANGED <<now, jobs, stamp, enabled, modelCool, provCool, incidents>>

(* The batch was applied although D1 reported a failure: the insert alone  *)
(* puts the row in again.                                                  *)
InsertRepeated(w) ==
  /\ At(w, "insert") /\ Fault
  /\ runs' = [runs EXCEPT ![Model(w)] = Append(Append(@, NewRun(w)), NewRun(w))]
  /\ stamp' = [stamp EXCEPT ![Model(w)] = worker[w].at]
  /\ Goto(w, "cool")
  /\ UNCHANGED <<now, jobs, enabled, modelCool, provCool, incidents>>

SetModelCool(m, until) == modelCool' = [modelCool EXCEPT ![m] = until]
SetProvCool(p, until)  == provCool' = [provCool EXCEPT ![p] = until]

(* SUCCESS: the model's cooldown row goes, the provider's stays.           *)
ClearCooldown(w) ==
  /\ At(w, "cool") /\ Rule(w) = "clear"
  /\ SetModelCool(Model(w), 0)
  /\ Goto(w, "recent")
  /\ UNCHANGED <<now, jobs, runs, stamp, enabled, provCool, incidents, faults>>

NoCooldown(w) ==
  /\ At(w, "cool") /\ Rule(w) = "none"
  /\ Goto(w, "recent")
  /\ UNCHANGED <<now, jobs, tables, faults>>

(* escalateProviderCooldown, its read: how much of a cooldown is left.     *)
ReadProvider(w) ==
  /\ At(w, "cool") /\ Rule(w) \in EscalatingRules
  /\ worker' = [worker EXCEPT ![w].pc = "escalate",
                              ![w].remaining = provCool[Prov(w)] - now]
  /\ UNCHANGED <<now, jobs, tables, faults>>

(* escalateProviderCooldown, its write.                                    *)
BackOffProvider(w) ==
  /\ At(w, "escalate")
  /\ SetProvCool(Prov(w), now + ProviderBackoff(worker[w].out, worker[w].remaining))
  /\ Goto(w, "rest")
  /\ UNCHANGED <<now, jobs, runs, stamp, enabled, modelCool, incidents, faults>>

(* A 5xx that is not about the model: setProviderCooldown, whatever row is *)
(* there.                                                                  *)
TripProvider(w) ==
  /\ At(w, "cool") /\ Rule(w) = "provider_fault"
  /\ SetProvCool(Prov(w), now + 1)
  /\ Goto(w, "rest")
  /\ UNCHANGED <<now, jobs, runs, stamp, enabled, modelCool, incidents, faults>>

RestModel(w) ==
  /\ \/ At(w, "cool") /\ Rule(w) \notin ProviderRules \cup {"clear", "none"}
     \/ At(w, "rest")
  /\ SetModelCool(Model(w), now + ModelRest[Rule(w)])
  /\ Goto(w, "recent")
  /\ UNCHANGED <<now, jobs, runs, stamp, enabled, provCool, incidents, faults>>

-----------------------------------------------------------------------------
(* updateIncidents.  Its two reads are issued together and executed in     *)
(* order.                                                                  *)

(* Any IncidentThreshold rows with the greatest started_at, ties open.     *)
LatestRuns(m) ==
  {S \in SUBSET DOMAIN runs[m] :
     /\ Cardinality(S) = Earlier(IncidentThreshold, Len(runs[m]))
     /\ \A i \in S, k \in DOMAIN runs[m] \ S : runs[m][i].at >= runs[m][k].at}

(* Counts rows without looking at their status.                            *)
ReadStreak_bug(w) ==
  /\ At(w, "recent")
  /\ \E S \in LatestRuns(Model(w)) :
       worker' = [worker EXCEPT ![w].pc = "open",
                    ![w].streak = Cardinality(S) >= IncidentThreshold]
  /\ UNCHANGED <<now, jobs, tables, faults>>

ReadStreak(w) ==
  /\ At(w, "recent")
  /\ \E S \in LatestRuns(Model(w)) :
       worker' = [worker EXCEPT ![w].pc = "open",
                    ![w].streak = Cardinality(S) >= IncidentThreshold
                                  /\ \A i \in S : Failed(runs[Model(w)][i].out)]
  /\ UNCHANGED <<now, jobs, tables, faults>>

OpenRows(m) == {i \in DOMAIN incidents[m] : incidents[m][i].end = Never}

(* ended_at = NULL, which no row satisfies.                                *)
LatestOpen_bug(m) == {0}

(* The open incident that started last, 0 if none is open.                 *)
LatestOpen(m) ==
  IF OpenRows(m) = {} THEN {0}
  ELSE {i \in OpenRows(m) :
          \A k \in OpenRows(m) : incidents[m][i].start >= incidents[m][k].start}

ReadOpen(w) ==
  /\ At(w, "open")
  /\ \E i \in LatestOpen(Model(w)) :
       worker' = [worker EXCEPT ![w].open = i,
                    ![w].pc = IF \/ i # 0
                                 \/ Failed(worker[w].out) /\ worker[w].streak
                              THEN "incident" ELSE "guard"]
  /\ UNCHANGED <<now, jobs, tables, faults>>

WriteIncidents(w, rows) ==
  /\ At(w, "incident")
  /\ incidents' = [incidents EXCEPT ![Model(w)] = rows]
  /\ Goto(w, "guard")
  /\ UNCHANGED <<now, jobs, runs, stamp, enabled, modelCool, provCool, faults>>

(* The incident starts when it is noticed.                                 *)
RaiseIncident_bug(w) ==
  /\ worker[w].open = 0
  /\ WriteIncidents(w, Append(incidents[Model(w)],
       [start |-> now, end |-> Never, count |-> IncidentThreshold]))

RaiseIncident(w) ==
  /\ worker[w].open = 0
  /\ WriteIncidents(w, Append(incidents[Model(w)],
       [start |-> worker[w].at, end |-> Never, count |-> IncidentThreshold]))

(* UPDATE ... WHERE id=?: also when the row was closed since it was read.  *)
CloseIncident(w) ==
  /\ worker[w].open # 0 /\ ~Failed(worker[w].out)
  /\ WriteIncidents(w, [incidents[Model(w)] EXCEPT
       ![worker[w].open].end = worker[w].at, ![worker[w].open].count = @ + 1])

CountFailure(w) ==
  /\ worker[w].open # 0 /\ Failed(worker[w].out)
  /\ WriteIncidents(w, [incidents[Model(w)] EXCEPT ![worker[w].open].count = @ + 1])

-----------------------------------------------------------------------------
(* The trailing-24h guard, entered on every outcome, SUCCESS included.     *)

(* Forgets the window.                                                     *)
DayRuns_bug(m) == DOMAIN runs[m]

DayRuns(m)   == {i \in DOMAIN runs[m] : runs[m][i].at >= now - Day}
Failures(m, S) == {i \in S : Failed(runs[m][i].out)}
GoneHits(m, S) == {i \in Failures(m, S) : LooksGone(runs[m][i].out)}

(* Off by one on both limits.                                              *)
AfterBackoff_bug(fails, gone) ==
  IF gone > GONE_MODEL_MIN_COUNT \/ fails > DailyMax THEN "disable" ELSE "finish"

(* Where the guard goes once it knows the two counts.                      *)
AfterBackoff(fails, gone) ==
  IF ShouldAutoDisable(fails, gone, DailyMax) THEN "disable" ELSE "finish"

AfterCount(o, fails, gone) ==
  IF Failed(o) /\ ~GuardExempt(o) /\ fails > 0 THEN "backoff"
  ELSE AfterBackoff(fails, gone)

ReadDay(w) ==
  /\ At(w, "guard")
  /\ LET day   == DayRuns(Model(w))
         fails == Cardinality(Failures(Model(w), day))
         gone  == Cardinality(GoneHits(Model(w), day))
     IN worker' = [worker EXCEPT ![w].pc = AfterCount(worker[w].out, fails, gone),
                                 ![w].fails = fails, ![w].gone = gone]
  /\ UNCHANGED <<now, jobs, tables, faults>>

BackOffModel(w) ==
  /\ At(w, "backoff")
  /\ SetModelCool(Model(w),
       now + EscalatedModelCooldown(GuardBase(worker[w].out), worker[w].fails))
  /\ Goto(w, AfterBackoff(worker[w].fails, worker[w].gone))
  /\ UNCHANGED <<now, jobs, runs, stamp, enabled, provCool, incidents, faults>>

Disable(w) ==
  /\ At(w, "disable")
  /\ enabled' = [enabled EXCEPT ![Model(w)] = FALSE]
  /\ Goto(w, "finish")
  /\ UNCHANGED <<now, jobs, runs, stamp, modelCool, provCool, incidents, faults>>

(* Returns without acknowledging.                                          *)
Finish_bug(w) ==
  /\ At(w, "finish")
  /\ worker' = [worker EXCEPT ![w] = Idle]
  /\ UNCHANGED <<now, jobs, tables, faults>>

(* The live broadcast, whose failure is swallowed, then the acknowledgement *)
(* (of a message) or the next inline job.                                  *)
Finish(w) ==
  /\ At(w, "finish")
  /\ Release(w, "done")
  /\ UNCHANGED <<now, tables, faults>>

(* A D1 call of the cooldown branch or of the guard failed: it is logged   *)
(* and the handler goes on as if the call had done nothing.                *)
AfterLost(w) ==
  CASE At(w, "cool") -> IF Rule(w) \in EscalatingRules THEN "escalate"
                        ELSE IF Rule(w) = "provider_fault" THEN "rest" ELSE "recent"
    [] At(w, "escalate") -> "rest"
    [] At(w, "rest")     -> "recent"
    [] At(w, "backoff")  -> AfterBackoff(worker[w].fails, worker[w].gone)
    [] OTHER             -> "finish"

CallLost(w) ==
  /\ worker[w].pc \in {"cool", "escalate", "rest", "guard", "backoff", "disable"}
  /\ ~(At(w, "cool") /\ Rule(w) = "none")
  /\ Fault
  /\ Goto(w, AfterLost(w))
  /\ UNCHANGED <<now, jobs, tables>>

-----------------------------------------------------------------------------
(* The administrator.  A request's statements act on different tables, so  *)
(* it is one step; only its best-effort clearing of cooldowns may fail.    *)

ModelsOf(ps) == {m \in Models : ProviderOf[m] \in ps}

ClearCooldowns(ps, ms) ==
  /\ provCool'  = [p \in Providers |-> IF p \in ps THEN 0 ELSE provCool[p]]
  /\ modelCool' = [m \in Models |-> IF m \in ms THEN 0 ELSE modelCool[m]]

(* Toggle one model, or switch a set of models, or (ps # {}) all those of  *)
(* a provider.  Enabling clears the cooldowns.                             *)
Switch(ps, ms, e) ==
  /\ "switch" \in AdminActs
  /\ enabled' = [m \in Models |-> IF m \in ms THEN e ELSE enabled[m]]
  /\ \/ /\ IF e THEN ClearCooldowns(ps, ms) ELSE UNCHANGED <<provCool, modelCool>>
        /\ UNCHANGED faults
     \/ e /\ Fault /\ UNCHANGED <<provCool, modelCool>>
  /\ UNCHANGED <<now, jobs, runs, stamp, incidents, worker>>

AdminSwitch(ms, e)         == ms # {} /\ Switch({}, ms, e)
AdminSwitchProvider(p, e)  == ModelsOf({p}) # {} /\ Switch({p}, ModelsOf({p}), e)

(* POST /admin/cooldown/reset: a model, a provider's row, a provider with  *)
(* its models, or everything that is cooling.                              *)
AdminReset(ps, ms) ==
  /\ "reset" \in AdminActs
  /\ \/ ps = {} /\ Cardinality(ms) = 1
     \/ Cardinality(ps) = 1 /\ ms \in {{}, ModelsOf(ps)}
     \/ /\ ps = {p \in Providers : provCool[p] > now}
        /\ ms = {m \in Models : modelCool[m] > now}
  /\ ClearCooldowns(ps, ms)
  /\ UNCHANGED <<now, jobs, runs, stamp, enabled, incidents, worker, faults>>

-----------------------------------------------------------------------------
(* Time passes, but no delivery outlasts JobSpan.                          *)
Tick(d) ==
  /\ now + d <= Horizon
  /\ \A w \in Workers : At(w, "idle") \/ now + d <= worker[w].at + JobSpan
  /\ now' = now + d
  /\ UNCHANGED <<jobs, tables, worker, faults>>

Handle(w) ==
  \/ \E o \in Outcomes : Probe(w, o)
  \/ InsertRun(w)
  \/ ClearCooldown(w) \/ NoCooldown(w) \/ ReadProvider(w) \/ BackOffProvider(w)
  \/ TripProvider(w) \/ RestModel(w)
  \/ ReadStreak(w) \/ ReadOpen(w)
  \/ RaiseIncident(w) \/ CloseIncident(w) \/ CountFailure(w)
  \/ ReadDay(w) \/ BackOffModel(w) \/ Disable(w)
  \/ Finish(w)

Mishap(w) == InsertUnstamped(w) \/ InsertRepeated(w) \/ CallLost(w) \/ Crash(w)

Admin ==
  \/ \E j \in Jobs, m \in Models : AdminBenchmark(j, m)
  \/ \E ms \in SUBSET Models, e \in BOOLEAN : AdminSwitch(ms, e)
  \/ \E p \in Providers, e \in BOOLEAN : AdminSwitchProvider(p, e)
  \/ \E ps \in SUBSET Providers, ms \in SUBSET Models : AdminReset(ps, ms)

Next ==
  \/ \E j \in Jobs, m \in Models, via \in {"inline", "queue"} : Schedule(j, m, via)
  \/ Admin
  \/ \E j \in Jobs : Skip(j) \/ TickKilled(j)
  \/ \E w \in Workers, j \in Jobs : Receive(w, j)
  \/ \E w \in Workers : Handle(w) \/ Mishap(w)
  \/ \E d \in TimeSteps : Tick(d)

(* The queue keeps delivering, and a handler that has started goes on: each *)
(* of its calls returns or fails.                                          *)
Fairness ==
  /\ \A j \in Jobs : WF_vars(Skip(j))
  /\ \A w \in Workers : WF_vars(Handle(w)) /\ WF_vars(\E j \in Jobs : Receive(w, j))

Spec == Init /\ [][Next]_vars /\ Fairness

-----------------------------------------------------------------------------
(* Properties.                                                             *)

Rows(j) == UNION {{<<m, i>> : i \in {k \in DOMAIN runs[m] : runs[m][k].job = j}} :
                  m \in Models}

(* Redelivery may repeat a measurement but never invents one, and an       *)
(* acknowledged message never lost its measurement: a job leaves at most   *)
(* one row for each delivery that was made of it and each D1 call that     *)
(* failed, at least one when it was acknowledged (handleBenchJob inserts   *)
(* before it acknowledges, whatever else fails), and never more deliveries *)
(* than max_retries allows, one when inline.                               *)
RunLedger ==
  \A j \in Jobs :
    /\ Cardinality(Rows(j)) <= jobs[j].tries + faults
    /\ jobs[j].st = "done" /\ jobs[j].model \in Routable => Rows(j) # {}
    /\ jobs[j].tries <= (IF jobs[j].via = "inline" THEN 1 ELSE MaxRetries + 1)

(* Seen from outside, a job goes the way that JobLedger describes: the     *)
(* handler's reads, writes, failures and crashes are nothing but its steps *)
(* (src/index.ts queue acknowledges after handleBenchJob, which inserts    *)
(* the run before anything that may fail and be swallowed).                *)
PhaseOf == [none |-> "none", queued |-> "waiting", running |-> "handled", done |-> "done",
            dead |-> "given_up", dropped |-> "given_up"]

Phase(r) == IF r.st = "done" /\ r.model \notin Routable THEN "ignored" ELSE PhaseOf[r.st]

HasRow(j) == \E m \in Models : \E i \in DOMAIN runs[m] : runs[m][i].job = j

phases     == [j \in Jobs |-> Phase(jobs[j])]
ways       == [j \in Jobs |-> jobs[j].via]
deliveries == [j \in Jobs |-> jobs[j].tries]
measured   == {j \in Jobs : HasRow(j)}

Ledger == INSTANCE JobLedger WITH phase <- phases, via <- ways

KeepsLedger == Ledger!Spec

Raisers(m) == {w \in Workers : At(w, "incident") /\ Model(w) = m /\ worker[w].open = 0}

(* updateIncidents checks for an open incident and then inserts one with   *)
(* nothing to stop a second lane in between, so a model can have several   *)
(* open incidents; but never more than there are lanes, because nobody     *)
(* raises one after having seen one open.                                  *)
IncidentBound ==
  \A m \in Models : Cardinality(OpenRows(m)) <= Cardinality(Workers)

(* No outage is made up: an incident's start is the start of a failed run, *)
(* and the model has at least IncidentThreshold failed runs.               *)
IncidentsJustified ==
  \A m \in Models : \A k \in DOMAIN incidents[m] :
    LET failed == Failures(m, DOMAIN runs[m])
    IN /\ Cardinality(failed) >= IncidentThreshold
       /\ \E i \in failed : runs[m][i].at = incidents[m][k].start

Busy(m) == \E w \in Workers : ~At(w, "idle") /\ Model(w) = m

LastStart(m) ==
  CHOOSE t \in {runs[m][i].at : i \in DOMAIN runs[m]} :
    \A i \in DOMAIN runs[m] : runs[m][i].at <= t

(* The guard misses nothing, however the deliveries of a model overlap: as *)
(* long as every D1 call works and no administrator enables models, a      *)
(* model nobody is probing is disabled once the runs of the day before its *)
(* last probe ended call for it (each lane inserts its run before it       *)
(* counts, so the last to count has seen them all).                        *)
GuardCatchesDeadModels ==
  \A m \in Models :
    LET day == {i \in DOMAIN runs[m] : runs[m][i].at >= LastStart(m) + JobSpan - Day}
    IN faults = 0 /\ ~Busy(m) /\ runs[m] # <<>>
       => (ShouldAutoDisable(Cardinality(Failures(m, day)), Cardinality(GoneHits(m, day)),
                             DailyMax)
           => ~enabled[m])

(* Only the guard or an administrator disables a model, and the guard only *)
(* one whose failed runs within some 24 hours reach a limit.               *)
Condemned(m) ==
  \E S \in SUBSET Failures(m, DOMAIN runs[m]) :
    /\ \A i, k \in S : runs[m][i].at - runs[m][k].at <= Day
    /\ ShouldAutoDisable(Cardinality(S), Cardinality(GoneHits(m, S)), DailyMax)

AutoDisableJustified ==
  [][\A m \in Models : enabled[m] /\ ~enabled'[m] /\ worker' # worker => Condemned(m)]_vars

(* No sequence of outcomes cools a model or a provider for more than 24    *)
(* hours: the doubling stops at its caps.                                  *)
CooldownsBounded ==
  /\ \A m \in Models : modelCool[m] <= now + Day
  /\ \A p \in Providers : provCool[p] <= now + Day

(* Positions at which a streak of failures reaches the threshold.          *)
StreakStarts(m) ==
  {i \in IncidentThreshold .. Len(runs[m]) :
     /\ \A k \in i - IncidentThreshold + 1 .. i : Failed(runs[m][k].out)
     /\ i = IncidentThreshold \/ ~Failed(runs[m][i - IncidentThreshold].out)}

EndOfStreak(m, i) == {k \in i .. Len(runs[m]) : ~Failed(runs[m][k].out)}

Outage(m, i) ==
  [start |-> runs[m][i].at,
   end   |-> IF EndOfStreak(m, i) = {} THEN Never
             ELSE runs[m][CHOOSE k \in EndOfStreak(m, i) :
                            \A n \in EndOfStreak(m, i) : k <= n].at]

DistinctStarts(m) ==
  \A i, k \in DOMAIN runs[m] : i # k => runs[m][i].at # runs[m][k].at

(* What an outage is: it starts with the run that completes a streak of    *)
(* IncidentThreshold failures and ends with the next SUCCESS.  A single    *)
(* lane and a working database give exactly those incidents and no other,  *)
(* between probes that did not start in the same instant.                  *)
IncidentsMirrorRuns ==
  \A m \in Models :
    faults = 0 /\ ~Busy(m) /\ DistinctStarts(m)
    => /\ {[start |-> incidents[m][k].start, end |-> incidents[m][k].end] :
             k \in DOMAIN incidents[m]} = {Outage(m, i) : i \in StreakStarts(m)}
       /\ Len(incidents[m]) = Cardinality(StreakStarts(m))

(* With a single lane and a working database the denormalised              *)
(* last_benchmark_at the rotation sorts by is the start of the latest run. *)
StampIsLatest ==
  \A m \in Models : faults = 0 /\ runs[m] # <<>> => stamp[m] = LastStart(m)

(* Every job that is ever created is acknowledged, given up on, or dropped *)
(* with its tick: none is left queued or running for ever.                 *)
EveryJobSettles ==
  \A j \in Jobs : (jobs[j].st = "queued") ~> (jobs[j].st \in Settled)

-----------------------------------------------------------------------------
(* What the repository says and the code does not do.                      *)

(* "ends on SUCCESS": a model whose latest run succeeded has no incident   *)
(* open.                                                                   *)
OutageEndsOnSuccess ==
  \A m \in Models :
    /\ faults = 0 /\ ~Busy(m)
    /\ \E i \in DOMAIN runs[m] :
         /\ ~Failed(runs[m][i].out)
         /\ \A k \in DOMAIN runs[m] \ {i} : runs[m][k].at < runs[m][i].at
    => OpenRows(m) = {}

(* "provider cooldown persists until expiry or manual reset": a probe's    *)
(* outcome never shortens a provider cooldown that is running.             *)
ProviderCooldownPersists ==
  [][\A p \in Providers :
       provCool[p] > now /\ worker' # worker => provCool'[p] >= provCool[p]]_vars

(* A model that an administrator has enabled again is not disabled by a    *)
(* probe that succeeds.                                                    *)
RecoveredModelSurvives ==
  [][\A w \in Workers :
       At(w, "disable") /\ worker'[w] # worker[w] /\ ~Failed(worker[w].out)
       => enabled' = enabled]_vars

=============================================================================
