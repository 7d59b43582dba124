--------------------------- MODULE SchedulerTick ---------------------------
(***************************************************************************)
(* The rotation: how the ticks of the */5 cron pick models to benchmark    *)
(* (src/benchmark/scheduler.ts scheduleBenchmarks and runInlineBounded,    *)
(* src/utils/scheduler-select.ts), run the first jobs themselves and hand  *)
(* the rest to bench-queue, while earlier jobs are still being delivered.  *)
(* Nothing keeps two ticks apart, nor a tick from a job of the one before. *)
(*                                                                         *)
(* What a job does besides stamping its model is BenchJob's subject.       *)
(***************************************************************************)
EXTENDS Integers, FiniteSets, SequencesExt

CONSTANTS
  Models, Providers, ProviderOf,
  ByName,                   \* the models by provider and display name
  Lanes,                    \* queue consumers
  Ticks,                    \* invocations of the cron that may be alive at once
  MaxGlobal, Cap, RpmLimit, \* MAX_GLOBAL_CONCURRENCY, capFor, rpmForProvider
  SpeedTake, InlineTake,    \* SPEED_PROBE_TAKE, BENCH_INLINE_FALLBACK
  WaveSize,                 \* jobs in one sendBatch
  Usages,                   \* the rpmUsage maps a tick may read
  MayCool,                  \* bound: models whose cooldowns are considered
  MaxBacklog,               \* bound: a tick starts only with this few jobs queued
  MaxFaults                 \* bound: failed calls and killed invocations

ASSUME SchedulerTickAssumption ==
  /\ ProviderOf \in [Models -> Providers]
  /\ ByName \in Seq(Models) /\ ToSet(ByName) = Models /\ IsInjective(ByName)
  /\ Lanes \cap Ticks = {} /\ (Lanes \cup Ticks) \cap Models = {}
  /\ MaxGlobal \in Nat /\ SpeedTake \in Nat /\ InlineTake \in Nat
  /\ Cap \in [Providers -> Nat] /\ RpmLimit \in [Providers -> Nat]
  /\ WaveSize \in Nat \ {0}
  /\ \A used \in Usages : used \in [Providers -> Nat]
  /\ MayCool \subseteq Models
  /\ MaxBacklog \in Nat /\ MaxFaults \in Nat

VARIABLES
  lru,      \* the models by models.last_benchmark_at, oldest first, and among
            \* them every running probe at the place its stamp will take
  speedLru, \* the same by last_now_json.speed.at
  cooling,  \* models under a cooldown of their own or of their provider
  queue,    \* bench-queue, in the order of sending
  lane,     \* lane[w]: the job a lane or a tick is probing, NoJob if none
  tick,     \* tick[t]: where an invocation of the cron is
  faults

vars == <<lru, speedLru, cooling, queue, lane, tick, faults>>

Types  == {"coding", "speed"}
Job    == [model : Models, type : Types]
Runners == Lanes \cup Ticks
NoJob  == [model |-> "none", type |-> "none"]

(* todo: jobs selected and not yet begun or sent; take: how many more may  *)
(* succeed inline; begun: whether the inline loop has begun one.           *)
Tick == [pc : {"idle", "speed", "inline", "send"}, todo : Seq(Job), take : Nat,
         begun : BOOLEAN, used : [Providers -> Nat], out : SUBSET Models]

IdleTick == [pc |-> "idle", todo |-> <<>>, take |-> 0, begun |-> FALSE,
             used |-> [p \in Providers |-> 0], out |-> {}]

(* A stamp order holds every model once and every probe that will stamp it *)
(* once.                                                                   *)
IsOrder(s, probes) ==
  /\ s \in Seq(Models \cup probes) /\ ToSet(s) = Models \cup probes
  /\ IsInjective(s)

Probing(types) == {w \in Runners : lane[w].type \in types}

TypeOK ==
  /\ IsOrder(lru, Probing(Types))
  /\ IsOrder(speedLru, Probing({"speed"}))
  /\ cooling \subseteq Models
  /\ queue \in Seq(Job)
  /\ lane \in [Runners -> Job \cup {NoJob}]
  /\ tick \in [Ticks -> Tick]
  /\ faults \in Nat

Init ==
  /\ lru = ByName
  /\ speedLru = ByName
  /\ cooling = {}
  /\ queue = <<>>
  /\ lane = [w \in Runners |-> NoJob]
  /\ tick = [t \in Ticks |-> IdleTick]
  /\ faults = 0

-----------------------------------------------------------------------------
(* selectJobs.                                                             *)

Taken(jobs, p) == Cardinality({i \in DOMAIN jobs : ProviderOf[jobs[i].model] = p})

(* Where an element of an order is.                                        *)
Place(s, x) == CHOOSE i \in DOMAIN s : s[i] = x

Candidates(used, out) ==
  {m \in Models \ out : used[ProviderOf[m]] < RpmLimit[ProviderOf[m]]}

Of(ms, p) == {m \in ms : ProviderOf[m] = p}

(* The round in which its provider gives a model, the oldest one first.    *)
Turn(order, ms, m) ==
  Cardinality({k \in Of(ms, ProviderOf[m]) : Place(order, k) <= Place(order, m)})

(* Bug variants of operators, used only to confirm that the properties can *)
(* fail, end in _bug: here a provider never fills its cap.                 *)
Turns_bug(p, cap, used) == Min({cap[p] - 1, RpmLimit[p] - used[p]})

(* How many models provider p may give: its concurrency cap and what is    *)
(* left of its budget for the minute.                                      *)
Turns(p, cap, used) == Min({cap[p], RpmLimit[p] - used[p]})

(* Every limit of the loop only tightens as it goes on, so that a provider *)
(* once passed over is passed over in all later rounds.                    *)
Picks(order, ms, cap, used) ==
  {m \in ms : Turn(order, ms, m) <= Turns(ProviderOf[m], cap, used)}

(* In each round the providers come by their oldest candidates.            *)
Oldest(order, ms, p) == Min({Place(order, m) : m \in Of(ms, p)})

Before(order, ms, k, m) ==
  \/ Turn(order, ms, k) < Turn(order, ms, m)
  \/ /\ Turn(order, ms, k) = Turn(order, ms, m)
     /\ Oldest(order, ms, ProviderOf[k]) < Oldest(order, ms, ProviderOf[m])

Nth(order, ms, picks, i) ==
  CHOOSE m \in picks : Cardinality({k \in picks : Before(order, ms, k, m)}) = i - 1

SelectJobs(order, type, global, cap, used, out) ==
  LET ms    == Candidates(used, out)
      picks == Picks(order, ms, cap, used)
  IN [i \in 1 .. Min({global, Cardinality(picks)}) |->
        [model |-> Nth(order, ms, picks, i), type |-> type]]

FirstOf(s, n) == SubSeq(s, 1, Min({n, Len(s)}))

-----------------------------------------------------------------------------
(* A probe, by a queue lane or by a tick.                                  *)

Free(w) == lane[w] = NoJob

(* Where the probe's stamp will go is settled when it starts.              *)
Begin(w, j) ==
  /\ lane' = [lane EXCEPT ![w] = j]
  /\ lru' = Append(lru, w)
  /\ speedLru' = IF j.type = "speed" THEN Append(speedLru, w) ELSE speedLru

Without(s, x) == IF Contains(s, x) THEN RemoveAt(s, Place(s, x)) ELSE s

(* A run that ends does not move its model.                                *)
Stamp_bug(s, w, m) == Without(s, w)

Stamp(s, w, m) ==
  LET rest == Without(s, m)
  IN [i \in 1 .. Len(rest) |-> IF rest[i] = w THEN m ELSE rest[i]]

(* insertBenchmarkRun: last_benchmark_at, and last_now_json under the      *)
(* job's own type, whatever was stamped meanwhile.                         *)
End(w) ==
  /\ ~Free(w)
  /\ lane' = [lane EXCEPT ![w] = NoJob]
  /\ lru' = Stamp(lru, w, lane[w].model)
  /\ speedLru' = IF lane[w].type = "speed" THEN Stamp(speedLru, w, lane[w].model)
                 ELSE speedLru

(* A probe given up keeps its place in the orders.                         *)
Forget_bug(w) ==
  /\ lane' = [lane EXCEPT ![w] = NoJob]
  /\ UNCHANGED <<lru, speedLru>>

Forget(w) ==
  /\ lane' = [lane EXCEPT ![w] = NoJob]
  /\ lru' = Without(lru, w)
  /\ speedLru' = Without(speedLru, w)

Fault == faults < MaxFaults /\ faults' = faults + 1

(* Deliveries come in any order.                                           *)
Receive(w, i) ==
  /\ Free(w) /\ i \in DOMAIN queue
  /\ queue' = RemoveAt(queue, i)
  /\ Begin(w, queue[i])
  /\ UNCHANGED <<cooling, tick, faults>>

Finish(w) == End(w) /\ UNCHANGED <<cooling, queue, tick, faults>>

(* The delivery fails before the run is stored: a retry, or bench-dlq.     *)
FailDelivery(w) ==
  /\ ~Free(w) /\ Fault
  /\ queue' \in {queue, Append(queue, lane[w])}
  /\ Forget(w)
  /\ UNCHANGED <<cooling, tick>>
-----------------------------------------------------------------------------
(* A tick.                                                                 *)

In(t, pc) == tick[t].pc = pc

Offset(jobs) == [p \in Providers |-> Taken(jobs, p)]

Plus(f, g)    == [p \in Providers |-> f[p] + g[p]]
AtLeast0(f)   == [p \in Providers |-> IF f[p] < 0 THEN 0 ELSE f[p]]
Minus(f, g)   == AtLeast0([p \in Providers |-> f[p] - g[p]])

(* Reads the cooldowns and the last minute's usage, selects coding jobs.   *)
SelectCoding(t, used) ==
  /\ In(t, "idle")
  /\ Len(queue) <= MaxBacklog
  /\ tick' = [tick EXCEPT ![t] =
       [IdleTick EXCEPT !.pc = "speed", !.used = used, !.out = cooling,
          !.todo = SelectJobs(lru, "coding", MaxGlobal, Cap, used, cooling)]]
  /\ UNCHANGED <<lru, speedLru, cooling, queue, lane, faults>>

(* The second pass spends the whole budget again.                          *)
SpeedJobs_bug(t) ==
  SelectJobs(speedLru, "speed", SpeedTake, Cap, tick[t].used, tick[t].out)

(* The pass for speed probes has what the coding pass left of the caps and *)
(* of the minute's budget, and the cooldowns it read.                      *)
SpeedJobs(t) ==
  LET taken == Offset(tick[t].todo)
  IN SelectJobs(speedLru, "speed", SpeedTake, Minus(Cap, taken),
                Plus(tick[t].used, taken), tick[t].out)

ToInline(t, jobs) ==
  tick' = [tick EXCEPT ![t].pc = "inline", ![t].todo = jobs,
             ![t].take = Min({InlineTake, Len(jobs)})]

SelectSpeed(t) ==
  /\ In(t, "speed")
  /\ ToInline(t, tick[t].todo \o SpeedJobs(t))
  /\ UNCHANGED <<lru, speedLru, cooling, queue, lane, faults>>

(* Its query failed: no speed probes this time.                            *)
SkipSpeed(t) ==
  /\ In(t, "speed") /\ Fault
  /\ ToInline(t, tick[t].todo)
  /\ UNCHANGED <<lru, speedLru, cooling, queue, lane>>

(* runInlineBounded: the next job.                                         *)
BeginInline(t) ==
  /\ In(t, "inline") /\ Free(t)
  /\ tick[t].todo # <<>> /\ tick[t].take > 0
  /\ Begin(t, Head(tick[t].todo))
  /\ tick' = [tick EXCEPT ![t].todo = Tail(@), ![t].begun = TRUE]
  /\ UNCHANGED <<cooling, queue, faults>>

EndInline(t) ==
  /\ In(t, "inline")
  /\ End(t)
  /\ tick' = [tick EXCEPT ![t].take = @ - 1]
  /\ UNCHANGED <<cooling, queue, faults>>

(* It threw: logged, not retried, and not counted.                         *)
FailInline(t) ==
  /\ In(t, "inline") /\ ~Free(t) /\ Fault
  /\ Forget(t)
  /\ UNCHANGED <<cooling, queue, tick>>

(* The loop ends: enough jobs ran, none is left, or the time budget is     *)
(* spent, which takes at least one job.                                    *)
EndInlineLoop(t) ==
  /\ In(t, "inline") /\ Free(t)
  /\ tick[t].begun \/ tick[t].take = 0 \/ tick[t].todo = <<>>
  /\ tick' = [tick EXCEPT ![t].pc = "send"]
  /\ UNCHANGED <<lru, speedLru, cooling, queue, lane, faults>>

Wave(t) == FirstOf(tick[t].todo, WaveSize)

AfterWave(t) ==
  tick' = [tick EXCEPT ![t].todo = SubSeq(@, Len(Wave(t)) + 1, Len(@))]

SendWave(t) ==
  /\ In(t, "send") /\ tick[t].todo # <<>>
  /\ queue' = queue \o Wave(t)
  /\ AfterWave(t)
  /\ UNCHANGED <<lru, speedLru, cooling, lane, faults>>

(* sendBatch failed: logged, the wave is lost.                             *)
LoseWave(t) ==
  /\ In(t, "send") /\ tick[t].todo # <<>> /\ Fault
  /\ AfterWave(t)
  /\ UNCHANGED <<lru, speedLru, cooling, queue, lane>>

EndTick(t) ==
  /\ In(t, "send") /\ tick[t].todo = <<>>
  /\ tick' = [tick EXCEPT ![t] = IdleTick]
  /\ UNCHANGED <<lru, speedLru, cooling, queue, lane, faults>>

(* The invocation is killed.                                               *)
KillTick(t) ==
  /\ ~In(t, "idle") /\ Fault
  /\ tick' = [tick EXCEPT ![t] = IdleTick]
  /\ Forget(t)
  /\ UNCHANGED <<cooling, queue>>

-----------------------------------------------------------------------------
(* Cooldowns come and go with the outcomes of probes and with time.        *)
Cool(m) ==
  /\ cooling' \in {cooling \cup {m}, cooling \ {m}} \ {cooling}
  /\ UNCHANGED <<lru, speedLru, queue, lane, tick, faults>>

TickStep(t) ==
  \/ \E used \in Usages : SelectCoding(t, used)
  \/ SelectSpeed(t) \/ BeginInline(t) \/ EndInline(t) \/ EndInlineLoop(t)
  \/ SendWave(t) \/ EndTick(t)

TickMishap(t) == SkipSpeed(t) \/ FailInline(t) \/ LoseWave(t) \/ KillTick(t)

Next ==
  \/ \E t \in Ticks : TickStep(t) \/ TickMishap(t)
  \/ \E w \in Lanes : Finish(w) \/ FailDelivery(w) \/ \E i \in DOMAIN queue : Receive(w, i)
  \/ \E m \in MayCool : Cool(m)

(* The cron keeps firing and its invocations go on; the queue delivers     *)
(* every job it holds (in time the oldest), and a probe ends, if only by   *)
(* the engine's timeout.                                                   *)
Fairness ==
  /\ \A t \in Ticks : WF_vars(TickStep(t))
  /\ \A w \in Lanes : WF_vars(Finish(w))
  /\ SF_vars(\E w \in Lanes : Receive(w, 1))

Spec == Init /\ [][Next]_vars /\ Fairness

-----------------------------------------------------------------------------
(* Properties.                                                             *)

Selected(t) == tick[t].todo

JustSelected(t) == In(t, "inline") /\ ~tick[t].begun

(* A tick never plans more probes of a provider than its concurrency cap   *)
(* and its budget for the minute allow, though the two passes select apart *)
(* (withUsageOffset and the reduced cap are what joins them).              *)
TickWithinLimits ==
  \A t \in Ticks : JustSelected(t) =>
    \A p \in Providers :
      LET n == Taken(Selected(t), p)
      IN n > 0 => n <= Cap[p] /\ tick[t].used[p] + n <= RpmLimit[p]

(* Where the coding jobs are among those selected.                         *)
CodingJobs(t) == {i \in DOMAIN Selected(t) : Selected(t)[i].type = "coding"}

CodingOf(t, p) == {i \in CodingJobs(t) : ProviderOf[Selected(t)[i].model] = p}

CodingModels(t) == {Selected(t)[i].model : i \in CodingJobs(t)}

Ready(t) == {m \in Models \ tick[t].out :
               tick[t].used[ProviderOf[m]] < RpmLimit[ProviderOf[m]]}

(* What the coding pass owes every provider: never two turns ahead of      *)
(* another provider that could still have given a model, and no slot left  *)
(* unused while one could.                                                 *)
CouldGiveMore(t, p) ==
  LET n == Cardinality(CodingOf(t, p))
  IN /\ n < Cap[p] /\ tick[t].used[p] + n < RpmLimit[p]
     /\ \E m \in Ready(t) \ CodingModels(t) : ProviderOf[m] = p

TurnsAreFair ==
  \A t \in Ticks : JustSelected(t) =>
    \A p \in Providers : CouldGiveMore(t, p) =>
      /\ Cardinality(CodingJobs(t)) = MaxGlobal
      /\ \A q \in Providers : Cardinality(CodingOf(t, q)) <= Cardinality(CodingOf(t, p)) + 1

(* A model that stays off cooldown is probed for coding again and again:   *)
(* the rotation starves nobody, although a selected model keeps its place  *)
(* in the order until its job ends, so that later ticks queue it again,    *)
(* and although speed probes and late results move the same stamp.         *)
Coding(m) == \E w \in Runners : lane[w] = [model |-> m, type |-> "coding"]

RotationReachesAll ==
  \A m \in Models : <>[](m \notin cooling) => []<>Coding(m)

-----------------------------------------------------------------------------
(* What the repository says and the code does not do.                      *)

(* "per-model 1 concurrency": no model is probed twice at the same time.   *)
OneProbePerModel ==
  \A v, w \in Runners : v # w /\ ~Free(v) /\ ~Free(w) => lane[v].model # lane[w].model
=============================================================================
