# ModelPulseX in TLA+

ModelPulseX is an observatory of free language models that runs on Cloudflare.
A Worker wakes up every five minutes, picks models whose turn it is, streams a
small prompt from each, stores what it measured, and decides from the outcomes
which models and providers to leave alone for a while, which are in an outage
and which are gone.  Dashboards read the results over an API and follow new
ones over a live feed.

This directory holds TLA+ specifications of the parts in which several actors
share state, the TLC configurations that check them, and TLAPS proofs.
`PROJECT.json` lists the runs, the source lines behind every definition, the
hazards and the findings.  Paths below are relative to the repository.

## 1. The system

| Part | Source | State | Operations | Correct when |
|---|---|---|---|---|
| Scheduler tick | `src/benchmark/scheduler.ts` (`scheduleBenchmarks`, `runInlineBounded`), `src/utils/scheduler-select.ts`, `src/utils/concurrency.ts` | reads `models`, cooldowns, the last minute's runs; keeps its selection in memory | select coding jobs, select speed probes, run some inline, send the rest to `bench-queue` in waves | the two passes together respect caps and rate budgets; no provider or model is starved |
| Queue consumer | `src/index.ts` (`queue`), `wrangler.jsonc` | `bench-queue`, `bench-dlq` | deliver at least once, acknowledge, retry at most 3 times, dead-letter | every job settles |
| Job handler | `src/benchmark/scheduler.ts` (`handleBenchJob`, `updateIncidents`), `src/db/queries.ts` (`insertBenchmarkRun`) | `benchmark_runs`, `models.last_benchmark_at`, `availability_incidents` | probe, store, cool down, raise or close an incident, judge the last 24 hours, publish | no measurement lost or invented; incidents are the outages of the run history |
| Cooldowns and auto-disable | `src/db/cooldown.ts`, `src/utils/auto-disable.ts` | `provider_cooldowns`, `model_cooldowns`, `models.benchmark_enabled` | set, escalate, clear, disable | bounded; dead models, and only those, are disabled |
| Administrator | `src/api/admin/*` | the same tables | benchmark now, toggle, bulk switch, reset cooldowns, discovery, cleanup, migrate | manual recovery sticks |
| Live feed | `src/live/performance-do.ts` | maps of sessions and per-address counts in the memory of one Durable Object, one stored alarm | connect, publish, ping, drop | limits hold, no place leaks |
| Aggregates, retention | `src/db/queries.ts` | `hourly_model_stats`, `tenmin_model_stats` | recompute two buckets, delete old rows | a stored run is in its aggregates |
| Discovery and catalogue | `runDiscovery`, `src/db/queries.ts`, `src/providers/registry.ts`, `src/db/data-fixes.ts` | `models`, `providers` | upsert what providers list, mark the rest inactive | overlapping sweeps agree |
| Heartbeat, watchdog, rows-read budget | `src/db/health.ts`, `src/db/query-cost.ts` | `scheduler_health`, `rows_read_daily` | record start and end of a tick, alert on staleness | one alert per stall |
| Leaderboard snapshot | `src/db/snapshot.ts` | `leaderboard_snapshot` | refresh, sweep, read with fallback | a servable model is never swept |
| Login throttle, rate limiter | `src/db/login-throttle.ts`, `src/utils/rate-limit.ts` | `login_attempts`; a window in the memory of each isolate | count, block | the wait that is announced is the wait there is |
| Adapters | `src/providers/*.ts` | none | list a provider's models as free or not, fall back on a curated list | agree with the registry's SQL filters and with themselves |
| Administrator's page, playground | `frontend/src/pages/Admin.tsx`, `frontend/src/pages/admin/Playground.tsx`, `src/api/admin/` | half of a session in memory, rows, selection; a form and one test | log in, list, switch; edit, run, cancel | what is displayed is what is stored, or what was sent |
| Dashboard | `frontend/src/pages/Dashboard.tsx`, `hooks/useLeaderboard.ts`, `lib/router.ts`, `App.tsx` | link, selection, filter, rows | fetch, select, navigate | link and selection agree; rows are those of the filter |
| Engine | `src/benchmark/engine.ts` | none that outlives a probe | read one stream, classify it | - |
| Read-only API, other pages, Pages proxy | `src/api/`, `frontend/`, `functions/` | none shared | query, display, forward | - |

How they interact.  The `*/5` cron runs the watchdog and a tick.  The tick
reads D1, runs up to six jobs in its own invocation and sends the others to
`bench-queue`; up to eight consumer invocations take batches of ten, drain the
providers of a batch in parallel and each provider's jobs in order.  Tick and
consumers call the same `handleBenchJob`, which talks to the provider and then
to D1, one statement at a time, and finally to the Durable Object.  The `*/10`,
`*/30` and `0 *` crons aggregate, discover and snapshot.  Requests of
administrators write the same tables at any moment.  Nothing in D1 or in memory
excludes one handler from another: there is no lock and, but for the insert of
a run, no transaction.

What is hard: handlers of one model or provider that interleave between two
statements; redelivery after a partial handler; calls that fail and are
swallowed; calls that were applied but report failure; ticks that overlap with
the previous tick's queue; cooldowns that are read, doubled and written back;
liveness of the rotation; clients of the feed that vanish; sweeps that delete
what an overlapping one has written; alerts that are marked before they are
sent; pages whose requests overlap and whose effects follow one another.
`PROJECT.json` lists these hazards at their lines.

## 2. Plan

1. `Cooldown` - the pure rules. **Done.**
2. `BenchJob` - the life of a job, the core. **Done**, proved in `BenchJobProofs`
   and `BenchHistoryProofs`.
3. `LiveDO` - the live feed. **Done**, proved in `VisitorProofs`.
4. `SchedulerTick` - selection and rotation. **Done**, proved in
   `SchedulerTickProofs`.
5. `JobLedger` - the abstract ledger of jobs that `BenchJob` implements.
   **Done**: refinement checked (`bench_delivery`) and proved
   together with `RunLedger` (`BenchJobProofs`).
6. `Catalogue`, `Adapters` - discovery, and what each adapter feeds it. **Done**,
   proved in `CatalogueProofs` and `OperationsProofs`.
7. `Watch` - heartbeat, watchdog, rows-read budget. **Done**, proved in
   `WatchProofs`.
8. `Aggregates`, `Snapshot` - buckets and late runs; the board. **Done**, proved
   in `OperationsProofs` and in `SnapshotProofs` and `CatalogueProofs`.
9. `Throttle`, `AdminPage`, `Playground`, `Dashboard` - login and pages. **Done**,
   proved in `OperationsProofs` and, the last, in `VisitorProofs`.
10. Theorems: every invariant and every action property of the passing runs is
    proved (section 6).  What stays with TLC is liveness.

## 3. Modules

### Cooldown

Pure operators: the `else if` chain that turns an outcome into a rule
(`CooldownRule`), how long each rule rests a model (`ModelRest`), the doubling
of provider cooldowns (`EscalatedDuration` = `escalatedDurationMs`,
`RateLimitCap` = `rateLimitCapMs`), and the guard (`ShouldAutoDisable`,
`EscalatedModelCooldown`, `LooksGone`).  Time is counted in units of 30 s, the
shortest duration in the code, so all durations are the code's own.  Error
texts are abstracted to the families of keywords the code searches for.
Powers of two are a table, because the provers do not reason about `^`.

### BenchJob

State: the clock, the jobs, the tables (`runs`, `stamp` = `last_benchmark_at`,
`enabled` = `benchmark_enabled`, `modelCool`, `provCool`, `incidents`) and, per
lane, the program counter and locals of `handleBenchJob`.  A *lane* is anything
that handles jobs one after the other: one provider of a consumer invocation,
or a tick's inline loop.

| Code | Actions |
|---|---|
| tick selects, admin `POST /benchmark` | `Schedule`, `AdminBenchmark` |
| `queue`, early returns of the handler | `Receive`, `Skip` |
| `prov.benchmarkModel`, its `catch` | `Probe` |
| `insertBenchmarkRun`: batch, fallback | `InsertRun`, `InsertUnstamped`, `InsertRepeated` |
| cooldown branch | `ClearCooldown`, `NoCooldown`, `ReadProvider`, `BackOffProvider`, `TripProvider`, `RestModel` |
| `updateIncidents` | `ReadStreak`, `ReadOpen`, `RaiseIncident`, `CloseIncident`, `CountFailure` |
| 24-hour guard | `ReadDay`, `BackOffModel`, `Disable` |
| publish, return, `ack` | `Finish` |
| swallowed D1 failures | `CallLost` |
| killed invocation, thrown D1 failure, `retry`, dead letter | `Crash`, `TickKilled` |
| admin toggle, bulk, reset | `AdminSwitch`, `AdminSwitchProvider`, `AdminReset` |

One D1 statement is one step.  Abstractions:
- which eligible models a tick picks is left open here (`SchedulerTick` says);
- the guard's `LIMIT 300` is above the number of runs of a model in a day;
- `last_benchmark_at` ties within a millisecond are resolved either way;
- a request of an administrator is one step, since its statements touch
  different tables and the handler reads none of them twice;
- the read that fetches an incident's start before closing it, and the
  duration computed from it, are part of `CloseIncident`;
- the live publish is best effort and changes no table, so it is in `Finish`;
- at most one ambiguous failure per insert;
- `AfterFailure` counts deliveries, not the delay between them.

### SchedulerTick

State: the two stamp orders (`lru` by `last_benchmark_at`, `speedLru` by
`last_now_json.speed.at`), in which a running probe already holds the place its
stamp will take (the stamp is the *start* of the run); who is cooling; the
queue; per lane the job being probed; per tick its selection.
`SelectJobs` gives the result of the selection loop: a model is picked if its
turn within its provider, the oldest first (`Turn`), is one the provider may
take (`Turns`); the picks are listed by turn and, within a turn, by the oldest
candidate of their provider (`Before`); the list is cut at the global limit.
That is what the loop computes because each of its guards only tightens as it
goes on.  The list is defined by ranks, not by filtering and concatenating
sequences, so that it can be reasoned about.  Actions follow `scheduleBenchmarks` in order:
`SelectCoding`, `SelectSpeed` (or `SkipSpeed`), `BeginInline`/`EndInline`/
`FailInline`, `EndInlineLoop`, `SendWave` (or `LoseWave`), `EndTick`, and
`KillTick`; next to them `Receive`, `Finish` and `FailDelivery` of the queue
and `Cool`, the coming and going of cooldowns.  Left out: the minimum interval
that only four providers have (`opencode_zen`, `ollama`, `ollama_pro`,
`opencode_go`), counters of skipped models, heartbeat writes,
and all a job does besides stamping.  The stagger of waves only delays.

### LiveDO

State: what became of each stream, the `sessions` map, `ipCounts`, whether an
alarm is stored.  Handlers run without an `await` between their accesses to the
maps, so each is one step: `Connect` (`ConnectUnalarmed` when `setAlarm` fails,
which the code ignores), `Cancel`, `Broadcast`, `Alarm` (`AlarmFails`), and the
platform's `Break` and `Evict`.  A refused request changes nothing and is a
guard.

### JobLedger

What the queue promises of a job, whatever its handler does: delivered a
limited number of times, measured only while handled, done only if measured.
`BenchJob` implements it under the mapping at its end: `phase` from the job's
state (a `done` job of a model nobody can measure is `ignored`), `via` its way
in, `deliveries` its tries, `measured` the jobs with a row.  The insert of a row
is `Measure`, `Receive` is `Deliver`, `Skip` is `Ignore`, `Finish` is
`Acknowledge`, a crash `Redeliver` or `GiveUp`; all else is a stutter.

### Catalogue

Discoveries of one provider, `runDiscovery` statement by statement: `Fetch`
(with the adapter's fallback when the provider fails or lists nothing),
`UpsertChunk`, `ScanActive`, `DropChunk`, and the data fixes `ReadFixes`,
`Purge`, `RecordFix`.  Two may run at once (the `*/30` and the hourly cron meet
at minute 0, the administrator has a button).  `Abort` is a failing statement
or a killed invocation, `Switch` an administrator's toggle or the guard,
`Change` the provider's own change of mind.  The empty-listing guard of
`markMissingInactive` (`src/db/queries.ts:317`) is not in the model because no
caller reaches it: a provider without a listed model has no entry in
`byProvider`.

### Adapters

For each of the 21 adapters its curated list, which ids it reports as free,
which it lists at all, whether it truncates; the registry's `hardFreeFilter`s;
and one action, `Discover`, in which the provider answers anything between an
error and its full list.  The sets of ids are the code's own.  `FreeIsVisible`
therefore compares two lists that are written in two files where the code has
two: for `ollama`, `kilocode` and `tokenrouter`, and for the substrings of
`glhf`.  The filters of `groq`, `agnes_ai`, `aionlabs` and `nscale` import the
adapter's list, so there it only says that the adapter reports nothing else as
free.

### Snapshot

`refreshLeaderboardSnapshot` (`Start`, `ReadBatch`, `UpsertChunk`, `Sweep`) by
the hourly cron and by the administrator, and a leaderboard request (`Request`,
`FindModels`, `Answer`) with its cache.  The figures in a row are a version
number.  Only the order of stamps matters, so they are renumbered when a
refresh starts; that keeps the model finite although refreshes never end.

### Aggregates

One aggregate table: the cron recomputes the bucket that has just begun and the
one before (`ReadWindow`, `WriteRow`), the administrator any bucket, `Clean`
deletes old runs and rows.  A row is the set of runs it was computed from.
Left out is `POST /admin/fix-tps` (`src/api/admin/maintenance.ts:199`), which
corrects figures of runs and deletes every hourly row with an impossible
throughput: such a row is gone until somebody aggregates its bucket again, so
`TimelyRunsCounted` is about what happens while nobody calls it.

### Watch

A tick in the order of the code: watchdog (`ReadRuns`, `ReadHealth`,
`PostStale`, `StampAlert`), heartbeat (`RecordScheduleStart`,
`RecordScheduleTick`), budget (`RecordRowsRead`, `CheckBudget`, `ClaimAlert`,
`ReportBudget`).  A webhook is configured; the channel without one (`log-only`),
on which a stall is a line of the log at every tick and nothing is stamped, is
not modelled.  A watchdog is over before the next tick begins (its post is
cut off after 10 s), the rest of a tick need not be.

A call that fails may have done its work.  `PostStale` has three outcomes: the
post is answered by a 2xx and will be stamped; it is delivered, but the answer
is lost, late or no 2xx, which `postWebhook` cannot tell from a failure
(`src/db/health.ts:191-206`); it is not delivered.  A stamp, a heartbeat or a
claim that fails may have been applied all the same, and a failed report may
have arrived.  Two history variables count what follows: `early`, alerts
delivered within the hour after the one before, and `lapses`, the faults after
which a watchdog may not know of the last alert: the lost answer, the failed
stamp, a `Kill` between post and stamp, and a heartbeat row that cannot be read
(`Lapse`; every other fault is a `Fault`).

### Throttle

A login passes the sliding window in the memory of one isolate (`Request` =
`checkRateLimit`, `Evict`) and the row all isolates share (`Check`,
`RecordRead`, `RecordWrite`, `Succeed`), which the code treats as absent when
the database fails (`CheckBlind`).  A bucket is in the order of time, so the
timestamps that the filter keeps are its last ones (`Recent`).  The other scopes of the rate limiter are the
same function with other numbers.

### Dashboard

React commits queued updates (`Commit`) and runs the effects of the page, which
queue more; `hashchange` events arrive on their own (`HashChanged`); fetches are
answered, fail or are aborted by the next.  The user edits the selection,
changes the filter, opens links and leaves the page.  `mounted` is what `App`
shows.  A link is read position by position (`Parsed`): each id the first time it
occurs, up to `MAX_COMPARE` of them.

### AdminPage

Calls of the page are sent, served statement by statement (a bulk switch writes
its chunks one after the other) and answered; nothing aborts them.  The session
is two cookies and a token in memory, which a reload loses.

The page is not the only writer of `benchmark_enabled`: the 24-hour guard
(`src/benchmark/scheduler.ts:574`), a discovery that finds a model is no longer
free (`src/db/queries.ts:209`) and other administrators write it too, which the
page does not hear of.  They are one action, `Elsewhere`, at any moment.  The
history variable `doubtful` holds the switches the display may have wrong: those
another writer has changed, over which two calls have met (`Clash`: one writes
what the other writes or reads), or whose write has failed.  A listing, or for
its own models a write, that succeeds without having met anybody over a switch
clears it (`clear`).  Calls that overlap on different switches put nothing in
doubt.  The set of models is fixed: rows that a discovery adds or drops are not
modelled here.

### Playground

The form with the fields that depend on one another, the effect that picks a
model once, one test at a time, and the route that validates, refuses while the
provider cools, or measures.

### Compositions

`MCBoard`, `Visitor` and `Operations` put parts into one specification (the
values for the runs of the last two are in `MCVisitor` and `MCOperations`) that share no
state in these models, only a clock or a count of faults: each behaviour follows
one part, named by `part`, and leaves the others as they were.  So every
behaviour of every part is covered, and none is multiplied by the others.  Each
property of a part is meant of the behaviours of that part, hence its guard.
`MCBenchRules` keeps two families of `BenchJob`'s behaviours by an action
constraint: few jobs over days, or more jobs within minutes.
Components that do share state are composed inside their modules: tick and
queue, handler and administrator and guard, cron and request, page and server.

### Bug variants

Operators that end in `_bug` (or name a bug) are wrong versions of the operator
that follows them.  No specification uses them; substituting one shows that the
property it belongs to can fail.

## 4. Runs

| Run | Question | Bounds |
|---|---|---|
| `bench_concurrent` | `IncidentBound`, `IncidentsJustified`, `GuardCatchesDeadModels` under any interleaving | 2 lanes, 2 jobs, 1 failure, threshold 1, one gone-model or success outcome each |
| `bench_rules` | `TypeOK`, `CooldownsBounded`, `AutoDisableJustified`, `IncidentsMirrorRuns`, `StampIsLatest` | one lane, by the action constraint `RuleSteps`: `OverDays`, 2 jobs, 10 outcomes that reach every rule, 2 days, all admin requests; or `WithinMinutes`, 4 jobs of 2 outcomes, threshold 2, 4 instants, no admin requests but benchmarks |
| `bench_delivery` | `RunLedger`, `EveryJobSettles`, and the refinement `KeepsLedger` | 2 jobs, 2 lanes, 1 retry, a model without a row, 2 failures |
| `tick_limits` | `TickWithinLimits`, `TurnsAreFair` | 3 models of 2 providers, global limit 2, rate budget 2 partly used, 1 fault |
| `tick_rotation` | `RotationReachesAll` | 3 models, cap 2, 2 of them cooling at will, 1 job of an earlier tick in the queue, 1 fault |
| `board` | `Catalogue` and `Snapshot` | 2 models and a legacy row, 2 discoveries at once, chunks of 1, 1 change, 1 switch, 1 fault; 2 refreshes at once and a request |
| `visitor` | `LiveDO` and `Dashboard` | 5 connections, 2 addresses, limits 3 and 2, 2 faults; 2 models, 2 filters, 2 links, 2 clicks |
| `operations` | `Watch`, `Aggregates`, `Adapters`, `Throttle`, `Playground`, `AdminPage` | see below |

Why the bounds are enough.  Two lanes are what every race of the handler needs:
each is between one handler's read and another's write on one model.  Two jobs
with one retry give three handlers in a row, enough for a streak, a close and
a reopening.  Thresholds are lowered (3 to 1 or 2, 10 to 2..5) so that they are
passed within the jobs there are.  `bench_rules` needs four jobs for two outages
(fail, fail, succeed, fail), and advances a day plus 30 s at a time where
the guard is concerned, because what matters is whether a run or a cooldown is
inside the 24 hours.  The feed's limits are below the number of connections of
one address and of all, so each limit is hit alone.  In `tick_limits` the global
limit is below the sum of the caps and one usage map has a provider with no
budget left.

In `board`, chunks of one row put a step of the other discovery or refresh
between any two rows, which is all that a larger chunk could avoid; the curated
list names one model of two, so that a fallback both adds and drops.  Fetches
and refreshes never stop, only faults and changes are bounded.  In `visitor`,
the default selection is 1 of at most 2, so that the limit, the default and a
link with a repeated id (`<<b, b, a>>`) differ; two clicks are what a second
change before the first one's answer takes.  In `operations`: `Watch` has 2
overlapping ticks, an alert interval of two units, four instants over two days,
1 fault; `Aggregates` 2 runs, 2 ticks to a bucket, 3 buckets, runs that are
stored up to a bucket late, retention of runs shorter than that of rows, 1
request, 1 fault; `Adapters` every provider in turn, truncation to 3 ids, 1
moved switch and any number of answers; `Throttle` 2 isolates, 2 logins at once,
2 attempts, a window of 2 of 5 instants, 4 logins; `Playground` one model of one
of two providers and any number of edits and tests; `AdminPage` 2 models, 2
calls at once, 4 clicks (log in, refresh, select, switch), 1 fault.

`CHECK_DEADLOCK FALSE` stands in the `bench_*` configurations because jobs and
time are finite there: the system really stops when all jobs have settled.  It
stands in `visitor` and `operations` because users stop after their last click,
connections are used up, and time ends.  The other runs check for deadlock.

In `bench_concurrent` and `bench_rules`, `SYMMETRY` permutes jobs and lanes, in
`operations` the ticks of `Watch` and the calls of `AdminPage`, which no
definition tells apart; runs with liveness properties do without.

Runs that are expected to fail, each a place where a document and the code
disagree:

| Run | What is said | What happens |
|---|---|---|
| `outage_ends` | an outage "ends on SUCCESS" (`specs/epics/e01-cloudflare-observatory/e01s05-api.md:11`) | two handlers both raise an incident and a success closes one; or the handler of the older failure checks after the newer success has |
| `cooldown_persists` | "provider cooldown persists until expiry or manual reset" (`src/benchmark/scheduler.ts:428`) | a 5xx overwrites it with 30 s |
| `recovered_survives` | "flaky-but-recovering models survive", "recovery is manual via the admin toggle" (`src/utils/auto-disable.ts`) | the guard also runs on SUCCESS and counts failures from before the toggle |
| `tick_overlap` | "per-model 1 concurrency" (`README.md:12`) | selection does not see queued or running jobs; `maxSameModel` is unused |

### What each property says

- `RunLedger`: at most one row per delivery and failed call, at least one when
  acknowledged, deliveries within `max_retries`.
- `IncidentBound`: duplicates happen, but no more than there are lanes.
- `IncidentsJustified`: an incident starts where a failed run starts, and there
  are as many failed runs as the threshold.
- `IncidentsMirrorRuns`: without overlap, incidents = outages of the history.
- `GuardCatchesDeadModels`: whichever handler counts last has seen all runs.
- `AutoDisableJustified`: a disabled model failed often enough within a day.
- `CooldownsBounded`: no cooldown beyond 24 hours.
- `KeepsLedger`: the handler implements `JobLedger`.
- `TickWithinLimits`, `TurnsAreFair`, `RotationReachesAll`: see the comments in
  `SchedulerTick`.
- `SessionsCounted`, `WithinLimits`, `AlarmArmed`, `DeadSessionsReleased`: see
  `LiveDO`.
- `OffIsExplained`: no outage, fallback list, overlap or abort of a discovery
  switches a model off; `ListingSettles`: afterwards what is listed as free is
  active and FREE, what is listed as no longer free is not FREE and switched off,
  what is gone is inactive and not FREE.
- `QuietRefreshIsExact`, `BoardHeals`, `CacheNeverBlank`: a refresh alone is
  exact, overlapping ones are healed, an empty board is not cached.
- `TimelyRunsCounted`: a run stored before its bucket ended stays in its row.
- `AlertsSpaced`: each staleness alert within the hour after the one before is
  paid for by a lapse of its own; overlap, other faults and other writers of the
  row never bring alerts closer.  `StallIsReported`: a watchdog that could read
  and post leaves an alert within the hour.  `BudgetReportedOnce`: at most one
  report a day.
- `FreeIsVisible`, `DiscoveryKeepsSwitches`: the two lists of free ids of a
  provider agree, and an adapter agrees with itself from answer to answer.
- `WaitSuffices`: whoever waits as told is not refused by the same limiter.
- `RowsFollowFilter`, `BoardAppears`, `NavigationSticks`, `LinkSettles`: the
  dashboard under aborted fetches, effects and hash events.
- `BadgesDescribeResult`: what the administrator reads is about the test that
  was run.  `PageIsHonest`: a switch on display is the one the database holds,
  unless it is in doubt, while calls overlap and others write.

`RotationReachesAll` needs the global limit to be no smaller than the sum of
the caps of the providers that have models to give, as the comment at
`src/utils/scheduler-select.ts:158` intends ("maxGlobal raised to
sum-of-caps").  With a binding limit it fails: a speed probe also moves
`last_benchmark_at`, so a model can be made the youngest by its own speed
probes whenever its coding turn would have come.  Deployed, the limit is 40 and
the caps of all providers add up to 45, so this matters only if nearly all of
them have models to give at once.

### Statements that do not hold and that no run checks

Nine further statements are kept beside their components because somebody could
take them for granted.  Each was put to TLC, which refutes it; the counterexample
in words:

| Statement | Said at | How it fails |
|---|---|---|
| `SweepSparesItsOwn` (`Snapshot`) | `src/db/snapshot.ts:375` | an older refresh stamps a row again after a newer one has written it, and the newer one's sweep deletes it |
| `LateRunsCounted` (`Aggregates`) | "tolerant to late arrivals", `src/index.ts` | the aggregation reads its window just before the late run is inserted, or fails, and no later one covers the bucket |
| `BudgetAlertDelivered` (`Watch`) | `postWebhook` in `src/db/health.ts` | the day is claimed before the post, and the post fails |
| `AlertAtMostHourly` (`Watch`) | "Rate-limits itself to one alert/hour", `src/db/health.ts:209` | the webhook gets the post but its answer is lost, or the tick is killed before the stamp, or the stamp or the read of the row fails: the next tick posts again |
| `PaidIsRetired` (`Catalogue`) | "Transition `FREE → PAID`: `active=0`, `free_status=PREVIOUSLY_FREE`", `README.md:33` | an adapter that lists its paid models (`src/providers/groq.ts:86`) has the upsert leave the row active, with status PAID and switched off; only a model no longer listed is retired as described |
| `OptInLasts` (`Adapters`) | `src/db/queries.ts`, "admin opts models in explicitly" | the next discovery lists the model as not free and switches it off |
| `UrlFollowsProvider` (`Playground`) | comment at `changeProvider` | when the models arrive, the effect that picks one moves the provider along and keeps a custom URL that was taken over from the provider before |
| `PinsFollowProvider` (`Dashboard`) | comment at the auto-apply effect | a new filter clears the selection while the old rows are still there; the emptied selection triggers the auto-apply, which pins the old rows' leaders, and the new rows find a selection |
| `LoginIsUnauthenticated` (`AdminPage`) | `src/api/openapi.ts:319` | after a reload the cookies are still there and the token is not, so the login is refused until they expire |

Smaller observations, from reading: a cron that fails loses its bucket for good
(`src/index.ts:265`, `:291`); four comments name a gate `verifyFree()` that does
not exist, and a queued model that was disabled or found to be paid meanwhile is
probed (`src/providers/registry.ts:357`, `src/benchmark/scheduler.ts:359`);
switching many models at once is not one transaction, so a failure leaves some of
them switched (`src/api/admin/models.ts`); failed logins are counted by a read and
a later write, although the comment at `src/db/login-throttle.ts:18` says one
statement and no race between isolates (the steps are `RecordRead` and
`RecordWrite` of `Throttle`).

## 5. Fairness

- `BenchJob`: weak fairness of each lane's handler (its calls return or fail;
  the engine bounds a probe by its timeout), of each idle lane receiving, and
  of skipping.  None of `Schedule`, the administrator, time or failures.
- `SchedulerTick`: weak fairness of each tick's next step (the cron fires for
  ever, an invocation goes on) and of finishing a probe; strong fairness of
  delivering the oldest message, since a lane may be busy with others again
  and again while the queue promises that no message is kept for ever.  None of
  cooldowns or failures.
- `Catalogue`: weak fairness of each discovery's next step, its start included
  (crons fire for ever).  None of changes, switches or faults, which are bounded:
  `ListingSettles` is about what happens once they have ceased.
- `Snapshot`: weak fairness of each refresh's next step, of the cache expiring
  and of requests being made and served.
- `Dashboard`: weak fairness of commits, of hash events and of the minute's
  refetch, strong fairness of an answer: refetches abort requests again and
  again, and the API is assumed to be faster than a minute time and again.  None
  of failures or of the user.
- `Watch`, `Aggregates`, `Adapters`, `Throttle`, `Playground` and `AdminPage`
  assume none; they have no liveness property.
- `LiveDO`: weak fairness of the alarm only.  Every connect moves the alarm
  30 s ahead (`setAlarm` is unconditional, although its comment says "if not
  already set"), so this assumes that clients do not connect less than 30 s
  apart for ever.  Nothing is assumed about broadcasts or cancellations.

## 6. Proofs

`BenchJobProofs`, for all values of the constants that satisfy
`BenchJobAssumption` (and, for the last, a finite set of lanes,
`WorkersAssumption`):

- `TypeCorrect`, `Spec => []TypeOK`.  Not inductive: what a lane writes is
  well-typed only because of where it is.  The strengthening `TypeInv` adds
  that a busy lane has a job whose model it indexes the tables with
  (`OwnJobs`), that a lane between the two writes of the provider branch holds
  an outcome of such a rule, so that `ModelRest` has an entry for it
  (`RuleKept`), and that an incident a lane remembers is still a row of the
  table (`OpenExists`).
- `CooldownsAreBounded`, `Spec => []CooldownsBounded`, from `TypeInv` and the
  arithmetic lemmas on `Cooldown`: the escalated duration is at most the larger
  of base and cap, and both are at most a day since `retryAfterSeconds` clamps
  the provider's wish to a day.
- `IncidentsAreBounded`, `Spec => []IncidentBound`.  The inductive invariant
  counts open rows and *raisers* together: a lane that is about to raise an
  incident saw none open, so as long as one lane has not written yet, the rows
  written by others stem from lanes that are no longer raisers; open rows plus
  raisers never exceed the lanes, or nobody can become a raiser.

`BenchHistoryProofs`, what the history of runs says about incidents, the guard
and the stamp:

- `IncidentsAreJustified` and `DisablingIsJustified` (`AutoDisableJustified`), by
  `HistoryInv`.  The properties alone say nothing of what a lane has read and not
  yet acted on: `LaneHistory` says that a lane about to raise an incident has
  stored a failed run of its own and has seen `IncidentThreshold` of them, and that
  a lane about to disable a model has counted a set of failed runs, within a day,
  that reaches a limit; `RunsHistory`, that no run starts in the future.
- `GuardMissesNothing` (`GuardCatchesDeadModels`), by `GuardInv`: a model whose
  last day calls for it is off, or a lane is still on its way to count a set of
  runs that contains all of them (`CaughtOrDoomed`).  It assumes that no
  administrator switches models, as the property does: a model that somebody has
  enabled again stays on until the next probe.
- `StampIsLatestStart`, by `StampInv`.  It assumes that all lanes are one, as the
  property does; with two, a run that started earlier can be stored later and
  moves the stamp back.
- `IncidentsAreOutages` (`IncidentsMirrorRuns`), by `MirrorInv`, under the same
  assumption; with two lanes a model can have an outage twice (`IncidentBound`).
  Between the insert of a run and its verdict the table lags by one row: the
  incidents mirror the outages of all rows but the last (`Judged`), and the lane has
  stored that row, has read a streak that is the one of the history, and remembers
  an open incident if and only if there is one (`Verdict`).  Four lemmas on
  histories say what one row more does to the outages, one for each verdict
  (`Quiet`, `Counted`, `Closed`, `Raised`); they rest on `StreakGoesOn` (a streak
  that is no start has started before) and `OneUnderWay`.  Runs are in order of
  their starts, because no run is later than a probe still to be stored
  (`NoneLater`, shared with the stamp), and so the latest rows that the handler
  reads are the last ones (`LatestAreLast`).

`VisitorProofs`, for any finite set of connections and any limits:
`TypeCorrect`, `CountsAreExact` (`SessionsCounted`, from the cardinality of
disjoint unions and differences), `LimitsHold` (`WithinLimits`, which rests on
the counts being exact) and `SessionsArePinged` (`AlarmArmed`).  For any models,
filters, rankings and links: `RowsAreOfTheFilter`, by `Following`: requests under way
are for the filter of the last commit, since a commit with another filter aborts
them, and so are the rows of the next one unless it is loading or has failed; and
`OnlyTheUserReturns` (`NavigationSticks`), because of all steps only clicks, which
are counted, lead to a page.  `VisitorTypes` (`VisitorTypeOK`) carries more than
types: a selection is one of different models, as many as can be compared
(`Selection`), whether it was parsed from a link, set by a click or chosen by the
page.  It needs `VisitorAssumption`: a ranking lists a model once, and the page
chooses no more leaders than can be compared.

`SchedulerTickProofs`, for any models, providers, caps and budgets, and any number
of overlapping ticks, lanes and faults (`SchedulerTickAssumption`):

- `OrdersStayWhole`, `Spec => []TypeOK`: each order of stamps holds every model, and
  every probe that will stamp it, exactly once.  A probe enters an order when it
  begins and leaves it when it ends, by taking its model's place or by failing;
  what a removal and an insertion do to an order are lemmas (`OrderWithout`,
  `OrderAppend`, `OrderStamp`).
- `LimitsAreKept` (`TickWithinLimits`) and `SelectionIsFair` (`TurnsAreFair`).  Both are
  about the moment after the selection, when the orders it was made from have
  already moved on.  `TickInvariant` therefore remembers that until a tick begins
  its first probe its plan is what the passes select from *some* order, and that
  a tick probes only in its inline loop.  The rest is about `SelectJobs`:
  `BeforeIsTotal` and `Ranks` (the picks are ordered strictly and totally, so
  the ranks enumerate them), `Selection` (the list holds each pick once, up to the
  limit), `TakenWithinTurns` (a provider gives at most `Turns`), `NextTurn` and
  `FairSelection` (a provider that could give one more has a pick that was cut
  off, and nobody is two turns ahead of it).

The abstract ledger, in `BenchJobProofs`: `PromiseHolds`, the promise of the abstract ledger for any
jobs and any `MaxRetries` in `Nat`, which with its type invariant is inductive.
`ImplementsLedger`, `Spec => KeepsLedger`.  Initial states map
to initial states (`InitLedger`), and `StepLedger` maps each step of `BenchJob` to a
step of the ledger or a stutter.  Three facts about reachable states are needed,
`LedgerInv`: a lane past the insert has stored a row of its job, and works for a
model that can be measured (else its `Finish` would not be an `Acknowledge`); a
running job has been delivered; a job not yet created has not.
`LedgerPromise` carries `PromiseHolds` over to `BenchJob`.

`RunsAreAccounted`, `Spec => []RunLedger`, is in the same module.  The invariant that is
inductive counts what is still to come: rows of a job, plus one if a lane is on
its way to the insert, are at most its deliveries plus the faults so far
(`RowsBounded`); a second row of one delivery needs a failed call, which
`MaxFaults` pays for.  `JobsAccounted` bounds deliveries, for which a waiting job
must have one left.

`WatchProofs`, under `WatchAssumption` (intervals that are positive), for any
number of ticks under way:

- `BudgetIsReportedOnce`.  `BudgetReportedOnce` alone is not inductive; with
  `Claimed` and `OneReport` it is: a tick about to report a day holds that day's
  claim, alone, and nothing has been reported of the day yet.
- `AlertsAreSpaced` and `StallsAreReported`, from one `AlertInvariant`.  Only one
  tick is in the watchdog at any instant (it ends within its five minutes).
  `early <= lapses` is not inductive: `Paid` keeps a lapse in hand for each way an
  early alert can still come about, an alert that the row does not tell of and
  that nobody is about to stamp (`Unstamped`) and a watchdog about to post that
  has misread the row (`Misled`), and one for each if there are both.

`CatalogueProofs`, for any models, lists and discoveries: `TypeCorrect` and
`OffIsAlwaysExplained`, by the invariant `Pending`: what a discovery still has to
write is in its listing, and what it lists as not free is in `notFree`.  Without
it neither holds inductively: a discovery writes rows long after it has read
the listing.

`SnapshotProofs`, for any finite set of models and any chunk size (stamps are
renamed by counting them): `TypeCorrect`; `NoBlankCached`, because a request past
the models query has found some, and a stored version is never `Absent`; and
`QuietRefreshesAreExact`, by `QuietInvariant`: of a refresh that is alone, the rows
it has written carry its stamp and what it computed, and all others are older,
so its sweep deletes exactly those.  `CatalogueProofs` carries these over to the
composition that `board` checks: `BoardTypeCorrect`, `BoardNeverBlank` and
`BoardRefreshIsExact`, for any finite set of models.

`OperationsProofs`, for all values of the constants that satisfy the assumptions
named in `Operations` (`PlaygroundAssumption`: every model has a provider, and the
form's first budget is one of those offered; `AggregatesAssumption`,
`ThrottleAssumption`: lengths and limits are positive; `AdminAssumption`: `None` is
no call and no answer).  The specification is the composition that `operations`
checks, the invariant one conjunct per part; `StepOfAPart` says that a step is
one of the part followed.

- `OperationsTypeCorrect`, all types; that a login bucket never outgrows
  `MAX_ATTEMPTS` rests on `RecentIsShorter` (an eviction drops at least one entry).
- `RunsAreCounted` (`TimelyRunsCounted`), by `AggregateInvariant`.  Runs counted so
  far is not inductive: `CronInTime` adds that the cron under way is that of the
  bucket just begun, that the bucket it is about to close has not been closed
  before and no run of it has been deleted, and that the window it has read is
  complete; `ByHand`, that the administrator's job is only about buckets that are
  excepted.
- `FreeModelsAreVisible` and `SwitchesAreKept`, by `AdapterInvariant`: a stored id
  that is or was free is one the adapter calls free whenever it lists it, and one
  that is free passes the filter (`SureToBeFree`).  That rests on `AdaptersAgree`,
  the comparison of the 21 curated lists with the filters, id by id.
- `WaitingSuffices`, by `ThrottleInvariant`: a kept answer was the last word
  (`LastWord`), after which nothing the limiter has stored outlives what it said.
- `BadgesAreOfTheResult`, by `BadgeInvariant`: the badges describe the test under
  way or shown, because one replaces the other and both are set in one step.
- `TheAdminPageIsHonest`, by `PageInvariant`, for any number of calls under way
  and any other writers.  Of the switches over which a call has met nobody, a
  listing has found, and a write has left, what is stored; a call that has not
  been let through has switched nothing (`Truthful`).  Of two calls that have met
  over a switch neither is clear of it (`Distinct`), so an answer never removes a
  doubt that another call is about to cause.
- `WatchIsUndisturbed`: the three promises of `Watch` in the composition.

Only model-checked:

- the liveness properties (`EveryJobSettles`, `DeadSessionsReleased`,
  `RotationReachesAll`, `ListingSettles`, `BoardHeals`, `LinkSettles`,
  `BoardAppears`): fairness and ENABLED are out of the prover's reach.

## 7. Not modelled

The engine's stream parsing and throughput figures are sequential arithmetic on
one response.  History, compare, the share cards and the API description are
queries and formatting that change no state; so are the pages that only display
what they fetch, and the Pages proxy, which forwards.  Of the administrator's
routes the repair of end-to-end figures, `fix-tps` (which also deletes hourly
rows, see `Aggregates`) and the migrations are left out, of the
provider adapters the streaming call (its outcome is `Outcome` of `Cooldown`), of
the login the audit log, which is only appended to.  On the dashboard the
throughput view, which shares the link, and every filter but the provider are
left out, in the playground the fields that no other field depends on.
