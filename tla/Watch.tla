------------------------------- MODULE Watch -------------------------------
(***************************************************************************)
(* The pipeline watching itself: the heartbeat row scheduler_health, the   *)
(* staleness watchdog that opens every five-minute tick, and the daily     *)
(* budget of rows read, both of which report to one webhook                *)
(* (src/db/health.ts, src/db/query-cost.ts, called from src/index.ts and   *)
(* src/benchmark/scheduler.ts).                                            *)
(*                                                                         *)
(* One unit of time is the five minutes between two ticks.  A watchdog     *)
(* ends within its unit (its webhook call is cut off after ten seconds);   *)
(* the rest of a tick may run into the next one.  A call that fails may    *)
(* have done its work: a post is delivered and its answer lost, a write is *)
(* applied and its answer lost.  A webhook is configured; without one an   *)
(* alert is a line of the log, and nothing is stamped.                     *)
(***************************************************************************)
EXTENDS Integers, TLC

CONSTANTS
  Ticks,          \* ticks that may be under way at the same time
  THRESHOLD,      \* STALE_ALERT_MINUTES
  REPEAT,         \* the hour between two alerts
  DAY,            \* units in a day
  Horizon,        \* bound: the last instant
  MaxFaults       \* bound: failing D1 calls, failing posts, killed ticks
                  \* and missed ones

ASSUME WatchAssumption ==
  /\ THRESHOLD \in Nat /\ REPEAT \in Nat \ {0} /\ DAY \in Nat \ {0}
  /\ Horizon \in Nat /\ MaxFaults \in Nat

VARIABLES
  now,
  lastRun,   \* MAX(started_at) of benchmark_runs
  health,    \* the scheduler_health row (migration 0006 inserts it):
             \* last_stale_alert_at, last_schedule_started_at, last_schedule_at
  budget,    \* budget[d]: rows_read_daily: the limit is crossed, alerted_at is set
  tick,      \* tick[t]: where a tick is, and what it has read
  fired,     \* this unit's tick has been started or missed
  lastSent,  \* history: when the last staleness alert was delivered
  reports,   \* reports[d], history: budget alerts of day d, posted and delivered
  early,     \* history: alerts delivered within the hour after the one before
  lapses,    \* history: faults that lose what a watchdog knows of the last alert
  faults

vars == <<now, lastRun, health, budget, tick, fired, lastSent, reports, early, lapses, faults>>

Never  == -1
NoTick == [pc |-> "idle", last |-> Never, alerted |-> Never, failed |-> FALSE, day |-> 0]
Days   == 0 .. (Horizon \div DAY)
Today  == now \div DAY
Watchdog == {"runs", "health", "post", "stamp"}

TickState ==
  [pc : {"idle", "start", "rows", "check", "claim", "report", "work", "end"} \cup Watchdog,
   last : Never .. Horizon, alerted : Never .. Horizon, failed : BOOLEAN, day : Days]

TypeOK ==
  /\ now \in 0 .. Horizon
  /\ lastRun \in Never .. Horizon
  /\ health \in [alerted : Never .. Horizon, started : Never .. Horizon, done : Never .. Horizon]
  /\ budget \in [Days -> [over : BOOLEAN, alerted : BOOLEAN]]
  /\ tick \in [Ticks -> TickState]
  /\ lastSent \in Never .. Horizon
  /\ reports \in [Days -> [posted : Nat, delivered : Nat]]
  /\ early \in Nat /\ lapses \in Nat

Init ==
  /\ now = 0
  /\ lastRun = Never
  /\ health = [alerted |-> Never, started |-> Never, done |-> Never]
  /\ budget = [d \in Days |-> [over |-> FALSE, alerted |-> FALSE]]
  /\ tick = [t \in Ticks |-> NoTick]
  /\ fired = FALSE
  /\ lastSent = Never
  /\ reports = [d \in Days |-> [posted |-> 0, delivered |-> 0]]
  /\ early = 0 /\ lapses = 0 /\ faults = 0

-----------------------------------------------------------------------------
At(t, pc)   == tick[t].pc = pc
Goto(t, pc) == tick' = [tick EXCEPT ![t].pc = pc]
Drop(t, pc) == tick' = [tick EXCEPT ![t] = [NoTick EXCEPT !.pc = pc]]

(* A lapse leaves an alert that no watchdog to come knows of: its answer   *)
(* or its stamp is lost, or the row cannot be read.                        *)
Failure == faults < MaxFaults /\ faults' = faults + 1
Fault   == Failure /\ UNCHANGED lapses
Lapse   == Failure /\ lapses' = lapses + 1
NoFault == UNCHANGED <<lapses, faults>>

(* A run is stored.                                                        *)
StoreRun ==
  /\ lastRun' = now
  /\ UNCHANGED <<now, health, budget, tick, fired, lastSent, reports, early, lapses, faults>>

Pass ==
  /\ now < Horizon
  /\ fired
  /\ \A t \in Ticks : tick[t].pc \notin Watchdog
  /\ now' = now + 1
  /\ fired' = FALSE
  /\ UNCHANGED <<lastRun, health, budget, tick, lastSent, reports, early, lapses, faults>>

-----------------------------------------------------------------------------
(* The watchdog.                                                           *)

Fire(t) ==
  /\ ~fired /\ At(t, "idle")
  /\ fired' = TRUE
  /\ tick' = [tick EXCEPT ![t] = [NoTick EXCEPT !.pc = "runs"]]
  /\ UNCHANGED <<now, lastRun, health, budget, lastSent, reports, early, lapses, faults>>

Miss ==
  /\ ~fired /\ Fault
  /\ fired' = TRUE
  /\ UNCHANGED <<now, lastRun, health, budget, tick, lastSent, reports, early>>

(* getLastBenchmarkAt: no run is known when the read fails.                *)
ReadRuns(t) ==
  /\ At(t, "runs")
  /\ \/ tick' = [tick EXCEPT ![t].pc = "health", ![t].last = lastRun] /\ NoFault
     \/ tick' = [tick EXCEPT ![t].pc = "health", ![t].last = Never, ![t].failed = TRUE] /\ Fault
  /\ UNCHANGED <<now, lastRun, health, budget, fired, lastSent, reports, early>>

(* shouldAlertStale: nothing is due before the first run, nor within the   *)
(* hour after an alert.                                                    *)
Stale(last) == last # Never /\ now - last > THRESHOLD

AlertDue_bug(last, alerted) == Stale(last) /\ (alerted = Never \/ now - last >= REPEAT)

AlertDue(last, alerted) == Stale(last) /\ (alerted = Never \/ now - alerted >= REPEAT)

(* getSchedulerHealth: EMPTY when the read fails.                          *)
ReadHealth(t) ==
  /\ At(t, "health")
  /\ \E alerted \in {health.alerted, Never} :
       /\ IF alerted = health.alerted THEN NoFault ELSE Lapse
       /\ tick' = [tick EXCEPT ![t].alerted = alerted,
                               ![t].pc = IF AlertDue(tick[t].last, alerted) THEN "post" ELSE "start"]
  /\ UNCHANGED <<now, lastRun, health, budget, fired, lastSent, reports, early>>

(* postWebhook, which never throws.  A post that is not answered by a 2xx  *)
(* in time counts as undelivered, whether it was or not; only one that is  *)
(* so answered is stamped.                                                 *)
Delivered ==
  /\ lastSent' = now
  /\ early' = early + (IF lastSent # Never /\ now - lastSent < REPEAT THEN 1 ELSE 0)

PostStale_bug(t) ==
  /\ At(t, "post") /\ Goto(t, "stamp")
  /\ (Delivered /\ NoFault) \/ (Fault /\ UNCHANGED <<lastSent, early>>)
  /\ UNCHANGED <<now, lastRun, health, budget, fired, reports>>

PostStale(t) ==
  /\ At(t, "post")
  /\ \/ Delivered /\ Goto(t, "stamp") /\ NoFault
     \/ Delivered /\ Goto(t, "start") /\ Lapse
     \/ /\ tick' = [tick EXCEPT ![t].pc = "start", ![t].failed = TRUE]
        /\ Fault /\ UNCHANGED <<lastSent, early>>
  /\ UNCHANGED <<now, lastRun, health, budget, fired, reports>>

(* The UPDATE of the row, whose failure is logged and forgotten.           *)
StampAlert(t) ==
  /\ At(t, "stamp")
  /\ Goto(t, "start")
  /\ \/ health' = [health EXCEPT !.alerted = now] /\ NoFault
     \/ health' \in {health, [health EXCEPT !.alerted = now]} /\ Lapse
  /\ UNCHANGED <<now, lastRun, budget, fired, lastSent, reports, early>>

-----------------------------------------------------------------------------
(* The heartbeat and the budget.                                           *)

(* recordScheduleStart and recordScheduleTick update their own columns of  *)
(* the row: ON CONFLICT(id) DO UPDATE, not a replacement of the row.       *)
Beaten(col) == [health EXCEPT ![col] = now]

RecordScheduleStart(t) ==
  /\ At(t, "start")
  /\ Drop(t, "rows")
  /\ \/ health' = Beaten("started") /\ NoFault
     \/ health' \in {health, Beaten("started")} /\ Fault
  /\ UNCHANGED <<now, lastRun, budget, fired, lastSent, reports, early>>

RecordScheduleTick(t) ==
  /\ At(t, "end")
  /\ Drop(t, "idle")
  /\ \/ health' = Beaten("done") /\ NoFault
     \/ health' \in {health, Beaten("done")} /\ Fault
  /\ UNCHANGED <<now, lastRun, budget, fired, lastSent, reports, early>>

(* The inline jobs and the batches sent to the queue.  The heartbeat is    *)
(* written in a finally: work that throws is recorded as ended too.        *)
Work(t) ==
  /\ At(t, "work")
  /\ Drop(t, "end")
  /\ NoFault \/ Fault
  /\ UNCHANGED <<now, lastRun, health, budget, fired, lastSent, reports, early>>

(* recordRowsRead adds this tick's rows to today's row.                    *)
RecordRowsRead(t) ==
  /\ At(t, "rows")
  /\ Goto(t, "check")
  /\ \E over \in {budget[Today].over, TRUE} : budget' = [budget EXCEPT ![Today].over = over]
  /\ UNCHANGED <<now, lastRun, health, fired, lastSent, reports, early, lapses, faults>>

(* checkRowsReadBudget: read today's row, claim its alert, report.         *)
CheckBudget(t) ==
  /\ At(t, "check")
  /\ \/ /\ tick' = [tick EXCEPT ![t].pc = IF budget[Today].over THEN "claim" ELSE "work",
                                ![t].day = Today]
        /\ NoFault
     \/ Drop(t, "work") /\ Fault
  /\ UNCHANGED <<now, lastRun, health, budget, fired, lastSent, reports, early>>

ClaimAlert_bug(t) ==
  /\ At(t, "claim")
  /\ Goto(t, "report") /\ budget' = [budget EXCEPT ![tick[t].day].alerted = TRUE]
  /\ UNCHANGED <<now, lastRun, health, fired, lastSent, reports, early, lapses, faults>>

(* UPDATE ... AND alerted_at IS NULL: one tick wins.  A claim that fails   *)
(* is reported by nobody, even if it was applied.                          *)
Claiming(t) == [budget EXCEPT ![tick[t].day].alerted = TRUE]

ClaimAlert(t) ==
  /\ At(t, "claim")
  /\ \/ budget[tick[t].day].alerted /\ Drop(t, "work") /\ NoFault /\ UNCHANGED budget
     \/ ~budget[tick[t].day].alerted /\ Goto(t, "report") /\ NoFault /\ budget' = Claiming(t)
     \/ Drop(t, "work") /\ Fault /\ budget' \in {budget, Claiming(t)}
  /\ UNCHANGED <<now, lastRun, health, fired, lastSent, reports, early>>

Posted(d, delivered) ==
  reports' = [reports EXCEPT ![d].posted = @ + 1, ![d].delivered = @ + delivered]

ReportBudget(t) ==
  /\ At(t, "report")
  /\ Drop(t, "work")
  /\ \/ Posted(tick[t].day, 1) /\ NoFault
     \/ \E delivered \in {0, 1} : Posted(tick[t].day, delivered) /\ Fault
  /\ UNCHANGED <<now, lastRun, health, budget, fired, lastSent, early>>

(* The invocation is killed, or a query of the selection throws, which is  *)
(* outside the try.                                                        *)
Kill(t) ==
  /\ ~At(t, "idle")
  /\ IF At(t, "stamp") THEN Lapse ELSE Fault
  /\ Drop(t, "idle")
  /\ UNCHANGED <<now, lastRun, health, budget, fired, lastSent, reports, early>>

-----------------------------------------------------------------------------
TickStep(t) ==
  \/ ReadRuns(t) \/ ReadHealth(t) \/ PostStale(t) \/ StampAlert(t)
  \/ RecordScheduleStart(t) \/ RecordRowsRead(t) \/ CheckBudget(t)
  \/ ClaimAlert(t) \/ ReportBudget(t) \/ Work(t) \/ RecordScheduleTick(t)

Next ==
  \/ StoreRun \/ Pass \/ Miss
  \/ \E t \in Ticks : Fire(t) \/ TickStep(t) \/ Kill(t)

Spec == Init /\ [][Next]_vars

Symm == Permutations(Ticks)

-----------------------------------------------------------------------------
(* A staleness alert less than an hour after the one before is paid for by *)
(* a lapse of its own: the answer to a delivered post was lost, its stamp  *)
(* failed or its tick was killed before it, or the row could not be read.  *)
(* Nothing else brings alerts closer, however ticks overlap, fail and are  *)
(* killed and whatever else writes the row; one lapse repeats one alert.   *)
AlertsSpaced == early <= lapses

(* A watchdog that could read, and whose post did not fail, leaves no      *)
(* stall unreported: there has been an alert within the hour.  So an alert *)
(* that could not be delivered is tried again by the next tick.            *)
StallIsReported ==
  [][\A t \in Ticks :
       /\ tick[t].pc \in Watchdog /\ tick'[t].pc = "start" /\ ~tick'[t].failed
       /\ Stale(tick[t].last)
       => lastSent' # Never /\ now - lastSent' < REPEAT]_vars

(* However ticks overlap, the budget is reported at most once a day.       *)
BudgetReportedOnce == \A d \in Days : reports[d].posted <= 1

(* "Rate-limits itself to one alert/hour via last_stale_alert_at"          *)
(* (health.ts watchdogCheck).                                              *)
AlertAtMostHourly == early = 0

(* "callers must not stamp an alert as sent on a false result" (health.ts  *)
(* postWebhook): a day that is marked as alerted and whose report is over  *)
(* has had an alert delivered.                                             *)
BudgetAlertDelivered ==
  (\A t \in Ticks : tick[t].pc = "idle") =>
    \A d \in Days : budget[d].alerted => reports[d].delivered = 1
=============================================================================
