---------------------------- MODULE WatchProofs ----------------------------
(***************************************************************************)
(* The reports of the pipeline about itself, for any number of overlapping *)
(* ticks, any intervals and any failures.                                  *)
(***************************************************************************)
EXTENDS Watch, TLAPS

(* The day of every instant is one of those the model has.                 *)
LEMMA TodayIsADay ==
  ASSUME now \in 0 .. Horizon
  PROVE  Today \in Days
<1> USE WatchAssumption
<1>1. /\ now \div DAY \in Nat /\ Horizon \div DAY \in Nat
      /\ DAY * (now \div DAY) <= now
      /\ Horizon < DAY * (Horizon \div DAY + 1)
  BY SMT
<1>2. now \div DAY <= Horizon \div DAY
  <2> DEFINE a == now \div DAY
             b == Horizon \div DAY
  <2>1. a \in Nat /\ b \in Nat /\ DAY * a <= now /\ Horizon < DAY * (b + 1)
    BY <1>1
  <2> HIDE DEF a, b
  <2>2. a > b => DAY * a >= DAY * (b + 1)
    BY <2>1, SMT
  <2>3. a <= b
    BY <2>1, <2>2, SMT
  <2> QED
    BY <2>3 DEF a, b
<1> QED
  BY <1>1, <1>2 DEF Today, Days

-----------------------------------------------------------------------------
(* Types.                                                                  *)

Types == TypeOK /\ fired \in BOOLEAN /\ faults \in Nat

LEMMA InitTypes == Init => Types
<1> SUFFICES ASSUME Init PROVE Types
  OBVIOUS
<1> USE DEF Init
<1>1. /\ 0 \in Days /\ Horizon \in Nat
      /\ 0 \in 0 .. Horizon /\ Never \in Never .. Horizon
  BY WatchAssumption, TodayIsADay DEF Today, Days, Never
<1>2. tick \in [Ticks -> TickState]
  BY <1>1 DEF NoTick, TickState
<1>3. /\ now \in 0 .. Horizon /\ lastRun \in Never .. Horizon
      /\ health \in [alerted : Never .. Horizon, started : Never .. Horizon,
                     done : Never .. Horizon]
      /\ lastSent \in Never .. Horizon
  BY <1>1
<1>4. /\ budget \in [Days -> [over : BOOLEAN, alerted : BOOLEAN]]
      /\ reports \in [Days -> [posted : Nat, delivered : Nat]]
  OBVIOUS
<1>5. fired \in BOOLEAN /\ early \in Nat /\ lapses \in Nat /\ faults \in Nat
  OBVIOUS
<1> QED
  BY <1>2, <1>3, <1>4, <1>5 DEF Types, TypeOK

LEMMA FreshTick ==
  ASSUME Types,
         NEW pc \in {"idle", "start", "rows", "check", "claim", "report", "work", "end"}
                     \cup Watchdog
  PROVE  [NoTick EXCEPT !.pc = pc] \in TickState
<1>1. 0 \in Days /\ Never \in Never .. Horizon
  BY WatchAssumption, TodayIsADay DEF Types, TypeOK, Never, Today, Days
<1> QED
  BY <1>1 DEF NoTick, TickState

(* Where a tick goes on, or forgets what it has read.                      *)
LEMMA MoveType ==
  ASSUME Types, NEW t \in Ticks,
         NEW pc \in {"idle", "start", "rows", "check", "claim", "report", "work", "end"}
                     \cup Watchdog,
         Goto(t, pc) \/ Drop(t, pc)
  PROVE  tick' \in [Ticks -> TickState]
<1>1. CASE Goto(t, pc)
  BY <1>1 DEF Goto, Types, TypeOK, TickState
<1>2. CASE Drop(t, pc)
  BY <1>2, FreshTick DEF Drop, Types, TypeOK
<1> QED
  BY <1>1, <1>2

(* The two steps of the watchdog that keep what they have read.            *)
LEMMA ReadType ==
  ASSUME tick \in [Ticks -> TickState], Never \in Never .. Horizon,
         lastRun \in Never .. Horizon, health.alerted \in Never .. Horizon,
         NEW t \in Ticks, ReadRuns(t) \/ ReadHealth(t)
  PROVE  tick' \in [Ticks -> TickState]
<1>1. ASSUME NEW l \in Never .. Horizon,
             tick' = [tick EXCEPT ![t].pc = "health", ![t].last = l]
      PROVE  tick' \in [Ticks -> TickState]
  BY <1>1 DEF TickState, Watchdog
<1>2. ASSUME tick' = [tick EXCEPT ![t].pc = "health", ![t].last = Never, ![t].failed = TRUE]
      PROVE  tick' \in [Ticks -> TickState]
  <2>1. [tick[t] EXCEPT !.pc = "health", !.last = Never, !.failed = TRUE] \in TickState
    BY DEF TickState, Watchdog
  <2>2. tick' = [tick EXCEPT ![t] = [tick[t] EXCEPT !.pc = "health", !.last = Never,
                                                    !.failed = TRUE]]
    BY <1>2
  <2> QED
    BY <2>1, <2>2
<1>3. ASSUME NEW l \in Never .. Horizon, NEW pc \in {"post", "start"},
             tick' = [tick EXCEPT ![t].alerted = l, ![t].pc = pc]
      PROVE  tick' \in [Ticks -> TickState]
  BY <1>3 DEF TickState, Watchdog
<1>4. CASE ReadRuns(t)
  BY <1>1, <1>2, <1>4 DEF ReadRuns
<1>5. CASE ReadHealth(t)
  <2>1. PICK l \in {health.alerted, Never} :
          tick' = [tick EXCEPT ![t].alerted = l,
                       ![t].pc = IF AlertDue(tick[t].last, l) THEN "post" ELSE "start"]
    BY <1>5 DEF ReadHealth
  <2>2. l \in Never .. Horizon
    OBVIOUS
  <2> QED
    BY <1>3, <2>1, <2>2
<1> QED
  BY <1>4, <1>5

LEMMA FaultType ==
  ASSUME Types, NoFault \/ Lapse \/ Fault
  PROVE  lapses' \in Nat /\ faults' \in Nat
BY DEF Types, TypeOK, NoFault, Lapse, Fault, Failure

LEMMA EarlyType ==
  ASSUME Types, Delivered \/ UNCHANGED early
  PROVE  early' \in Nat
BY DEF Types, TypeOK, Delivered

LEMMA TypesPreserved ==
  ASSUME Types, [Next]_vars
  PROVE  Types'
<1> USE WatchAssumption DEF Types
<1>1. now \in Nat /\ Today \in Days /\ now \in Never .. Horizon
  BY TodayIsADay DEF TypeOK, Never
<1>2. CASE StoreRun
  BY <1>1, <1>2 DEF StoreRun, TypeOK
<1>3. CASE Pass
  <2>1. now \in 0 .. Horizon /\ now < Horizon /\ now' = now + 1
    BY <1>3 DEF Pass, TypeOK
  <2>2. now' \in 0 .. Horizon
    BY <2>1
  <2> QED
    BY <1>3, <2>2 DEF Pass, TypeOK
<1>4. CASE Miss
  BY <1>4, FaultType DEF Miss, TypeOK
<1>5. ASSUME NEW t \in Ticks, Fire(t) PROVE Types'
  <2>1. tick' \in [Ticks -> TickState]
    BY <1>5, MoveType DEF Fire, Drop, Watchdog
  <2> QED
    BY <1>5, <2>1 DEF Fire, TypeOK
<1>6. ASSUME NEW t \in Ticks, TickStep(t) PROVE Types'
  <2>0. /\ tick \in [Ticks -> TickState] /\ Never \in Never .. Horizon
        /\ lastRun \in Never .. Horizon /\ health.alerted \in Never .. Horizon
    BY DEF TypeOK, Never
  <2>1. CASE ReadRuns(t)
    <3>1. tick' \in [Ticks -> TickState]
      BY <2>0, <2>1, ReadType
    <3> QED
      BY <2>1, <3>1, FaultType DEF ReadRuns, TypeOK
  <2>2. CASE ReadHealth(t)
    <3>1. tick' \in [Ticks -> TickState]
      BY <2>0, <2>2, ReadType
    <3>2. NoFault \/ Lapse
      BY <2>2 DEF ReadHealth
    <3> QED
      BY <2>2, <3>1, <3>2, FaultType DEF ReadHealth, TypeOK
  <2>3. CASE PostStale(t)
    <3>1. tick' \in [Ticks -> TickState]
      <4>1. CASE Goto(t, "stamp") \/ Goto(t, "start")
        BY <4>1, MoveType DEF Watchdog
      <4>2. CASE tick' = [tick EXCEPT ![t].pc = "start", ![t].failed = TRUE]
        BY <4>2 DEF TypeOK, TickState
      <4> QED
        BY <2>3, <4>1, <4>2 DEF PostStale
    <3> QED
      BY <1>1, <2>3, <3>1, FaultType, EarlyType DEF PostStale, Delivered, TypeOK
  <2>4. CASE StampAlert(t)
    <3>1. tick' \in [Ticks -> TickState]
      BY <2>4, MoveType DEF StampAlert
    <3> QED
      BY <1>1, <2>4, <3>1, FaultType DEF StampAlert, TypeOK
  <2>5. CASE RecordScheduleStart(t)
    <3>1. tick' \in [Ticks -> TickState]
      BY <2>5, MoveType DEF RecordScheduleStart
    <3> QED
      BY <1>1, <2>5, <3>1, FaultType DEF RecordScheduleStart, Beaten, TypeOK
  <2>6. CASE RecordRowsRead(t)
    <3>1. tick' \in [Ticks -> TickState]
      BY <2>6, MoveType DEF RecordRowsRead
    <3>2. PICK over \in {budget[Today].over, TRUE} : budget' = [budget EXCEPT ![Today].over = over]
      BY <2>6 DEF RecordRowsRead
    <3>3. over \in BOOLEAN
      BY <1>1 DEF TypeOK
    <3> QED
      BY <1>1, <2>6, <3>1, <3>2, <3>3 DEF RecordRowsRead, TypeOK
  <2>7. CASE CheckBudget(t)
    <3>1. tick' \in [Ticks -> TickState]
      <4>1. CASE Drop(t, "work")
        BY <4>1, MoveType
      <4>2. CASE ~Drop(t, "work")
        BY <1>1, <2>7, <4>2 DEF CheckBudget, TypeOK, TickState
      <4> QED
        BY <4>1, <4>2
    <3> QED
      BY <1>1, <2>7, <3>1, FaultType DEF CheckBudget, TypeOK
  <2>8. CASE ClaimAlert(t)
    <3>1. tick' \in [Ticks -> TickState]
      BY <2>8, MoveType DEF ClaimAlert
    <3>2. budget \in [Days -> [over : BOOLEAN, alerted : BOOLEAN]]
      BY DEF TypeOK
    <3>3. budget' = budget \/ budget' = [budget EXCEPT ![tick[t].day].alerted = TRUE]
      BY <2>8 DEF ClaimAlert, Claiming
    <3>4. budget' \in [Days -> [over : BOOLEAN, alerted : BOOLEAN]]
      BY <3>2, <3>3
    <3> QED
      BY <1>1, <2>8, <3>1, <3>4, FaultType DEF ClaimAlert, TypeOK
  <2>9. CASE ReportBudget(t)
    <3>1. tick' \in [Ticks -> TickState]
      BY <2>9, MoveType DEF ReportBudget
    <3>2. reports \in [Days -> [posted : Nat, delivered : Nat]] /\ tick[t].day \in Days
      BY DEF TypeOK, TickState
    <3>3. PICK n \in {0, 1} :
            reports' = [reports EXCEPT ![tick[t].day].posted = @ + 1,
                                       ![tick[t].day].delivered = @ + n]
      BY <2>9 DEF ReportBudget, Posted
    <3>4. reports' \in [Days -> [posted : Nat, delivered : Nat]]
      BY <3>2, <3>3
    <3> QED
      BY <1>1, <2>9, <3>1, <3>4, FaultType DEF ReportBudget, TypeOK
  <2>10. CASE Work(t)
    <3>1. tick' \in [Ticks -> TickState]
      BY <2>10, MoveType DEF Work
    <3> QED
      BY <1>1, <2>10, <3>1, FaultType DEF Work, TypeOK
  <2>11. CASE RecordScheduleTick(t)
    <3>1. tick' \in [Ticks -> TickState]
      BY <2>11, MoveType DEF RecordScheduleTick
    <3> QED
      BY <1>1, <2>11, <3>1, FaultType DEF RecordScheduleTick, Beaten, TypeOK
  <2> QED
    BY <1>6, <2>1, <2>2, <2>3, <2>4, <2>5, <2>6, <2>7, <2>8, <2>9, <2>10, <2>11 DEF TickStep
<1>7. ASSUME NEW t \in Ticks, Kill(t) PROVE Types'
  <2>1. tick' \in [Ticks -> TickState]
    BY <1>7, MoveType DEF Kill
  <2> QED
    BY <1>7, <2>1, FaultType DEF Kill, TypeOK
<1>8. CASE UNCHANGED vars
  BY <1>8 DEF vars, TypeOK
<1> QED
  BY <1>2, <1>3, <1>4, <1>5, <1>6, <1>7, <1>8 DEF Next

(* Every variable keeps its type.                                          *)
THEOREM TypeCorrect == Spec => []TypeOK
<1>1. Types => TypeOK
  BY DEF Types
<1> QED
  BY <1>1, InitTypes, TypesPreserved, PTL DEF Spec

-----------------------------------------------------------------------------
(* The budget: a report under way holds its day's claim alone, and nothing *)
(* has been reported of that day yet.                                      *)

Reported == \A d \in Days :
  reports[d].posted # 0 => reports[d].posted = 1 /\ budget[d].alerted

Claimed == \A t \in Ticks :
  At(t, "report") => budget[tick[t].day].alerted /\ reports[tick[t].day].posted = 0

OneReport == \A t, u \in Ticks :
  At(t, "report") /\ At(u, "report") /\ tick[t].day = tick[u].day => t = u

BudgetInvariant == Reported /\ Claimed /\ OneReport

(* Steps that begin or end no report.                                      *)
LEMMA OtherSteps ==
  ASSUME Types, BudgetInvariant, reports' = reports,
         \A d \in Days : budget[d].alerted => budget'[d].alerted,
         \A t \in Ticks : tick'[t].pc = "report" =>
           tick[t].pc = "report" /\ tick'[t].day = tick[t].day
  PROVE  BudgetInvariant'
<1>1. \A t \in Ticks : tick[t].day \in Days
  BY DEF Types, TypeOK, TickState
<1> QED
  BY <1>1 DEF BudgetInvariant, Reported, Claimed, OneReport, At

LEMMA ClaimAndReport ==
  ASSUME Types, Types', BudgetInvariant, NEW t \in Ticks, ClaimAlert(t) \/ ReportBudget(t)
  PROVE  BudgetInvariant'
<1> DEFINE d == tick[t].day
<1>1. /\ d \in Days /\ \A u \in Ticks : tick[u].day \in Days
      /\ tick \in [Ticks -> TickState]
      /\ budget \in [Days -> [over : BOOLEAN, alerted : BOOLEAN]]
      /\ reports \in [Days -> [posted : Nat, delivered : Nat]]
  BY DEF Types, TypeOK, TickState
<1>2. CASE ClaimAlert(t) /\ Drop(t, "work")
  <2>0. \A e \in Days : budget[e].alerted => budget'[e].alerted
    BY <1>1, <1>2 DEF ClaimAlert, Claiming
  <2>1. \A u \in Ticks : tick'[u].pc = "report" => tick'[u] = tick[u]
    BY <1>1, <1>2 DEF Drop, NoTick
  <2> QED
    BY <1>2, <2>0, <2>1, OtherSteps DEF ClaimAlert
<1>3. CASE /\ ~budget[d].alerted /\ Goto(t, "report")
           /\ budget' = [budget EXCEPT ![d].alerted = TRUE] /\ UNCHANGED reports
  <2>1. reports[d].posted = 0 /\ \A u \in Ticks : At(u, "report") => tick[u].day # d
    BY <1>1, <1>3 DEF BudgetInvariant, Reported, Claimed
  <2>2. /\ budget'[d].alerted
        /\ \A e \in Days : e # d => budget'[e] = budget[e]
    BY <1>1, <1>3
  <2>3. /\ tick'[t].pc = "report" /\ tick'[t].day = d
        /\ \A u \in Ticks : u # t => tick'[u] = tick[u]
    BY <1>1, <1>3 DEF Goto, TickState
  <2>4. Reported'
    BY <1>1, <1>3, <2>2 DEF BudgetInvariant, Reported
  <2>5. Claimed' /\ OneReport'
    BY <1>1, <1>3, <2>1, <2>2, <2>3 DEF BudgetInvariant, Claimed, OneReport, At
  <2> QED
    BY <2>4, <2>5 DEF BudgetInvariant
<1>4. CASE ReportBudget(t)
  <2>1. budget[d].alerted /\ reports[d].posted = 0 /\ At(t, "report")
    BY <1>4 DEF ReportBudget, BudgetInvariant, Claimed
  <2>2. /\ reports'[d].posted = 1 /\ budget' = budget
        /\ \A e \in Days : e # d => reports'[e] = reports[e]
    BY <1>1, <1>4, <2>1 DEF ReportBudget, Posted
  <2>3. tick'[t].pc = "work" /\ \A u \in Ticks : u # t => tick'[u] = tick[u]
    BY <1>1, <1>4 DEF ReportBudget, Drop, NoTick
  <2>4. \A u \in Ticks : u # t /\ At(u, "report") => tick[u].day # d
    BY <2>1 DEF BudgetInvariant, OneReport
  <2>5. Reported'
    BY <1>1, <2>1, <2>2 DEF BudgetInvariant, Reported
  <2>6. Claimed' /\ OneReport'
    BY <1>1, <2>2, <2>3, <2>4 DEF BudgetInvariant, Claimed, OneReport, At
  <2> QED
    BY <2>5, <2>6 DEF BudgetInvariant
<1> QED
  BY <1>2, <1>3, <1>4 DEF ClaimAlert, Claiming

LEMMA BudgetPreserved ==
  ASSUME Types, Types', BudgetInvariant, [Next]_vars
  PROVE  BudgetInvariant'
<1>1. /\ tick \in [Ticks -> TickState]
      /\ budget \in [Days -> [over : BOOLEAN, alerted : BOOLEAN]] /\ Today \in Days
  BY TodayIsADay DEF Types, TypeOK
<1>2. CASE StoreRun \/ Pass \/ Miss \/ UNCHANGED vars
  BY <1>2, OtherSteps DEF StoreRun, Pass, Miss, vars
<1>3. ASSUME NEW t \in Ticks, NEW pc, pc # "report", Goto(t, pc) \/ Drop(t, pc),
             UNCHANGED <<budget, reports>>
      PROVE  BudgetInvariant'
  <2>1. \A u \in Ticks : tick'[u].pc = "report" => tick'[u] = tick[u]
    BY <1>1, <1>3 DEF Goto, Drop, NoTick, TickState
  <2> QED
    BY <1>3, <2>1, OtherSteps
<1>4. ASSUME NEW t \in Ticks, tick'[t].pc # "report",
             \A u \in Ticks : u # t => tick'[u] = tick[u], reports' = reports,
             \A d \in Days : budget'[d].alerted = budget[d].alerted
      PROVE  BudgetInvariant'
  BY <1>4, OtherSteps
<1>5. ASSUME NEW t \in Ticks, Fire(t) \/ ReadRuns(t) \/ ReadHealth(t) \/ PostStale(t)
      PROVE  BudgetInvariant'
  <2>1. tick'[t].pc # "report" /\ \A u \in Ticks : u # t => tick'[u] = tick[u]
    BY <1>1, <1>5 DEF Fire, ReadRuns, ReadHealth, PostStale, Goto, TickState, NoTick
  <2> QED
    BY <1>4, <1>5, <2>1 DEF Fire, ReadRuns, ReadHealth, PostStale
<1>6. ASSUME NEW t \in Ticks, StampAlert(t) \/ RecordScheduleStart(t) \/ Work(t)
                                 \/ RecordScheduleTick(t) \/ Kill(t)
      PROVE  BudgetInvariant'
  BY <1>3, <1>6 DEF StampAlert, RecordScheduleStart, Work, RecordScheduleTick, Kill
<1>7. ASSUME NEW t \in Ticks, RecordRowsRead(t)
      PROVE  BudgetInvariant'
  <2>1. tick'[t].pc # "report" /\ \A u \in Ticks : u # t => tick'[u] = tick[u]
    BY <1>1, <1>7 DEF RecordRowsRead, Goto, TickState
  <2>2. \A d \in Days : budget'[d].alerted = budget[d].alerted
    BY <1>1, <1>7 DEF RecordRowsRead
  <2> QED
    BY <1>4, <1>7, <2>1, <2>2 DEF RecordRowsRead
<1>8. ASSUME NEW t \in Ticks, CheckBudget(t)
      PROVE  BudgetInvariant'
  <2>1. tick'[t].pc # "report" /\ \A u \in Ticks : u # t => tick'[u] = tick[u]
    BY <1>1, <1>8 DEF CheckBudget, Drop, TickState, NoTick
  <2> QED
    BY <1>4, <1>8, <2>1 DEF CheckBudget
<1> QED
  BY <1>2, <1>5, <1>6, <1>7, <1>8, ClaimAndReport DEF Next, TickStep

(* However ticks overlap, fail or are killed, a day's budget is reported   *)
(* at most once (query-cost.ts checkRowsReadBudget).                       *)
THEOREM BudgetIsReportedOnce == Spec => []BudgetReportedOnce
<1>1. Init => BudgetInvariant
  BY DEF Init, BudgetInvariant, Reported, Claimed, OneReport, At, NoTick
<1>2. Types /\ BudgetInvariant => BudgetReportedOnce
  BY DEF Types, TypeOK, BudgetInvariant, Reported, BudgetReportedOnce
<1> QED
  BY <1>1, <1>2, InitTypes, TypesPreserved, BudgetPreserved, PTL DEF Spec

-----------------------------------------------------------------------------
(* The watchdog: one at a time, within its instant.  An alert the row does *)
(* not tell of (Unstamped) and a watchdog that has misread the row (Misled)*)
(* are each the fault of a lapse that no early alert has answered for yet. *)

InWatchdog(t) == tick[t].pc \in Watchdog

OneWatchdog ==
  /\ \A t, u \in Ticks : InWatchdog(t) /\ InWatchdog(u) => t = u
  /\ \A t \in Ticks : InWatchdog(t) => fired

Stamped ==
  /\ health.alerted <= lastSent /\ lastSent <= now
  /\ \A t \in Ticks : At(t, "stamp") => lastSent = now

Due == \A t \in Ticks : At(t, "post") => AlertDue(tick[t].last, tick[t].alerted)

Unstamped == lastSent # health.alerted /\ \A t \in Ticks : ~At(t, "stamp")
Misled    == \E t \in Ticks : At(t, "post") /\ tick[t].alerted # health.alerted

Paid ==
  /\ early <= lapses
  /\ Unstamped \/ Misled => early + 1 <= lapses
  /\ Unstamped /\ Misled => early + 2 <= lapses

AlertInvariant == OneWatchdog /\ Stamped /\ Due /\ Paid

(* Steps outside the watchdog, or that end one without an alert; one that  *)
(* ends before its stamp is a lapse.                                       *)
LEMMA Apart ==
  ASSUME Types, Types', AlertInvariant,
         UNCHANGED <<now, lastSent, early>>, health'.alerted = health.alerted,
         fired => fired', lapses' >= lapses,
         \A t \in Ticks : tick'[t].pc \in Watchdog => tick'[t] = tick[t],
         \A t \in Ticks : At(t, "stamp") => tick'[t].pc = "stamp" \/ lapses' = lapses + 1
  PROVE  AlertInvariant'
<1>0. early \in Nat /\ lapses \in Nat /\ lapses' \in Nat
  BY DEF Types, TypeOK
<1>1. \A t \in Ticks : InWatchdog(t)' => InWatchdog(t) /\ tick'[t] = tick[t]
  BY DEF InWatchdog
<1>2. OneWatchdog'
  BY <1>1 DEF AlertInvariant, OneWatchdog
<1>3. \A t \in Ticks : \A pc \in Watchdog : At(t, pc)' => At(t, pc) /\ tick'[t] = tick[t]
  BY DEF At
<1>4. Stamped'
  BY <1>3 DEF AlertInvariant, Stamped, At, Watchdog
<1>5. Due'
  BY <1>3 DEF AlertInvariant, Due, AlertDue, Stale, At, Watchdog
<1>6. Misled' => Misled
  BY <1>3 DEF Misled, At, Watchdog
<1>7. Paid'
  <2>1. CASE \A t \in Ticks : At(t, "stamp") => tick'[t].pc = "stamp"
    <3>1. Unstamped' => Unstamped
      BY <2>1 DEF Unstamped, At
    <3> QED
      BY <1>0, <1>6, <3>1 DEF AlertInvariant, Paid
  <2>2. CASE \E t \in Ticks : At(t, "stamp") /\ lapses' = lapses + 1
    <3>1. ~Misled
      BY <2>2 DEF AlertInvariant, OneWatchdog, InWatchdog, Misled, At, Watchdog
    <3> QED
      BY <1>0, <1>6, <2>2, <3>1 DEF AlertInvariant, Paid
  <2> QED
    BY <2>1, <2>2
<1> QED
  BY <1>2, <1>4, <1>5, <1>7 DEF AlertInvariant

(* Steps of the watchdog: nobody else is in it.                            *)
LEMMA Within ==
  ASSUME Types, Types', AlertInvariant, NEW t \in Ticks,
         \A u \in Ticks : u # t => tick'[u] = tick[u] /\ ~InWatchdog(u),
         fired', now' = now,
         health'.alerted <= lastSent', lastSent' <= now,
         tick'[t].pc = "stamp" => lastSent' = now,
         tick'[t].pc = "post" => AlertDue(tick'[t].last, tick'[t].alerted),
         early' <= lapses',
         tick'[t].pc # "stamp" /\ lastSent' # health'.alerted => early' + 1 <= lapses',
         tick'[t].pc = "post" /\ tick'[t].alerted # health'.alerted =>
           /\ early' + 1 <= lapses'
           /\ lastSent' # health'.alerted => early' + 2 <= lapses'
  PROVE  AlertInvariant'
<1>1. \A u \in Ticks : u # t => ~InWatchdog(u)'
  BY DEF InWatchdog
<1>2. OneWatchdog'
  BY <1>1 DEF OneWatchdog
<1>3. \A u \in Ticks : \A pc \in Watchdog : At(u, pc)' => u = t
  BY <1>1 DEF At, InWatchdog
<1>4. Stamped'
  BY <1>3 DEF Stamped, At, Watchdog
<1>5. Due'
  BY <1>3 DEF Due, AlertDue, Stale, At, Watchdog
<1>6. /\ Unstamped' => tick'[t].pc # "stamp" /\ lastSent' # health'.alerted
      /\ Misled' => tick'[t].pc = "post" /\ tick'[t].alerted # health'.alerted
  BY <1>3 DEF Unstamped, Misled, At, Watchdog
<1>7. Paid'
  BY <1>6 DEF Paid
<1> QED
  BY <1>2, <1>4, <1>5, <1>7 DEF AlertInvariant

(* What is owed while a watchdog has neither read the row nor posted.      *)
LEMMA OwedBefore ==
  ASSUME AlertInvariant, NEW t \in Ticks, InWatchdog(t), ~At(t, "stamp")
  PROVE  lastSent # health.alerted => Unstamped
BY DEF AlertInvariant, OneWatchdog, InWatchdog, Unstamped, At, Watchdog

LEMMA AlertPreserved ==
  ASSUME Types, Types', AlertInvariant, [Next]_vars
  PROVE  AlertInvariant'
<1>1. /\ tick \in [Ticks -> TickState] /\ now \in Nat /\ lastSent \in Int
      /\ health \in [alerted : Int, started : Int, done : Int]
      /\ early \in Nat /\ lapses \in Nat /\ fired \in BOOLEAN
  BY DEF Types, TypeOK, Never
<1>2. /\ \A t, u \in Ticks : InWatchdog(t) /\ u # t => ~InWatchdog(u)
      /\ \A t \in Ticks : InWatchdog(t) => fired
      /\ health.alerted <= lastSent /\ lastSent <= now /\ early <= lapses
      /\ Unstamped => early + 1 <= lapses
  BY DEF AlertInvariant, OneWatchdog, Stamped, Paid
<1>3. ASSUME NEW t \in Ticks, NEW pc, Goto(t, pc) \/ Drop(t, pc)
      PROVE  tick'[t].pc = pc /\ \A u \in Ticks : u # t => tick'[u] = tick[u]
  BY <1>1, <1>3 DEF Goto, Drop, NoTick, TickState
<1>0. NoFault \/ Fault => lapses' = lapses
  BY DEF NoFault, Fault
<1>4. CASE StoreRun \/ Miss \/ UNCHANGED vars
  <2>1. /\ UNCHANGED <<now, lastSent, tick, early>> /\ health'.alerted = health.alerted
        /\ (fired => fired') /\ lapses' = lapses
    BY <1>0, <1>4 DEF StoreRun, Miss, vars
  <2> QED
    BY <1>1, <2>1, Apart DEF At
<1>5. CASE Pass
  <2>1. \A t \in Ticks : ~InWatchdog(t) /\ ~At(t, "stamp") /\ ~At(t, "post")
    BY <1>5 DEF Pass, InWatchdog, At, Watchdog
  <2>2. OneWatchdog'
    BY <1>5, <2>1 DEF Pass, OneWatchdog, InWatchdog
  <2>3. Stamped'
    BY <1>1, <1>2, <1>5, <2>1 DEF Pass, AlertInvariant, Stamped, At
  <2>4. Due' /\ Paid'
    BY <1>5, <2>1 DEF Pass, Due, At, AlertInvariant, Paid, Unstamped, Misled
  <2> QED
    BY <2>2, <2>3, <2>4 DEF AlertInvariant
<1>6. ASSUME NEW t \in Ticks, Fire(t) PROVE AlertInvariant'
  <2>1. \A u \in Ticks : ~InWatchdog(u) /\ ~At(u, "stamp")
    BY <1>2, <1>6 DEF Fire, InWatchdog, At, Watchdog
  <2>2. tick'[t].pc = "runs" /\ \A u \in Ticks : u # t => tick'[u] = tick[u]
    BY <1>1, <1>6 DEF Fire, NoTick
  <2>3. lastSent # health.alerted => early + 1 <= lapses
    BY <1>2, <2>1 DEF Unstamped
  <2> QED
    BY <1>1, <1>2, <1>6, <2>1, <2>2, <2>3, Within DEF Fire
<1>7. ASSUME NEW t \in Ticks, ReadRuns(t) PROVE AlertInvariant'
  <2>1. InWatchdog(t) /\ ~At(t, "stamp")
    BY <1>7 DEF ReadRuns, InWatchdog, At, Watchdog
  <2>2. /\ tick'[t].pc = "health" /\ \A u \in Ticks : u # t => tick'[u] = tick[u]
        /\ lapses' = lapses
    BY <1>0, <1>1, <1>7 DEF ReadRuns, TickState
  <2>3. lastSent # health.alerted => early + 1 <= lapses
    BY <1>2, <2>1, OwedBefore
  <2> QED
    BY <1>1, <1>2, <1>7, <2>1, <2>2, <2>3, Within DEF ReadRuns
<1>8. ASSUME NEW t \in Ticks, ReadHealth(t) PROVE AlertInvariant'
  <2>1. InWatchdog(t) /\ ~At(t, "stamp")
    BY <1>8 DEF ReadHealth, InWatchdog, At, Watchdog
  <2>2. PICK alerted \in {health.alerted, Never} :
          /\ IF alerted = health.alerted THEN NoFault ELSE Lapse
          /\ tick' = [tick EXCEPT ![t].alerted = alerted,
                       ![t].pc = IF AlertDue(tick[t].last, alerted) THEN "post" ELSE "start"]
    BY <1>8 DEF ReadHealth
  <2>3. /\ tick'[t].alerted = alerted /\ tick'[t].last = tick[t].last
        /\ tick'[t].pc = IF AlertDue(tick[t].last, alerted) THEN "post" ELSE "start"
        /\ \A u \in Ticks : u # t => tick'[u] = tick[u]
    BY <1>1, <2>2 DEF TickState
  <2>4. \/ alerted = health.alerted /\ lapses' = lapses
        \/ lapses' = lapses + 1
    BY <2>2 DEF NoFault, Lapse
  <2>5. lastSent # health.alerted => early + 1 <= lapses
    BY <1>2, <2>1, OwedBefore
  <2>6. UNCHANGED <<now, health, fired, lastSent, early>>
    BY <1>8 DEF ReadHealth
  <2> QED
    BY <1>1, <1>2, <2>1, <2>3, <2>4, <2>5, <2>6, Within
<1>9. ASSUME NEW t \in Ticks, PostStale(t) PROVE AlertInvariant'
  <2>1. InWatchdog(t) /\ At(t, "post") /\ ~At(t, "stamp")
    BY <1>9 DEF PostStale, InWatchdog, At, Watchdog
  <2>2. \A u \in Ticks : u # t => tick'[u] = tick[u]
    BY <1>1, <1>9 DEF PostStale, Goto
  <2>3. lastSent # health.alerted => early + 1 <= lapses
    BY <1>2, <2>1, OwedBefore
  <2>4. CASE Delivered /\ ((Goto(t, "stamp") /\ NoFault) \/ (Goto(t, "start") /\ Lapse))
    <3>1. early' = early \/ (early' = early + 1 /\ early + 1 <= lapses)
      <4>1. SUFFICES ASSUME lastSent # Never, now - lastSent < REPEAT
                     PROVE  early + 1 <= lapses
        BY <1>1, <2>4 DEF Delivered
      <4>2. AlertDue(tick[t].last, tick[t].alerted)
        BY <2>1 DEF AlertInvariant, Due
      <4>3. tick[t].alerted # lastSent
        BY <1>1, <4>1, <4>2, WatchAssumption DEF AlertDue
      <4>4. Unstamped \/ Misled
        BY <2>1, <4>3, OwedBefore DEF Misled
      <4> QED
        BY <4>4 DEF AlertInvariant, Paid
    <3>2. /\ \/ tick'[t].pc = "stamp" /\ lapses' = lapses
             \/ tick'[t].pc = "start" /\ lapses' = lapses + 1
          /\ lastSent' = now
      BY <1>0, <1>3, <2>4 DEF Lapse, Delivered
    <3>3. UNCHANGED <<now, health, fired>>
      BY <1>9 DEF PostStale
    <3> QED
      BY <1>1, <1>2, <2>1, <2>2, <3>1, <3>2, <3>3, Within
  <2>5. CASE tick'[t].pc = "start" /\ Fault /\ UNCHANGED <<lastSent, early>>
    BY <1>0, <1>1, <1>2, <1>9, <2>1, <2>2, <2>3, <2>5, Within DEF PostStale
  <2>6. tick' = [tick EXCEPT ![t].pc = "start", ![t].failed = TRUE] => tick'[t].pc = "start"
    BY <1>1 DEF TickState
  <2> QED
    BY <1>9, <2>4, <2>5, <2>6, Zenon DEF PostStale
<1>10. ASSUME NEW t \in Ticks, StampAlert(t) PROVE AlertInvariant'
  <2>1. InWatchdog(t) /\ lastSent = now
    BY <1>10 DEF StampAlert, InWatchdog, At, Watchdog, AlertInvariant, Stamped
  <2>2. tick'[t].pc = "start" /\ \A u \in Ticks : u # t => tick'[u] = tick[u]
    BY <1>3, <1>10 DEF StampAlert
  <2>3. \/ health'.alerted = now /\ lapses' \in {lapses, lapses + 1}
        \/ health' = health /\ lapses' = lapses + 1
    BY <1>1, <1>10 DEF StampAlert, NoFault, Lapse
  <2>4. UNCHANGED <<now, lastSent, fired, early>>
    BY <1>10 DEF StampAlert
  <2> QED
    BY <1>1, <1>2, <2>1, <2>2, <2>3, <2>4, Within
<1>11. ASSUME NEW t \in Ticks, NEW pc \in {"idle", "rows", "check", "claim", "report", "work", "end"},
              Goto(t, pc) \/ Drop(t, pc),
              ~At(t, "stamp") \/ lapses' = lapses + 1, UNCHANGED <<now, lastSent, fired, early>>,
              health'.alerted = health.alerted, lapses' >= lapses
       PROVE  AlertInvariant'
  <2>1. /\ tick'[t].pc \notin Watchdog
        /\ \A u \in Ticks : u # t => tick'[u] = tick[u]
    BY <1>3, <1>11 DEF Watchdog
  <2> QED
    BY <1>11, <2>1, Apart DEF At
<1>12. ASSUME NEW t \in Ticks, RecordScheduleStart(t) \/ RecordScheduleTick(t)
       PROVE  AlertInvariant'
  <2>1. health'.alerted = health.alerted
    BY <1>1, <1>12 DEF RecordScheduleStart, RecordScheduleTick, Beaten
  <2>2. lapses' = lapses
    BY <1>0, <1>12 DEF RecordScheduleStart, RecordScheduleTick
  <2> QED
    BY <1>1, <1>11, <1>12, <2>1, <2>2 DEF RecordScheduleStart, RecordScheduleTick, At
<1>13. ASSUME NEW t \in Ticks, RecordRowsRead(t) \/ CheckBudget(t) \/ ClaimAlert(t)
                                  \/ ReportBudget(t) \/ Work(t)
       PROVE  AlertInvariant'
  <2>1. ~At(t, "stamp") /\ UNCHANGED <<now, lastSent, fired, health, early, lapses>>
    BY <1>0, <1>13
    DEF RecordRowsRead, CheckBudget, ClaimAlert, ReportBudget, Work, At
  <2>2. CASE CheckBudget(t) /\ ~Drop(t, "work")
    <3>1. /\ tick'[t].pc \notin Watchdog
          /\ \A u \in Ticks : u # t => tick'[u] = tick[u]
      BY <1>1, <2>2 DEF CheckBudget, TickState, Watchdog
    <3> QED
      BY <1>1, <2>1, <3>1, Apart DEF At
  <2> QED
    BY <1>1, <1>11, <1>13, <2>1, <2>2
    DEF RecordRowsRead, CheckBudget, ClaimAlert, ReportBudget, Work
<1>14. ASSUME NEW t \in Ticks, Kill(t) PROVE AlertInvariant'
  <2>1. lapses' >= lapses /\ (~At(t, "stamp") \/ lapses' = lapses + 1)
    BY <1>0, <1>1, <1>14 DEF Kill, Lapse
  <2> QED
    BY <1>11, <1>14, <2>1 DEF Kill
<1> QED
  BY <1>4, <1>5, <1>6, <1>7, <1>8, <1>9, <1>10, <1>12, <1>13, <1>14 DEF Next, TickStep

LEMMA InitAlert == Init => AlertInvariant
<1> SUFFICES ASSUME Init PROVE AlertInvariant
  OBVIOUS
<1>1. \A t \in Ticks : tick[t].pc = "idle"
  BY DEF Init, NoTick
<1>2. /\ now = 0 /\ lastSent = Never /\ health.alerted = Never /\ early = 0 /\ lapses = 0
  BY DEF Init
<1> QED
  BY <1>1, <1>2 DEF AlertInvariant, OneWatchdog, Stamped, Due, Paid, Unstamped, Misled,
                    InWatchdog, At, Watchdog, Never

(* With any ticks under way at the same time, and any calls failing, every *)
(* staleness alert sent less than REPEAT after the one before is paid for  *)
(* by a lapse of its own (health.ts watchdogCheck): without one, alerts    *)
(* are REPEAT apart, though other ticks write the row that shouldAlertStale*)
(* depends on.                                                             *)
THEOREM AlertsAreSpaced == Spec => []AlertsSpaced
<1>1. AlertInvariant => AlertsSpaced
  BY DEF AlertInvariant, Paid, AlertsSpaced
<1>2. Types /\ AlertInvariant /\ [Next]_vars => Types' /\ AlertInvariant'
  BY TypesPreserved, AlertPreserved
<1> QED
  BY <1>1, <1>2, InitTypes, InitAlert, PTL DEF Spec

(* A watchdog ends by finding that no alert is due, or after an alert.     *)
LEMMA StallStep ==
  ASSUME Types, AlertInvariant, [Next]_vars, NEW t \in Ticks,
         InWatchdog(t), tick'[t].pc = "start", ~tick'[t].failed, Stale(tick[t].last)
  PROVE  lastSent' # Never /\ now - lastSent' < REPEAT
<1>1. /\ tick \in [Ticks -> TickState] /\ now \in Nat /\ lastSent \in Int
      /\ health.alerted \in Int /\ health.alerted >= Never
      /\ health.alerted <= lastSent /\ lastSent <= now
  BY DEF Types, TypeOK, Never, AlertInvariant, Stamped
<1>2. tick[t].pc # "start"
  BY DEF InWatchdog, Watchdog
<1>3. ASSUME NEW u \in Ticks, u # t, Fire(u) \/ TickStep(u) \/ Kill(u) PROVE FALSE
  <2>1. tick'[t] = tick[t]
    BY <1>1, <1>3 DEF Fire, TickStep, Kill, ReadRuns, ReadHealth, PostStale, StampAlert,
      RecordScheduleStart, RecordRowsRead, CheckBudget, ClaimAlert, ReportBudget, Work,
      RecordScheduleTick, Goto, Drop
  <2> QED
    BY <1>2, <2>1
<1>4. ReadHealth(t) \/ PostStale(t) \/ StampAlert(t)
  <2>1. CASE StoreRun \/ Pass \/ Miss \/ UNCHANGED vars
    BY <1>2, <2>1 DEF StoreRun, Pass, Miss, vars
  <2>2. CASE Fire(t) \/ Kill(t)
    BY <1>1, <2>2 DEF Fire, Kill, Drop, NoTick
  <2>3. CASE ReadRuns(t)
    BY <1>1, <2>3 DEF ReadRuns, TickState
  <2>4. ~(\/ RecordScheduleStart(t) \/ RecordRowsRead(t) \/ CheckBudget(t) \/ ClaimAlert(t)
          \/ ReportBudget(t) \/ Work(t) \/ RecordScheduleTick(t))
    BY DEF InWatchdog, Watchdog, At, RecordScheduleStart, RecordRowsRead, CheckBudget,
      ClaimAlert, ReportBudget, Work, RecordScheduleTick
  <2> QED
    BY <1>3, <2>1, <2>2, <2>3, <2>4 DEF Next, TickStep
<1>5. CASE ReadHealth(t)
  <2>1. PICK alerted \in {health.alerted, Never} :
          tick' = [tick EXCEPT ![t].alerted = alerted,
                       ![t].pc = IF AlertDue(tick[t].last, alerted) THEN "post" ELSE "start"]
    BY <1>5 DEF ReadHealth
  <2>2. ~AlertDue(tick[t].last, alerted)
    BY <1>1, <2>1 DEF TickState
  <2>3. alerted # Never /\ now - alerted < REPEAT
    BY <1>1, <2>1, <2>2, WatchAssumption DEF AlertDue, Never
  <2> QED
    BY <1>1, <1>5, <2>3, WatchAssumption DEF ReadHealth, Never
<1>6. CASE PostStale(t)
  BY <1>1, <1>6, WatchAssumption DEF PostStale, Delivered, Goto, TickState, Never
<1>7. CASE StampAlert(t)
  <2>1. lastSent' = now
    BY <1>7 DEF StampAlert, AlertInvariant, Stamped
  <2> QED
    BY <1>1, <2>1, WatchAssumption DEF Never
<1> QED
  BY <1>4, <1>5, <1>6, <1>7

(* A tick that finds the last run stale and whose calls succeed leaves an  *)
(* alert delivered within the hour (index.ts runStalenessWatchdog).        *)
THEOREM StallsAreReported == Spec => StallIsReported
<1>1. Types /\ AlertInvariant /\ [Next]_vars =>
        [\A t \in Ticks :
           /\ tick[t].pc \in Watchdog /\ tick'[t].pc = "start" /\ ~tick'[t].failed
           /\ Stale(tick[t].last)
           => lastSent' # Never /\ now - lastSent' < REPEAT]_vars
  BY StallStep DEF InWatchdog
<1>2. Types /\ AlertInvariant /\ [Next]_vars => Types' /\ AlertInvariant'
  BY TypesPreserved, AlertPreserved
<1> QED
  BY <1>1, <1>2, InitTypes, InitAlert, PTL DEF Spec, StallIsReported
=============================================================================
