----------------------------- MODULE Operations -----------------------------
(***************************************************************************)
(* What surrounds the benchmarks: the watchdog of the crons, the           *)
(* aggregation of runs and the providers' adapters on one side; the        *)
(* administrator's login, page of models and playground on the other.  In  *)
(* this model they share no state, so what one of them does never depends  *)
(* on the others: each behaviour follows one of them, the part, and leaves *)
(* the rest as it was at the start.  Only the clock and the count of       *)
(* faults have the same variable.                                          *)
(***************************************************************************)
EXTENDS Watch, FiniteSets

CONSTANTS
  Runs, SLOT, RAW_KEEP, AGG_KEEP, BUCKETS_A_DAY, MaxAdmin, LastTick, RunSpan,  \* Aggregates
  SLICE, MaxSwitches,                                            \* Adapters
  Isolates, Logins, MAX_ATTEMPTS, WINDOW, MaxTime, MaxLogins,    \* Throttle
  Registry, Testable, ProviderOf, Preferred, Budgets,            \* Playground
  Models, Slots, MaxClicks,                                      \* AdminPage
  None

ASSUME PlaygroundAssumption ==
  ProviderOf \in [Testable -> Registry] /\ Budgets \subseteq Int /\ 1024 \in Budgets

ASSUME AggregatesAssumption ==
  /\ SLOT \in Nat \ {0} /\ RAW_KEEP \in Nat \ {0} /\ AGG_KEEP \in Nat
  /\ BUCKETS_A_DAY \in Nat \ {0} /\ LastTick \in Nat /\ RunSpan \in Nat

ASSUME ThrottleAssumption ==
  /\ MAX_ATTEMPTS \in Nat \ {0} /\ WINDOW \in Nat \ {0} /\ MaxTime \in Nat
  /\ "row" \notin Isolates

VARIABLES
  part,
  run, agg, job, firedCron, closed, byHand, admins,
  provider, row, answer, switches,
  bucket, throttled, login, told, passed,
  endpoints, options, form, autoPicked, request, outcome, used,
  stored, cookies, tab, call, doubtful, clicks

Parts == {"watch", "aggregates", "adapters", "throttle", "playground", "admin"}

A == INSTANCE Aggregates WITH fired <- firedCron, DAY <- BUCKETS_A_DAY, Horizon <- LastTick

P == INSTANCE Adapters

T == INSTANCE Throttle WITH row <- throttled

G == INSTANCE Playground WITH Models <- Testable

M == INSTANCE AdminPage

ASSUME AdminAssumption == None \notin M!Call \cup {"ok", "denied", "refused", "failed"}

ofWatch      == <<lastRun, health, budget, tick, fired, lastSent, reports, early, lapses>>
ofAggregates == <<run, agg, job, firedCron, closed, byHand, admins>>
ofAdapters   == <<provider, row, answer, switches>>
ofThrottle   == <<bucket, throttled, login, told, passed>>
ofPlayground == <<endpoints, options, form, autoPicked, request, outcome, used>>
ofAdmin      == <<stored, cookies, tab, call, doubtful, clicks>>
all == <<part, now, faults, ofWatch, ofAggregates, ofAdapters, ofThrottle, ofPlayground, ofAdmin>>

OperationsInit ==
  /\ part \in Parts
  /\ Init /\ A!Init /\ P!Init /\ T!Init /\ G!Init /\ M!Init
  /\ part # "adapters" => provider = CHOOSE x \in P!Providers : TRUE
  /\ part # "playground" => ~form.key

OperationsNext ==
  /\ UNCHANGED part
  /\ \/ /\ part = "watch" /\ Next
        /\ UNCHANGED <<ofAggregates, ofAdapters, ofThrottle, ofPlayground, ofAdmin>>
     \/ /\ part = "aggregates" /\ A!Next
        /\ UNCHANGED <<ofWatch, ofAdapters, ofThrottle, ofPlayground, ofAdmin>>
     \/ /\ part = "adapters" /\ P!Next
        /\ UNCHANGED <<now, faults, ofWatch, ofAggregates, ofThrottle, ofPlayground, ofAdmin>>
     \/ /\ part = "throttle" /\ T!Next
        /\ UNCHANGED <<faults, ofWatch, ofAggregates, ofAdapters, ofPlayground, ofAdmin>>
     \/ /\ part = "playground" /\ G!Next
        /\ UNCHANGED <<now, faults, ofWatch, ofAggregates, ofAdapters, ofThrottle, ofAdmin>>
     \/ /\ part = "admin" /\ M!Next
        /\ UNCHANGED <<now, ofWatch, ofAggregates, ofAdapters, ofThrottle, ofPlayground>>

OperationsSpec == OperationsInit /\ [][OperationsNext]_all

-----------------------------------------------------------------------------
(* The type invariants of the parts.                                       *)
OperationsTypeOK ==
  /\ part = "watch" => TypeOK
  /\ part = "aggregates" => A!TypeOK
  /\ part = "adapters" => P!TypeOK
  /\ part = "throttle" => T!TypeOK
  /\ part = "playground" => G!TypeOK
  /\ part = "admin" => M!TypeOK

(* Runs stored in time stay counted (maintenance.ts); see Aggregates.      *)
TimelyRunsCounted == part = "aggregates" => A!TimelyRunsCounted

(* The filter of a provider passes what its adapter reports (registry.ts); *)
(* see Adapters.                                                           *)
FreeIsVisible == part = "adapters" => P!FreeIsVisible

(* Discoveries take no free model's switch back (queries.ts); see          *)
(* Adapters.                                                               *)
DiscoveryKeepsSwitches == P!DiscoveryKeepsSwitches

(* Waiting as long as the answer says is enough (login-throttle.ts); see   *)
(* Throttle.                                                               *)
WaitSuffices == part = "throttle" => T!WaitSuffices

(* The badges are about the test shown (Playground.tsx); see Playground.   *)
BadgesDescribeResult == part = "playground" => G!BadgesDescribeResult

(* The switches on display are those of the database (Admin.tsx); see      *)
(* AdminPage.                                                              *)
PageIsHonest == part = "admin" => M!PageIsHonest
=============================================================================
