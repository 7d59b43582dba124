---------------------------- MODULE MCBenchRules ----------------------------
(***************************************************************************)
(* The rules of the handler with a single lane and a working database.     *)
(* All behaviours of two jobs over days, with every outcome and request,   *)
(* and, within minutes, those of four jobs of two outcomes, enough for two *)
(* outages one after the other, where the administrator only benchmarks.   *)
(***************************************************************************)
EXTENDS MCBenchJob

BothSteps == ShortSteps \cup DaySteps

Soon == 1..3
Made == Cardinality({j \in Jobs : jobs[j].st # "none"})

OverDays == Made' <= 2 /\ {now, now'} \cap Soon = {}

TwoOutcomes ==
  /\ \A m \in Models : \A i \in DOMAIN runs[m] : runs[m][i].out \in StreakOutcomes
  /\ \A w \in Workers : worker[w].out \in StreakOutcomes \cup {NoOutcome}

WithinMinutes ==
  /\ now' \in {0} \cup Soon
  /\ TwoOutcomes'
  /\ worker' = worker => UNCHANGED <<enabled, modelCool, provCool>>

RuleSteps == OverDays \/ WithinMinutes
=============================================================================
