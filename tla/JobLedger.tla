----------------------------- MODULE JobLedger -----------------------------
(***************************************************************************)
(* What the queue and the scheduler promise of a benchmark job, whatever   *)
(* its handler does: it is delivered at least once, a limited number of    *)
(* times, it is measured only while it is being handled, and it is         *)
(* acknowledged only after it was measured (src/index.ts queue and         *)
(* runTick, wrangler.jsonc max_retries).  BenchJob implements this.        *)
(***************************************************************************)
EXTENDS Naturals

CONSTANTS Jobs, MaxRetries

VARIABLES
  phase,       \* phase[j]: where a job is
  via,         \* via[j]: a message of the queue, or inline in the tick
  deliveries,  \* deliveries[j]: how many times it was handed to a handler
  measured     \* jobs with a row in benchmark_runs

vars == <<phase, via, deliveries, measured>>

Phases == {"none", "waiting", "handled", "done", "ignored", "given_up"}

TypeOK ==
  /\ phase \in [Jobs -> Phases]
  /\ via \in [Jobs -> {"inline", "queue"}]
  /\ deliveries \in [Jobs -> Nat]
  /\ measured \subseteq Jobs

Init ==
  /\ phase = [j \in Jobs |-> "none"]
  /\ via = [j \in Jobs |-> "queue"]
  /\ deliveries = [j \in Jobs |-> 0]
  /\ measured = {}

Limit(j) == IF via[j] = "inline" THEN 1 ELSE MaxRetries + 1

Move(j, from, to) == phase[j] = from /\ phase' = [phase EXCEPT ![j] = to]
Count(j)          == deliveries' = [deliveries EXCEPT ![j] = @ + 1]

Create(j, v) ==
  /\ Move(j, "none", "waiting")
  /\ via' = [via EXCEPT ![j] = v]
  /\ UNCHANGED <<deliveries, measured>>

Deliver(j) == Move(j, "waiting", "handled") /\ Count(j) /\ UNCHANGED <<via, measured>>

(* Nobody can measure it: its model has no row or no adapter.              *)
Ignore(j) == Move(j, "waiting", "ignored") /\ Count(j) /\ UNCHANGED <<via, measured>>

Measure(j) ==
  /\ phase[j] = "handled"
  /\ measured' = measured \cup {j}
  /\ UNCHANGED <<phase, via, deliveries>>

Acknowledge(j) ==
  /\ j \in measured
  /\ Move(j, "handled", "done")
  /\ UNCHANGED <<via, deliveries, measured>>

Redeliver(j) ==
  /\ deliveries[j] < Limit(j)
  /\ Move(j, "handled", "waiting")
  /\ UNCHANGED <<via, deliveries, measured>>

(* To bench-dlq, or with its tick.                                         *)
GiveUp(j) ==
  /\ \/ deliveries[j] >= Limit(j) /\ Move(j, "handled", "given_up")
     \/ via[j] = "inline" /\ Move(j, "waiting", "given_up")
  /\ UNCHANGED <<via, deliveries, measured>>

Next ==
  \E j \in Jobs :
    \/ \E v \in {"inline", "queue"} : Create(j, v)
    \/ Deliver(j) \/ Ignore(j) \/ Measure(j) \/ Acknowledge(j) \/ Redeliver(j) \/ GiveUp(j)

Spec == Init /\ [][Next]_vars

-----------------------------------------------------------------------------
(* No measurement is invented and none that was acknowledged is missing:   *)
(* a job is measured only if it was delivered, never more often than       *)
(* max_retries allows, and done only if it was measured.                   *)
Promise ==
  \A j \in Jobs :
    /\ j \in measured => deliveries[j] > 0
    /\ phase[j] = "done" => j \in measured
    /\ deliveries[j] <= Limit(j)
=============================================================================
