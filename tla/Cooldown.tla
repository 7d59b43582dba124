------------------------------ MODULE Cooldown ------------------------------
(***************************************************************************)
(* The cooldown rules of the benchmark pipeline: what a probe's outcome    *)
(* does to the model_cooldowns and provider_cooldowns tables               *)
(* (src/benchmark/scheduler.ts, src/db/cooldown.ts) and the 24-hour guard  *)
(* (src/utils/auto-disable.ts).  Pure operators: the state machine that    *)
(* applies them is BenchJob.                                               *)
(*                                                                         *)
(* Time is counted in units of 30 seconds, the shortest duration the code  *)
(* uses, so every duration below is the code's own value.                  *)
(***************************************************************************)
EXTENDS Integers, FiniteSets

Minutes(n) == 2 * n
Hours(n)   == Minutes(60 * n)

Later(a, b)   == IF a >= b THEN a ELSE b
Earlier(a, b) == IF a <= b THEN a ELSE b

Day                == Hours(24)
COOLDOWN_MAX       == Hours(2)        \* COOLDOWN_MAX_MS, default
MAX_RETRY_AFTER    == Day             \* retryAfterSeconds clamps to 86400 s
MODEL_COOLDOWN_CAP == Day
GONE_MODEL_MIN_COUNT == 2

-----------------------------------------------------------------------------
(* Outcomes: the fields of a BenchmarkResult that the handler branches on. *)
(* http = 0 stands for null, retryAfter = 0 for an absent retry_after_ms,  *)
(* and says is the set of keyword families found in error_type.            *)

Statuses == {"SUCCESS", "RATE_LIMITED", "MODEL_UNAVAILABLE", "TIMEOUT",
             "PROVIDER_ERROR", "STREAM_ERROR", "UNKNOWN_ERROR"}

Keywords == {"limit",   \* "rate limit", "too many requests"
             "quota",   \* "insufficient", "quota", "credit", "balance", ...
             "model",   \* "model", "not found"
             "gone"}    \* "not supported", "no such model", "retired", ...

Outcome == [status : Statuses, http : Nat, says : SUBSET Keywords,
            retryAfter : 0 .. MAX_RETRY_AFTER]

Failed(o) == o.status # "SUCCESS"

LooksRateLimited(o) ==
  o.status = "RATE_LIMITED" \/ o.http = 429 \/ "limit" \in o.says

(* The else-if chain that picks the cooldown rule for an outcome.          *)
CooldownRule(o) ==
  IF ~Failed(o) THEN "clear"
  ELSE IF LooksRateLimited(o) THEN "rate_limit"
  ELSE IF o.status = "MODEL_UNAVAILABLE" \/ o.http = 404 THEN "unavailable"
  ELSE IF o.status = "TIMEOUT" THEN "timeout"
  ELSE IF "quota" \in o.says THEN "quota"
  ELSE IF o.status = "PROVIDER_ERROR" /\ o.http >= 500
         THEN IF "model" \in o.says THEN "model_fault" ELSE "provider_fault"
  ELSE IF o.status \in {"STREAM_ERROR", "PROVIDER_ERROR"} THEN "stream"
  ELSE "none"

Rules == {"clear", "rate_limit", "unavailable", "timeout", "quota",
          "model_fault", "provider_fault", "stream", "none"}

EscalatingRules == {"rate_limit", "quota"}      \* read, then write, the provider row
ProviderRules   == EscalatingRules \cup {"provider_fault"}

(* How long each failure rule cools the model itself.                      *)
ModelRest ==
  [rate_limit     |-> 1,           unavailable |-> Minutes(10),
   timeout        |-> Minutes(2),  quota       |-> Minutes(5),
   model_fault    |-> Minutes(5),  stream      |-> Minutes(3),
   provider_fault |-> 1]

-----------------------------------------------------------------------------
(* Provider backoff.                                                       *)

(* Bug variants, used only to confirm that the properties can fail: no cap, *)
(* and no look at whether the cooldown is still running.                   *)
EscalatedDuration_uncapped(remaining, base, cap) ==
  IF remaining <= 0 THEN base ELSE Later(2 * remaining, base)
EscalatedDuration_expired(remaining, base, cap) == Earlier(2 * remaining, cap)

EscalatedDuration(remaining, base, cap) ==
  IF remaining <= 0 THEN base
  ELSE Earlier(Later(2 * remaining, base), cap)

RateLimitCap(retryAfter) ==
  IF retryAfter > 0 THEN Later(COOLDOWN_MAX, retryAfter)
  ELSE Earlier(COOLDOWN_MAX, Minutes(15))

BackoffBase(o) ==
  IF CooldownRule(o) = "quota" THEN Minutes(15)
  ELSE IF o.retryAfter > 0 THEN o.retryAfter ELSE Minutes(1)

BackoffCap(o) ==
  IF CooldownRule(o) = "quota" THEN COOLDOWN_MAX ELSE RateLimitCap(o.retryAfter)

ProviderBackoff(o, remaining) ==
  EscalatedDuration(remaining, BackoffBase(o), BackoffCap(o))

-----------------------------------------------------------------------------
(* The trailing-24h guard.                                                 *)

(* Only status and http_status count here, not the text: a 4xx that says   *)
(* "rate limit" is backed off like any other failure.                      *)
GuardExempt(o) == o.status = "RATE_LIMITED" \/ o.http = 429

LooksGone(o) ==
  o.status = "MODEL_UNAVAILABLE" \/ o.http = 404 \/ "gone" \in o.says

GuardBase(o) ==
  IF o.status = "TIMEOUT" THEN Minutes(2)
  ELSE IF o.status = "MODEL_UNAVAILABLE" THEN Minutes(10)
  ELSE Minutes(3)

(* The powers of two up to the code's exponent clamp, as a table: the      *)
(* provers do not reason about ^.                                          *)
TwoTo == <<2, 4, 8, 16, 32, 64, 128, 256, 512, 1024, 2048, 4096, 8192, 16384,
           32768, 65536, 131072, 262144, 524288, 1048576>>

(* base * 2^(failures-1), exponent at most 20, result at most 24 h.        *)
EscalatedModelCooldown(base, failures) ==
  IF failures <= 1 THEN Earlier(base, MODEL_COOLDOWN_CAP)
  ELSE Earlier(base * TwoTo[Earlier(failures - 1, 20)], MODEL_COOLDOWN_CAP)

ShouldAutoDisable(failures, gone, dailyMax) ==
  gone >= GONE_MODEL_MIN_COUNT \/ failures >= dailyMax
=============================================================================
