----------------------------- MODULE MCBenchJob -----------------------------
(***************************************************************************)
(* BenchJob on small instances: one provider, and outcomes that reach      *)
(* every rule of the handler.                                              *)
(***************************************************************************)
EXTENDS BenchJob, TLC

CONSTANTS m1, m2, p1, j1, j2, j3, j4, j5, w1, w2, none

Result(status, http, says, retryAfter) ==
  [status |-> status, http |-> http, says |-> says, retryAfter |-> retryAfter]

Success     == Result("SUCCESS", 200, {}, 0)
Timeout     == Result("TIMEOUT", 0, {}, 0)
Gone        == Result("MODEL_UNAVAILABLE", 404, {"model", "gone"}, 0)
Throttled   == Result("RATE_LIMITED", 429, {"limit"}, Day)
LimitText   == Result("PROVIDER_ERROR", 400, {"limit"}, 0)
NoCredit    == Result("PROVIDER_ERROR", 402, {"quota"}, 0)
ServerError == Result("PROVIDER_ERROR", 503, {}, 0)
ModelError  == Result("PROVIDER_ERROR", 500, {"model"}, 0)
Broken      == Result("STREAM_ERROR", 200, {}, 0)
Thrown      == Result("UNKNOWN_ERROR", 0, {}, 0)

OneModel  == [m \in {m1} |-> p1]
TwoModels == [m \in {m1, m2} |-> p1]

PolicyOutcomes == {Success, Timeout, Gone, Throttled, LimitText, NoCredit, ServerError,
                   ModelError, Broken, Thrown}
OnlySuccess    == {Success}
StreakOutcomes == {Success, Timeout}
RaceOutcomes   == {Success, Gone}
Cooling      == {Throttled, ServerError}
Recovering   == {Success, Gone}

(* Jobs and lanes are interchangeable; used where no liveness is checked.  *)
Symmetry == Permutations(Jobs) \cup Permutations(Workers)

ShortSteps == {1}
DaySteps   == {Day + 1}
=============================================================================
