--------------------------- MODULE LiveValidation ---------------------------
(***************************************************************************)
(* Forward validation of deployed models (aqc/live_validation/): the       *)
(* expectation profiles, the five analysers of a model's live metrics, the *)
(* health engine and its early warnings, and the governance engine with    *)
(* its retraining advice.                                                  *)
(*                                                                         *)
(* Scores, decays and changes are in percent, KL divergence and PSI in     *)
(* hundredths; divisions round towards zero.  A distribution is a name:    *)
(* `single', the default, or one of a few over the three signals or        *)
(* regimes.                                                                *)
(***************************************************************************)
EXTENDS Integers, Sequences, FiniteSetsExt, SequencesExt

CONSTANTS
  Versions, ProfileIds,
  Profiles,     \* expectation profiles
  Live,         \* live metrics, without the fields that were not reported
  MaxReports    \* bound on a model's health history

VARIABLES
  profiles,   \* ExpectationTracker._profiles
  models,     \* ModelGovernanceEngine.models
  report      \* what the last call of validate returned, or "raised"

healthVars == <<profiles, models, report>>

Absent == "absent"
Empty == [key \in {} |-> 0]
Get(dict, key, default) == IF key \in DOMAIN dict THEN dict[key] ELSE default
With(dict, key, value) == [k \in DOMAIN dict \cup {key} |-> IF k = key THEN value ELSE dict[k]]
Magnitude(n) == Max({n, -n})
Clamped(score) == Max({0, Min({100, score})})
Quotient(x, y) == IF x < 0 THEN -((-x) \div y) ELSE x \div y
Change(expected, observed) ==
  IF expected > 0 THEN Quotient(100 * (observed - expected), expected) ELSE 0

(* _get_status, the same in all of them.                                   *)
Status(score) ==
  IF score >= 90 THEN "HEALTHY" ELSE IF score >= 70 THEN "MONITOR"
  ELSE IF score >= 50 THEN "WARNING" ELSE "CRITICAL"

(* An analyser's result, with the levels EarlyWarningSystem gives to its   *)
(* warnings: CRITICAL for the two texts with "collapse" or "significantly".*)
Result(score, warnings) == [score |-> score, status |-> Status(score), warnings |-> warnings]
Warn(condition, level) == IF condition THEN <<level>> ELSE <<>>

----------------------------------------------------------------------------
(* AlphaDecayAnalyzer.analyze: a metric that is missing is as expected.    *)
CalcDecay(expected, observed) ==
  IF expected <= 0 THEN IF observed <= 0 \/ observed >= expected THEN 0 ELSE 100
  ELSE Max({0, -Change(expected, observed)})

AlphaFields == <<"sharpe", "cagr", "profit_factor", "win_rate">>
DecayThreshold == <<30, 30, 20, 15>>

AlphaDecay(expected, alpha) ==
  LET decay(i) ==
        CalcDecay(expected[AlphaFields[i]], Get(alpha, AlphaFields[i], expected[AlphaFields[i]]))
      warn(i) == Warn(decay(i) > DecayThreshold[i], "WARNING")
  IN  Result(Max({0, 100 - (decay(1) + decay(2) + decay(3) + decay(4)) \div 4}),
             warn(1) \o warn(2) \o warn(3) \o warn(4))

(* SignalStabilityAnalyzer.analyze: no frequency is a frequency of 0, no   *)
(* distribution the single one; two different ones are far apart.          *)
KL(expected, observed) == IF expected = observed THEN 0 ELSE 94
PSI(expected, observed) ==
  IF expected = observed THEN 0 ELSE IF observed = "tilted" THEN 15 ELSE 180

SignalStability(expected, signal) ==
  LET freq == Change(expected.freq, Get(signal, "freq", 0))
      kl == KL(expected.signal_dist, Get(signal, "dist", "single"))
      psi == PSI(expected.signal_dist, Get(signal, "dist", "single"))
  IN  Result(Clamped(100 - (IF Magnitude(freq) > 20 THEN Magnitude(freq) \div 2 ELSE 0)
                         - (IF kl > 5 THEN kl ELSE 0)
                         - (IF psi > 10 THEN (20 * psi) \div 25 ELSE 0)),
             Warn(freq < -50, "CRITICAL") \o Warn(kl > 20, "WARNING") \o Warn(psi > 25, "WARNING"))

(* ForecastStabilityAnalyzer.analyze: no forecasts score 100, with a       *)
(* warning; else an RMSE and a correlation.                                *)
ForecastStability(expected, forecast) ==
  IF forecast = Empty THEN Result(100, <<"WARNING">>)
  ELSE LET rmse == Change(expected.rmse, forecast.rmse)
       IN  Result(Clamped(100 - (IF rmse > 0 THEN Min({50, rmse \div 2}) ELSE 0)
                              - (IF forecast.correlation < 70
                                 THEN (70 - Max({0, forecast.correlation})) \div 2 ELSE 0)),
                  Warn(rmse > 50, "WARNING") \o Warn(forecast.correlation < 40, "WARNING"))

(* RegimeDriftAnalyzer.analyze.  scipy's chisquare raises where only one   *)
(* side has any regimes: the sums of the two differ then.                  *)
RegimeRaises(expected, observed) == (expected = Absent) # (observed = Absent)

RegimeDrift(expected, observed) ==
  LET psi == PSI(expected, observed)
      differs == expected # observed                          \* p_value < 0.05
  IN  Result(Clamped(100 - (IF psi > 25 THEN psi ELSE 0) - (IF differs THEN 25 ELSE 0)),
             Warn(psi > 25, "WARNING") \o Warn(differs, "CRITICAL"))

(* ExecutionValidator.analyze: what is missing is perfect.  (Slip: a fill  *)
(* rate above the expected one is penalised in place of one below.)        *)
ExecutionReversed(expected, execution) ==
  LET slippage == Change(expected.slippage, Get(execution, "slippage", 0))
      cost == Change(expected.cost, Get(execution, "cost", 0))
      drop == Get(execution, "fill_rate", 100) - expected.fill_rate
  IN  Result(Clamped(100 - (2 * Max({0, slippage})) \div 5 - 2 * Max({0, drop})
                         - (4 * Max({0, cost})) \div 5),
             Warn(slippage > 50, "WARNING") \o Warn(drop > 10, "WARNING")
             \o Warn(cost > 25, "WARNING"))

Execution(expected, execution) ==
  LET slippage == Change(expected.slippage, Get(execution, "slippage", 0))
      cost == Change(expected.cost, Get(execution, "cost", 0))
      drop == expected.fill_rate - Get(execution, "fill_rate", 100)
  IN  Result(Clamped(100 - (2 * Max({0, slippage})) \div 5 - 2 * Max({0, drop})
                         - (4 * Max({0, cost})) \div 5),
             Warn(slippage > 50, "WARNING") \o Warn(drop > 10, "WARNING")
             \o Warn(cost > 25, "WARNING"))

(* StrategyHealthEngine.generate_report, its overall score in hundredths,  *)
(* and its EarlyWarningSystem.                                             *)
Health(expected, live) ==
  LET alpha == AlphaDecay(expected, live.alpha)
      signal == SignalStability(expected, live.signal)
      forecast == ForecastStability(expected, live.forecast)
      regime == RegimeDrift(expected.regime_dist, live.regime)
      execution == Execution(expected, live.execution)
      overall == 35 * alpha.score + 20 * signal.score + 15 * forecast.score
                 + 15 * regime.score + 15 * execution.score
  IN  [overall_score |-> overall, status |-> Status(overall \div 100),
       component_status |-> [alpha |-> alpha.status, forecast |-> forecast.status,
                             regime |-> regime.status],
       alerts |-> [alpha |-> alpha.warnings, signal |-> signal.warnings,
                   forecast |-> forecast.warnings, regime |-> regime.warnings,
                   execution |-> execution.warnings]]

(* RetrainingAdvisor.generate_recommendation, on a missing Sharpe of 0.    *)
Recommendation(health, expectedSharpe, currentSharpe) ==
  IF health.overall_score < 5000 \/ (expectedSharpe > 0 /\ 2 * currentSharpe < expectedSharpe)
  THEN "RETRAIN MODEL"
  ELSE IF health.overall_score < 7000 THEN "MONITOR CLOSELY" ELSE "HOLD"

----------------------------------------------------------------------------
HealthInit == profiles = Empty /\ models = Empty /\ report = "none"

AddExpectedProfile(id, profile) ==
  /\ profiles' = With(profiles, id, profile)
  /\ UNCHANGED <<models, report>>

(* Registering a version again forgets its health history.                 *)
RegisterModel(v, id) ==
  /\ models' = With(models, v, [expected_profile_id |-> id, health_history |-> <<>>])
  /\ UNCHANGED <<profiles, report>>

(* validate raises for a version or a profile that is not there, and where *)
(* the regime analyser does: nothing is recorded then.                     *)
Raises(v, live) ==
  \/ v \notin DOMAIN models
  \/ models[v].expected_profile_id \notin DOMAIN profiles
  \/ RegimeRaises(profiles[models[v].expected_profile_id].regime_dist, live.regime)

Validate(v, live) ==
  IF Raises(v, live) THEN report' = "raised" /\ UNCHANGED <<profiles, models>>
  ELSE LET expected == profiles[models[v].expected_profile_id]
           health == Health(expected, live)
           advice == Recommendation(health, expected.sharpe, Get(live.alpha, "sharpe", 0))
       IN  /\ Len(models[v].health_history) < MaxReports
           /\ models' = [models EXCEPT ![v].health_history = Append(@,
                [expected |-> expected, live |-> live, health |-> health, advice |-> advice])]
           /\ report' = health.status
           /\ UNCHANGED profiles

HealthNext ==
  \/ \E id \in ProfileIds, profile \in Profiles : AddExpectedProfile(id, profile)
  \/ \E v \in Versions, id \in ProfileIds : RegisterModel(v, id)
  \/ \E v \in Versions, live \in Live : Validate(v, live)

HealthSpec == HealthInit /\ [][HealthNext]_healthVars

----------------------------------------------------------------------------
(* a reports nothing better than b: both complete, a's alpha, fill rate    *)
(* and correlation no higher, its errors and costs no lower, and nothing   *)
(* of it nearer to what was expected.                                      *)
Complete(live) ==
  /\ DOMAIN live.alpha = {AlphaFields[i] : i \in 1..4} /\ DOMAIN live.signal = {"freq", "dist"}
  /\ live.forecast # Empty /\ DOMAIN live.execution = {"slippage", "fill_rate", "cost"}

NoBetter(a, b, expected) ==
  /\ Complete(a) /\ Complete(b)
  /\ \A name \in DOMAIN a.alpha : a.alpha[name] <= b.alpha[name]
  /\ Magnitude(a.signal.freq - expected.freq) >= Magnitude(b.signal.freq - expected.freq)
  /\ b.signal.dist \in {expected.signal_dist, a.signal.dist}
  /\ a.forecast.rmse >= b.forecast.rmse /\ a.forecast.correlation <= b.forecast.correlation
  /\ b.regime \in {expected.regime_dist, a.regime}
  /\ a.execution.slippage >= b.execution.slippage /\ a.execution.cost >= b.execution.cost
  /\ a.execution.fill_rate <= b.execution.fill_rate

(* Over a model's whole history: of two complete reports against the same  *)
(* expectations, the one that is no better in anything is not scored       *)
(* higher, through all the clamps and edge cases of the five analysers,    *)
(* and not advised more mildly.  And an alpha, a forecast or a regime that *)
(* is CRITICAL is never without an alert.  (Signals that have become far   *)
(* more frequent are CRITICAL without one; so is execution with all three  *)
(* changes at their thresholds.)                                           *)
Milder(one, other) ==
  \/ one = "HOLD" /\ other # "HOLD"
  \/ one = "MONITOR CLOSELY" /\ other = "RETRAIN MODEL"

WorseIsNoHealthier ==
  \A v \in DOMAIN models :
    \A i, j \in DOMAIN models[v].health_history :
      LET a == models[v].health_history[i]  b == models[v].health_history[j]
      IN  /\ a.expected = b.expected /\ NoBetter(a.live, b.live, a.expected) =>
               a.health.overall_score <= b.health.overall_score /\ ~Milder(a.advice, b.advice)
          /\ \A name \in {"alpha", "forecast", "regime"} :
               a.health.component_status[name] = "CRITICAL" => a.health.alerts[name] # <<>>
=============================================================================
