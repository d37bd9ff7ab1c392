----------------------------- MODULE Deployment -----------------------------
(***************************************************************************)
(* From an evaluated alpha to live capital: AlphaTournament evaluates and  *)
(* AlphaRanker ranks (aqc/research/tournament, aqc/alpha/alpha_ranker.py), *)
(* DeploymentManager deploys, StrategyRouter and CapitalAllocator give     *)
(* tiers and capital (aqc/deployment), DeploymentGuard, KillSwitch and     *)
(* LiveMonitor watch (aqc/live_capital, aqc/research/scorecard).  All of   *)
(* it is called by one thread, in any order.  Metrics are integers: ratios *)
(* (Sharpe, profit factor) and the half-life as they are, times 100 for    *)
(* the Sharpe ratio and 10 for the profit factor; the others in percent.   *)
(***************************************************************************)
EXTENDS Integers, Sequences, FiniteSetsExt, SequencesExt

CONSTANTS
  Names,         \* the registered alphas
  Evaluations,   \* the AlphaMetrics an evaluation may yield
  MaxPct,        \* max_allocation_pct of CapitalAllocator, in percent
  MinCapacity,   \* min_capacity of DeploymentManager
  Tiers,         \* the capital tiers, and their stop_loss_pct
  Drawdowns,     \* current drawdowns, in the unit of stop_loss_pct
  MaxDeployed,   \* bound on the list of deployed alphas
  MaxTicks       \* the PnL records of an alpha are counted up to here

NoMetrics == [sharpe |-> 0, ic |-> 0, hit |-> 0, pf |-> 0, dd |-> 10, turnover |-> 0,
              capacity |-> 0, halflife |-> 0, signals |-> -1]   \* no cached metrics
NaNIc == 1000      \* an information coefficient of constant predictions
Infinite == 1000   \* a half-life that was not estimated

VARIABLES
  metrics,    \* the cached metrics of each alpha, and its entry in the ranker
  deployed,   \* DeploymentManager._deployed_alphas
  tier,       \* StrategyRouter._routing_map
  approved,   \* the metrics DeploymentGuard.check let pass last, if any
  killed,     \* KillSwitch._killed_alphas
  pnl         \* LivePnLTracker._pnl_records: how many of each alpha

deployVars == <<metrics, deployed, tier, approved, killed, pnl>>

Measured == {a \in Names : metrics[a] # NoMetrics}

----------------------------------------------------------------------------
(* _clip and _composite_score with the default weights, in millionths.     *)
(* Python's min(hi, NaN) is hi: a coefficient that is not a number counts  *)
(* as the best there is.                                                   *)
Clip(value, lo, hi) == Max({lo, Min({hi, value})}) - lo

CompositeScore(m) ==
  375 * Clip(m.sharpe, -300, 500) + 1000 * Clip(m.ic, -100, 100) + 1000 * Clip(m.hit, 0, 100)
  + 100 * Clip(m.pf, 0, 100) + Min({m.capacity \div 10, 100000})
  - 1000 * Clip(m.dd, 0, 100) - 500 * Clip(m.turnover, 0, 100)
  - (IF m.halflife < Infinite THEN 500 * (100 - Min({m.halflife, 100})) ELSE 0)

(* rank: the ranking is by the score, ties as they come.                   *)
Above(a, b) == CompositeScore(metrics[a]) > CompositeScore(metrics[b])

(* get_dataframe's deployment_ready and get_deployment_candidates.         *)
DeploymentReady(m) == m.sharpe > 50 /\ m.ic # NaNIc /\ m.ic > 1 /\ m.hit > 50
Candidates ==
  {a \in Measured : /\ DeploymentReady(metrics[a]) /\ metrics[a].sharpe >= 50
                     /\ metrics[a].ic >= 1 /\ metrics[a].capacity >= MinCapacity}

(* allocate_equal and allocate_risk_parity for a list of alphas, which may *)
(* name one several times: each name's weight, in percent of `whole'.      *)
EqualWeights(list) ==
  [whole |-> Len(list),
   weight |-> [a \in ToSet(list) |-> Min({100, MaxPct * Len(list)})]]

InverseRisk(a) == IF metrics[a].dd = 0 THEN 200000 ELSE 20 \div metrics[a].dd
TotalInverseRisk(list) == SumFunction([i \in DOMAIN list |-> InverseRisk(list[i])])

RiskParityWeights(list) ==
  [whole |-> TotalInverseRisk(list),
   weight |-> [a \in ToSet(list) |-> Min({100 * InverseRisk(a), MaxPct * TotalInverseRisk(list)})]]

(* AlphaScorecard.generate_scorecard: DeploymentScorer and ReadinessScorer *)
(* weigh equal; in hundredths of a percent, the two scores of the caller   *)
(* in percent.  (The drawdown, in percent, is compared with fractions.)  A *)
(* coefficient that is not a number makes the score one that passes no     *)
(* comparison.                                                             *)
PerfScore(m) ==
  IF m = NoMetrics THEN 0 ELSE IF m.ic = NaNIc THEN -100000
  ELSE 40 * Min({100, Max({0, m.sharpe \div 2})}) + 40 * Min({100, Max({0, 20 * m.ic})})
       + (IF m.dd = 0 THEN 2000 ELSE 0)

Penalty(m) == (IF m.signals < 1000 THEN 2000 ELSE 0) + (IF m.capacity < 50000 THEN 2000 ELSE 0)

ReadinessScore(m, stress, robust) == Max({0, 60 * stress + 40 * robust - Penalty(m)})

(* The score is rounded to a tenth of a percent before the guard sees it.  *)
InstitutionalScore(m, stress, robust) ==
  10 * (((PerfScore(m) + ReadinessScore(m, stress, robust)) \div 2 + 5) \div 10)

----------------------------------------------------------------------------
DeployInit ==
  /\ metrics = [a \in Names |-> NoMetrics]
  /\ deployed = <<>> /\ tier = [a \in Names |-> "PAPER"]
  /\ approved = {} /\ killed = {} /\ pnl = [a \in Names |-> 0]

(* _evaluate_single: an alpha that raises or has too few rows has no       *)
(* metrics and no entry, and the tournament goes on to the next.           *)
EvaluateSingle(a) ==
  /\ \E m \in Evaluations : metrics' = [metrics EXCEPT ![a] = m]
  /\ UNCHANGED <<deployed, tier, approved, killed, pnl>>

(* deploy: each of the alphas given that is a candidate, in their order,   *)
(* whether it is on the list already or not.                               *)
Deploy(alphas) ==
  /\ Len(deployed) + Cardinality(alphas) <= MaxDeployed
  /\ deployed' = deployed \o SetToSeq(alphas \cap Candidates)
  /\ UNCHANGED <<metrics, tier, approved, killed, pnl>>

Route(a) ==
  /\ tier' = [tier EXCEPT ![a] =
       IF metrics[a].sharpe > 150 /\ metrics[a].signals > 500 THEN "FULL_CAPITAL"
       ELSE IF metrics[a].sharpe > 80 THEN "SMALL_CAPITAL" ELSE "PAPER"]
  /\ UNCHANGED <<metrics, deployed, approved, killed, pnl>>

(* DeploymentGuard.check, with the scores of a stress and of a robustness  *)
(* test; its verdict is of the metrics the alpha has now.                  *)
Check(a, stress, robust) ==
  /\ approved' = IF InstitutionalScore(metrics[a], stress, robust) >= 6000
                 THEN {metrics[a]} ELSE approved
  /\ UNCHANGED <<metrics, deployed, tier, killed, pnl>>

(* LiveMonitor.process_tick with KillSwitch.evaluate: what a killed alpha  *)
(* reports is dropped; the tick that kills it is recorded.                 *)
ProcessTick(a, t, drawdown) ==
  /\ IF a \in killed THEN UNCHANGED <<killed, pnl>>
     ELSE /\ pnl' = [pnl EXCEPT ![a] = Min({@ + 1, MaxTicks})]
          /\ killed' = IF drawdown > Tiers[t] THEN killed \cup {a} ELSE killed
  /\ UNCHANGED <<metrics, deployed, tier, approved>>

DeployNext ==
  \/ \E a \in Names : EvaluateSingle(a) \/ Route(a)
  \/ \E alphas \in SUBSET Names : Deploy(alphas)
  \/ \E a \in Names, stress, robust \in {0, 100} : Check(a, stress, robust)
  \/ \E a \in Names, t \in DOMAIN Tiers, drawdown \in Drawdowns : ProcessTick(a, t, drawdown)

DeploySpec == DeployInit /\ [][DeployNext]_deployVars

----------------------------------------------------------------------------
(* However often alphas were deployed, the capital given out is never more *)
(* than the capital there is, nor any alpha's more than max_allocation_pct *)
(* of it.                                                                  *)
Affordable(allocation) ==
  /\ \A a \in DOMAIN allocation.weight : allocation.weight[a] <= MaxPct * allocation.whole
  /\ SumFunction(allocation.weight) <= 100 * allocation.whole

NeverOverAllocated ==
  deployed # <<>> => Affordable(EqualWeights(deployed)) /\ Affordable(RiskParityWeights(deployed))

(* An alpha that is no worse than another in every metric is never ranked  *)
(* below it, as long as both have an information coefficient.              *)
NoWorse(m, n) ==
  /\ m.sharpe >= n.sharpe /\ m.ic >= n.ic /\ m.hit >= n.hit /\ m.pf >= n.pf
  /\ m.capacity >= n.capacity /\ m.dd <= n.dd /\ m.turnover <= n.turnover
  /\ m.halflife >= n.halflife

DominatorRanksFirst ==
  \A a, b \in Measured :
    NoWorse(metrics[a], metrics[b]) /\ metrics[a].ic # NaNIc => ~Above(b, a)

(* No alpha passes the guard that was never evaluated, or shows neither a  *)
(* positive Sharpe ratio nor a positive coefficient: without a capacity    *)
(* estimate, which no evaluation makes, the readiness alone cannot do it.  *)
GuardNeedsEvidence ==
  \A m \in approved : m # NoMetrics /\ (m.sharpe > 0 \/ m.ic > 0)

DeploymentSound == NeverOverAllocated /\ DominatorRanksFirst /\ GuardNeedsEvidence
=============================================================================
